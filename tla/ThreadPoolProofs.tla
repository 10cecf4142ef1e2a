--------------------------- MODULE ThreadPoolProofs ---------------------------
(***************************************************************************)
(* ThreadPool, for any size of the pool, any depth limit and any number of  *)
(* submitting and closing threads: each worker runs what it is given in     *)
(* order, and shutdown( wait = True ) returns only after the jobs accepted  *)
(* before it.  The second is an argument about positions in the log of a    *)
(* queue: a job accepted early stands in front of the first sentinel, and a *)
(* worker that has exited has gone past a sentinel.                         *)
(***************************************************************************)
EXTENDS ThreadPool, SequenceTheorems, WellFoundedInduction, TLAPS

AcceptedStates == {"accepted", "running", "done"}

\* The variables' types; a worker in a job has it as the last item taken.
Types ==
  /\ next \in Nat
  /\ jpc \in [Jobs -> {"new", "ticketed", "rejected"} \cup AcceptedStates]
  /\ idx \in [Jobs -> Workers]
  /\ queue \in [Workers -> Seq(Items)]
  /\ batch \in [Workers -> Seq(Items)]
  /\ wpc \in [Workers -> {"drain", "loop", "job", "exited"}]
  /\ cpc \in [Closers -> {"idle", "requesting", "joining", "returned"}]
  /\ ci \in [Closers -> Workers]
  /\ log \in [Workers -> Seq(Items)]
  /\ ran \in [Workers -> Seq(Items)]
  /\ before \in SUBSET Jobs
  /\ \A w \in Workers : wpc[w] = "drain" => batch[w] = <<>>
  /\ \A w \in Workers : wpc[w] = "job" => ran[w] # <<>> /\ ran[w][Len(ran[w])] \in Jobs

\* A job is on the queue its ticket names, once, from the moment it is accepted.
LoggedOnce ==
  /\ \A w \in Workers : \A i \in DOMAIN log[w] : log[w][i] \in Jobs =>
       /\ idx[log[w][i]] = w
       /\ jpc[log[w][i]] \in AcceptedStates
       /\ \A k \in DOMAIN log[w] : log[w][k] = log[w][i] => k = i
  /\ \A j \in Jobs : jpc[j] \in AcceptedStates => \E i \in DOMAIN log[idx[j]] : log[idx[j]][i] = j

\* Every job a worker has taken is done, except the one it is in.
TakenDone ==
  \A w \in Workers : \A i \in DOMAIN ran[w] :
    ran[w][i] \in Jobs => jpc[ran[w][i]] = "done" \/ (wpc[w] = "job" /\ i = Len(ran[w]))

\* Sentinels come after the first call of shutdown(), so after its "before".
AheadOfSentinels ==
  /\ ~ShutdownCalled => \A w \in Workers : \A i \in DOMAIN log[w] : log[w][i] # None
  /\ \A j \in before : \E i \in DOMAIN log[idx[j]] :
       log[idx[j]][i] = j /\ \A k \in 1..i : log[idx[j]][k] # None

\* A worker leaves at a sentinel, and a joined worker has left.
Joined ==
  /\ \A w \in Workers : wpc[w] = "exited" => \E i \in DOMAIN ran[w] : ran[w][i] = None
  /\ \A c \in Waiters :
       /\ cpc[c] = "joining" => \A v \in Workers : v < ci[c] => wpc[v] = "exited"
       /\ cpc[c] = "returned" => \A v \in Workers : wpc[v] = "exited"

\* The inductive invariant.
PoolInv == Types /\ FifoPerWorker /\ LoggedOnce /\ TakenDone /\ AheadOfSentinels /\ Joined

-------------------------------------------------------------------------------

\* Every step of submit(), run_forever() and shutdown() keeps the types.
LEMMA TypeStep == Types /\ [Next]_vars => Types'
<1> SUFFICES ASSUME Types, [Next]_vars PROVE Types'
  OBVIOUS
<1> USE PoolAssumption DEF Types, AcceptedStates
<1>0. 0 \in Workers /\ \A n \in Nat : n % Size \in Workers
  BY DEF Workers
<1>1. ASSUME NEW j \in Jobs, TakeTicket(j) PROVE Types'
  <2>1. next' \in Nat
    BY <1>1 DEF TakeTicket, TicketAfter
  <2> QED BY <1>0, <1>1, <2>1 DEF TakeTicket
<1>2. ASSUME NEW j \in Jobs, Accept(j) PROVE Types'
  <2>1. j \in Items /\ idx[j] \in Workers
    BY DEF Items
  <2>2. queue' \in [Workers -> Seq(Items)] /\ log' \in [Workers -> Seq(Items)]
    BY <1>2, <2>1 DEF Accept, Put
  <2> QED BY <1>2, <2>2 DEF Accept
<1>3. ASSUME NEW j \in Jobs, Reject(j) PROVE Types'
  BY <1>3 DEF Reject
<1>4. ASSUME NEW w \in Workers, Drain(w) PROVE Types'
  BY <1>4 DEF Drain
<1>5. ASSUME NEW w \in Workers, RunJob(w) PROVE Types'
  <2>1. Head(batch[w]) \in Jobs /\ Tail(batch[w]) \in Seq(Items)
    BY <1>5 DEF RunJob, Advance, Items
  <2>2. ran'[w] \in Seq(Items) /\ ran'[w] # <<>> /\ ran'[w][Len(ran'[w])] \in Jobs
    <3>1. ran[w] \in Seq(Items) /\ Head(batch[w]) \in Items /\ ran'[w] = Append(ran[w], Head(batch[w]))
      BY <1>5, <2>1 DEF RunJob, Advance, Items
    <3> HIDE DEF Types
    <3> QED BY <2>1, <3>1, AppendProperties
  <2>3. ran' \in [Workers -> Seq(Items)] /\ \A v \in Workers : v # w => ran'[v] = ran[v]
    BY <1>5, <2>2 DEF RunJob, Advance
  <2>4. batch' \in [Workers -> Seq(Items)] /\ \A v \in Workers : v # w => batch'[v] = batch[v]
    BY <1>5, <2>1 DEF RunJob, Advance
  <2> QED BY <1>5, <2>1, <2>2, <2>3, <2>4 DEF RunJob
<1>6. ASSUME NEW w \in Workers, JobEnds(w) PROVE Types'
  <2>1. ran[w][Len(ran[w])] \in Jobs
    BY <1>6 DEF JobEnds
  <2> QED BY <1>6, <2>1 DEF JobEnds
<1>7. ASSUME NEW w \in Workers, BatchEnds(w) PROVE Types'
  BY <1>7 DEF BatchEnds
<1>8. ASSUME NEW w \in Workers, ExitAtSentinel(w) PROVE Types'
  <2>1. Head(batch[w]) \in Items /\ Tail(batch[w]) \in Seq(Items)
    BY <1>8 DEF ExitAtSentinel, Advance
  <2>2. ran' \in [Workers -> Seq(Items)] /\ \A v \in Workers : v # w => ran'[v] = ran[v]
    BY <1>8, <2>1 DEF ExitAtSentinel, Advance
  <2>3. batch' \in [Workers -> Seq(Items)] /\ \A v \in Workers : v # w => batch'[v] = batch[v]
    BY <1>8, <2>1 DEF ExitAtSentinel, Advance
  <2> QED BY <1>8, <2>2, <2>3 DEF ExitAtSentinel
<1>9. ASSUME NEW c \in Closers, CallShutdown(c) PROVE Types'
  BY <1>9 DEF CallShutdown, Accepted
<1>10. ASSUME NEW c \in Closers, RequestShutdown(c) PROVE Types'
  <2>1. None \in Items /\ ci[c] \in Workers /\ ci[c] + 1 \in Nat
    BY DEF Items, Workers
  <2>2. queue' \in [Workers -> Seq(Items)] /\ log' \in [Workers -> Seq(Items)]
    BY <1>10, <2>1 DEF RequestShutdown, PutSentinel, Put
  <2> QED BY <1>0, <1>10, <2>1, <2>2 DEF RequestShutdown, AfterLastRequest
<1>11. ASSUME NEW c \in Closers, JoinWorker(c) PROVE Types'
  <2>1. ci[c] + 1 \in Nat
    BY DEF Workers
  <2> QED BY <1>0, <1>11, <2>1 DEF JoinWorker
<1>12. CASE UNCHANGED vars
  BY <1>12 DEF vars
<1> HIDE DEF Types
<1> QED
  BY <1>1, <1>2, <1>3, <1>4, <1>5, <1>6, <1>7, <1>8, <1>9, <1>10, <1>11, <1>12
  DEF Next, SubmitStep, WorkerStep, CloserStep

\* Putting an item adds it behind everything sent before it.
LEMMA PutMoves ==
  ASSUME NEW s \in Seq(Items), NEW q \in Seq(Items), NEW x \in Items
  PROVE  Append(s \o q, x) = s \o Append(q, x)
<1>1. s \o q \in Seq(Items) /\ <<x>> \in Seq(Items)
  OBVIOUS
<1>2. Append(s \o q, x) = (s \o q) \o <<x>> /\ Append(q, x) = q \o <<x>>
  BY <1>1, AppendIsConcat
<1>3. (s \o q) \o <<x>> = s \o (q \o <<x>>)
  BY <1>1, ConcatAssociative
<1> QED BY <1>2, <1>3, Zenon

\* Draining a queue and taking an item only move it along.
LEMMA TakeMoves ==
  \A r, b, q \in Seq(Items) : b # <<>> => Append(r, Head(b)) \o Tail(b) \o q = r \o b \o q
<1>1. \A r, b \in Seq(Items) : b # <<>> => Append(r, Head(b)) \o Tail(b) = r \o b
  OBVIOUS
<1> QED BY <1>1, Zenon

\* No step but a put adds to the log, and every item moves through queue and
\* batch in order.
LEMMA FifoStep == Types /\ FifoPerWorker /\ [Next]_vars => FifoPerWorker'
<1> SUFFICES ASSUME Types, FifoPerWorker, [Next]_vars, NEW w \in Workers
             PROVE  log'[w] = ran'[w] \o batch'[w] \o queue'[w]
  BY DEF FifoPerWorker
<1>0. /\ log[w] = ran[w] \o batch[w] \o queue[w]
      /\ ran[w] \in Seq(Items) /\ batch[w] \in Seq(Items) /\ queue[w] \in Seq(Items)
      /\ None \in Items
      /\ queue \in [Workers -> Seq(Items)] /\ batch \in [Workers -> Seq(Items)]
      /\ log \in [Workers -> Seq(Items)] /\ ran \in [Workers -> Seq(Items)]
  BY DEF FifoPerWorker, Types, Items
<1>1. ASSUME NEW v \in Workers, NEW x \in Items, Put(v, x), UNCHANGED <<ran, batch>>
      PROVE  log'[w] = ran'[w] \o batch'[w] \o queue'[w]
  <2>1. CASE v # w
    BY <1>0, <1>1, <2>1 DEF Put
  <2>2. CASE v = w
    <3>1. log'[w] = Append(log[w], x) /\ queue'[w] = Append(queue[w], x)
      BY <1>0, <1>1, <2>2 DEF Put
    <3>2. Append(ran[w] \o batch[w] \o queue[w], x) = ran[w] \o batch[w] \o Append(queue[w], x)
      <4>1. PICK s \in Seq(Items) : s = ran[w] \o batch[w]
        <5>1. ran[w] \o batch[w] \in Seq(Items)
          BY <1>0, ConcatProperties
        <5> QED BY <5>1, Zenon
      <4>2. Append(s \o queue[w], x) = s \o Append(queue[w], x)
        BY <1>0, PutMoves
      <4> QED BY <4>1, <4>2, Zenon
    <3>3. ran'[w] = ran[w] /\ batch'[w] = batch[w]
      BY <1>1
    <3>4. log'[w] = Append(ran[w] \o batch[w] \o queue[w], x)
      BY <1>0, <3>1, Zenon
    <3> QED BY <3>1, <3>2, <3>3, <3>4, Zenon
  <2> QED BY <2>1, <2>2
<1>2. ASSUME NEW v \in Workers, Advance(v), UNCHANGED <<queue, log>>
      PROVE  log'[w] = ran'[w] \o batch'[w] \o queue'[w]
  <2>1. CASE v # w
    BY <1>0, <1>2, <2>1 DEF Advance
  <2>2. CASE v = w
    <3>1. ran'[w] = Append(ran[w], Head(batch[w])) /\ batch'[w] = Tail(batch[w]) /\ batch[w] # <<>>
      BY <1>0, <1>2, <2>2 DEF Advance
    <3>2. Append(ran[w], Head(batch[w])) \o Tail(batch[w]) \o queue[w] = ran[w] \o batch[w] \o queue[w]
      <4>1. ran[w] \in Seq(Items) /\ batch[w] \in Seq(Items) /\ queue[w] \in Seq(Items) /\ batch[w] # <<>>
        BY <1>0, <3>1
      <4> QED BY <4>1, TakeMoves, Zenon
    <3> QED BY <1>0, <1>2, <3>1, <3>2
  <2> QED BY <2>1, <2>2
<1>3. ASSUME NEW v \in Workers, Drain(v) PROVE log'[w] = ran'[w] \o batch'[w] \o queue'[w]
  <2>1. CASE v # w
    BY <1>0, <1>3, <2>1 DEF Drain
  <2>2. CASE v = w
    <3>1. batch[w] = <<>> /\ batch'[w] = queue[w] /\ queue'[w] = <<>> /\ UNCHANGED <<log, ran>>
      BY <1>0, <1>3, <2>2 DEF Drain, Types
    <3>2. ran[w] \o batch[w] \o queue[w] = ran[w] \o queue[w] \o <<>>
      BY <1>0, <3>1
    <3> QED BY <1>0, <3>1, <3>2
  <2> QED BY <2>1, <2>2
<1>4. CASE UNCHANGED <<queue, batch, log, ran>>
  BY <1>0, <1>4
<1>5. ASSUME NEW j \in Jobs, Accept(j) PROVE log'[w] = ran'[w] \o batch'[w] \o queue'[w]
  <2>1. idx[j] \in Workers /\ j \in Items
    BY DEF Types, Items
  <2> QED BY <1>1, <1>5, <2>1 DEF Accept
<1>6. ASSUME NEW c \in Closers, RequestShutdown(c) PROVE log'[w] = ran'[w] \o batch'[w] \o queue'[w]
  <2>1. ci[c] \in Workers
    BY DEF Types
  <2> QED BY <1>0, <1>1, <1>6, <2>1 DEF RequestShutdown, PutSentinel
<1> QED
  BY <1>2, <1>3, <1>4, <1>5, <1>6
  DEF Next, vars, SubmitStep, WorkerStep, CloserStep, TakeTicket, Reject, RunJob, JobEnds, BatchEnds,
      ExitAtSentinel, CallShutdown, JoinWorker

\* The pool's variables keep their types: in particular every ticket names a
\* worker although __next wraps.
THEOREM PoolTypes == Spec => []Types
<1>1. Init => Types
  BY PoolAssumption DEF Init, Types, AcceptedStates, Workers
<1> QED BY <1>1, TypeStep, PTL DEF Spec

\* A worker takes exactly what was put on its queue, in that order: "FIFO per
\* worker", for any number of submitters racing with shutdown().
THEOREM PoolFifo == Spec => []FifoPerWorker
<1>1. Init => FifoPerWorker
  BY DEF Init, FifoPerWorker
<1> QED BY <1>1, FifoStep, PoolTypes, PTL DEF Spec

-------------------------------------------------------------------------------

\* What a worker has taken is the beginning of its log, and the first item of
\* its batch comes next.
LEMMA Positions ==
  ASSUME Types, FifoPerWorker, NEW w \in Workers
  PROVE  /\ DOMAIN ran[w] = 1..Len(ran[w]) /\ Len(ran[w]) \in Nat
         /\ \A i \in DOMAIN ran[w] : i \in DOMAIN log[w] /\ log[w][i] = ran[w][i]
         /\ batch[w] # <<>> => /\ Len(ran[w]) + 1 \in DOMAIN log[w]
                               /\ log[w][Len(ran[w]) + 1] = Head(batch[w])
<1>1. \A r, b, q \in Seq(Items) :
        /\ DOMAIN r = 1..Len(r) /\ Len(r) \in Nat
        /\ \A i \in DOMAIN r : i \in DOMAIN (r \o b \o q) /\ (r \o b \o q)[i] = r[i]
        /\ b # <<>> => Len(r) + 1 \in DOMAIN (r \o b \o q) /\ (r \o b \o q)[Len(r) + 1] = Head(b)
  OBVIOUS
<1>2. ran[w] \in Seq(Items) /\ batch[w] \in Seq(Items) /\ queue[w] \in Seq(Items)
  BY DEF Types
<1>3. PICK r, b, q \in Seq(Items) : r = ran[w] /\ b = batch[w] /\ q = queue[w]
  BY <1>2
<1>4. log[w] = r \o b \o q
  BY <1>3 DEF FifoPerWorker
<1>5. /\ DOMAIN r = 1..Len(r) /\ Len(r) \in Nat
      /\ \A i \in DOMAIN r : i \in DOMAIN (r \o b \o q) /\ (r \o b \o q)[i] = r[i]
      /\ b # <<>> => Len(r) + 1 \in DOMAIN (r \o b \o q) /\ (r \o b \o q)[Len(r) + 1] = Head(b)
  BY <1>1
<1> QED BY <1>3, <1>4, <1>5, Zenon

\* The log grows at its end: old positions keep their items.
LEMMA PutGrows ==
  ASSUME Types, NEW v \in Workers, NEW x \in Items, Put(v, x)
  PROVE  /\ \A w \in Workers : DOMAIN log[w] \subseteq DOMAIN log'[w]
         /\ \A w \in Workers : \A i \in DOMAIN log[w] : log'[w][i] = log[w][i]
         /\ \A w \in Workers : \A i \in DOMAIN log'[w] :
              i \in DOMAIN log[w] \/ (w = v /\ i = Len(log[v]) + 1)
         /\ Len(log[v]) + 1 \in DOMAIN log'[v] \ DOMAIN log[v]
         /\ log'[v][Len(log[v]) + 1] = x
<1>1. log[v] \in Seq(Items) /\ log'[v] = Append(log[v], x)
      /\ \A w \in Workers : w # v => log'[w] = log[w]
  BY DEF Types, Put
<1>2. /\ DOMAIN log[v] = 1..Len(log[v]) /\ Len(log[v]) \in Nat
      /\ DOMAIN log'[v] = 1..(Len(log[v]) + 1)
      /\ \A i \in 1..Len(log[v]) : log'[v][i] = log[v][i]
      /\ log'[v][Len(log[v]) + 1] = x
  BY <1>1
<1> QED BY <1>1, <1>2

\* A job is logged when it is accepted, on the queue its ticket names.
LEMMA LoggedStep == Types /\ FifoPerWorker /\ LoggedOnce /\ [Next]_vars => LoggedOnce'
<1> SUFFICES ASSUME Types, FifoPerWorker, LoggedOnce, [Next]_vars PROVE LoggedOnce'
  OBVIOUS
<1>1. ASSUME UNCHANGED <<log, idx>>,
             \A j \in Jobs : jpc'[j] \in AcceptedStates <=> jpc[j] \in AcceptedStates
      PROVE  LoggedOnce'
  BY <1>1 DEF LoggedOnce
<1>2. ASSUME NEW j \in Jobs, TakeTicket(j) PROVE LoggedOnce'
  <2>1. \A w \in Workers : \A i \in DOMAIN log[w] : log[w][i] # j
    BY <1>2 DEF LoggedOnce, TakeTicket, AcceptedStates
  <2>2. /\ log' = log
        /\ \A k \in Jobs : k # j => idx'[k] = idx[k] /\ jpc'[k] = jpc[k]
        /\ jpc'[j] \notin AcceptedStates
    BY <1>2 DEF TakeTicket, Types, AcceptedStates
  <2> QED BY <2>1, <2>2 DEF LoggedOnce
<1>3. ASSUME NEW j \in Jobs, Accept(j) PROVE LoggedOnce'
  <2>1. PICK v \in Workers : v = idx[j] /\ Put(v, j) /\ j \in Items
    BY <1>3 DEF Accept, Types, Items
  <2>2. \A w \in Workers : \A i \in DOMAIN log[w] : log[w][i] # j
    BY <1>3 DEF LoggedOnce, Accept, AcceptedStates
  <2>3. /\ idx' = idx
        /\ \A k \in Jobs : k # j => jpc'[k] = jpc[k]
        /\ jpc'[j] \in AcceptedStates
        /\ \A k \in Jobs : idx[k] \in Workers
    BY <1>3 DEF Accept, Types, AcceptedStates
  <2>4. /\ \A w \in Workers : DOMAIN log[w] \subseteq DOMAIN log'[w]
        /\ \A w \in Workers : \A i \in DOMAIN log[w] : log'[w][i] = log[w][i]
        /\ \A w \in Workers : \A i \in DOMAIN log'[w] :
             i \in DOMAIN log[w] \/ (w = v /\ i = Len(log[v]) + 1)
        /\ Len(log[v]) + 1 \in DOMAIN log'[v]
        /\ log'[v][Len(log[v]) + 1] = j
    BY <2>1, PutGrows, Zenon
  <2>5. \A w \in Workers : \A i \in DOMAIN log'[w] : log'[w][i] \in Jobs =>
          /\ idx'[log'[w][i]] = w
          /\ jpc'[log'[w][i]] \in AcceptedStates
          /\ \A k \in DOMAIN log'[w] : log'[w][k] = log'[w][i] => k = i
    BY <2>1, <2>2, <2>3, <2>4 DEF LoggedOnce
  <2>6. \A k \in Jobs : jpc'[k] \in AcceptedStates => \E i \in DOMAIN log'[idx'[k]] : log'[idx'[k]][i] = k
    BY <2>1, <2>3, <2>4 DEF LoggedOnce
  <2> QED BY <2>5, <2>6 DEF LoggedOnce
<1>4. ASSUME NEW c \in Closers, RequestShutdown(c) PROVE LoggedOnce'
  <2>1. PICK v \in Workers : Put(v, None) /\ None \in Items /\ None \notin Jobs
    BY <1>4, PoolAssumption DEF RequestShutdown, PutSentinel, Types, Items
  <2>2. UNCHANGED <<idx, jpc>> /\ \A k \in Jobs : idx[k] \in Workers
    BY <1>4 DEF RequestShutdown, Types
  <2>3. /\ \A w \in Workers : DOMAIN log[w] \subseteq DOMAIN log'[w]
        /\ \A w \in Workers : \A i \in DOMAIN log[w] : log'[w][i] = log[w][i]
        /\ \A w \in Workers : \A i \in DOMAIN log'[w] : i \in DOMAIN log[w] \/ log'[w][i] = None
    BY <2>1, PutGrows, Zenon
  <2>4. \A w \in Workers : \A i \in DOMAIN log'[w] : log'[w][i] \in Jobs =>
          /\ idx'[log'[w][i]] = w
          /\ jpc'[log'[w][i]] \in AcceptedStates
          /\ \A k \in DOMAIN log'[w] : log'[w][k] = log'[w][i] => k = i
    BY <2>1, <2>2, <2>3 DEF LoggedOnce
  <2>5. \A k \in Jobs : jpc'[k] \in AcceptedStates => \E i \in DOMAIN log'[idx'[k]] : log'[idx'[k]][i] = k
    BY <2>2, <2>3 DEF LoggedOnce
  <2> QED BY <2>4, <2>5 DEF LoggedOnce
<1>5. ASSUME NEW j \in Jobs, Reject(j) PROVE LoggedOnce'
  BY <1>1, <1>5 DEF Reject, Types, AcceptedStates
<1>6. ASSUME NEW w \in Workers, RunJob(w) PROVE LoggedOnce'
  <2>1. Head(batch[w]) \in Jobs /\ jpc[Head(batch[w])] \in AcceptedStates
    <3>1. Head(batch[w]) \in Jobs
      BY <1>6 DEF RunJob, Advance, Types, Items
    <3>2. batch[w] # <<>>
      BY <1>6 DEF RunJob, Advance
    <3> QED BY <3>1, <3>2, Positions DEF LoggedOnce
  <2> QED BY <1>1, <1>6, <2>1 DEF RunJob, Types, AcceptedStates
<1>7. ASSUME NEW w \in Workers, JobEnds(w) PROVE LoggedOnce'
  <2>1. PICK j \in Jobs : j = ran[w][Len(ran[w])] /\ jpc' = [jpc EXCEPT ![j] = "done"]
    BY <1>7 DEF JobEnds, Types
  <2>2. jpc[j] \in AcceptedStates
    <3>1. Len(ran[w]) \in DOMAIN ran[w]
      BY <1>7 DEF JobEnds, Types
    <3> QED BY <2>1, <3>1, Positions DEF LoggedOnce
  <2> QED BY <1>1, <1>7, <2>1, <2>2 DEF JobEnds, Types, AcceptedStates
<1>8. CASE UNCHANGED <<log, idx, jpc>>
  BY <1>1, <1>8
<1> QED
  BY <1>2, <1>3, <1>4, <1>5, <1>6, <1>7, <1>8
  DEF Next, vars, SubmitStep, WorkerStep, CloserStep, Drain, BatchEnds, ExitAtSentinel, CallShutdown,
      JoinWorker

\* The item a worker takes next is in no worker's past: it stands in one log,
\* once, behind everything that worker has taken.
LEMMA TakenStep ==
  Types /\ FifoPerWorker /\ LoggedOnce /\ TakenDone /\ [Next]_vars => TakenDone'
<1> SUFFICES ASSUME Types, FifoPerWorker, LoggedOnce, TakenDone, [Next]_vars PROVE TakenDone'
  OBVIOUS
<1>1. ASSUME UNCHANGED ran,
             \A w \in Workers : wpc[w] = "job" => wpc'[w] = "job",
             \A j \in Jobs : jpc[j] = "done" => jpc'[j] = "done"
      PROVE  TakenDone'
  BY <1>1 DEF TakenDone
<1>2. ASSUME NEW w \in Workers, RunJob(w) PROVE TakenDone'
  <2>0. Head(batch[w]) \in Jobs
    BY <1>2 DEF RunJob, Advance, Types, Items
  <2>1. PICK j \in Jobs : j = Head(batch[w]) /\ jpc' = [jpc EXCEPT ![j] = "running"]
    BY <1>2, <2>0 DEF RunJob
  <2>2. \A v \in Workers : \A i \in DOMAIN ran[v] : ran[v][i] # j
    <3>1. batch[w] # <<>>
      BY <1>2 DEF RunJob, Advance
    <3>2. Len(ran[w]) + 1 \in DOMAIN log[w] /\ log[w][Len(ran[w]) + 1] = j /\ Len(ran[w]) \in Nat
          /\ DOMAIN ran[w] = 1..Len(ran[w])
      BY <2>1, <3>1, Positions
    <3>3. \A v \in Workers : \A i \in DOMAIN ran[v] : i \in DOMAIN log[v] /\ log[v][i] = ran[v][i]
      BY Positions
    <3>4. ASSUME NEW v \in Workers, NEW i \in DOMAIN ran[v], ran[v][i] = j PROVE FALSE
      <4>1. v = w
        BY <3>2, <3>3, <3>4 DEF LoggedOnce
      <4>2. i = Len(ran[w]) + 1
        BY <3>2, <3>3, <3>4, <4>1 DEF LoggedOnce
      <4> QED BY <3>2, <4>1, <4>2
    <3> QED BY <3>4
  <2>3. /\ \A v \in Workers : v # w => ran'[v] = ran[v] /\ wpc'[v] = wpc[v]
        /\ ran'[w] = Append(ran[w], j) /\ wpc'[w] = "job" /\ wpc[w] = "loop"
        /\ ran[w] \in Seq(Items) /\ j \in Items
    BY <1>2, <2>1 DEF RunJob, Advance, Types, Items
  <2>4. \A i \in DOMAIN ran'[w] : i = Len(ran'[w]) \/ (i \in DOMAIN ran[w] /\ ran'[w][i] = ran[w][i])
    BY <2>3
  <2>5. \A k \in Jobs : k # j => jpc'[k] = jpc[k]
    BY <2>1 DEF Types
  <2>6. \A i \in DOMAIN ran[w] : ran[w][i] \in Jobs => jpc[ran[w][i]] = "done"
    BY <2>3 DEF TakenDone
  <2>7. ASSUME NEW i \in DOMAIN ran'[w], ran'[w][i] \in Jobs
        PROVE  jpc'[ran'[w][i]] = "done" \/ (wpc'[w] = "job" /\ i = Len(ran'[w]))
    BY <2>2, <2>3, <2>4, <2>5, <2>6, <2>7
  <2>8. ASSUME NEW v \in Workers, v # w, NEW i \in DOMAIN ran'[v], ran'[v][i] \in Jobs
        PROVE  jpc'[ran'[v][i]] = "done" \/ (wpc'[v] = "job" /\ i = Len(ran'[v]))
    BY <2>2, <2>3, <2>5, <2>8 DEF TakenDone
  <2> QED BY <2>7, <2>8 DEF TakenDone
<1>3. ASSUME NEW w \in Workers, JobEnds(w) PROVE TakenDone'
  <2>1. PICK j \in Jobs : j = ran[w][Len(ran[w])] /\ jpc' = [jpc EXCEPT ![j] = "done"]
    BY <1>3 DEF JobEnds, Types
  <2>2. /\ ran' = ran
        /\ \A v \in Workers : v # w => wpc'[v] = wpc[v]
        /\ \A k \in Jobs : jpc[k] = "done" => jpc'[k] = "done"
        /\ jpc'[j] = "done"
    BY <1>3, <2>1 DEF JobEnds, Types
  <2> QED BY <2>1, <2>2 DEF TakenDone
<1>4. ASSUME NEW w \in Workers, ExitAtSentinel(w) PROVE TakenDone'
  <2>1. /\ \A v \in Workers : v # w => ran'[v] = ran[v] /\ wpc'[v] = wpc[v]
        /\ ran'[w] = Append(ran[w], None) /\ wpc[w] = "loop"
        /\ ran[w] \in Seq(Items) /\ None \in Items /\ jpc' = jpc
    BY <1>4 DEF ExitAtSentinel, Advance, Types, Items
  <2>2. \A i \in DOMAIN ran'[w] : ran'[w][i] = None \/ (i \in DOMAIN ran[w] /\ ran'[w][i] = ran[w][i])
    BY <2>1
  <2>3. \A i \in DOMAIN ran'[w] : ran'[w][i] \in Jobs => jpc'[ran'[w][i]] = "done"
    BY <2>1, <2>2, PoolAssumption DEF TakenDone
  <2>4. ASSUME NEW v \in Workers, NEW i \in DOMAIN ran'[v], ran'[v][i] \in Jobs
        PROVE  jpc'[ran'[v][i]] = "done" \/ (wpc'[v] = "job" /\ i = Len(ran'[v]))
    <3>1. CASE v = w
      BY <2>3, <2>4, <3>1
    <3>2. CASE v # w
      BY <2>1, <2>4, <3>2 DEF TakenDone
    <3> QED BY <3>1, <3>2
  <2> QED BY <2>4 DEF TakenDone
<1>5. ASSUME NEW j \in Jobs, TakeTicket(j) \/ Accept(j) \/ Reject(j) PROVE TakenDone'
  BY <1>1, <1>5 DEF TakeTicket, Accept, Reject, Types
<1>6. ASSUME NEW w \in Workers, Drain(w) \/ BatchEnds(w) PROVE TakenDone'
  BY <1>1, <1>6 DEF Drain, BatchEnds, Types
<1>7. CASE UNCHANGED <<ran, wpc, jpc>>
  BY <1>1, <1>7
<1> QED
  BY <1>2, <1>3, <1>4, <1>5, <1>6, <1>7
  DEF Next, vars, SubmitStep, WorkerStep, CloserStep, CallShutdown, RequestShutdown, JoinWorker

\* A put goes behind everything logged, and a sentinel is put by a call of
\* shutdown() only.
LEMMA AheadStep ==
  Types /\ LoggedOnce /\ AheadOfSentinels /\ [Next]_vars => AheadOfSentinels'
<1> SUFFICES ASSUME Types, LoggedOnce, AheadOfSentinels, [Next]_vars PROVE AheadOfSentinels'
  OBVIOUS
<1> DEFINE Ahead(j) == \E i \in DOMAIN log[idx[j]] :
                         log[idx[j]][i] = j /\ \A k \in 1..i : log[idx[j]][k] # None
           NoSentinel == \A w \in Workers : \A i \in DOMAIN log[w] : log[w][i] # None
<1>0. /\ ~ShutdownCalled => NoSentinel
      /\ \A j \in before : Ahead(j) /\ j \in Jobs /\ idx[j] \in Workers
      /\ \A w \in Workers : log[w] \in Seq(Items)
  BY DEF AheadOfSentinels, Types
<1>1. ASSUME NEW v \in Workers, NEW x \in Items, Put(v, x), UNCHANGED <<idx, before>>,
             (NoSentinel /\ x # None) \/ ShutdownCalled',
             ~ShutdownCalled' => NoSentinel
      PROVE  AheadOfSentinels'
  <2>1. /\ \A w \in Workers : DOMAIN log[w] \subseteq DOMAIN log'[w]
        /\ \A w \in Workers : \A i \in DOMAIN log[w] : log'[w][i] = log[w][i]
        /\ \A w \in Workers : \A i \in DOMAIN log'[w] : i \in DOMAIN log[w] \/ log'[w][i] = x
    BY <1>1, PutGrows, Zenon
  <2>2. ~ShutdownCalled' => NoSentinel'
    BY <1>1, <2>1
  <2>3. ASSUME NEW j \in before PROVE Ahead(j)'
    <3>1. PICK i \in DOMAIN log[idx[j]] : log[idx[j]][i] = j /\ \A k \in 1..i : log[idx[j]][k] # None
      BY <1>0
    <3>2. \A k \in 1..i : k \in DOMAIN log[idx[j]]
      BY <1>0
    <3> QED BY <1>0, <1>1, <2>1, <3>1, <3>2
  <2> QED BY <1>1, <2>2, <2>3 DEF AheadOfSentinels
<1>2. ASSUME NEW j \in Jobs, Accept(j) PROVE AheadOfSentinels'
  <2>1. idx[j] \in Workers /\ j \in Items /\ j # None
    BY PoolAssumption DEF Types, Items
  <2>2. ShutdownCalled' = ShutdownCalled
    BY <1>2 DEF Accept, ShutdownCalled
  <2> QED BY <1>0, <1>1, <1>2, <2>1, <2>2 DEF Accept
<1>3. ASSUME NEW c \in Closers, RequestShutdown(c) PROVE AheadOfSentinels'
  <2>1. ci[c] \in Workers /\ None \in Items
    BY DEF Types, Items
  <2>2. ShutdownCalled'
    BY <1>3 DEF RequestShutdown, AfterLastRequest, ShutdownCalled, Types
  <2> QED BY <1>1, <1>3, <2>1, <2>2 DEF RequestShutdown, PutSentinel
<1>4. ASSUME NEW c \in Closers, CallShutdown(c) PROVE AheadOfSentinels'
  <2>1. ShutdownCalled' /\ UNCHANGED <<log, idx>>
    BY <1>4 DEF CallShutdown, ShutdownCalled, Types
  <2>2. CASE ShutdownCalled
    BY <1>0, <1>4, <2>1, <2>2 DEF CallShutdown, AheadOfSentinels
  <2>3. CASE ~ShutdownCalled
    <3>1. before' = Accepted
      BY <1>4, <2>3 DEF CallShutdown
    <3>2. ASSUME NEW j \in Accepted PROVE Ahead(j)
      <4>1. PICK i \in DOMAIN log[idx[j]] : log[idx[j]][i] = j
        BY DEF Accepted, LoggedOnce, AcceptedStates
      <4>2. idx[j] \in Workers /\ \A k \in 1..i : k \in DOMAIN log[idx[j]]
        BY <1>0 DEF Accepted, Types
      <4> QED BY <1>0, <2>3, <4>1, <4>2
    <3> QED BY <2>1, <3>1, <3>2 DEF AheadOfSentinels
  <2> QED BY <2>2, <2>3
<1>5. ASSUME NEW j \in Jobs, TakeTicket(j) PROVE AheadOfSentinels'
  <2>1. j \notin before
    <3>1. \A w \in Workers : \A i \in DOMAIN log[w] : log[w][i] # j
      BY <1>5 DEF LoggedOnce, TakeTicket, AcceptedStates
    <3> QED BY <1>0, <3>1
  <2>2. UNCHANGED <<log, before, cpc>> /\ \A k \in Jobs : k # j => idx'[k] = idx[k]
    BY <1>5 DEF TakeTicket, Types
  <2>3. \A k \in before : k \in Jobs /\ idx'[k] = idx[k]
    BY <1>0, <2>1, <2>2
  <2> QED BY <1>0, <2>2, <2>3 DEF AheadOfSentinels, ShutdownCalled
<1>6. ASSUME NEW c \in Closers, JoinWorker(c) PROVE AheadOfSentinels'
  <2>1. ShutdownCalled' /\ UNCHANGED <<log, idx, before>>
    BY <1>6 DEF JoinWorker, ShutdownCalled, Types
  <2> QED BY <1>0, <2>1 DEF AheadOfSentinels
<1>7. CASE UNCHANGED <<log, idx, before, cpc>>
  BY <1>0, <1>7 DEF AheadOfSentinels, ShutdownCalled
<1> QED
  BY <1>2, <1>3, <1>4, <1>5, <1>6, <1>7
  DEF Next, vars, SubmitStep, WorkerStep, CloserStep, Reject, Drain, RunJob, JobEnds, BatchEnds,
      ExitAtSentinel, Advance

\* A worker that has exited stays so, and a join waits for it.
LEMMA JoinedStep == Types /\ Joined /\ [Next]_vars => Joined'
<1> SUFFICES ASSUME Types, Joined, [Next]_vars PROVE Joined'
  OBVIOUS
<1> USE PoolAssumption
<1>1. ASSUME UNCHANGED <<ran, cpc, ci>>,
             \A w \in Workers : wpc'[w] = "exited" <=> wpc[w] = "exited"
      PROVE  Joined'
  BY <1>1 DEF Joined
<1>2. ASSUME NEW w \in Workers, RunJob(w) PROVE Joined'
  <2>1. /\ UNCHANGED <<cpc, ci>>
        /\ \A v \in Workers : wpc'[v] = "exited" <=> wpc[v] = "exited"
        /\ \A v \in Workers : wpc'[v] = "exited" => ran'[v] = ran[v]
    BY <1>2 DEF RunJob, Advance, Types
  <2> QED BY <2>1 DEF Joined
<1>3. ASSUME NEW w \in Workers, ExitAtSentinel(w) PROVE Joined'
  <2>1. /\ UNCHANGED <<cpc, ci>>
        /\ \A v \in Workers : v # w => wpc'[v] = wpc[v] /\ ran'[v] = ran[v]
        /\ wpc'[w] = "exited"
        /\ ran'[w] = Append(ran[w], None) /\ ran[w] \in Seq(Items) /\ None \in Items
    BY <1>3 DEF ExitAtSentinel, Advance, Types, Items
  <2>2. \E i \in DOMAIN ran'[w] : ran'[w][i] = None
    BY <2>1, AppendProperties
  <2> QED BY <2>1, <2>2 DEF Joined
<1>4. ASSUME NEW c \in Closers, CallShutdown(c) PROVE Joined'
  BY <1>4 DEF CallShutdown, Joined, Types
<1>5. ASSUME NEW c \in Closers, RequestShutdown(c) PROVE Joined'
  <2>1. /\ UNCHANGED <<ran, wpc>>
        /\ \A d \in Closers : d # c => cpc'[d] = cpc[d] /\ ci'[d] = ci[d]
        /\ c \in Waiters => cpc'[c] # "returned"
    BY <1>5 DEF RequestShutdown, AfterLastRequest, Types
  <2>2. c \in Waiters /\ cpc'[c] = "joining" => ci'[c] = 0
    BY <1>5 DEF RequestShutdown, AfterLastRequest, Types
  <2>3. \A v \in Workers : ~(v < 0)
    BY DEF Workers
  <2> QED BY <2>1, <2>2, <2>3 DEF Joined
<1>6. ASSUME NEW c \in Closers, JoinWorker(c) PROVE Joined'
  <2>1. /\ UNCHANGED <<ran, wpc>> /\ cpc[c] = "joining" /\ wpc[ci[c]] = "exited"
        /\ \A d \in Closers : d # c => cpc'[d] = cpc[d] /\ ci'[d] = ci[d]
        /\ ci'[c] = (ci[c] + 1) % Size
        /\ cpc'[c] = IF ci[c] + 1 = Size THEN "returned" ELSE "joining"
    BY <1>6 DEF JoinWorker, CanJoin, Types
  <2>2. ci[c] \in 0..(Size - 1)
    BY DEF Types, Workers
  <2>3. c \in Waiters => \A v \in Workers : v <= ci[c] => wpc[v] = "exited"
    BY <2>1, <2>2 DEF Joined, Workers
  <2>4. CASE ci[c] + 1 = Size
    <3>1. cpc'[c] = "returned" /\ \A v \in Workers : v <= ci[c]
      BY <2>1, <2>2, <2>4 DEF Workers
    <3> QED BY <2>1, <2>3, <3>1 DEF Joined
  <2>5. CASE ci[c] + 1 # Size
    <3>1. cpc'[c] = "joining" /\ ci'[c] = ci[c] + 1
      BY <2>1, <2>2, <2>5
    <3>2. \A v \in Workers : v < ci'[c] => v <= ci[c]
      BY <2>2, <3>1 DEF Workers
    <3> QED BY <2>1, <2>3, <3>1, <3>2 DEF Joined
  <2> QED BY <2>4, <2>5
<1>7. ASSUME NEW w \in Workers, Drain(w) \/ JobEnds(w) \/ BatchEnds(w) PROVE Joined'
  BY <1>1, <1>7 DEF Drain, JobEnds, BatchEnds, Types
<1>8. CASE UNCHANGED <<ran, cpc, ci, wpc>>
  BY <1>1, <1>8
<1> QED
  BY <1>2, <1>3, <1>4, <1>5, <1>6, <1>7, <1>8
  DEF Next, vars, SubmitStep, WorkerStep, CloserStep, TakeTicket, Accept, Reject

\* The conjuncts of the inductive invariant hold from the start.
LEMMA InvInit == Init => PoolInv
<1> SUFFICES ASSUME Init PROVE PoolInv
  OBVIOUS
<1>1. Types
  BY PoolAssumption DEF Init, Types, AcceptedStates, Workers
<1>2. FifoPerWorker
  BY DEF Init, FifoPerWorker
<1>3. LoggedOnce /\ TakenDone
  BY DEF Init, LoggedOnce, TakenDone, AcceptedStates
<1>4. AheadOfSentinels /\ Joined
  BY PoolAssumption DEF Init, AheadOfSentinels, Joined
<1> QED BY <1>1, <1>2, <1>3, <1>4 DEF PoolInv

\* An early job stands in front of the sentinel its worker has gone past.
LEMMA InvImpliesDone == PoolInv => JoinMeansDone
<1> SUFFICES ASSUME PoolInv, NEW c \in Waiters, NEW j \in before, cpc[c] = "returned"
             PROVE  jpc[j] = "done"
  BY DEF JoinMeansDone
<1>1. PICK w \in Workers : w = idx[j] /\ j \in Jobs
  BY DEF PoolInv, Types
<1>2. PICK n \in DOMAIN ran[w] : ran[w][n] = None /\ wpc[w] = "exited"
  BY DEF PoolInv, Joined
<1>3. PICK i \in DOMAIN log[w] : log[w][i] = j /\ \A k \in 1..i : log[w][k] # None
  BY <1>1 DEF PoolInv, AheadOfSentinels
<1>4. /\ DOMAIN ran[w] = 1..Len(ran[w]) /\ Len(ran[w]) \in Nat
      /\ \A k \in DOMAIN ran[w] : k \in DOMAIN log[w] /\ log[w][k] = ran[w][k]
  BY Positions DEF PoolInv
<1>5. i \in Nat \ {0}
  BY DEF PoolInv, Types
<1>6. i < n
  BY <1>2, <1>3, <1>4, <1>5
<1>7. i \in DOMAIN ran[w] /\ ran[w][i] = j
  BY <1>3, <1>4, <1>5, <1>6
<1> QED BY <1>1, <1>2, <1>7 DEF PoolInv, TakenDone

\* shutdown( wait = True ) returns only when every job accepted before the first
\* shutdown() has ended, for any number of workers, jobs and closing threads.
THEOREM PoolJoinMeansDone == Spec => []JoinMeansDone
<1>1. PoolInv /\ [Next]_vars => PoolInv'
  BY TypeStep, FifoStep, LoggedStep, TakenStep, AheadStep, JoinedStep DEF PoolInv
<1> QED BY <1>1, InvInit, InvImpliesDone, PTL DEF Spec
===============================================================================
