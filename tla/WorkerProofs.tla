----------------------------- MODULE WorkerProofs -----------------------------
(***************************************************************************)
(* Proofs about Worker, for any set of tasks, sockets and pool jobs.        *)
(*                                                                          *)
(* The safety properties are about different parts of one state, and each   *)
(* needs the others: a fiber that is driven is a fiber of the lists because *)
(* the snapshots are not longer than the lists; a new fiber is needed only  *)
(* when there is a task for it, because every fiber in use carries a task   *)
(* of its own.  The inductive invariant WorkerInv is their conjunction.     *)
(***************************************************************************)
EXTENDS Worker, FiniteSetTheorems, WellFoundedInduction, TLAPS

\* No element of the list occurs in it twice.
Once(s) == \A i, j \in 1..Len(s) : s[i] = s[j] => i = j

\* The variables' types.
Types ==
  /\ pending \in Seq(Tasks)
  /\ ready \in Seq(Fibers) /\ idlePool \in Seq(Fibers) /\ waiting \in Seq(Fibers)
  /\ wait \in [Fibers -> [signal : Signals \cup {NoSignal}, timedOut : BOOLEAN]]
  /\ interest \in [Fds -> SUBSET Interest] /\ fdReady \in [Fds -> SUBSET Interest]
  /\ wake \in BOOLEAN /\ shutdown \in BOOLEAN /\ progressed \in BOOLEAN
  /\ live \in Int /\ left \in Nat /\ born \in 0..Cardinality(Tasks)
  /\ fstate \in [Fibers -> {"idle", "running", "parked"}]
  /\ ftask \in [Fibers -> Tasks \cup {NoTask}]
  /\ deadline \in [Fibers -> {"none", "armed", "passed"}]
  /\ result \in [Fibers -> {"none", "Ok", "TimedOut", "Shutdown"}]
  /\ pc \in {"new", "unpark", "runUnparked", "start", "runStarted", "poll",
             "expire", "complete", "decide", "exited"}
  /\ tick \in {"zero", "recheck", "infinite"}
  /\ cur \in Fibers \cup {0} /\ (Running <=> cur \in Fibers)
  /\ status \in [Tasks -> {"new", "live", "finished"}]
  /\ waits \in [Tasks -> 0..MaxWaits]
  /\ job \in [Handles -> {"none", "running", "poke", "over"}]
  /\ ext \in [task : Tasks \cup {NoTask}, at : {"idle", "append", "poke"}]
  /\ closer \in {"idle", "poke", "done"}

\* Every fiber that was created is in the one list its state says, once.
PlaceOf(f) ==
  /\ f \in ToSet(idlePool) <=> f <= born /\ fstate[f] = "idle"
  /\ f \in ToSet(ready) \cup ToSet(waiting) <=> fstate[f] = "parked"
  /\ ~(f \in ToSet(ready) /\ f \in ToSet(waiting))
  /\ fstate[f] = "running" <=> f = cur
  /\ fstate[f] # "idle" => f <= born

Places ==
  /\ Once(idlePool) /\ Once(ready) /\ Once(waiting)
  /\ \A f \in Fibers : PlaceOf(f)

\* A task is with one thread, in __pending_tasks or on one fiber, and counted.
CarriedBy(f) ==
  /\ fstate[f] = "idle" <=> ftask[f] = NoTask
  /\ ftask[f] # NoTask => /\ status[ftask[f]] = "live"
                          /\ ftask[f] \notin ToSet(pending)
                          /\ \A g \in Fibers : ftask[g] = ftask[f] => f = g

Carried ==
  /\ Once(pending)
  /\ \A t \in ToSet(pending) : t \in Tasks /\ status[t] = "live"
  /\ \A f \in Fibers : CarriedBy(f)
  /\ ext.at = "append" => /\ ext.task \in Tasks
                          /\ status[ext.task] = "live"
                          /\ ext.task \notin ToSet(pending)
                          /\ \A f \in Fibers : ftask[f] # ext.task

\* live_tasks is the number of tasks that are counted and have not ended.
Counted == live = Cardinality({t \in Tasks : status[t] = "live"})

\* The snapshots are within the lists they are of.
Snapshots ==
  /\ pc \in {"unpark", "runUnparked"} => left <= Len(ready)
  /\ pc \in {"start", "runStarted"} => left <= Len(pending)

\* A tick that has not progressed has found no ready fiber and made none ready.
Quiet ==
  ~progressed => /\ ~Running
                 /\ pc = "unpark" => left = Len(ready)
                 /\ pc \in {"start", "poll", "expire", "complete", "decide"} => ready = <<>>

\* What a fiber that is about to be unparked will be told is true.
JustifiedOf(f) ==
  /\ wait[f].timedOut => deadline[f] = "passed"
  /\ f \in ToSet(ready) /\ ~shutdown /\ ~wait[f].timedOut /\ wait[f].signal # NoSignal
       => /\ wait[f].signal # Sleep
          /\ wait[f].signal \in Handles => wait[f].signal \in Done

Justified == \A f \in Fibers : JustifiedOf(f)

\* A task behind the snapshot of __pending_tasks has its byte, or will have it.
TaskAnnounced ==
  /\ pc \in {"start", "runStarted"} /\ Len(pending) > left => wake \/ ext.at = "poke"
  /\ pc = "poll" /\ pending # <<>> => wake \/ ext.at = "poke"

\* After the sweep that the choice of an infinite timeout is based on, and up to
\* the call of poller.wait() with it.
Swept == \/ pc = "decide"
         \/ tick = "infinite" /\ pc \in {"unpark", "runUnparked", "start", "runStarted", "poll"}

\* A job that completed behind that sweep has its byte, or will have it.
JobAnnounced ==
  Swept => \A f \in ToSet(waiting) :
             wait[f].signal \in Done => wake \/ \E h \in Handles : job[h] = "poke"

\* The inductive invariant.
WorkerInv ==
  /\ Types /\ Places /\ Carried /\ Counted /\ Snapshots /\ Quiet
  /\ RegisteredIffWaited /\ Justified /\ ResultJustified /\ TaskAnnounced /\ JobAnnounced

-------------------------------------------------------------------------------
(* Lists of fibers and of tasks                                              *)

\* Adding an item at the end of a list.
LEMMA AppendFacts ==
  ASSUME NEW S, NEW s \in Seq(S), NEW x \in S
  PROVE  /\ Append(s, x) \in Seq(S)
         /\ Len(Append(s, x)) = Len(s) + 1
         /\ ToSet(Append(s, x)) = ToSet(s) \cup {x}
         /\ Once(s) /\ x \notin ToSet(s) => Once(Append(s, x))
<1>1. /\ Append(s, x) \in Seq(S) /\ Len(Append(s, x)) = Len(s) + 1 /\ Len(s) \in Nat
      /\ DOMAIN s = 1..Len(s) /\ DOMAIN Append(s, x) = 1..(Len(s) + 1)
      /\ \A i \in 1..Len(s) : Append(s, x)[i] = s[i]
      /\ Append(s, x)[Len(s) + 1] = x
  OBVIOUS
<1>2. \A i \in 1..(Len(s) + 1) : i \in 1..Len(s) \/ i = Len(s) + 1
  BY <1>1
<1>3. \A i \in 1..Len(s) : i \in 1..(Len(s) + 1)
  BY <1>1
<1>4. Len(s) + 1 \in 1..(Len(s) + 1)
  BY <1>1
<1>5. ToSet(Append(s, x)) = ToSet(s) \cup {x}
  BY <1>1, <1>2, <1>3, <1>4, Zenon DEF ToSet
<1>6. ASSUME Once(s), x \notin ToSet(s) PROVE Once(Append(s, x))
  <2>1. \A i \in 1..Len(s) : s[i] # x
    BY <1>1, <1>6 DEF ToSet
  <2> QED BY <1>1, <1>2, <1>6, <2>1 DEF Once
<1> QED BY <1>1, <1>5, <1>6

\* list.pop() takes the last item.
LEMMA PopFacts ==
  ASSUME NEW S, NEW s \in Seq(S), Len(s) > 0
  PROVE  /\ Last(s) \in S /\ Last(s) \in ToSet(s)
         /\ Front(s) \in Seq(S)
         /\ Len(Front(s)) = Len(s) - 1
         /\ ToSet(s) = ToSet(Front(s)) \cup {Last(s)}
         /\ Once(s) => Once(Front(s)) /\ Last(s) \notin ToSet(Front(s))
<1>1. /\ Front(s) \in Seq(S) /\ Len(Front(s)) = Len(s) - 1 /\ Len(s) \in Nat
      /\ DOMAIN s = 1..Len(s) /\ DOMAIN Front(s) = 1..(Len(s) - 1)
      /\ \A i \in 1..(Len(s) - 1) : Front(s)[i] = s[i]
      /\ Last(s) = s[Len(s)] /\ Last(s) \in S
  <2>1. Len(s) \in Nat /\ DOMAIN s = 1..Len(s) /\ Len(s) \in 1..Len(s) /\ s[Len(s)] \in S
    OBVIOUS
  <2>2. Len(s) - 1 \in Nat /\ \A i \in 1..(Len(s) - 1) : i \in 1..Len(s)
    BY <2>1
  <2>3. PICK n \in Nat : n = Len(s) - 1
    BY <2>2
  <2>4. Front(s) = [i \in 1..n |-> s[i]]
    BY <2>1, <2>2, <2>3 DEF Front
  <2>5. \A i \in 1..n : s[i] \in S
    BY <2>1, <2>2, <2>3
  <2>6. Front(s) \in Seq(S) /\ Len(Front(s)) = n /\ DOMAIN Front(s) = 1..n
    BY <2>4, <2>5
  <2> QED BY <2>1, <2>3, <2>4, <2>6 DEF Last
<1>2. \A i \in 1..Len(s) : i \in 1..(Len(s) - 1) \/ i = Len(s)
  BY <1>1
<1>3. \A i \in 1..(Len(s) - 1) : i \in 1..Len(s) /\ i # Len(s)
  BY <1>1
<1>4. Len(s) \in 1..Len(s)
  BY <1>1
<1>5. ToSet(s) = ToSet(Front(s)) \cup {Last(s)}
  BY <1>1, <1>2, <1>3, <1>4, Zenon DEF ToSet
<1>6. ASSUME Once(s) PROVE Once(Front(s)) /\ Last(s) \notin ToSet(Front(s))
  <2>1. \A i, j \in 1..Len(s) : s[i] = s[j] => i = j
    BY <1>6 DEF Once
  <2>2. Once(Front(s))
    BY <1>1, <1>3, <2>1 DEF Once
  <2>3. \A i \in 1..(Len(s) - 1) : Front(s)[i] # Last(s)
    BY <1>1, <1>3, <1>4, <2>1
  <2>4. Last(s) \notin ToSet(Front(s))
    BY <1>1, <2>3, Zenon DEF ToSet
  <2> QED BY <2>2, <2>4
<1> QED BY <1>1, <1>4, <1>5, <1>6

\* One list behind another.
LEMMA ConcatFacts ==
  ASSUME NEW S, NEW s \in Seq(S), NEW t \in Seq(S)
  PROVE  /\ s \o t \in Seq(S)
         /\ Len(s \o t) = Len(s) + Len(t)
         /\ ToSet(s \o t) = ToSet(s) \cup ToSet(t)
         /\ Once(s) /\ Once(t) /\ ToSet(s) \cap ToSet(t) = {} => Once(s \o t)
<1> DEFINE m == Len(s)
           n == Len(t)
           st == s \o t
<1>1. /\ st \in Seq(S) /\ Len(st) = m + n /\ m \in Nat /\ n \in Nat
      /\ DOMAIN s = 1..m /\ DOMAIN t = 1..n /\ DOMAIN st = 1..(m + n)
      /\ \A i \in 1..m : st[i] = s[i]
      /\ \A i \in 1..n : st[m + i] = t[i]
  OBVIOUS
<1> HIDE DEF st
<1>2. \A i \in 1..(m + n) : i \in 1..m \/ \E j \in 1..n : i = m + j
  <2> TAKE i \in 1..(m + n)
  <2>1. CASE i <= m
    BY <1>1, <2>1
  <2>2. CASE i > m
    <3>1. i - m \in 1..n /\ i = m + (i - m)
      BY <1>1, <2>2
    <3> QED BY <3>1
  <2> QED BY <1>1, <2>1, <2>2
<1>3. (\A i \in 1..m : i \in 1..(m + n)) /\ (\A j \in 1..n : m + j \in 1..(m + n))
  BY <1>1
<1>4. ToSet(st) = ToSet(s) \cup ToSet(t)
  <2>1. ASSUME NEW x \in ToSet(st) PROVE x \in ToSet(s) \cup ToSet(t)
    <3>1. PICK i \in 1..(m + n) : x = st[i]
      BY <1>1 DEF ToSet
    <3> QED BY <1>1, <1>2, <3>1 DEF ToSet
  <2>2. ASSUME NEW x \in ToSet(s) PROVE x \in ToSet(st)
    BY <1>1, <1>3 DEF ToSet
  <2>3. ASSUME NEW x \in ToSet(t) PROVE x \in ToSet(st)
    BY <1>1, <1>3 DEF ToSet
  <2> QED BY <2>1, <2>2, <2>3
<1>5. ASSUME Once(s), Once(t), ToSet(s) \cap ToSet(t) = {} PROVE Once(st)
  <2>1. \A i \in 1..m, j \in 1..n : s[i] # t[j]
    BY <1>1, <1>5 DEF ToSet
  <2>2. /\ \A i, j \in 1..m : s[i] = s[j] => i = j
        /\ \A i, j \in 1..n : t[i] = t[j] => i = j
    BY <1>5 DEF Once
  <2>3. ASSUME NEW i \in 1..(m + n), NEW j \in 1..(m + n), st[i] = st[j] PROVE i = j
    <3>1. CASE i \in 1..m /\ j \in 1..m
      BY <1>1, <2>2, <2>3, <3>1
    <3>2. CASE i \in 1..m /\ \E k \in 1..n : j = m + k
      BY <1>1, <2>1, <2>3, <3>2
    <3>3. CASE j \in 1..m /\ \E k \in 1..n : i = m + k
      BY <1>1, <2>1, <2>3, <3>3
    <3>4. CASE (\E k \in 1..n : i = m + k) /\ (\E k \in 1..n : j = m + k)
      <4>1. PICK k \in 1..n, l \in 1..n : i = m + k /\ j = m + l
        BY <3>4
      <4>2. t[k] = t[l]
        BY <1>1, <2>3, <4>1
      <4> QED BY <2>2, <4>1, <4>2
    <3> QED BY <1>2, <3>1, <3>2, <3>3, <3>4
  <2> QED BY <1>1, <2>3 DEF Once
<1> QED BY <1>1, <1>4, <1>5 DEF st

\* The least of a set of naturals.
LEMMA LeastOf == \A T \in SUBSET Nat : T # {} => \E x \in T : \A y \in T : x <= y
<1> SUFFICES ASSUME NEW T \in SUBSET Nat, T # {} PROVE \E x \in T : \A y \in T : x <= y
  OBVIOUS
<1> DEFINE R == {p \in Nat \X Nat : p[1] < p[2]}
<1>1. IsWellFoundedOn(R, Nat)
  BY NatLessThanWellFounded DEF OpToRel
<1>2. \A y, z \in Nat : y < z => <<y, z>> \in R
  OBVIOUS
<1> HIDE DEF R
<1>3. PICK x \in T : \A y \in T : <<y, x>> \notin R
  BY <1>1, WFMin
<1>4. \A y \in T : x \in Nat /\ y \in Nat /\ ~(y < x)
  BY <1>2, <1>3
<1>5. \A y \in T : x <= y
  BY <1>4
<1> QED BY <1>5

\* Counting up to N, with the numbers reached as a set.
LEMMA CountUp ==
  \A N \in Nat, T \in SUBSET Nat :
    0 \in T /\ (\A n \in T : n < N => n + 1 \in T) => \A n \in 0..N : n \in T
<1> SUFFICES ASSUME NEW N \in Nat, NEW T \in SUBSET Nat, 0 \in T,
                    \A n \in T : n < N => n + 1 \in T
             PROVE  \A n \in 0..N : n \in T
  OBVIOUS
<1> DEFINE M == {n \in 0..N : n \notin T}
<1> SUFFICES ASSUME M # {} PROVE FALSE
  OBVIOUS
<1>1. M \in SUBSET Nat
  OBVIOUS
<1>2. PICK x \in M : \A y \in M : x <= y
  <2> HIDE DEF M
  <2> QED BY <1>1, LeastOf
<1>3. x \in Nat /\ x <= N /\ x # 0 /\ x \notin T
  BY <1>2
<1>4. x - 1 \in 0..N /\ x - 1 < N /\ ~(x <= x - 1)
  BY <1>3
<1>5. x - 1 \in T
  BY <1>2, <1>4
<1>6. (x - 1) + 1 \in T /\ (x - 1) + 1 = x
  BY <1>3, <1>4, <1>5
<1> QED BY <1>3, <1>6

\* One turn of the sweeping loop, as the recursive function has it.
SweepBody(g, s, G) ==
  [n \in 0..Len(s) |-> IF n = 0 THEN <<>>
                       ELSE IF s[n] \in G THEN Append(g[n - 1], s[n]) ELSE g[n - 1]]

\* The loop has an outcome: the function it defines exists.
LEMMA SweepDefined ==
  ASSUME NEW s \in Seq(Fibers), NEW G
  PROVE  \E g : g = SweepBody(g, s, G) /\ Sweep(s, G) = g[Len(s)]
<1> DEFINE Upto(g, n) == /\ g \in [0..n -> Seq(Fibers)]
                         /\ g[0] = <<>>
                         /\ \A i \in 1..n : g[i] = IF s[i] \in G THEN Append(g[i - 1], s[i])
                                                                 ELSE g[i - 1]
           T == {n \in Nat : n <= Len(s) /\ \E g : Upto(g, n)}
<1>1. Len(s) \in Nat /\ \A i \in 1..Len(s) : s[i] \in Fibers
  OBVIOUS
<1>2. 0 \in T
  <2> DEFINE z == [i \in 0..0 |-> <<>>]
  <2>1. z \in [0..0 -> Seq(Fibers)] /\ z[0] = <<>>
    OBVIOUS
  <2> HIDE DEF z
  <2>2. Upto(z, 0)
    BY <2>1
  <2> HIDE DEF Upto
  <2> QED BY <1>1, <2>2
<1>3. ASSUME NEW n \in T, n < Len(s) PROVE n + 1 \in T
  <2>1. PICK g : Upto(g, n)
    OBVIOUS
  <2> DEFINE x == IF s[n + 1] \in G THEN Append(g[n], s[n + 1]) ELSE g[n]
             h == [i \in 0..(n + 1) |-> IF i = n + 1 THEN x ELSE g[i]]
  <2>2. n \in Nat /\ n + 1 <= Len(s) /\ n + 1 \in Nat /\ n + 1 \in 1..Len(s)
    BY <1>1, <1>3
  <2>3. g[n] \in Seq(Fibers) /\ s[n + 1] \in Fibers /\ x \in Seq(Fibers)
    BY <1>1, <2>1, <2>2
  <2>4. h \in [0..(n + 1) -> Seq(Fibers)] /\ h[0] = <<>>
    <3>1. \A i \in 0..(n + 1) : i # n + 1 => i \in 0..n
      BY <2>2
    <3>2. 0 \in 0..(n + 1) /\ 0 # n + 1
      BY <2>2
    <3> HIDE DEF x
    <3> QED BY <2>1, <2>3, <3>1, <3>2
  <2>5. ASSUME NEW i \in 1..(n + 1)
        PROVE  h[i] = IF s[i] \in G THEN Append(h[i - 1], s[i]) ELSE h[i - 1]
    <3>1. CASE i = n + 1
      <4>1. h[i] = x /\ i - 1 = n /\ h[n] = g[n]
        BY <2>2, <3>1
      <4> QED BY <3>1, <4>1
    <3>2. CASE i # n + 1
      <4>1. i \in 1..n /\ i - 1 \in 0..n /\ i - 1 # n + 1 /\ i \in 0..(n + 1) /\ i - 1 \in 0..(n + 1)
        BY <2>2, <3>2
      <4>2. h[i] = g[i] /\ h[i - 1] = g[i - 1]
        BY <3>2, <4>1
      <4> QED BY <2>1, <4>1, <4>2
    <3> QED BY <3>1, <3>2
  <2> HIDE DEF h
  <2>6. Upto(h, n + 1)
    BY <2>4, <2>5
  <2> HIDE DEF Upto
  <2> QED BY <2>2, <2>6
<1>4. Len(s) \in T
  <2>1. T \in SUBSET Nat
    OBVIOUS
  <2>2. Len(s) \in 0..Len(s)
    BY <1>1
  <2> HIDE DEF T
  <2> QED BY <1>1, <1>2, <1>3, <2>1, <2>2, CountUp
<1>5. PICK g : Upto(g, Len(s))
  BY <1>4
<1>6. g = SweepBody(g, s, G)
  <2>1. g = [n \in 0..Len(s) |-> g[n]]
    BY <1>5
  <2>2. ASSUME NEW n \in 0..Len(s)
        PROVE  g[n] = IF n = 0 THEN <<>>
                      ELSE IF s[n] \in G THEN Append(g[n - 1], s[n]) ELSE g[n - 1]
    <3>1. CASE n = 0
      BY <1>5, <3>1
    <3>2. CASE n # 0
      <4>1. n \in 1..Len(s)
        BY <1>1, <3>2
      <4> QED BY <1>5, <3>2, <4>1
    <3> QED BY <3>1, <3>2
  <2> QED BY <2>1, <2>2, Zenon DEF SweepBody
<1> DEFINE k == CHOOSE h : h = SweepBody(h, s, G)
<1>7. k = SweepBody(k, s, G)
  BY <1>6
<1>8. Sweep(s, G) = k[Len(s)]
  BY DEF Sweep, SweepBody
<1> QED BY <1>7, <1>8

\* A sweep keeps the items of G, in a list without duplicates if it swept one.
LEMMA SweepFacts ==
  ASSUME NEW s \in Seq(Fibers), NEW G
  PROVE  /\ Sweep(s, G) \in Seq(Fibers)
         /\ ToSet(Sweep(s, G)) = ToSet(s) \cap G
         /\ Once(s) => Once(Sweep(s, G))
<1>1. PICK g : g = SweepBody(g, s, G) /\ Sweep(s, G) = g[Len(s)]
  BY SweepDefined
<1> DEFINE First(n) == {s[i] : i \in 1..n}
           Good(n) == /\ g[n] \in Seq(Fibers)
                      /\ ToSet(g[n]) = First(n) \cap G
                      /\ Once(s) => Once(g[n])
           T == {n \in Nat : n <= Len(s) /\ Good(n)}
<1>2. /\ Len(s) \in Nat /\ DOMAIN s = 1..Len(s) /\ \A i \in 1..Len(s) : s[i] \in Fibers
      /\ g[0] = <<>>
      /\ \A n \in 1..Len(s) : g[n] = IF s[n] \in G THEN Append(g[n - 1], s[n]) ELSE g[n - 1]
  <2>1. Len(s) \in Nat /\ DOMAIN s = 1..Len(s) /\ \A i \in 1..Len(s) : s[i] \in Fibers
    OBVIOUS
  <2>2. \A n \in 0..Len(s) : g[n] = SweepBody(g, s, G)[n]
    BY <1>1
  <2> QED BY <2>1, <2>2 DEF SweepBody
<1>3. 0 \in T
  <2>1. First(0) = {}
    OBVIOUS
  <2>2. ToSet(<<>>) = {} /\ Once(<<>>) /\ <<>> \in Seq(Fibers)
    BY DEF ToSet, Once
  <2>3. Good(0)
    BY <1>2, <2>1, <2>2
  <2>4. 0 <= Len(s)
    BY <1>2
  <2> HIDE DEF Good
  <2> QED BY <2>3, <2>4
<1>4. ASSUME NEW n \in T, n < Len(s) PROVE n + 1 \in T
  <2>1. n \in Nat /\ n + 1 \in 1..Len(s) /\ n + 1 <= Len(s) /\ (n + 1) - 1 = n /\ Good(n)
    BY <1>2, <1>4
  <2>2. PICK x \in Fibers : x = s[n + 1]
    BY <1>2, <2>1
  <2>3. g[n + 1] = IF x \in G THEN Append(g[n], x) ELSE g[n]
    BY <1>2, <2>1, <2>2
  <2>4. First(n + 1) = First(n) \cup {x}
    <3>1. \A i \in 1..(n + 1) : i \in 1..n \/ i = n + 1
      BY <2>1
    <3>2. (\A i \in 1..n : i \in 1..(n + 1)) /\ n + 1 \in 1..(n + 1)
      BY <2>1
    <3> QED BY <2>2, <3>1, <3>2, Zenon
  <2>5. Once(s) => x \notin First(n)
    <3>1. \A i \in 1..n : i \in 1..Len(s) /\ i # n + 1
      BY <1>2, <2>1
    <3> QED BY <2>1, <2>2, <3>1 DEF Once
  <2> HIDE DEF First
  <2>6. CASE x \in G
    <3>1. g[n + 1] = Append(g[n], x)
      BY <2>3, <2>6
    <3>2. g[n] \in Seq(Fibers)
      BY <2>1
    <3>3. PICK q \in Seq(Fibers) : q = g[n]
      BY <3>2
    <3>4. /\ Append(q, x) \in Seq(Fibers)
          /\ ToSet(Append(q, x)) = ToSet(q) \cup {x}
          /\ Once(q) /\ x \notin ToSet(q) => Once(Append(q, x))
      BY AppendFacts
    <3>5. Good(n + 1)
      BY <2>1, <2>4, <2>5, <2>6, <3>1, <3>3, <3>4
    <3> QED BY <2>1, <3>5
  <2>7. CASE x \notin G
    <3>1. g[n + 1] = g[n]
      BY <2>3, <2>7
    <3>2. Good(n + 1)
      BY <2>1, <2>4, <2>7, <3>1
    <3> QED BY <2>1, <3>2
  <2> QED BY <2>6, <2>7
<1>5. Good(Len(s))
  <2>1. T \in SUBSET Nat /\ Len(s) \in 0..Len(s)
    BY <1>2
  <2>2. Len(s) \in T
    <3> HIDE DEF T
    <3> QED BY <1>2, <1>3, <1>4, <2>1, CountUp
  <2> QED BY <2>2
<1>6. First(Len(s)) = ToSet(s)
  BY <1>2 DEF ToSet
<1> QED BY <1>1, <1>5, <1>6

-------------------------------------------------------------------------------
(* What the steps that move fibers do to the lists                           *)

\* The fibers are numbered from one; there is one for every task.
LEMMA FibersAre ==
  /\ Cardinality(Tasks) \in Nat
  /\ Fibers \subseteq Nat
  /\ \A f \in Nat : f \in Fibers <=> 1 <= f /\ f <= Cardinality(Tasks)
<1>1. Cardinality(Tasks) \in Nat
  BY WorkerAssumption, FS_CardinalityType
<1> QED BY <1>1 DEF Fibers

\* unpark() of the fiber that became ready last: it was there, parked, once.
LEMMA UnparkEffect ==
  ASSUME Types, Places, Snapshots, Unpark
  PROVE  \E f \in Fibers :
           /\ f \in ToSet(ready) /\ f \notin ToSet(waiting) /\ fstate[f] = "parked"
           /\ ready' \in Seq(Fibers) /\ Once(ready') /\ Len(ready') = Len(ready) - 1
           /\ ToSet(ready) = ToSet(ready') \cup {f} /\ f \notin ToSet(ready')
           /\ fstate' = [fstate EXCEPT ![f] = "running"]
           /\ result' = [result EXCEPT ![f] = WaitResult(f)]
           /\ cur' = f /\ left' = left - 1 /\ left' \in Nat
           /\ progressed' = TRUE /\ tick' = tick /\ pc' = "runUnparked"
<1>1. /\ ready \in Seq(Fibers) /\ left \in Nat /\ left > 0 /\ left <= Len(ready) /\ Once(ready)
      /\ ready' = Front(ready) /\ pc' = "runUnparked" /\ pc = "unpark"
  BY DEF Types, Places, Snapshots, Unpark
<1>2. Len(ready) > 0
  BY <1>1
<1>3. /\ Last(ready) \in Fibers /\ Last(ready) \in ToSet(ready)
      /\ Front(ready) \in Seq(Fibers) /\ Len(Front(ready)) = Len(ready) - 1
      /\ ToSet(ready) = ToSet(Front(ready)) \cup {Last(ready)}
      /\ Once(Front(ready)) /\ Last(ready) \notin ToSet(Front(ready))
  BY <1>1, <1>2, PopFacts
<1>4. PICK f \in Fibers : f = Last(ready)
  BY <1>3
<1>5. f \notin ToSet(waiting) /\ fstate[f] = "parked"
  BY <1>3, <1>4 DEF Places, PlaceOf
<1>6. /\ fstate' = [fstate EXCEPT ![f] = "running"]
      /\ result' = [result EXCEPT ![f] = WaitResult(f)]
      /\ cur' = f /\ left' = left - 1 /\ progressed' = TRUE /\ tick' = tick
  BY <1>4 DEF Unpark, Drive
<1>7. left' \in Nat
  BY <1>1, <1>6
<1> QED BY <1>1, <1>3, <1>4, <1>5, <1>6, <1>7

\* The fibers in use carry tasks of their own, none of which is pending: while
\* there is a pending task and no idle fiber, not all fibers are created.
LEMMA RoomForFiber ==
  ASSUME Types, Places, Carried, idlePool = <<>>, NEW t \in Tasks, t \in ToSet(pending)
  PROVE  born + 1 \in Fibers
<1> DEFINE used == 1..born
           carry == [f \in used |-> ftask[f]]
<1>1. born \in Nat /\ born <= Cardinality(Tasks) /\ used \subseteq Fibers
  BY FibersAre DEF Types
<1>2. ToSet(idlePool) = {}
  BY DEF ToSet
<1>3. ASSUME NEW f \in used PROVE ftask[f] # NoTask /\ ftask[f] \in Tasks /\ ftask[f] # t
  <2>1. f \in Fibers /\ f <= born
    BY <1>1
  <2>2. fstate[f] # "idle"
    BY <1>2, <2>1 DEF Places, PlaceOf
  <2> QED BY <2>1, <2>2 DEF Carried, CarriedBy, Types
<1>4. \A f, g \in used : ftask[f] = ftask[g] => f = g
  BY <1>1, <1>3 DEF Carried, CarriedBy
<1>5. carry \in [used -> Tasks \ {t}]
  BY <1>3
<1>6. carry \in Injection(used, Tasks \ {t})
  BY <1>4, <1>5 DEF Injection, IsInjective
<1>7. IsFiniteSet(Tasks \ {t}) /\ Cardinality(Tasks \ {t}) = Cardinality(Tasks) - 1
  BY WorkerAssumption, FS_RemoveElement
<1>8. Cardinality(used) <= Cardinality(Tasks \ {t})
  BY <1>6, <1>7, FS_Injection
<1>9. Cardinality(used) = born
  <2>1. born \in Int /\ 1 \in Int
    BY <1>1
  <2>2. Cardinality(1..born) = IF 1 > born THEN 0 ELSE born - 1 + 1
    BY <2>1, FS_Interval
  <2> QED BY <1>1, <2>2
<1>10. born + 1 \in Nat /\ 1 <= born + 1 /\ born + 1 <= Cardinality(Tasks)
  BY <1>1, <1>7, <1>8, <1>9, FibersAre
<1> QED BY <1>10, FibersAre

\* start() of the pending task that came last, on an idle fiber or a new one.
LEMMA StartEffect ==
  ASSUME Types, Places, Carried, Snapshots, Start
  PROVE  \E f \in Fibers, t \in Tasks :
           /\ t \in ToSet(pending) /\ t \notin ToSet(pending')
           /\ pending' \in Seq(Tasks) /\ Once(pending') /\ Len(pending') = Len(pending) - 1
           /\ ToSet(pending) = ToSet(pending') \cup {t}
           /\ fstate[f] = "idle"
           /\ idlePool' \in Seq(Fibers) /\ Once(idlePool')
           /\ ToSet(idlePool') = ToSet(idlePool) \ {f}
           /\ born' \in 0..Cardinality(Tasks)
           /\ \A g \in Fibers : g <= born' <=> g <= born \/ g = f
           /\ fstate' = [fstate EXCEPT ![f] = "running"]
           /\ ftask' = [ftask EXCEPT ![f] = t]
           /\ cur' = f /\ left' = left - 1 /\ left' \in Nat
           /\ progressed' = TRUE /\ tick' = tick /\ pc' = "runStarted"
<1>1. /\ pending \in Seq(Tasks) /\ left \in Nat /\ left > 0 /\ left <= Len(pending)
      /\ Once(pending) /\ pending' = Front(pending) /\ pc' = "runStarted" /\ pc = "start"
      /\ born \in 0..Cardinality(Tasks) /\ idlePool \in Seq(Fibers) /\ Once(idlePool)
  BY DEF Types, Places, Carried, Snapshots, Start
<1>2. Len(pending) > 0
  BY <1>1
<1>3. /\ Last(pending) \in Tasks /\ Last(pending) \in ToSet(pending)
      /\ Front(pending) \in Seq(Tasks) /\ Len(Front(pending)) = Len(pending) - 1
      /\ ToSet(pending) = ToSet(Front(pending)) \cup {Last(pending)}
      /\ Once(Front(pending)) /\ Last(pending) \notin ToSet(Front(pending))
  BY <1>1, <1>2, PopFacts
<1>4. PICK t \in Tasks : t = Last(pending)
  BY <1>3
<1>5. \E f \in Fibers :
        /\ f = TakeIdleFiber /\ fstate[f] = "idle"
        /\ idlePool' \in Seq(Fibers) /\ Once(idlePool')
        /\ ToSet(idlePool') = ToSet(idlePool) \ {f}
        /\ born' \in 0..Cardinality(Tasks)
        /\ \A g \in Fibers : g <= born' <=> g <= born \/ g = f
  <2>1. CASE idlePool # <<>>
    <3>1. Len(idlePool) > 0
      BY <1>1, <2>1
    <3>2. /\ Last(idlePool) \in Fibers /\ Last(idlePool) \in ToSet(idlePool)
          /\ Front(idlePool) \in Seq(Fibers)
          /\ ToSet(idlePool) = ToSet(Front(idlePool)) \cup {Last(idlePool)}
          /\ Once(Front(idlePool)) /\ Last(idlePool) \notin ToSet(Front(idlePool))
      BY <1>1, <3>1, PopFacts
    <3>3. PICK f \in Fibers : f = Last(idlePool)
      BY <3>2
    <3>4. f = TakeIdleFiber /\ idlePool' = Front(idlePool) /\ born' = born
      BY <2>1, <3>3 DEF Start, TakeIdleFiber
    <3>5. fstate[f] = "idle" /\ f <= born
      BY <3>2, <3>3 DEF Places, PlaceOf
    <3>6. ToSet(idlePool') = ToSet(idlePool) \ {f}
      BY <3>2, <3>3, <3>4
    <3> QED BY <1>1, <3>2, <3>3, <3>4, <3>5, <3>6
  <2>2. CASE idlePool = <<>>
    <3>1. born + 1 \in Fibers
      BY <1>3, <2>2, RoomForFiber
    <3>2. PICK f \in Fibers : f = born + 1
      BY <3>1
    <3>3. f = TakeIdleFiber /\ idlePool' = idlePool /\ born' = born + 1
      BY <2>2, <3>2 DEF Start, TakeIdleFiber
    <3>4. /\ born \in Nat /\ born' \in 0..Cardinality(Tasks) /\ ~(f <= born)
          /\ \A g \in Fibers : g <= born' <=> g <= born \/ g = f
      BY <1>1, <3>2, <3>3, FibersAre
    <3>5. fstate[f] = "idle" /\ f \notin ToSet(idlePool)
      BY <3>4 DEF Places, PlaceOf
    <3> QED BY <1>1, <3>2, <3>3, <3>4, <3>5
  <2> QED BY <2>1, <2>2
<1>6. PICK f \in Fibers :
        /\ f = TakeIdleFiber /\ fstate[f] = "idle"
        /\ idlePool' \in Seq(Fibers) /\ Once(idlePool')
        /\ ToSet(idlePool') = ToSet(idlePool) \ {f}
        /\ born' \in 0..Cardinality(Tasks)
        /\ \A g \in Fibers : g <= born' <=> g <= born \/ g = f
  BY <1>5
<1>7. /\ fstate' = [fstate EXCEPT ![f] = "running"]
      /\ ftask' = [ftask EXCEPT ![f] = t]
      /\ cur' = f /\ left' = left - 1 /\ progressed' = TRUE /\ tick' = tick
  BY <1>4, <1>6 DEF Start, Drive
<1>8. left' \in Nat
  BY <1>1, <1>7
<1>9. /\ t \in ToSet(pending) /\ t \notin ToSet(pending')
      /\ pending' \in Seq(Tasks) /\ Once(pending') /\ Len(pending') = Len(pending) - 1
      /\ ToSet(pending) = ToSet(pending') \cup {t}
  BY <1>1, <1>3, <1>4
<1> QED BY <1>1, <1>6, <1>7, <1>8, <1>9

\* A sweep of __waiting moves the fibers of G behind the ready ones.
LEMMA SweepEffect ==
  ASSUME Types, Places, NEW G, ready' = ready \o Matching(G), waiting' = NotMatching(G)
  PROVE  /\ ready' \in Seq(Fibers) /\ waiting' \in Seq(Fibers)
         /\ Once(ready') /\ Once(waiting') /\ Matching(G) \in Seq(Fibers)
         /\ ToSet(Matching(G)) = ToSet(waiting) \cap G
         /\ ToSet(ready') = ToSet(ready) \cup (ToSet(waiting) \cap G)
         /\ ToSet(waiting') = ToSet(waiting) \ G
         /\ Matching(G) = <<>> => ready' = ready
<1>1. ready \in Seq(Fibers) /\ waiting \in Seq(Fibers) /\ Once(ready) /\ Once(waiting)
  BY DEF Types, Places
<1>2. ToSet(waiting) \subseteq Fibers /\ ToSet(ready) \subseteq Fibers
  BY <1>1 DEF ToSet
<1>3. /\ Matching(G) \in Seq(Fibers) /\ ToSet(Matching(G)) = ToSet(waiting) \cap G
      /\ Once(Matching(G))
  BY <1>1, SweepFacts DEF Matching
<1>4. /\ waiting' \in Seq(Fibers) /\ ToSet(waiting') = ToSet(waiting) \cap (Fibers \ G)
      /\ Once(waiting')
  BY <1>1, SweepFacts DEF NotMatching
<1>5. ToSet(ready) \cap ToSet(Matching(G)) = {}
  BY <1>2, <1>3 DEF Places, PlaceOf
<1>6. PICK m \in Seq(Fibers) : m = Matching(G)
  BY <1>3
<1>7. /\ ready \o m \in Seq(Fibers) /\ ToSet(ready \o m) = ToSet(ready) \cup ToSet(m)
      /\ Once(ready \o m)
  BY <1>1, <1>3, <1>5, <1>6, ConcatFacts
<1>8. m = <<>> => ready \o m = ready
  BY <1>1
<1> QED BY <1>2, <1>3, <1>4, <1>6, <1>7, <1>8

\* The running fiber is in none of the lists, and carries a task.
LEMMA RunningFiber ==
  ASSUME Types, Places, Carried, Running
  PROVE  /\ cur \in Fibers /\ fstate[cur] = "running" /\ cur <= born
         /\ cur \notin ToSet(ready) /\ cur \notin ToSet(waiting) /\ cur \notin ToSet(idlePool)
         /\ ftask[cur] \in Tasks /\ status[ftask[cur]] = "live" /\ ftask[cur] # NoTask
<1>1. cur \in Fibers
  BY DEF Types
<1>2. fstate[cur] = "running" /\ cur <= born
  BY <1>1 DEF Places, PlaceOf
<1>3. cur \notin ToSet(ready) /\ cur \notin ToSet(waiting) /\ cur \notin ToSet(idlePool)
  BY <1>1, <1>2 DEF Places, PlaceOf
<1>4. ftask[cur] # NoTask /\ status[ftask[cur]] = "live"
  BY <1>1, <1>2 DEF Carried, CarriedBy
<1>5. ftask[cur] \in Tasks
  BY <1>1, <1>4 DEF Types
<1> QED BY <1>1, <1>2, <1>3, <1>4, <1>5

-------------------------------------------------------------------------------
(* Types                                                                     *)

\* The threads outside the worker keep the types.
LEMMA TypesOutside == ASSUME Types, Carried, OutsideStep PROVE Types'
<1> USE DEF queueVars, fiberVars, tickVars, sharedVars, envVars
<1>1. ASSUME NEW t \in Tasks, ScheduleCount(t) PROVE Types'
  BY <1>1 DEF ScheduleCount, CountTask, Types, Running
<1>2. CASE ScheduleAppend
  <2>1. ext.task \in Tasks /\ pending \in Seq(Tasks)
    BY <1>2 DEF ScheduleAppend, Carried, Types
  <2>2. pending' \in Seq(Tasks)
    BY <1>2, <2>1 DEF ScheduleAppend
  <2>3. ext' \in [task : Tasks \cup {NoTask}, at : {"idle", "append", "poke"}]
    BY <1>2 DEF ScheduleAppend, Types
  <2>4. UNCHANGED <<ready, idlePool, waiting, fiberVars, tickVars, envVars,
                    wake, shutdown, live, job, closer, status>>
    BY <1>2, Zenon DEF ScheduleAppend
  <2> QED BY <2>2, <2>3, <2>4 DEF Types, Running
<1>3. CASE SchedulePoke
  <2>1. ext' \in [task : Tasks \cup {NoTask}, at : {"idle", "append", "poke"}]
    BY <1>3 DEF SchedulePoke
  <2>2. wake' \in BOOLEAN
    BY <1>3 DEF SchedulePoke, PokeWake
  <2> QED BY <1>3, <2>1, <2>2 DEF SchedulePoke, Types, Running
<1>4. CASE ShutdownStore \/ ShutdownPoke
  <2>1. wake' \in BOOLEAN /\ shutdown' \in BOOLEAN
    BY <1>4 DEF ShutdownStore, ShutdownPoke, PokeWake, Types
  <2>2. closer' \in {"idle", "poke", "done"}
    BY <1>4 DEF ShutdownStore, ShutdownPoke
  <2> QED BY <1>4, <2>1, <2>2 DEF ShutdownStore, ShutdownPoke, Types, Running
<1>5. ASSUME NEW h \in Handles, JobComplete(h) \/ JobPoke(h) PROVE Types'
  <2>1. wake' \in BOOLEAN
    BY <1>5 DEF JobComplete, JobPoke, PokeWake, Types
  <2>2. job' \in [Handles -> {"none", "running", "poke", "over"}]
    <3>1. job' = [job EXCEPT ![h] = "poke"] \/ job' = [job EXCEPT ![h] = "over"]
      BY <1>5, Zenon DEF JobComplete, JobPoke
    <3>2. job \in [Handles -> {"none", "running", "poke", "over"}]
      BY DEF Types
    <3> QED BY ONLY <3>1, <3>2
  <2>3. UNCHANGED <<queueVars, fiberVars, tickVars, envVars, shutdown, live, ext, closer, status>>
    BY <1>5 DEF JobComplete, JobPoke
  <2> QED BY <2>1, <2>2, <2>3 DEF Types, Running
<1>6. ASSUME NEW fd \in Fds, NEW k \in Interest, FdBecomesReady(fd, k) PROVE Types'
  <2>1. fdReady' \in [Fds -> SUBSET Interest]
    BY <1>6 DEF FdBecomesReady, Types
  <2> QED BY <1>6, <2>1 DEF FdBecomesReady, Types, Running
<1>7. ASSUME NEW f \in Fibers, DeadlinePasses(f) PROVE Types'
  BY <1>7 DEF DeadlinePasses, Types, Running
<1> QED BY <1>1, <1>2, <1>3, <1>4, <1>5, <1>6, <1>7 DEF OutsideStep

\* The running fiber's task keeps the types.
LEMMA TypesTask == ASSUME Types, Places, Carried, TaskStep PROVE Types'
<1> USE DEF queueVars, fiberVars, tickVars, sharedVars, envVars
<1>1. Running /\ cur \in Fibers /\ ftask[cur] \in Tasks /\ 0 \notin Fibers
  <2>1. Running
    BY DEF TaskStep, FiberFinishes, FiberParks, FiberSleeps, FiberRefused, FiberSchedules,
           FiberWaitsFd, FiberWaitsJob, MayWait
  <2> QED BY <2>1, RunningFiber, FibersAre
<1>2. /\ ready \in Seq(Fibers) /\ idlePool \in Seq(Fibers) /\ waiting \in Seq(Fibers)
      /\ Append(ready, cur) \in Seq(Fibers) /\ Append(idlePool, cur) \in Seq(Fibers)
      /\ Append(waiting, cur) \in Seq(Fibers)
  BY <1>1 DEF Types
<1>3. CASE FiberFinishes
  <2>1. live' \in Int /\ idlePool' \in Seq(Fibers) /\ pc' \in {"unpark", "start"} /\ cur' = 0
    BY <1>2, <1>3 DEF FiberFinishes, ReturnToLoop, Types
  <2>2. wait' \in [Fibers -> [signal : Signals \cup {NoSignal}, timedOut : BOOLEAN]]
    BY <1>1, <1>3 DEF FiberFinishes, Types
  <2>3. status' \in [Tasks -> {"new", "live", "finished"}]
    BY <1>1, <1>3 DEF FiberFinishes, Types
  <2>4. ~Running' /\ cur' \notin Fibers
    BY <1>1, <2>1 DEF Running
  <2> QED BY <1>1, <1>3, <2>1, <2>2, <2>3, <2>4 DEF FiberFinishes, ReturnToLoop, Types
<1>4. CASE FiberParks
  <2>1. ready' \in Seq(Fibers) /\ pc' \in {"unpark", "start"} /\ cur' = 0
    BY <1>2, <1>4 DEF FiberParks, ReturnToLoop, RequeueParked
  <2>2. wait' \in [Fibers -> [signal : Signals \cup {NoSignal}, timedOut : BOOLEAN]]
    BY <1>1, <1>4 DEF FiberParks, Types
  <2>4. ~Running' /\ cur' \notin Fibers
    BY <1>1, <2>1 DEF Running
  <2> QED BY <1>1, <1>4, <2>1, <2>2, <2>4 DEF FiberParks, ReturnToLoop, Types
<1>5. ASSUME NEW t \in Tasks, FiberSchedules(t) PROVE Types'
  <2>1. pending' \in Seq(Tasks)
    BY <1>5 DEF FiberSchedules, Types
  <2> QED BY <1>5, <2>1 DEF FiberSchedules, CountTask, PokeWake, Types, Running
<1>6. ASSUME NEW sig \in Signals, NEW dl \in {"none", "armed"}, MayWait, ParkWaiting(sig, dl),
             wake' = wake, shutdown' = shutdown, live' = live, ext' = ext, closer' = closer,
             status' = status, interest' \in [Fds -> SUBSET Interest],
             fdReady' \in [Fds -> SUBSET Interest],
             job' \in [Handles -> {"none", "running", "poke", "over"}]
      PROVE  Types'
  <2>1. waiting' \in Seq(Fibers) /\ ready' = ready /\ pc' \in {"unpark", "start"} /\ cur' = 0
    BY <1>2, <1>6 DEF ParkWaiting, ReturnToLoop, RequeueParked
  <2>2. wait' \in [Fibers -> [signal : Signals \cup {NoSignal}, timedOut : BOOLEAN]]
    BY <1>1, <1>6 DEF ParkWaiting, Types
  <2>3. waits' \in [Tasks -> 0..MaxWaits]
    <3>1. PICK t \in Tasks : t = ftask[cur]
      BY <1>1
    <3>2. waits[t] \in 0..MaxWaits /\ waits[t] < MaxWaits /\ MaxWaits \in Nat
      BY <1>6, <3>1, WorkerAssumption DEF MayWait, Types
    <3>3. waits[t] + 1 \in 0..MaxWaits
      BY <3>2
    <3>4. waits' = [waits EXCEPT ![t] = waits[t] + 1] /\ waits \in [Tasks -> 0..MaxWaits]
      BY <1>6, <3>1 DEF ParkWaiting, Types
    <3> QED BY <3>3, <3>4
  <2>4. ~Running' /\ cur' \notin Fibers
    BY <1>1, <2>1 DEF Running
  <2> QED BY <1>1, <1>6, <2>1, <2>2, <2>3, <2>4 DEF ParkWaiting, ReturnToLoop, Types
<1>7. ASSUME NEW fd \in Fds, NEW k \in Interest, NEW dl \in Deadlines, FiberWaitsFd(fd, k, dl)
      PROVE  Types'
  <2>1. <<fd, k>> \in Signals /\ dl \in {"none", "armed"}
    BY DEF Signals, Deadlines
  <2>2. interest' \in [Fds -> SUBSET Interest] /\ fdReady' \in [Fds -> SUBSET Interest]
    BY <1>7 DEF FiberWaitsFd, Register, Types
  <2> QED BY <1>6, <1>7, <2>1, <2>2 DEF FiberWaitsFd, Types
<1>8. ASSUME NEW h \in Handles, NEW dl \in Deadlines, FiberWaitsJob(h, dl) PROVE Types'
  <2>1. h \in Signals /\ dl \in {"none", "armed"}
    BY DEF Signals, Deadlines
  <2>2. job' \in [Handles -> {"none", "running", "poke", "over"}]
    BY <1>8 DEF FiberWaitsJob, Types
  <2>3. interest' \in [Fds -> SUBSET Interest] /\ fdReady' \in [Fds -> SUBSET Interest]
    BY <1>8 DEF FiberWaitsJob, Types
  <2>4. /\ MayWait /\ ParkWaiting(h, dl)
        /\ UNCHANGED <<wake, shutdown, live, ext, closer, status>>
    BY <1>8 DEF FiberWaitsJob
  <2> QED BY <1>6, <2>1, <2>2, <2>3, <2>4
<1>9. CASE FiberSleeps
  <2>1. Sleep \in Signals
    BY DEF Signals
  <2> QED BY <1>6, <1>9, <2>1 DEF FiberSleeps, Types
<1>10. CASE FiberRefused
  <2>1. PICK t \in Tasks : t = ftask[cur]
    BY <1>1
  <2>2. waits[t] \in 0..MaxWaits /\ waits[t] < MaxWaits /\ MaxWaits \in Nat
    BY <1>10, <2>1, WorkerAssumption DEF FiberRefused, Types
  <2>3. waits[t] + 1 \in 0..MaxWaits
    BY <2>2
  <2>4. waits' = [waits EXCEPT ![t] = waits[t] + 1] /\ waits \in [Tasks -> 0..MaxWaits]
    BY <1>10, <2>1 DEF FiberRefused, Types
  <2>5. waits' \in [Tasks -> 0..MaxWaits]
    BY <2>3, <2>4
  <2> QED BY <1>1, <1>10, <2>5 DEF FiberRefused, Types, Running
<1> QED BY <1>3, <1>4, <1>5, <1>7, <1>8, <1>9, <1>10 DEF TaskStep

\* The driving thread keeps the types: what it takes from a list is there.
LEMMA TypesDriver == ASSUME Types, Places, Carried, Snapshots, DriverStep PROVE Types'
<1> USE DEF queueVars, fiberVars, tickVars, sharedVars, envVars
<1>1. Len(ready) \in Nat /\ Len(pending) \in Nat /\ 0 \notin Fibers
  BY FibersAre DEF Types
<1>2. CASE DrainFully \/ Continue
  <2>1. NextTick \in {"zero", "recheck", "infinite"}
    BY DEF NextTick
  <2>2. /\ pc \in {"new", "decide"} /\ pc' = "unpark" /\ tick' \in {"zero", "recheck", "infinite"}
        /\ left' \in Nat /\ progressed' = FALSE /\ cur' = cur
    BY <1>1, <1>2, <2>1 DEF DrainFully, Continue, BeginTick
  <2>3. UNCHANGED <<queueVars, fiberVars, sharedVars, envVars>>
    BY <1>2 DEF DrainFully, Continue
  <2> QED BY <2>2, <2>3 DEF Types, Running
<1>3. CASE SnapshotPending \/ Exit \/ PollWake \/ PollTimeout
  <2>1. CASE SnapshotPending
    BY <1>1, <2>1 DEF SnapshotPending, Types, Running
  <2>2. CASE Exit
    BY <1>1, <2>2 DEF Exit, Types, Running
  <2>3. CASE PollWake
    BY <1>1, <2>3 DEF PollWake, Types, Running
  <2>4. CASE PollTimeout
    BY <1>1, <2>4 DEF PollTimeout, Types, Running
  <2> QED BY <1>3, <2>1, <2>2, <2>3, <2>4
<1>4. CASE Unpark
  <2>1. PICK f \in Fibers :
           /\ ready' \in Seq(Fibers) /\ fstate' = [fstate EXCEPT ![f] = "running"]
           /\ result' = [result EXCEPT ![f] = WaitResult(f)]
           /\ cur' = f /\ left' \in Nat
           /\ progressed' = TRUE /\ tick' = tick /\ pc' = "runUnparked"
    BY <1>4, UnparkEffect
  <2>2. WaitResult(f) \in {"none", "Ok", "TimedOut", "Shutdown"}
    BY DEF WaitResult
  <2>3. Running' /\ cur' \in Fibers /\ progressed' \in BOOLEAN
    BY <2>1 DEF Running
  <2>4. result' \in [Fibers -> {"none", "Ok", "TimedOut", "Shutdown"}]
    BY <2>1, <2>2 DEF Types
  <2> QED BY <1>4, <2>1, <2>3, <2>4 DEF Unpark, Types
<1>5. CASE Start
  <2>1. PICK f \in Fibers, t \in Tasks :
           /\ pending' \in Seq(Tasks) /\ idlePool' \in Seq(Fibers)
           /\ born' \in 0..Cardinality(Tasks)
           /\ fstate' = [fstate EXCEPT ![f] = "running"]
           /\ ftask' = [ftask EXCEPT ![f] = t]
           /\ cur' = f /\ left' \in Nat
           /\ progressed' = TRUE /\ tick' = tick /\ pc' = "runStarted"
    BY <1>5, StartEffect
  <2>2. Running' /\ cur' \in Fibers /\ progressed' \in BOOLEAN
    BY <2>1 DEF Running
  <2>3. ftask' \in [Fibers -> Tasks \cup {NoTask}]
    BY <2>1 DEF Types
  <2> QED BY <1>5, <2>1, <2>2, <2>3 DEF Start, Types
<1>6. ASSUME NEW S PROVE Unregistered(S) \in [Fds -> SUBSET Interest]
  BY DEF Unregistered, Types
<1>7. CASE DrainWaitingForShutdown
  <2>1. ready \o waiting \in Seq(Fibers)
    BY ConcatFacts DEF Types
  <2>3. ready' \in Seq(Fibers) /\ waiting' \in Seq(Fibers)
    <3>1. \/ ready' = ready \o waiting /\ waiting' = <<>>
          \/ ready' = ready /\ waiting' = waiting
      BY <1>7 DEF DrainWaitingForShutdown
    <3>2. <<>> \in Seq(Fibers) /\ ready \in Seq(Fibers) /\ waiting \in Seq(Fibers)
      BY DEF Types
    <3> QED BY <2>1, <3>1, <3>2, Zenon
  <2>4. progressed' \in BOOLEAN
    BY <1>7 DEF DrainWaitingForShutdown, Types
  <2>2. interest' \in [Fds -> SUBSET Interest]
    BY <1>6, <1>7 DEF DrainWaitingForShutdown, Types
  <2> QED BY <1>7, <2>2, <2>3, <2>4 DEF DrainWaitingForShutdown, Types, Running
<1>8. ASSUME NEW fd \in Fds, PollFd(fd) PROVE Types'
  <2>1. ready' \in Seq(Fibers) /\ waiting' \in Seq(Fibers)
    BY <1>8, SweepEffect DEF PollFd
  <2>2. interest' \in [Fds -> SUBSET Interest]
    BY <1>6, <1>8 DEF PollFd
  <2> QED BY <1>8, <2>1, <2>2 DEF PollFd, Types, Running
<1>9. CASE DrainExpiredWaits
  <2>1. ready' \in Seq(Fibers) /\ waiting' \in Seq(Fibers)
    BY <1>9, SweepEffect DEF DrainExpiredWaits
  <2>2. interest' \in [Fds -> SUBSET Interest]
    BY <1>6, <1>9 DEF DrainExpiredWaits
  <2>3. wait' \in [Fibers -> [signal : Signals \cup {NoSignal}, timedOut : BOOLEAN]]
    <3>1. PICK out \in SUBSET Fibers : wait' =
            [f \in Fibers |-> IF f \in out THEN [wait[f] EXCEPT !.timedOut = TRUE] ELSE wait[f]]
      <4> DEFINE out == {f \in Fibers : f \in ToSet(Matching({g \in Fibers : deadline[g] = "passed"}))}
      <4>1. wait' = [f \in Fibers |-> IF f \in out THEN [wait[f] EXCEPT !.timedOut = TRUE] ELSE wait[f]]
        BY <1>9 DEF DrainExpiredWaits
      <4>2. out \in SUBSET Fibers
        OBVIOUS
      <4> HIDE DEF out
      <4> QED BY <4>1, <4>2, Zenon
    <3>2. wait \in [Fibers -> [signal : Signals \cup {NoSignal}, timedOut : BOOLEAN]]
      BY DEF Types
    <3> QED BY ONLY <3>1, <3>2
  <2>4. progressed' \in BOOLEAN /\ pc = "expire" /\ pc' = "complete"
    BY <1>9 DEF DrainExpiredWaits
  <2>5. UNCHANGED <<pending, idlePool, sharedVars, fdReady, waits, tick, left, cur,
                    born, fstate, ftask, deadline, result>>
    BY <1>9, Zenon DEF DrainExpiredWaits
  <2> QED BY <2>1, <2>2, <2>3, <2>4, <2>5 DEF Types, Running
<1>10. CASE DrainCompletedWaits
  <2>1. ready' \in Seq(Fibers) /\ waiting' \in Seq(Fibers)
    BY <1>10, SweepEffect DEF DrainCompletedWaits
  <2> QED BY <1>10, <2>1 DEF DrainCompletedWaits, Types, Running
<1> QED BY <1>2, <1>3, <1>4, <1>5, <1>7, <1>8, <1>9, <1>10 DEF DriverStep

-------------------------------------------------------------------------------
(* Where the fibers are                                                      *)

\* A step that touches neither the lists nor the states of fibers.
LEMMA PlacesFrame ==
  Places /\ UNCHANGED <<ready, idlePool, waiting, fstate, born, cur>> => Places'
BY DEF Places, PlaceOf

\* A sweep takes fibers from __waiting to __ready_to_unpark; they stay parked.
LEMMA PlacesSweep ==
  ASSUME Types, Places, UNCHANGED <<idlePool, fstate, born, cur>>, Once(ready'), Once(waiting'),
         NEW G, ToSet(ready') = ToSet(ready) \cup (ToSet(waiting) \cap G),
         ToSet(waiting') = ToSet(waiting) \ G
  PROVE  Places'
<1>1. ASSUME NEW f \in Fibers PROVE PlaceOf(f)'
  <2>1. PlaceOf(f)
    BY DEF Places
  <2> QED BY <2>1 DEF PlaceOf
<1> QED BY <1>1 DEF Places

\* The driving thread: a fiber leaves its list when it is driven.
LEMMA PlacesDriver == ASSUME Types, Places, Carried, Snapshots, DriverStep PROVE Places'
<1> USE DEF queueVars, fiberVars, tickVars, sharedVars, envVars
<1>1. CASE DrainFully \/ SnapshotPending \/ PollWake \/ PollTimeout \/ Continue \/ Exit
  BY <1>1, PlacesFrame
     DEF DrainFully, SnapshotPending, PollWake, PollTimeout, Continue, Exit, BeginTick
<1>2. CASE Unpark
  <2>1. PICK f \in Fibers :
          /\ f \in ToSet(ready) /\ f \notin ToSet(waiting) /\ fstate[f] = "parked"
          /\ Once(ready') /\ ToSet(ready) = ToSet(ready') \cup {f} /\ f \notin ToSet(ready')
          /\ fstate' = [fstate EXCEPT ![f] = "running"] /\ cur' = f
    BY <1>2, UnparkEffect
  <2>2. UNCHANGED <<idlePool, waiting, born>> /\ cur \notin Fibers
    BY <1>2 DEF Unpark, Types, Running
  <2>3. ASSUME NEW g \in Fibers PROVE PlaceOf(g)'
    <3>1. PlaceOf(g)
      BY DEF Places
    <3>2. fstate'[g] = IF g = f THEN "running" ELSE fstate[g]
      BY <2>1 DEF Types
    <3> QED BY <2>1, <2>2, <3>1, <3>2 DEF PlaceOf
  <2> QED BY <2>1, <2>2, <2>3 DEF Places
<1>3. CASE Start
  <2>1. PICK f \in Fibers :
          /\ fstate[f] = "idle" /\ Once(idlePool')
          /\ ToSet(idlePool') = ToSet(idlePool) \ {f}
          /\ \A g \in Fibers : g <= born' <=> g <= born \/ g = f
          /\ fstate' = [fstate EXCEPT ![f] = "running"] /\ cur' = f
    BY <1>3, StartEffect
  <2>2. UNCHANGED <<ready, waiting>> /\ cur \notin Fibers
    BY <1>3 DEF Start, Types, Running
  <2>3. ASSUME NEW g \in Fibers PROVE PlaceOf(g)'
    <3>1. PlaceOf(g)
      BY DEF Places
    <3>2. fstate'[g] = IF g = f THEN "running" ELSE fstate[g]
      BY <2>1 DEF Types
    <3> QED BY <2>1, <2>2, <3>1, <3>2 DEF PlaceOf
  <2> QED BY <2>1, <2>2, <2>3 DEF Places
<1>4. CASE DrainWaitingForShutdown
  <2>1. CASE shutdown /\ waiting # <<>>
    <3>1. ready' = ready \o waiting /\ waiting' = <<>> /\ UNCHANGED <<idlePool, fstate, born, cur>>
      BY <1>4, <2>1 DEF DrainWaitingForShutdown
    <3>2. ready \in Seq(Fibers) /\ waiting \in Seq(Fibers) /\ Once(ready) /\ Once(waiting)
      BY DEF Types, Places
    <3>3. ToSet(ready) \cap ToSet(waiting) = {} /\ ToSet(waiting) \subseteq Fibers
      <4>1. ToSet(waiting) \subseteq Fibers
        BY <3>2 DEF ToSet
      <4> QED BY <4>1 DEF Places, PlaceOf
    <3>4. Once(ready \o waiting) /\ ToSet(ready \o waiting) = ToSet(ready) \cup ToSet(waiting)
      BY <3>2, <3>3, ConcatFacts
    <3>5. Once(waiting') /\ ToSet(waiting') = ToSet(waiting) \ Fibers
      BY <3>1, <3>3 DEF Once, ToSet
    <3>6. ToSet(ready') = ToSet(ready) \cup (ToSet(waiting) \cap Fibers)
      BY <3>1, <3>3, <3>4
    <3> QED BY <3>1, <3>4, <3>5, <3>6, PlacesSweep
  <2>2. CASE ~(shutdown /\ waiting # <<>>)
    BY <1>4, <2>2, PlacesFrame DEF DrainWaitingForShutdown
  <2> QED BY <2>1, <2>2
<1>5. ASSUME NEW G, ready' = ready \o Matching(G), waiting' = NotMatching(G),
             UNCHANGED <<idlePool, fstate, born, cur>>
      PROVE  Places'
  BY <1>5, SweepEffect, PlacesSweep
<1>6. ASSUME NEW fd \in Fds, PollFd(fd) PROVE Places'
  BY <1>5, <1>6 DEF PollFd
<1>7. CASE DrainExpiredWaits
  BY <1>5, <1>7 DEF DrainExpiredWaits
<1>8. CASE DrainCompletedWaits
  BY <1>5, <1>8 DEF DrainCompletedWaits
<1> QED BY <1>1, <1>2, <1>3, <1>4, <1>6, <1>7, <1>8 DEF DriverStep

\* The running fiber goes back to the one list its new state belongs to.
LEMMA PlacesTask == ASSUME Types, Places, Carried, TaskStep PROVE Places'
<1> USE DEF queueVars, fiberVars, tickVars, sharedVars, envVars
<1>1. Running
  BY DEF TaskStep, FiberFinishes, FiberParks, FiberSleeps, FiberRefused, FiberSchedules,
         FiberWaitsFd, FiberWaitsJob, MayWait
<1>2. PICK c \in Fibers : c = cur
  BY <1>1, RunningFiber
<1>3. /\ fstate[c] = "running" /\ c <= born /\ 0 \notin Fibers
      /\ c \notin ToSet(ready) /\ c \notin ToSet(waiting) /\ c \notin ToSet(idlePool)
  BY <1>1, <1>2, RunningFiber, FibersAre
<1>4. /\ ready \in Seq(Fibers) /\ waiting \in Seq(Fibers) /\ idlePool \in Seq(Fibers)
      /\ Once(ready) /\ Once(waiting) /\ Once(idlePool)
  BY DEF Types, Places
<1>5. CASE FiberFinishes
  <2>1. /\ fstate' = [fstate EXCEPT ![c] = "idle"] /\ idlePool' = Append(idlePool, c)
        /\ cur' = 0 /\ UNCHANGED <<ready, waiting, born>>
    BY <1>2, <1>5 DEF FiberFinishes, ReturnToLoop
  <2>2. Once(idlePool') /\ ToSet(idlePool') = ToSet(idlePool) \cup {c}
    BY <1>3, <1>4, <2>1, AppendFacts
  <2>3. ASSUME NEW g \in Fibers PROVE PlaceOf(g)'
    <3>1. PlaceOf(g)
      BY DEF Places
    <3>2. fstate'[g] = IF g = c THEN "idle" ELSE fstate[g]
      BY <2>1 DEF Types
    <3> QED BY <1>2, <1>3, <2>1, <2>2, <3>1, <3>2 DEF PlaceOf
  <2> QED BY <1>4, <2>1, <2>2, <2>3 DEF Places
<1>6. CASE FiberParks
  <2>1. /\ fstate' = [fstate EXCEPT ![c] = "parked"] /\ ready' = Append(ready, c)
        /\ cur' = 0 /\ UNCHANGED <<idlePool, waiting, born>>
    BY <1>2, <1>6 DEF FiberParks, RequeueParked, ReturnToLoop
  <2>2. Once(ready') /\ ToSet(ready') = ToSet(ready) \cup {c}
    BY <1>3, <1>4, <2>1, AppendFacts
  <2>3. ASSUME NEW g \in Fibers PROVE PlaceOf(g)'
    <3>1. PlaceOf(g)
      BY DEF Places
    <3>2. fstate'[g] = IF g = c THEN "parked" ELSE fstate[g]
      BY <2>1 DEF Types
    <3> QED BY <1>2, <1>3, <2>1, <2>2, <3>1, <3>2 DEF PlaceOf
  <2> QED BY <1>4, <2>1, <2>2, <2>3 DEF Places
<1>7. ASSUME NEW sig, NEW dl, ParkWaiting(sig, dl) PROVE Places'
  <2>1. /\ fstate' = [fstate EXCEPT ![c] = "parked"] /\ waiting' = Append(waiting, c)
        /\ cur' = 0 /\ UNCHANGED <<idlePool, ready, born>>
    BY <1>2, <1>7 DEF ParkWaiting, RequeueParked, ReturnToLoop
  <2>2. Once(waiting') /\ ToSet(waiting') = ToSet(waiting) \cup {c}
    BY <1>3, <1>4, <2>1, AppendFacts
  <2>3. ASSUME NEW g \in Fibers PROVE PlaceOf(g)'
    <3>1. PlaceOf(g)
      BY DEF Places
    <3>2. fstate'[g] = IF g = c THEN "parked" ELSE fstate[g]
      BY <2>1 DEF Types
    <3> QED BY <1>2, <1>3, <2>1, <2>2, <3>1, <3>2 DEF PlaceOf
  <2> QED BY <1>4, <2>1, <2>2, <2>3 DEF Places
<1>8. CASE FiberSleeps
  BY <1>7, <1>8 DEF FiberSleeps
<1>9. ASSUME NEW fd, NEW k, NEW dl, FiberWaitsFd(fd, k, dl) PROVE Places'
  BY <1>7, <1>9 DEF FiberWaitsFd
<1>10. ASSUME NEW h, NEW dl, FiberWaitsJob(h, dl) PROVE Places'
  BY <1>7, <1>10 DEF FiberWaitsJob
<1>11. ASSUME NEW t \in Tasks, FiberSchedules(t) PROVE Places'
  BY <1>11, PlacesFrame DEF FiberSchedules
<1>12. CASE FiberRefused
  BY <1>12, PlacesFrame DEF FiberRefused
<1> QED BY <1>5, <1>6, <1>8, <1>9, <1>10, <1>11, <1>12 DEF TaskStep

\* The threads outside leave the fibers alone.
LEMMA PlacesOutside == ASSUME Places, OutsideStep PROVE Places'
<1>1. UNCHANGED <<ready, idlePool, waiting, fstate, born, cur>>
  BY DEF OutsideStep, ScheduleCount, ScheduleAppend, SchedulePoke, ShutdownStore, ShutdownPoke,
         JobComplete, JobPoke, FdBecomesReady, DeadlinePasses,
         queueVars, fiberVars, tickVars
<1> QED BY <1>1, PlacesFrame

-------------------------------------------------------------------------------
(* Who has a task, and how many are live                                     *)

\* A step that does not change who has a task.
LEMMA CarriedFrame ==
  ASSUME Carried, UNCHANGED <<pending, ftask, status, ext>>,
         \A f \in Fibers : fstate'[f] = "idle" <=> fstate[f] = "idle"
  PROVE  Carried'
<1>1. ASSUME NEW f \in Fibers PROVE CarriedBy(f)'
  BY DEF Carried, CarriedBy
<1> QED BY <1>1 DEF Carried

\* schedule() counts a task that nobody has.
LEMMA CarriedCount ==
  ASSUME Types, Carried, NEW t \in Tasks, status[t] = "new", CountTask(t)
  PROVE  /\ \A u \in Tasks : status[u] = "live" => status'[u] = "live"
         /\ status'[t] = "live" /\ t \notin ToSet(pending)
         /\ \A f \in Fibers : ftask[f] # t
         /\ ext.at = "append" => ext.task # t
<1>1. /\ \A u \in Tasks : status[u] = "live" => status'[u] = "live"
      /\ status'[t] = "live"
  BY DEF CountTask, Types
<1>2. t \notin ToSet(pending)
  BY DEF Carried
<1>3. \A f \in Fibers : ftask[f] # t
  BY WorkerAssumption DEF Carried, CarriedBy
<1>4. ext.at = "append" => ext.task # t
  BY DEF Carried
<1> QED BY <1>1, <1>2, <1>3, <1>4

\* The threads outside: the three steps of schedule().
LEMMA CarriedOutside == ASSUME Types, Carried, OutsideStep PROVE Carried'
<1> USE DEF queueVars, fiberVars, tickVars, sharedVars, envVars
<1>1. ASSUME NEW t \in Tasks, ScheduleCount(t) PROVE Carried'
  <2>1. /\ status[t] = "new" /\ CountTask(t) /\ ext' = [task |-> t, at |-> "append"]
        /\ UNCHANGED <<pending, ftask, fstate>>
    BY <1>1 DEF ScheduleCount
  <2>2. /\ \A u \in Tasks : status[u] = "live" => status'[u] = "live"
        /\ status'[t] = "live" /\ t \notin ToSet(pending) /\ \A f \in Fibers : ftask[f] # t
    BY <2>1, CarriedCount
  <2>3. ASSUME NEW f \in Fibers PROVE CarriedBy(f)'
    <3>1. CarriedBy(f) /\ ftask[f] \in Tasks \cup {NoTask}
      BY DEF Carried, Types
    <3> QED BY <2>1, <2>2, <3>1 DEF CarriedBy
  <2>4. \A u \in ToSet(pending) : u \in Tasks /\ status'[u] = "live"
    BY <2>2 DEF Carried
  <2>5. ext'.at = "append" /\ ext'.task = t
    BY <2>1
  <2> QED BY <2>1, <2>2, <2>3, <2>4, <2>5 DEF Carried
<1>2. CASE ScheduleAppend
  <2>1. /\ pending' = Append(pending, ext.task) /\ UNCHANGED <<status, ftask, fstate>>
        /\ ext' = [ext EXCEPT !.at = "poke"]
        /\ ext.task \in Tasks /\ status[ext.task] = "live"
        /\ ext.task \notin ToSet(pending) /\ \A f \in Fibers : ftask[f] # ext.task
        /\ pending \in Seq(Tasks) /\ Once(pending)
    BY <1>2 DEF ScheduleAppend, Carried, Types
  <2>2. Once(pending') /\ ToSet(pending') = ToSet(pending) \cup {ext.task}
    BY <2>1, AppendFacts
  <2>3. ASSUME NEW f \in Fibers PROVE CarriedBy(f)'
    <3>1. CarriedBy(f)
      BY DEF Carried
    <3> QED BY <2>1, <2>2, <3>1 DEF CarriedBy
  <2>4. ext'.at = "poke"
    BY <2>1 DEF Types
  <2> QED BY <2>1, <2>2, <2>3, <2>4 DEF Carried
<1>3. CASE SchedulePoke
  <2>1. UNCHANGED <<pending, ftask, fstate, status>> /\ ext'.at = "idle"
    BY <1>3 DEF SchedulePoke
  <2>2. ASSUME NEW f \in Fibers PROVE CarriedBy(f)'
    BY <2>1 DEF Carried, CarriedBy
  <2> QED BY <2>1, <2>2 DEF Carried
<1>4. CASE \/ ShutdownStore \/ ShutdownPoke
           \/ \E h \in Handles : JobComplete(h) \/ JobPoke(h)
           \/ \E fd \in Fds, k \in Interest : FdBecomesReady(fd, k)
           \/ \E f \in Fibers : DeadlinePasses(f)
  BY <1>4, CarriedFrame
     DEF ShutdownStore, ShutdownPoke, JobComplete, JobPoke, FdBecomesReady, DeadlinePasses
<1> QED BY <1>1, <1>2, <1>3, <1>4 DEF OutsideStep

\* The running fiber's task: schedule() in one go, and the end of the task.
LEMMA CarriedTask == ASSUME Types, Places, Carried, TaskStep PROVE Carried'
<1> USE DEF queueVars, fiberVars, tickVars, sharedVars, envVars
<1>1. Running
  BY DEF TaskStep, FiberFinishes, FiberParks, FiberSleeps, FiberRefused, FiberSchedules,
         FiberWaitsFd, FiberWaitsJob, MayWait
<1>2. PICK c \in Fibers, t \in Tasks : c = cur /\ t = ftask[c]
  BY <1>1, RunningFiber
<1>3. fstate[c] = "running" /\ CarriedBy(c) /\ t # NoTask
  BY <1>1, <1>2, RunningFiber, WorkerAssumption DEF Carried
<1>4. CASE FiberFinishes
  <2>1. /\ fstate' = [fstate EXCEPT ![c] = "idle"] /\ ftask' = [ftask EXCEPT ![c] = NoTask]
        /\ status' = [status EXCEPT ![t] = "finished"] /\ UNCHANGED <<pending, ext>>
    BY <1>2, <1>4 DEF FiberFinishes
  <2>2. /\ t \notin ToSet(pending) /\ \A g \in Fibers : ftask[g] = t => g = c
        /\ ext.at = "append" => ext.task # t
    BY <1>2, <1>3 DEF CarriedBy, Carried
  <2>3. \A u \in Tasks : u # t => status'[u] = status[u]
    BY <2>1 DEF Types
  <2>4. \A g \in Fibers : /\ fstate'[g] = IF g = c THEN "idle" ELSE fstate[g]
                          /\ ftask'[g] = IF g = c THEN NoTask ELSE ftask[g]
    BY <2>1 DEF Types
  <2>5. ASSUME NEW g \in Fibers PROVE CarriedBy(g)'
    <3>1. CarriedBy(g) /\ ftask[g] \in Tasks \cup {NoTask}
      BY DEF Carried, Types
    <3>2. CASE g = c
      BY <2>4, <3>2 DEF CarriedBy
    <3>3. CASE g # c
      <4>1. ftask'[g] = ftask[g] /\ fstate'[g] = fstate[g] /\ ftask[g] # t
        BY <2>2, <2>4, <3>3
      <4> QED BY <2>1, <2>3, <2>4, <3>1, <4>1 DEF CarriedBy
    <3> QED BY <3>2, <3>3
  <2>6. \A u \in ToSet(pending) : u \in Tasks /\ status'[u] = "live"
    BY <2>2, <2>3 DEF Carried
  <2>7. ext.at = "append" => /\ ext.task \in Tasks /\ status'[ext.task] = "live"
                             /\ \A g \in Fibers : ftask'[g] # ext.task
    <3>1. SUFFICES ASSUME ext.at = "append" PROVE /\ ext.task \in Tasks
                                                  /\ status'[ext.task] = "live"
                                                  /\ \A g \in Fibers : ftask'[g] # ext.task
      OBVIOUS
    <3>2. /\ ext.task \in Tasks /\ ext.task # t /\ status[ext.task] = "live"
          /\ \A g \in Fibers : ftask[g] # ext.task
      BY <2>2, <3>1 DEF Carried
    <3>3. ext.task # NoTask
      BY <3>2, WorkerAssumption
    <3> QED BY <2>3, <2>4, <3>2, <3>3
  <2> QED BY <2>1, <2>5, <2>6, <2>7 DEF Carried
<1>5. ASSUME NEW u \in Tasks, FiberSchedules(u) PROVE Carried'
  <2>1. /\ status[u] = "new" /\ CountTask(u) /\ pending' = Append(pending, u)
        /\ UNCHANGED <<ext, ftask, fstate>> /\ pending \in Seq(Tasks) /\ Once(pending)
    BY <1>5 DEF FiberSchedules, Types, Carried
  <2>2. /\ \A v \in Tasks : status[v] = "live" => status'[v] = "live"
        /\ status'[u] = "live" /\ u \notin ToSet(pending) /\ \A f \in Fibers : ftask[f] # u
        /\ ext.at = "append" => ext.task # u
    BY <2>1, CarriedCount
  <2>3. Once(pending') /\ ToSet(pending') = ToSet(pending) \cup {u}
    BY <2>1, <2>2, AppendFacts
  <2>4. ASSUME NEW f \in Fibers PROVE CarriedBy(f)'
    <3>1. CarriedBy(f) /\ ftask[f] \in Tasks \cup {NoTask}
      BY DEF Carried, Types
    <3> QED BY <2>1, <2>2, <2>3, <3>1 DEF CarriedBy
  <2>5. \A v \in ToSet(pending') : v \in Tasks /\ status'[v] = "live"
    BY <2>2, <2>3 DEF Carried
  <2>6. ext.at = "append" => /\ ext.task \in Tasks /\ status'[ext.task] = "live"
                             /\ ext.task \notin ToSet(pending')
                             /\ \A f \in Fibers : ftask[f] # ext.task
    BY <2>2, <2>3 DEF Carried
  <2> QED BY <2>1, <2>3, <2>4, <2>5, <2>6 DEF Carried
<1>6. ASSUME UNCHANGED <<pending, ftask, status, ext>>, fstate' = [fstate EXCEPT ![c] = "parked"]
      PROVE  Carried'
  <2>1. \A f \in Fibers : fstate'[f] = "idle" <=> fstate[f] = "idle"
    BY <1>3, <1>6 DEF Types
  <2> QED BY <1>6, <2>1, CarriedFrame
<1>7. CASE FiberParks
  BY <1>2, <1>6, <1>7 DEF FiberParks
<1>8. CASE FiberSleeps
  BY <1>2, <1>6, <1>8 DEF FiberSleeps, ParkWaiting
<1>9. ASSUME NEW fd, NEW k, NEW dl, FiberWaitsFd(fd, k, dl) PROVE Carried'
  BY <1>2, <1>6, <1>9 DEF FiberWaitsFd, ParkWaiting
<1>10. ASSUME NEW h, NEW dl, FiberWaitsJob(h, dl) PROVE Carried'
  BY <1>2, <1>6, <1>10 DEF FiberWaitsJob, ParkWaiting
<1>11. CASE FiberRefused
  BY <1>11, CarriedFrame DEF FiberRefused
<1> QED BY <1>4, <1>5, <1>7, <1>8, <1>9, <1>10, <1>11 DEF TaskStep

\* The driving thread moves the task it starts from the list to a fiber.
LEMMA CarriedDriver == ASSUME Types, Places, Carried, Snapshots, DriverStep PROVE Carried'
<1> USE DEF queueVars, fiberVars, tickVars, sharedVars, envVars
<1>1. CASE Unpark
  <2>1. PICK f \in Fibers : fstate[f] = "parked" /\ fstate' = [fstate EXCEPT ![f] = "running"]
    BY <1>1, UnparkEffect
  <2>2. \A g \in Fibers : fstate'[g] = "idle" <=> fstate[g] = "idle"
    BY <2>1 DEF Types
  <2> QED BY <1>1, <2>2, CarriedFrame DEF Unpark
<1>2. CASE Start
  <2>1. PICK f \in Fibers, t \in Tasks :
          /\ t \in ToSet(pending) /\ t \notin ToSet(pending') /\ Once(pending')
          /\ ToSet(pending) = ToSet(pending') \cup {t} /\ fstate[f] = "idle"
          /\ fstate' = [fstate EXCEPT ![f] = "running"] /\ ftask' = [ftask EXCEPT ![f] = t]
    BY <1>2, StartEffect
  <2>2. UNCHANGED <<status, ext>> /\ t # NoTask
    BY <1>2, WorkerAssumption DEF Start
  <2>3. \A g \in Fibers : /\ fstate'[g] = IF g = f THEN "running" ELSE fstate[g]
                          /\ ftask'[g] = IF g = f THEN t ELSE ftask[g]
    BY <2>1 DEF Types
  <2>4. status[t] = "live" /\ (\A g \in Fibers : ftask[g] # t)
    BY <2>1, <2>2 DEF Carried, CarriedBy
  <2>5. ASSUME NEW g \in Fibers PROVE CarriedBy(g)'
    <3>1. CarriedBy(g)
      BY DEF Carried
    <3>2. CASE g = f
      <4>1. ftask'[g] = t /\ fstate'[g] = "running"
        BY <2>3, <3>2
      <4>2. \A h \in Fibers : ftask'[h] = t => h = g
        BY <2>3, <2>4, <3>2
      <4> QED BY <2>1, <2>2, <2>4, <4>1, <4>2 DEF CarriedBy
    <3>3. CASE g # f
      <4>1. ftask'[g] = ftask[g] /\ fstate'[g] = fstate[g] /\ ftask[g] # t
        BY <2>3, <2>4, <3>3
      <4>2. ftask[g] # NoTask => \A h \in Fibers : ftask'[h] = ftask[g] => h = g
        BY <2>3, <3>1, <4>1 DEF CarriedBy
      <4> QED BY <2>1, <2>2, <3>1, <4>1, <4>2 DEF CarriedBy
    <3> QED BY <3>2, <3>3
  <2>6. ext.at = "append" => /\ ext.task \in Tasks /\ status[ext.task] = "live"
                             /\ ext.task \notin ToSet(pending')
                             /\ \A g \in Fibers : ftask'[g] # ext.task
    BY <2>1, <2>3 DEF Carried
  <2> QED BY <2>1, <2>2, <2>5, <2>6 DEF Carried
<1>3. CASE \/ DrainFully \/ SnapshotPending \/ PollWake \/ PollTimeout \/ Continue \/ Exit
           \/ DrainWaitingForShutdown \/ DrainExpiredWaits \/ DrainCompletedWaits
           \/ \E fd \in Fds : PollFd(fd)
  BY <1>3, CarriedFrame
     DEF DrainFully, SnapshotPending, PollWake, PollTimeout, Continue, Exit,
         DrainWaitingForShutdown, DrainExpiredWaits, DrainCompletedWaits, PollFd
<1> QED BY <1>1, <1>2, <1>3 DEF DriverStep

\* fetch_add and fetch_sub follow the status of exactly one task.
LEMMA CountedStep == ASSUME Types, Places, Carried, Counted, Next PROVE Counted'
<1> USE DEF queueVars, fiberVars, tickVars, sharedVars, envVars
<1> DEFINE alive == {t \in Tasks : status[t] = "live"}
<1>1. IsFiniteSet(alive) /\ Cardinality(alive) \in Nat /\ live = Cardinality(alive)
  <2>1. IsFiniteSet(alive)
    BY WorkerAssumption, FS_Subset
  <2>2. Cardinality(alive) \in Nat
    BY <2>1, FS_CardinalityType
  <2> QED BY <2>1, <2>2 DEF Counted
<1>2. ASSUME UNCHANGED <<live, status>> PROVE Counted'
  BY <1>2 DEF Counted
<1>3. ASSUME NEW t \in Tasks, status[t] = "new", CountTask(t) PROVE Counted'
  <2>1. alive' = alive \cup {t} /\ t \notin alive /\ live' = live + 1
    BY <1>3 DEF CountTask, Types
  <2>2. Cardinality(alive \cup {t}) = Cardinality(alive) + 1
    BY <1>1, <2>1, FS_AddElement
  <2> QED BY <1>1, <2>1, <2>2 DEF Counted
<1>4. CASE FiberFinishes
  <2>1. PICK t \in Tasks : t = ftask[cur] /\ status[t] = "live"
    BY <1>4, RunningFiber DEF FiberFinishes
  <2>2. alive' = alive \ {t} /\ t \in alive /\ live' = live - 1
    BY <1>4, <2>1 DEF FiberFinishes, Types
  <2>3. Cardinality(alive \ {t}) = Cardinality(alive) - 1
    BY <1>1, <2>2, FS_RemoveElement
  <2> QED BY <1>1, <2>2, <2>3 DEF Counted
<1>5. CASE DriverStep
  <2>1. UNCHANGED <<live, status>>
    BY <1>5 DEF DriverStep, DrainFully, Unpark, SnapshotPending, Start, DrainWaitingForShutdown,
                PollWake, PollTimeout, PollFd, DrainExpiredWaits, DrainCompletedWaits,
                Continue, Exit
  <2> QED BY <1>2, <2>1
<1>6. CASE TaskStep
  <2>1. ASSUME NEW t \in Tasks, FiberSchedules(t) PROVE Counted'
    BY <1>3, <2>1 DEF FiberSchedules
  <2>2. CASE \/ FiberParks \/ FiberSleeps \/ FiberRefused
             \/ \E fd \in Fds, k \in Interest, dl \in Deadlines : FiberWaitsFd(fd, k, dl)
             \/ \E h \in Handles, dl \in Deadlines : FiberWaitsJob(h, dl)
    <3>1. UNCHANGED <<live, status>>
      BY <2>2 DEF FiberParks, FiberSleeps, FiberRefused, FiberWaitsFd, FiberWaitsJob
    <3> QED BY <1>2, <3>1
  <2> QED BY <1>4, <1>6, <2>1, <2>2 DEF TaskStep
<1>7. CASE OutsideStep
  <2>1. ASSUME NEW t \in Tasks, ScheduleCount(t) PROVE Counted'
    BY <1>3, <2>1 DEF ScheduleCount
  <2>2. CASE \/ ScheduleAppend \/ SchedulePoke \/ ShutdownStore \/ ShutdownPoke
             \/ \E h \in Handles : JobComplete(h) \/ JobPoke(h)
             \/ \E fd \in Fds, k \in Interest : FdBecomesReady(fd, k)
             \/ \E f \in Fibers : DeadlinePasses(f)
    <3>1. UNCHANGED <<live, status>>
      BY <2>2 DEF ScheduleAppend, SchedulePoke, ShutdownStore, ShutdownPoke, JobComplete,
                  JobPoke, FdBecomesReady, DeadlinePasses
    <3> QED BY <1>2, <3>1
  <2> QED BY <1>7, <2>1, <2>2 DEF OutsideStep
<1> QED BY <1>5, <1>6, <1>7 DEF Next

-------------------------------------------------------------------------------
(* The tick: snapshots and progress                                          *)

\* The lists only shrink by the items the loops take out of their snapshots.
LEMMA SnapshotsStep == ASSUME Types, Places, Carried, Snapshots, Next PROVE Snapshots'
<1> USE DEF queueVars, fiberVars, tickVars, sharedVars, envVars
<1>1. Len(ready) \in Nat /\ Len(pending) \in Nat /\ left \in Nat
  BY DEF Types
<1>2. ASSUME UNCHANGED <<pc, left, ready>>, Len(pending') \in Nat, Len(pending) <= Len(pending')
      PROVE  Snapshots'
  BY <1>1, <1>2 DEF Snapshots
<1>3. CASE DriverStep
  <2>1. CASE DrainFully \/ Continue
    BY <1>1, <2>1 DEF DrainFully, Continue, BeginTick, Snapshots
  <2>2. CASE Unpark
    <3>1. Len(ready') = Len(ready) - 1 /\ left' = left - 1 /\ pc' = "runUnparked"
      BY <2>2, UnparkEffect
    <3>2. left <= Len(ready)
      BY <2>2 DEF Unpark, Snapshots
    <3> QED BY <1>1, <3>1, <3>2 DEF Snapshots
  <2>3. CASE SnapshotPending
    BY <1>1, <2>3 DEF SnapshotPending, Snapshots
  <2>4. CASE Start
    <3>1. Len(pending') = Len(pending) - 1 /\ left' = left - 1 /\ pc' = "runStarted"
      BY <2>4, StartEffect
    <3>2. left <= Len(pending)
      BY <2>4 DEF Start, Snapshots
    <3> QED BY <1>1, <3>1, <3>2 DEF Snapshots
  <2>5. CASE \/ DrainWaitingForShutdown \/ PollWake \/ PollTimeout \/ DrainExpiredWaits
             \/ DrainCompletedWaits \/ Exit \/ \E fd \in Fds : PollFd(fd)
    <3>1. pc' \in {"poll", "expire", "complete", "decide", "exited"}
      BY <2>5 DEF DrainWaitingForShutdown, PollWake, PollTimeout, DrainExpiredWaits,
                  DrainCompletedWaits, Exit, PollFd
    <3> QED BY <3>1 DEF Snapshots
  <2> QED BY <1>3, <2>1, <2>2, <2>3, <2>4, <2>5 DEF DriverStep
<1>4. CASE TaskStep
  <2>1. ASSUME ReturnToLoop, Running, pending' = pending,
               Len(ready') \in Nat, Len(ready) <= Len(ready')
        PROVE  Snapshots'
    BY <1>1, <2>1 DEF ReturnToLoop, Running, Snapshots
  <2>2. CASE FiberFinishes
    BY <1>1, <2>1, <2>2 DEF FiberFinishes
  <2>3. CASE FiberParks
    <3>1. Running /\ ready' = Append(ready, cur) /\ ReturnToLoop /\ pending' = pending
      BY <2>3 DEF FiberParks, RequeueParked
    <3>2. Len(ready') = Len(ready) + 1
      BY <3>1, AppendFacts, RunningFiber DEF Types
    <3> QED BY <1>1, <2>1, <3>1, <3>2
  <2>4. ASSUME NEW sig, NEW dl, ParkWaiting(sig, dl), Running PROVE Snapshots'
    BY <1>1, <2>1, <2>4 DEF ParkWaiting, RequeueParked
  <2>5. CASE FiberSleeps
    BY <2>4, <2>5 DEF FiberSleeps, MayWait
  <2>6. ASSUME NEW fd, NEW k, NEW dl, FiberWaitsFd(fd, k, dl) PROVE Snapshots'
    BY <2>4, <2>6 DEF FiberWaitsFd, MayWait
  <2>7. ASSUME NEW h, NEW dl, FiberWaitsJob(h, dl) PROVE Snapshots'
    BY <2>4, <2>7 DEF FiberWaitsJob, MayWait
  <2>8. ASSUME NEW t \in Tasks, FiberSchedules(t) PROVE Snapshots'
    <3>1. Len(pending') = Len(pending) + 1
      BY <2>8, AppendFacts DEF FiberSchedules, Types
    <3> QED BY <1>1, <1>2, <2>8, <3>1 DEF FiberSchedules
  <2>9. CASE FiberRefused
    BY <1>1, <1>2, <2>9 DEF FiberRefused
  <2> QED BY <1>4, <2>2, <2>3, <2>5, <2>6, <2>7, <2>8, <2>9 DEF TaskStep
<1>5. CASE OutsideStep
  <2>1. CASE ScheduleAppend
    <3>1. Len(pending') = Len(pending) + 1
      BY <2>1, AppendFacts DEF ScheduleAppend, Types, Carried
    <3> QED BY <1>1, <1>2, <2>1, <3>1 DEF ScheduleAppend
  <2>2. CASE ~ScheduleAppend
    <3>1. UNCHANGED <<pc, left, ready, pending>>
      BY <1>5, <2>2 DEF OutsideStep, ScheduleCount, SchedulePoke, ShutdownStore, ShutdownPoke,
                        JobComplete, JobPoke, FdBecomesReady, DeadlinePasses
    <3> QED BY <1>1, <1>2, <3>1
  <2> QED BY <2>1, <2>2
<1> QED BY <1>3, <1>4, <1>5 DEF Next

\* Whatever makes a fiber ready or drives one reports progress.
LEMMA QuietStep == ASSUME Types, Places, Carried, Snapshots, Quiet, Next PROVE Quiet'
<1> USE DEF queueVars, fiberVars, tickVars, sharedVars, envVars
<1>1. ready \in Seq(Fibers) /\ waiting \in Seq(Fibers) /\ Len(ready) \in Nat
  BY DEF Types
<1>2. CASE DriverStep
  <2>1. CASE DrainFully \/ Continue
    BY <2>1 DEF DrainFully, Continue, BeginTick, Quiet, Running
  <2>2. CASE Unpark \/ Start
    BY <2>2 DEF Unpark, Start, Drive, Quiet
  <2>3. CASE SnapshotPending
    <3>1. ~progressed => left = Len(ready) /\ left = 0
      BY <2>3 DEF SnapshotPending, Quiet
    <3>2. ~progressed => ready = <<>>
      BY <1>1, <3>1
    <3> QED BY <2>3, <3>2 DEF SnapshotPending, Quiet, Running
  <2>4. CASE DrainWaitingForShutdown
    BY <2>4 DEF DrainWaitingForShutdown, Quiet, Running
  <2>5. CASE PollWake \/ PollTimeout \/ Exit
    BY <2>5 DEF PollWake, PollTimeout, Exit, Quiet, Running
  <2>6. ASSUME NEW G, pc \in {"poll", "expire", "complete"},
               ready' = ready \o Matching(G), waiting' = NotMatching(G),
               pc' \in {"expire", "complete", "decide"},
               ~progressed' => ~progressed /\ Matching(G) = <<>>
        PROVE  Quiet'
    <3>1. Matching(G) = <<>> => ready' = ready
      BY <2>6, SweepEffect
    <3> QED BY <2>6, <3>1 DEF Quiet, Running
  <2>7. ASSUME NEW fd \in Fds, PollFd(fd) PROVE Quiet'
    <3> DEFINE G == {f \in Fibers : WaitsOnFd(f, fd)}
    <3>1. /\ ready' = ready \o Matching(G) /\ waiting' = NotMatching(G)
          /\ pc = "poll" /\ pc' = "expire"
      BY <2>7 DEF PollFd
    <3>2. progressed' = (progressed \/ Matching(G) # <<>>)
      BY <2>7 DEF PollFd
    <3> HIDE DEF G
    <3>3. ~progressed' => ~progressed /\ Matching(G) = <<>>
      BY <3>2, Zenon
    <3> QED BY <2>6, <3>1, <3>3
  <2>8. CASE DrainExpiredWaits
    <3> DEFINE G == {f \in Fibers : deadline[f] = "passed"}
    <3>1. /\ ready' = ready \o Matching(G) /\ waiting' = NotMatching(G)
          /\ pc = "expire" /\ pc' = "complete"
      BY <2>8 DEF DrainExpiredWaits
    <3>4. progressed' = (progressed \/ ToSet(Matching(G)) # {})
      BY <2>8 DEF DrainExpiredWaits
    <3> HIDE DEF G
    <3>2. Matching(G) \in Seq(Fibers)
      BY <3>1, SweepEffect
    <3>3. ASSUME ToSet(Matching(G)) = {} PROVE Matching(G) = <<>>
      <4>1. PICK m \in Seq(Fibers) : m = Matching(G)
        BY <3>2
      <4>2. ToSet(m) = {}
        BY <3>3, <4>1
      <4>3. Len(m) \in Nat /\ (Len(m) > 0 => m[1] \in ToSet(m))
        BY DEF ToSet
      <4>4. Len(m) = 0
        BY <4>2, <4>3
      <4> QED BY <4>1, <4>4
    <3>5. ~progressed' => ~progressed /\ Matching(G) = <<>>
      BY <3>3, <3>4, Zenon
    <3> QED BY <2>6, <3>1, <3>5
  <2>9. CASE DrainCompletedWaits
    <3> DEFINE G == {f \in Fibers : wait[f].signal \in Done}
    <3>1. /\ ready' = ready \o Matching(G) /\ waiting' = NotMatching(G)
          /\ pc = "complete" /\ pc' = "decide"
      BY <2>9 DEF DrainCompletedWaits
    <3>2. progressed' = (progressed \/ Matching(G) # <<>>)
      BY <2>9 DEF DrainCompletedWaits
    <3> HIDE DEF G
    <3>3. ~progressed' => ~progressed /\ Matching(G) = <<>>
      BY <3>2, Zenon
    <3> QED BY <2>6, <3>1, <3>3
  <2> QED BY <1>2, <2>1, <2>2, <2>3, <2>4, <2>5, <2>7, <2>8, <2>9 DEF DriverStep
<1>3. CASE TaskStep
  <2>1. Running /\ progressed' = progressed
    BY <1>3 DEF TaskStep, FiberFinishes, FiberParks, FiberSleeps, FiberRefused, FiberSchedules,
                FiberWaitsFd, FiberWaitsJob, MayWait, ParkWaiting, ReturnToLoop
  <2>2. progressed
    BY <2>1 DEF Quiet
  <2> QED BY <2>1, <2>2 DEF Quiet
<1>4. CASE OutsideStep
  <2>1. UNCHANGED <<progressed, pc, left, ready>>
    BY <1>4 DEF OutsideStep, ScheduleCount, ScheduleAppend, SchedulePoke, ShutdownStore,
                ShutdownPoke, JobComplete, JobPoke, FdBecomesReady, DeadlinePasses
  <2> QED BY <2>1 DEF Quiet, Running
<1> QED BY <1>2, <1>3, <1>4 DEF Next

-------------------------------------------------------------------------------
(* Registrations with the poller                                             *)

\* An fd stays registered, or not, while its waiters are the same.
LEMMA RegisteredFrame ==
  ASSUME RegisteredIffWaited, UNCHANGED <<interest, waiting>>,
         \A f \in ToSet(waiting) : wait'[f].signal = wait[f].signal
  PROVE  RegisteredIffWaited'
BY DEF RegisteredIffWaited, WaitsOnFd

\* What _wait_on_signal() adds to __waiting.
LEMMA ParkEffect ==
  ASSUME Types, Places, Carried, Running, NEW sig \in Signals, NEW dl, ParkWaiting(sig, dl)
  PROVE  /\ cur \in Fibers /\ cur \notin ToSet(waiting) /\ cur \notin ToSet(ready)
         /\ ToSet(waiting') = ToSet(waiting) \cup {cur}
         /\ wait' = [wait EXCEPT ![cur] = [signal |-> sig, timedOut |-> FALSE]]
         /\ wait'[cur].signal = sig /\ wait'[cur].timedOut = FALSE
         /\ \A f \in Fibers : f # cur => wait'[f] = wait[f]
         /\ ready' = ready
<1>1. /\ wait' = [wait EXCEPT ![cur] = [signal |-> sig, timedOut |-> FALSE]]
      /\ waiting' = Append(waiting, cur) /\ ready' = ready
  BY DEF ParkWaiting, RequeueParked
<1>2. cur \in Fibers /\ cur \notin ToSet(waiting) /\ cur \notin ToSet(ready)
  BY RunningFiber
<1>3. ToSet(waiting') = ToSet(waiting) \cup {cur}
  BY <1>1, <1>2, AppendFacts DEF Types
<1>4. /\ wait'[cur].signal = sig /\ wait'[cur].timedOut = FALSE
      /\ \A f \in Fibers : f # cur => wait'[f] = wait[f]
  BY <1>1, <1>2 DEF Types
<1> QED BY <1>1, <1>2, <1>3, <1>4

\* The lists are of fibers.
LEMMA ListedAreFibers ==
  Types => ToSet(ready) \subseteq Fibers /\ ToSet(waiting) \subseteq Fibers
BY DEF Types, ToSet

\* Registering, and the three ways in which an entry leaves __waiting.
LEMMA RegisteredStep ==
  ASSUME Types, Places, Carried, RegisteredIffWaited, Next PROVE RegisteredIffWaited'
<1> USE DEF queueVars, fiberVars, tickVars, sharedVars, envVars
<1>1. ToSet(waiting) \subseteq Fibers
  BY ListedAreFibers
<1>2. \A fd \in Fds : interest[fd] # {} <=> \E f \in ToSet(waiting) : WaitsOnFd(f, fd)
  BY DEF RegisteredIffWaited
<1>3. \A fd \in Fds, s \in Handles \cup {Sleep} : s \notin {fd} \X Interest
  BY SignalAssumption
<1>4. CASE OutsideStep
  <2>1. UNCHANGED <<interest, waiting, wait>>
    BY <1>4 DEF OutsideStep, ScheduleCount, ScheduleAppend, SchedulePoke, ShutdownStore,
                ShutdownPoke, JobComplete, JobPoke, FdBecomesReady, DeadlinePasses
  <2> QED BY <2>1, RegisteredFrame
<1>5. CASE TaskStep
  <2>1. Running
    BY <1>5 DEF TaskStep, FiberFinishes, FiberParks, FiberSleeps, FiberRefused, FiberSchedules,
                FiberWaitsFd, FiberWaitsJob, MayWait
  <2>2. PICK c \in Fibers : c = cur /\ c \notin ToSet(waiting)
    BY <2>1, RunningFiber
  <2>3. CASE FiberFinishes \/ FiberParks
    <3>1. UNCHANGED <<interest, waiting>> /\ \A f \in Fibers : f # c => wait'[f] = wait[f]
      BY <2>2, <2>3 DEF FiberFinishes, FiberParks, Types
    <3> QED BY <1>1, <2>2, <3>1, RegisteredFrame
  <2>4. CASE FiberRefused \/ \E t \in Tasks : FiberSchedules(t)
    <3>1. UNCHANGED <<interest, waiting, wait>>
      BY <2>4 DEF FiberRefused, FiberSchedules
    <3> QED BY <3>1, RegisteredFrame
  <2>5. ASSUME NEW s \in Handles \cup {Sleep}, NEW dl, ParkWaiting(s, dl), interest' = interest
        PROVE  RegisteredIffWaited'
    <3>1. s \in Signals
      BY DEF Signals
    <3>2. /\ ToSet(waiting') = ToSet(waiting) \cup {c} /\ wait'[c].signal = s
          /\ \A f \in Fibers : f # c => wait'[f] = wait[f]
      BY <2>1, <2>2, <2>5, <3>1, ParkEffect
    <3>3. \A fd \in Fds : ~WaitsOnFd(c, fd)'
      BY <1>3, <3>2 DEF WaitsOnFd
    <3>4. \A fd \in Fds, f \in ToSet(waiting) : WaitsOnFd(f, fd)' <=> WaitsOnFd(f, fd)
      BY <1>1, <2>2, <3>2 DEF WaitsOnFd
    <3>5. \A fd \in Fds : (\E f \in ToSet(waiting') : WaitsOnFd(f, fd)')
                            <=> \E f \in ToSet(waiting) : WaitsOnFd(f, fd)
      BY <3>2, <3>3, <3>4
    <3> QED BY <1>2, <2>5, <3>5 DEF RegisteredIffWaited
  <2>6. CASE FiberSleeps
    BY <2>5, <2>6 DEF FiberSleeps
  <2>7. ASSUME NEW h \in Handles, NEW dl, FiberWaitsJob(h, dl) PROVE RegisteredIffWaited'
    BY <2>5, <2>7 DEF FiberWaitsJob
  <2>8. ASSUME NEW fd \in Fds, NEW k \in Interest, NEW dl, FiberWaitsFd(fd, k, dl)
        PROVE  RegisteredIffWaited'
    <3>1. <<fd, k>> \in Signals
      BY DEF Signals
    <3>2. /\ ToSet(waiting') = ToSet(waiting) \cup {c} /\ wait'[c].signal = <<fd, k>>
          /\ \A f \in Fibers : f # c => wait'[f] = wait[f]
      BY <2>1, <2>2, <2>8, <3>1, ParkEffect DEF FiberWaitsFd
    <3>3. \A e \in Fds : WaitsOnFd(c, e)' <=> e = fd
      BY <3>2 DEF WaitsOnFd
    <3>4. \A e \in Fds, f \in ToSet(waiting) : WaitsOnFd(f, e)' <=> WaitsOnFd(f, e)
      BY <1>1, <2>2, <3>2 DEF WaitsOnFd
    <3>5. \A e \in Fds : (\E f \in ToSet(waiting') : WaitsOnFd(f, e)')
                           <=> e = fd \/ \E f \in ToSet(waiting) : WaitsOnFd(f, e)
      BY <3>2, <3>3, <3>4
    <3>6. interest'[fd] # {} /\ \A e \in Fds : e # fd => interest'[e] = interest[e]
      BY <2>8 DEF FiberWaitsFd, Register, Types
    <3> QED BY <1>2, <3>5, <3>6 DEF RegisteredIffWaited
  <2> QED BY <1>5, <2>3, <2>4, <2>6, <2>7, <2>8 DEF TaskStep
<1>6. CASE DriverStep
  <2>1. CASE \/ DrainFully \/ Unpark \/ SnapshotPending \/ Start \/ PollWake \/ PollTimeout
             \/ Continue \/ Exit
    <3>1. UNCHANGED <<interest, waiting, wait>>
      BY <2>1 DEF DrainFully, Unpark, SnapshotPending, Start, PollWake, PollTimeout, Continue, Exit
    <3> QED BY <3>1, RegisteredFrame
  <2>2. CASE DrainWaitingForShutdown
    <3>1. CASE shutdown /\ waiting # <<>>
      <4>1. waiting' = <<>> /\ interest' = Unregistered(Fds)
        BY <2>2, <3>1 DEF DrainWaitingForShutdown
      <4>2. ToSet(waiting') = {} /\ \A fd \in Fds : interest'[fd] = {}
        BY <4>1 DEF ToSet, Unregistered
      <4> QED BY <4>2 DEF RegisteredIffWaited
    <3>2. CASE ~(shutdown /\ waiting # <<>>)
      BY <2>2, <3>2, RegisteredFrame DEF DrainWaitingForShutdown
    <3> QED BY <3>1, <3>2
  <2>3. ASSUME NEW fd \in Fds, PollFd(fd) PROVE RegisteredIffWaited'
    <3> DEFINE G == {f \in Fibers : WaitsOnFd(f, fd)}
    <3>1. /\ ready' = ready \o Matching(G) /\ waiting' = NotMatching(G)
          /\ interest' = Unregistered({fd}) /\ wait' = wait
      BY <2>3 DEF PollFd
    <3> HIDE DEF G
    <3>2. ToSet(waiting') = ToSet(waiting) \ G
      BY <3>1, SweepEffect
    <3>3. ASSUME NEW e \in Fds
          PROVE  interest'[e] # {} <=> \E f \in ToSet(waiting') : WaitsOnFd(f, e)'
      <4>1. CASE e = fd
        BY <1>1, <3>1, <3>2, <4>1 DEF Unregistered, WaitsOnFd, G
      <4>2. CASE e # fd
        <5>1. interest'[e] = interest[e]
          BY <3>1, <4>2 DEF Unregistered
        <5>2. \A f \in Fibers : WaitsOnFd(f, e) => f \notin G
          BY <4>2 DEF WaitsOnFd, G
        <5>3. \A f \in Fibers : WaitsOnFd(f, e)' <=> WaitsOnFd(f, e)
          BY <3>1 DEF WaitsOnFd
        <5> QED BY <1>1, <1>2, <3>2, <5>1, <5>2, <5>3
      <4> QED BY <4>1, <4>2
    <3> QED BY <3>3 DEF RegisteredIffWaited
  <2>4. CASE DrainExpiredWaits
    <3> DEFINE G == {f \in Fibers : deadline[f] = "passed"}
               out == ToSet(Matching(G))
    <3>1. /\ ready' = ready \o Matching(G) /\ waiting' = NotMatching(G)
          /\ wait' = [f \in Fibers |->
                        IF f \in out THEN [wait[f] EXCEPT !.timedOut = TRUE] ELSE wait[f]]
          /\ interest' = Unregistered({fd \in Fds : /\ \E f \in out : WaitsOnFd(f, fd)
                                                    /\ ~FdStillWaitedOn(fd, out)})
      BY <2>4 DEF DrainExpiredWaits
    <3>2. /\ out = ToSet(waiting) \cap G /\ ToSet(waiting') = ToSet(waiting) \ G
      <4> HIDE DEF G
      <4> QED BY <3>1, SweepEffect
    <3>3. \A f \in Fibers : wait'[f].signal = wait[f].signal
      BY <3>1 DEF Types
    <3> HIDE DEF G, out
    <3>4. ToSet(waiting') = ToSet(waiting) \ out
      BY <3>2
    <3>5. ASSUME NEW e \in Fds
          PROVE  interest'[e] # {} <=> \E f \in ToSet(waiting') : WaitsOnFd(f, e)'
      <4>1. \A f \in Fibers : WaitsOnFd(f, e)' <=> WaitsOnFd(f, e)
        BY <3>3 DEF WaitsOnFd
      <4>2. (\E f \in ToSet(waiting') : WaitsOnFd(f, e)') <=> FdStillWaitedOn(e, out)
        BY <1>1, <3>4, <4>1 DEF FdStillWaitedOn
      <4>3. CASE (\E f \in out : WaitsOnFd(f, e)) /\ ~FdStillWaitedOn(e, out)
        BY <3>1, <4>2, <4>3 DEF Unregistered
      <4>4. CASE ~((\E f \in out : WaitsOnFd(f, e)) /\ ~FdStillWaitedOn(e, out))
        <5>1. interest'[e] = interest[e]
          BY <3>1, <4>4 DEF Unregistered
        <5>2. (\E f \in ToSet(waiting) : WaitsOnFd(f, e)) <=> FdStillWaitedOn(e, out)
          BY <3>2, <4>4 DEF FdStillWaitedOn
        <5> QED BY <1>2, <4>2, <5>1, <5>2
      <4> QED BY <4>3, <4>4
    <3> QED BY <3>5 DEF RegisteredIffWaited
  <2>5. CASE DrainCompletedWaits
    <3> DEFINE G == {f \in Fibers : wait[f].signal \in Done}
    <3>1. /\ ready' = ready \o Matching(G) /\ waiting' = NotMatching(G)
          /\ interest' = interest /\ wait' = wait
      BY <2>5 DEF DrainCompletedWaits
    <3>2. \A e \in Fds, f \in Fibers : WaitsOnFd(f, e) => f \notin G
      BY <1>3 DEF WaitsOnFd, Done
    <3> HIDE DEF G
    <3>3. ToSet(waiting') = ToSet(waiting) \ G
      BY <3>1, SweepEffect
    <3>4. \A e \in Fds, f \in Fibers : WaitsOnFd(f, e)' <=> WaitsOnFd(f, e)
      BY <3>1 DEF WaitsOnFd
    <3> QED BY <1>1, <1>2, <3>1, <3>2, <3>3, <3>4 DEF RegisteredIffWaited
  <2> QED BY <1>6, <2>1, <2>2, <2>3, <2>4, <2>5 DEF DriverStep
<1> QED BY <1>4, <1>5, <1>6 DEF Next

-------------------------------------------------------------------------------
(* What a wait returns                                                       *)

\* A handle's __done is never cleared, and neither is __shutting_down.
LEMMA NeverTakenBack ==
  ASSUME Types, Next
  PROVE  (\A h \in Handles : h \in Done => h \in Done') /\ (shutdown => shutdown')
<1> USE DEF queueVars, fiberVars, tickVars, sharedVars, envVars
<1>1. CASE DriverStep
  <2>1. UNCHANGED <<job, shutdown>>
    BY <1>1 DEF DriverStep, DrainFully, Unpark, SnapshotPending, Start, DrainWaitingForShutdown,
                PollWake, PollTimeout, PollFd, DrainExpiredWaits, DrainCompletedWaits,
                Continue, Exit
  <2> QED BY <2>1 DEF Done
<1>2. CASE TaskStep
  <2>1. ASSUME NEW h \in Handles, NEW dl, FiberWaitsJob(h, dl)
        PROVE  (\A g \in Handles : g \in Done => g \in Done') /\ shutdown' = shutdown
    <3>1. /\ job[h] = "none" /\ job' = [job EXCEPT ![h] = "running"]
          /\ shutdown' = shutdown /\ job \in [Handles -> {"none", "running", "poke", "over"}]
      BY <2>1 DEF FiberWaitsJob, Types
    <3> QED BY <3>1 DEF Done
  <2>2. CASE \/ FiberFinishes \/ FiberParks \/ FiberSleeps \/ FiberRefused
             \/ \E t \in Tasks : FiberSchedules(t)
             \/ \E fd \in Fds, k \in Interest, dl \in Deadlines : FiberWaitsFd(fd, k, dl)
    <3>1. UNCHANGED <<job, shutdown>>
      BY <2>2 DEF FiberFinishes, FiberParks, FiberSleeps, FiberRefused, FiberSchedules,
                  FiberWaitsFd
    <3> QED BY <3>1 DEF Done
  <2> QED BY <1>2, <2>1, <2>2 DEF TaskStep
<1>3. CASE OutsideStep
  <2>1. ASSUME NEW h \in Handles, JobComplete(h) \/ JobPoke(h)
        PROVE  (\A g \in Handles : g \in Done => g \in Done') /\ shutdown' = shutdown
    <3>1. /\ job' = [job EXCEPT ![h] = "poke"] \/ job' = [job EXCEPT ![h] = "over"]
          /\ shutdown' = shutdown /\ job \in [Handles -> {"none", "running", "poke", "over"}]
      BY <2>1 DEF JobComplete, JobPoke, Types
    <3> QED BY <3>1 DEF Done
  <2>2. CASE \/ \E t \in Tasks : ScheduleCount(t)
             \/ ScheduleAppend \/ SchedulePoke \/ ShutdownStore \/ ShutdownPoke
             \/ \E fd \in Fds, k \in Interest : FdBecomesReady(fd, k)
             \/ \E f \in Fibers : DeadlinePasses(f)
    <3>1. job' = job /\ (shutdown => shutdown')
      BY <2>2 DEF ScheduleCount, ScheduleAppend, SchedulePoke, ShutdownStore, ShutdownPoke,
                  FdBecomesReady, DeadlinePasses
    <3> QED BY <3>1 DEF Done
  <2> QED BY <1>3, <2>1, <2>2 DEF OutsideStep
<1> QED BY <1>1, <1>2, <1>3 DEF Next

\* A fiber whose wait, deadline and place are as they were, or which left the
\* ready list.
LEMMA JustifiedFrame ==
  ASSUME Types, Next, NEW f \in Fibers, JustifiedOf(f), wait'[f] = wait[f],
         deadline'[f] = deadline[f] \/ deadline'[f] = "passed",
         f \in ToSet(ready') => f \in ToSet(ready)
  PROVE  JustifiedOf(f)'
BY NeverTakenBack DEF JustifiedOf

\* Every way into __ready_to_unpark leaves behind why.
LEMMA JustifiedStep == ASSUME Types, Places, Carried, Snapshots, Justified, Next PROVE Justified'
<1> USE DEF queueVars, fiberVars, tickVars, sharedVars, envVars
<1>1. \A f \in Fibers : JustifiedOf(f)
  BY DEF Justified
<1>2. ToSet(ready) \subseteq Fibers /\ ToSet(waiting) \subseteq Fibers
  BY ListedAreFibers
<1>3. ASSUME UNCHANGED <<wait, ready>>,
             \A f \in Fibers : deadline'[f] = deadline[f] \/ deadline'[f] = "passed"
      PROVE  Justified'
  BY <1>1, <1>3, JustifiedFrame DEF Justified
<1>4. CASE OutsideStep
  <2>1. ASSUME NEW f \in Fibers, DeadlinePasses(f) PROVE Justified'
    <3>1. \A g \in Fibers : deadline'[g] = deadline[g] \/ deadline'[g] = "passed"
      BY <2>1 DEF DeadlinePasses, Types
    <3> QED BY <1>3, <2>1, <3>1 DEF DeadlinePasses
  <2>2. CASE \/ \E t \in Tasks : ScheduleCount(t)
             \/ ScheduleAppend \/ SchedulePoke \/ ShutdownStore \/ ShutdownPoke
             \/ \E h \in Handles : JobComplete(h) \/ JobPoke(h)
             \/ \E fd \in Fds, k \in Interest : FdBecomesReady(fd, k)
    <3>1. UNCHANGED <<wait, ready, deadline>>
      BY <2>2 DEF ScheduleCount, ScheduleAppend, SchedulePoke, ShutdownStore, ShutdownPoke,
                  JobComplete, JobPoke, FdBecomesReady
    <3> QED BY <1>3, <3>1
  <2> QED BY <1>4, <2>1, <2>2 DEF OutsideStep
<1>5. CASE TaskStep
  <2>1. Running
    BY <1>5 DEF TaskStep, FiberFinishes, FiberParks, FiberSleeps, FiberRefused, FiberSchedules,
                FiberWaitsFd, FiberWaitsJob, MayWait
  <2>2. PICK c \in Fibers : c = cur /\ c \notin ToSet(ready)
    BY <2>1, RunningFiber
  <2>3. ASSUME NEW sig \in Signals \cup {NoSignal}, NEW dl,
               wait' = [wait EXCEPT ![c] = [signal |-> sig, timedOut |-> FALSE]],
               deadline' = [deadline EXCEPT ![c] = dl],
               ready' = ready \/ (sig = NoSignal /\ ToSet(ready') = ToSet(ready) \cup {c})
        PROVE  Justified'
    <3>1. /\ wait'[c].signal = sig /\ wait'[c].timedOut = FALSE
          /\ \A f \in Fibers : f # c => wait'[f] = wait[f] /\ deadline'[f] = deadline[f]
      BY <2>3 DEF Types
    <3>2. JustifiedOf(c)'
      BY <2>2, <2>3, <3>1 DEF JustifiedOf
    <3>3. ASSUME NEW f \in Fibers, f # c PROVE JustifiedOf(f)'
      BY <1>1, <2>3, <3>1, <3>3, JustifiedFrame
    <3> QED BY <3>2, <3>3 DEF Justified
  <2>4. CASE FiberFinishes
    BY <2>2, <2>3, <2>4 DEF FiberFinishes
  <2>5. CASE FiberParks
    <3>1. ready' = Append(ready, c) /\ ready \in Seq(Fibers)
      BY <2>2, <2>5 DEF FiberParks, RequeueParked, Types
    <3>2. ToSet(ready') = ToSet(ready) \cup {c}
      BY <3>1, AppendFacts
    <3> QED BY <2>2, <2>3, <2>5, <3>2 DEF FiberParks
  <2>6. ASSUME NEW sig \in Signals, NEW dl, ParkWaiting(sig, dl) PROVE Justified'
    BY <2>2, <2>3, <2>6 DEF ParkWaiting, RequeueParked
  <2>7. CASE FiberSleeps
    BY <2>6, <2>7 DEF FiberSleeps, Signals
  <2>8. ASSUME NEW h \in Handles, NEW dl, FiberWaitsJob(h, dl) PROVE Justified'
    BY <2>6, <2>8 DEF FiberWaitsJob, Signals
  <2>9. ASSUME NEW fd \in Fds, NEW k \in Interest, NEW dl, FiberWaitsFd(fd, k, dl)
        PROVE  Justified'
    BY <2>6, <2>9 DEF FiberWaitsFd, Signals
  <2>10. CASE FiberRefused \/ \E t \in Tasks : FiberSchedules(t)
    BY <1>3, <2>10 DEF FiberRefused, FiberSchedules
  <2> QED BY <1>5, <2>4, <2>5, <2>7, <2>8, <2>9, <2>10 DEF TaskStep
<1>6. CASE DriverStep
  <2>1. CASE \/ DrainFully \/ SnapshotPending \/ Start \/ PollWake \/ PollTimeout
             \/ Continue \/ Exit
    BY <1>3, <2>1 DEF DrainFully, SnapshotPending, Start, PollWake, PollTimeout, Continue, Exit
  <2>2. CASE Unpark
    <3>1. UNCHANGED <<wait, deadline>> /\ ToSet(ready') \subseteq ToSet(ready)
      BY <2>2, UnparkEffect DEF Unpark
    <3> QED BY <1>1, <3>1, JustifiedFrame DEF Justified
  <2>3. CASE DrainWaitingForShutdown
    <3>1. CASE shutdown
      <4>1. UNCHANGED <<wait, deadline, shutdown>>
        BY <2>3 DEF DrainWaitingForShutdown
      <4> QED BY <1>1, <3>1, <4>1 DEF Justified, JustifiedOf
    <3>2. CASE ~shutdown
      BY <1>3, <2>3, <3>2 DEF DrainWaitingForShutdown
    <3> QED BY <3>1, <3>2
  <2>4. ASSUME NEW fd \in Fds, PollFd(fd) PROVE Justified'
    <3> DEFINE G == {f \in Fibers : WaitsOnFd(f, fd)}
    <3>1. /\ ready' = ready \o Matching(G) /\ waiting' = NotMatching(G)
          /\ UNCHANGED <<wait, deadline>>
      BY <2>4 DEF PollFd
    <3>2. \A f \in G : wait[f].signal # Sleep /\ wait[f].signal \notin Handles
      BY SignalAssumption DEF WaitsOnFd
    <3> HIDE DEF G
    <3>3. ToSet(ready') = ToSet(ready) \cup (ToSet(waiting) \cap G)
      BY <3>1, SweepEffect
    <3>4. ASSUME NEW f \in Fibers PROVE JustifiedOf(f)'
      <4>1. CASE f \in G
        BY <1>1, <3>1, <3>2, <4>1 DEF JustifiedOf
      <4>2. CASE f \notin G
        BY <1>1, <3>1, <3>3, <4>2, JustifiedFrame
      <4> QED BY <4>1, <4>2
    <3> QED BY <3>4 DEF Justified
  <2>5. CASE DrainExpiredWaits
    <3> DEFINE G == {f \in Fibers : deadline[f] = "passed"}
               out == ToSet(Matching(G))
    <3>1. /\ ready' = ready \o Matching(G) /\ waiting' = NotMatching(G) /\ deadline' = deadline
          /\ wait' = [f \in Fibers |->
                        IF f \in out THEN [wait[f] EXCEPT !.timedOut = TRUE] ELSE wait[f]]
      BY <2>5 DEF DrainExpiredWaits
    <3>2. out = ToSet(waiting) \cap G /\ ToSet(ready') = ToSet(ready) \cup (ToSet(waiting) \cap G)
      <4> HIDE DEF G
      <4> QED BY <3>1, SweepEffect
    <3>3. \A f \in out : deadline[f] = "passed"
      BY <3>2
    <3> HIDE DEF G, out
    <3>4. ASSUME NEW f \in Fibers PROVE JustifiedOf(f)'
      <4>1. CASE f \in out
        <5>1. wait'[f].timedOut = TRUE /\ deadline'[f] = "passed"
          BY <3>1, <3>3, <4>1 DEF Types
        <5> QED BY <5>1 DEF JustifiedOf
      <4>2. CASE f \notin out
        <5>1. wait'[f] = wait[f] /\ (f \in ToSet(ready') => f \in ToSet(ready))
          BY <3>1, <3>2, <4>2
        <5> QED BY <1>1, <3>1, <5>1, JustifiedFrame
      <4> QED BY <4>1, <4>2
    <3> QED BY <3>4 DEF Justified
  <2>6. CASE DrainCompletedWaits
    <3> DEFINE G == {f \in Fibers : wait[f].signal \in Done}
    <3>1. /\ ready' = ready \o Matching(G) /\ waiting' = NotMatching(G)
          /\ UNCHANGED <<wait, deadline, job>>
      BY <2>6 DEF DrainCompletedWaits
    <3>2. \A f \in G : wait[f].signal # Sleep /\ wait[f].signal \in Done
      BY SignalAssumption DEF Done
    <3> HIDE DEF G
    <3>3. ToSet(ready') = ToSet(ready) \cup (ToSet(waiting) \cap G) /\ Done' = Done
      BY <3>1, SweepEffect DEF Done
    <3>4. ASSUME NEW f \in Fibers PROVE JustifiedOf(f)'
      <4>1. CASE f \in G
        BY <1>1, <3>1, <3>2, <3>3, <4>1 DEF JustifiedOf
      <4>2. CASE f \notin G
        BY <1>1, <3>1, <3>3, <4>2, JustifiedFrame
      <4> QED BY <4>1, <4>2
    <3> QED BY <3>4 DEF Justified
  <2> QED BY <1>6, <2>1, <2>2, <2>3, <2>4, <2>5, <2>6 DEF DriverStep
<1> QED BY <1>4, <1>5, <1>6 DEF Next

\* The answer the task has seen stays true until its next wait.
LEMMA ResultStep ==
  ASSUME Types, Places, Carried, Snapshots, Justified, ResultJustified, Next
  PROVE  ResultJustified'
<1> USE DEF queueVars, fiberVars, tickVars, sharedVars, envVars
<1> DEFINE Told(f) == /\ result[f] = "TimedOut" => deadline[f] = "passed"
                      /\ result[f] = "Shutdown" => shutdown
                      /\ result[f] = "Ok" => /\ wait[f].signal # Sleep
                                             /\ wait[f].signal \in Handles
                                                  => wait[f].signal \in Done
<1>1. \A f \in Fibers : Told(f)
  BY DEF ResultJustified
<1>2. ASSUME \A f \in Fibers : Told(f)' PROVE ResultJustified'
  BY <1>2 DEF ResultJustified
<1>3. ASSUME NEW f \in Fibers, result'[f] = result[f], wait'[f].signal = wait[f].signal,
             deadline'[f] = deadline[f] \/ deadline'[f] = "passed"
      PROVE  Told(f)'
  BY <1>1, <1>3, NeverTakenBack
<1>4. ASSUME NEW f \in Fibers, result'[f] = "none" PROVE Told(f)'
  BY <1>4
<1> HIDE DEF Told
<1>5. CASE OutsideStep
  <2>1. ASSUME NEW f \in Fibers, DeadlinePasses(f) PROVE ResultJustified'
    <3>1. \A g \in Fibers : deadline'[g] = deadline[g] \/ deadline'[g] = "passed"
      BY <2>1 DEF DeadlinePasses, Types
    <3> QED BY <1>2, <1>3, <2>1, <3>1 DEF DeadlinePasses
  <2>2. CASE \/ \E t \in Tasks : ScheduleCount(t)
             \/ ScheduleAppend \/ SchedulePoke \/ ShutdownStore \/ ShutdownPoke
             \/ \E h \in Handles : JobComplete(h) \/ JobPoke(h)
             \/ \E fd \in Fds, k \in Interest : FdBecomesReady(fd, k)
    <3>1. UNCHANGED <<wait, result, deadline>>
      BY <2>2 DEF ScheduleCount, ScheduleAppend, SchedulePoke, ShutdownStore, ShutdownPoke,
                  JobComplete, JobPoke, FdBecomesReady
    <3> QED BY <1>2, <1>3, <3>1
  <2> QED BY <1>5, <2>1, <2>2 DEF OutsideStep
<1>6. CASE TaskStep
  <2>1. Running
    BY <1>6 DEF TaskStep, FiberFinishes, FiberParks, FiberSleeps, FiberRefused, FiberSchedules,
                FiberWaitsFd, FiberWaitsJob, MayWait
  <2>2. PICK c \in Fibers : c = cur
    BY <2>1, RunningFiber
  <2>3. ASSUME NEW w, NEW d, wait' = [wait EXCEPT ![c] = w], deadline' = [deadline EXCEPT ![c] = d],
               result' = [result EXCEPT ![c] = "none"]
        PROVE  ResultJustified'
    <3>1. /\ result'[c] = "none"
          /\ \A f \in Fibers : f # c => /\ wait'[f] = wait[f] /\ deadline'[f] = deadline[f]
                                        /\ result'[f] = result[f]
      BY <2>3 DEF Types
    <3> QED BY <1>2, <1>3, <1>4, <3>1
  <2>4. CASE FiberFinishes \/ FiberParks
    BY <2>2, <2>3, <2>4 DEF FiberFinishes, FiberParks
  <2>5. ASSUME NEW sig, NEW dl, ParkWaiting(sig, dl) PROVE ResultJustified'
    BY <2>2, <2>3, <2>5 DEF ParkWaiting
  <2>6. CASE \/ FiberSleeps
             \/ \E fd \in Fds, k \in Interest, dl \in Deadlines : FiberWaitsFd(fd, k, dl)
             \/ \E h \in Handles, dl \in Deadlines : FiberWaitsJob(h, dl)
    BY <2>5, <2>6 DEF FiberSleeps, FiberWaitsFd, FiberWaitsJob
  <2>7. CASE FiberRefused
    <3>1. /\ shutdown' = shutdown /\ shutdown /\ UNCHANGED <<wait, deadline>>
          /\ result' = [result EXCEPT ![c] = "Shutdown"]
      BY <2>2, <2>7 DEF FiberRefused
    <3>2. result'[c] = "Shutdown" /\ \A f \in Fibers : f # c => result'[f] = result[f]
      BY <3>1 DEF Types
    <3>3. Told(c)'
      BY <3>1, <3>2 DEF Told
    <3> QED BY <1>2, <1>3, <3>1, <3>2, <3>3
  <2>8. ASSUME NEW t \in Tasks, FiberSchedules(t) PROVE ResultJustified'
    BY <1>2, <1>3, <2>8 DEF FiberSchedules
  <2> QED BY <1>6, <2>4, <2>6, <2>7, <2>8 DEF TaskStep
<1>7. CASE DriverStep
  <2>1. CASE \/ DrainFully \/ SnapshotPending \/ Start \/ PollWake \/ PollTimeout
             \/ Continue \/ Exit \/ DrainWaitingForShutdown \/ DrainCompletedWaits
             \/ \E fd \in Fds : PollFd(fd)
    <3>1. UNCHANGED <<wait, result, deadline>>
      BY <2>1 DEF DrainFully, SnapshotPending, Start, PollWake, PollTimeout, Continue, Exit,
                  DrainWaitingForShutdown, DrainCompletedWaits, PollFd
    <3> QED BY <1>2, <1>3, <3>1
  <2>2. CASE Unpark
    <3>1. PICK f \in Fibers : f \in ToSet(ready) /\ result' = [result EXCEPT ![f] = WaitResult(f)]
      BY <2>2, UnparkEffect
    <3>2. UNCHANGED <<wait, deadline, shutdown, job>>
      BY <2>2 DEF Unpark
    <3>3. /\ result'[f] = WaitResult(f)
          /\ \A g \in Fibers : g # f => result'[g] = result[g]
      BY <3>1 DEF Types
    <3>4. JustifiedOf(f) /\ Done' = Done
      BY <3>2 DEF Justified, Done
    <3>5. Told(f)'
      BY <3>1, <3>2, <3>3, <3>4 DEF Told, WaitResult, JustifiedOf
    <3> QED BY <1>2, <1>3, <3>2, <3>3, <3>5
  <2>3. CASE DrainExpiredWaits
    <3>1. UNCHANGED <<result, deadline>> /\ \A f \in Fibers : wait'[f].signal = wait[f].signal
      BY <2>3 DEF DrainExpiredWaits, Types
    <3> QED BY <1>2, <1>3, <3>1
  <2> QED BY <1>7, <2>1, <2>2, <2>3 DEF DriverStep
<1> QED BY <1>5, <1>6, <1>7 DEF Next

-------------------------------------------------------------------------------
(* The wake pair                                                             *)

\* Nobody appends a task behind the snapshot without a byte on the way, and the
\* byte is drained by poller.wait() only.
LEMMA TaskAnnouncedStep ==
  ASSUME Types, Places, Carried, Snapshots, TaskAnnounced, Next PROVE TaskAnnounced'
<1> USE DEF queueVars, fiberVars, tickVars, sharedVars, envVars
<1>1. pending \in Seq(Tasks) /\ Len(pending) \in Nat /\ left \in Nat
  BY DEF Types
<1>2. ASSUME UNCHANGED <<pc, left, pending>>, wake => wake', ext' = ext \/ ext.at = "idle"
      PROVE  TaskAnnounced'
  BY <1>2 DEF TaskAnnounced
<1>3. ASSUME wake' \/ ext'.at = "poke" PROVE TaskAnnounced'
  BY <1>3 DEF TaskAnnounced
<1>4. CASE OutsideStep
  <2>1. CASE SchedulePoke \/ ShutdownPoke \/ \E h \in Handles : JobPoke(h)
    BY <1>3, <2>1 DEF SchedulePoke, ShutdownPoke, JobPoke, PokeWake
  <2>2. CASE ScheduleAppend
    <3>1. ext'.at = "poke"
      BY <2>2 DEF ScheduleAppend, Types
    <3> QED BY <1>3, <3>1
  <2>3. CASE \/ \E t \in Tasks : ScheduleCount(t)
             \/ ShutdownStore
             \/ \E h \in Handles : JobComplete(h)
             \/ \E fd \in Fds, k \in Interest : FdBecomesReady(fd, k)
             \/ \E f \in Fibers : DeadlinePasses(f)
    BY <1>2, <2>3 DEF ScheduleCount, ShutdownStore, JobComplete, FdBecomesReady, DeadlinePasses
  <2> QED BY <1>4, <2>1, <2>2, <2>3 DEF OutsideStep
<1>5. CASE TaskStep
  <2>1. ASSUME ReturnToLoop, Running, UNCHANGED <<pending, wake, ext>> PROVE TaskAnnounced'
    BY <2>1 DEF ReturnToLoop, Running, TaskAnnounced
  <2>2. CASE FiberFinishes \/ FiberParks
    BY <2>1, <2>2 DEF FiberFinishes, FiberParks
  <2>3. CASE \/ FiberSleeps
             \/ \E fd \in Fds, k \in Interest, dl \in Deadlines : FiberWaitsFd(fd, k, dl)
             \/ \E h \in Handles, dl \in Deadlines : FiberWaitsJob(h, dl)
    BY <2>1, <2>3 DEF FiberSleeps, FiberWaitsFd, FiberWaitsJob, ParkWaiting, MayWait
  <2>4. CASE FiberRefused
    BY <1>2, <2>4 DEF FiberRefused
  <2>5. ASSUME NEW t \in Tasks, FiberSchedules(t) PROVE TaskAnnounced'
    BY <1>3, <2>5 DEF FiberSchedules, PokeWake
  <2> QED BY <1>5, <2>2, <2>3, <2>4, <2>5 DEF TaskStep
<1>6. CASE DriverStep
  <2>1. CASE DrainFully \/ Continue \/ Unpark
    BY <2>1 DEF DrainFully, Continue, BeginTick, Unpark, TaskAnnounced
  <2>2. CASE SnapshotPending
    BY <1>1, <2>2 DEF SnapshotPending, TaskAnnounced
  <2>3. CASE Start
    <3>1. /\ Len(pending') = Len(pending) - 1 /\ left' = left - 1 /\ pc' = "runStarted"
      BY <2>3, StartEffect
    <3>2. pc = "start" /\ UNCHANGED <<wake, ext>>
      BY <2>3 DEF Start
    <3> QED BY <1>1, <3>1, <3>2 DEF TaskAnnounced
  <2>4. CASE DrainWaitingForShutdown
    <3>1. pc = "start" /\ left = 0 /\ pc' = "poll" /\ UNCHANGED <<pending, wake, ext>>
      BY <2>4 DEF DrainWaitingForShutdown
    <3>2. pending # <<>> => Len(pending) > left
      BY <1>1, <3>1
    <3> QED BY <3>1, <3>2 DEF TaskAnnounced
  <2>5. CASE \/ PollWake \/ PollTimeout \/ DrainExpiredWaits \/ DrainCompletedWaits \/ Exit
             \/ \E fd \in Fds : PollFd(fd)
    <3>1. pc' \in {"expire", "complete", "decide", "exited"}
      BY <2>5 DEF PollWake, PollTimeout, DrainExpiredWaits, DrainCompletedWaits, Exit, PollFd
    <3> QED BY <3>1 DEF TaskAnnounced
  <2> QED BY <1>6, <2>1, <2>2, <2>3, <2>4, <2>5 DEF DriverStep
<1> QED BY <1>4, <1>5, <1>6 DEF Next

\* A job that completes after the sweep pokes after that.
LEMMA JobAnnouncedStep ==
  ASSUME Types, Places, Carried, Snapshots, JobAnnounced, Next PROVE JobAnnounced'
<1> USE DEF queueVars, fiberVars, tickVars, sharedVars, envVars
<1> DEFINE Byte == wake \/ \E h \in Handles : job[h] = "poke"
<1>1. ToSet(waiting) \subseteq Fibers
  BY ListedAreFibers
<1>2. Swept => \A f \in ToSet(waiting) : wait[f].signal \in Done => Byte
  BY DEF JobAnnounced
<1>3. ASSUME Byte' PROVE JobAnnounced'
  BY <1>3 DEF JobAnnounced
<1>4. ASSUME Swept' => \A f \in ToSet(waiting') : wait'[f].signal \in Done' => Byte'
      PROVE  JobAnnounced'
  BY <1>4 DEF JobAnnounced
<1>5. ASSUME Swept' => Swept, ToSet(waiting') \subseteq ToSet(waiting), UNCHANGED <<job, wake>>,
             \A f \in ToSet(waiting') : wait'[f].signal = wait[f].signal
      PROVE  JobAnnounced'
  <2>1. Done' = Done /\ (Byte' <=> Byte)
    BY <1>5 DEF Done
  <2> HIDE DEF Byte
  <2> QED BY <1>2, <1>4, <1>5, <2>1
<1>6. CASE OutsideStep
  <2>1. CASE SchedulePoke \/ ShutdownPoke \/ \E h \in Handles : JobPoke(h)
    BY <1>3, <2>1 DEF SchedulePoke, ShutdownPoke, JobPoke, PokeWake
  <2>2. ASSUME NEW h \in Handles, JobComplete(h) PROVE JobAnnounced'
    <3>1. job'[h] = "poke"
      BY <2>2 DEF JobComplete, Types
    <3> QED BY <1>3, <3>1
  <2>3. CASE \/ \E t \in Tasks : ScheduleCount(t)
             \/ ScheduleAppend \/ ShutdownStore
             \/ \E fd \in Fds, k \in Interest : FdBecomesReady(fd, k)
             \/ \E f \in Fibers : DeadlinePasses(f)
    <3>1. UNCHANGED <<pc, tick, waiting, wait, job, wake>>
      BY <2>3 DEF ScheduleCount, ScheduleAppend, ShutdownStore, FdBecomesReady, DeadlinePasses
    <3>2. Swept' => Swept
      BY <3>1 DEF Swept
    <3> QED BY <1>5, <3>1, <3>2
  <2> QED BY <1>6, <2>1, <2>2, <2>3 DEF OutsideStep
<1>7. CASE TaskStep
  <2>1. Running
    BY <1>7 DEF TaskStep, FiberFinishes, FiberParks, FiberSleeps, FiberRefused, FiberSchedules,
                FiberWaitsFd, FiberWaitsJob, MayWait
  <2>2. PICK c \in Fibers : c = cur /\ c \notin ToSet(waiting)
    BY <2>1, RunningFiber
  <2>3. ASSUME ReturnToLoop PROVE Swept' => Swept
    BY <2>1, <2>3 DEF ReturnToLoop, Running, Swept
  <2>4. CASE FiberFinishes \/ FiberParks
    <3>1. /\ ReturnToLoop /\ UNCHANGED <<waiting, job, wake>>
          /\ \A f \in Fibers : f # c => wait'[f] = wait[f]
      BY <2>2, <2>4 DEF FiberFinishes, FiberParks, Types
    <3> QED BY <1>1, <1>5, <2>2, <2>3, <3>1
  <2>5. ASSUME NEW sig \in Signals, NEW dl, ParkWaiting(sig, dl), wake' = wake, sig \notin Done',
               \A h \in Handles : (h \in Done' <=> h \in Done)
                                  /\ (job[h] = "poke" => job'[h] = "poke")
        PROVE  JobAnnounced'
    <3>1. /\ ToSet(waiting') = ToSet(waiting) \cup {c} /\ wait'[c].signal = sig
          /\ \A f \in Fibers : f # c => wait'[f] = wait[f]
      BY <2>1, <2>2, <2>5, ParkEffect
    <3>2. Swept' => Swept
      BY <2>3, <2>5 DEF ParkWaiting
    <3>3. Byte => Byte'
      BY <2>5
    <3>4. \A f \in ToSet(waiting) : wait'[f].signal \in Done' => wait[f].signal \in Done
      BY <1>1, <2>2, <2>5, <3>1 DEF Done
    <3> HIDE DEF Byte
    <3> QED BY <1>2, <1>4, <2>5, <3>1, <3>2, <3>3, <3>4
  <2>6. CASE FiberSleeps
    <3>1. Sleep \in Signals /\ Sleep \notin Done' /\ job' = job /\ wake' = wake
      BY <2>6, SignalAssumption DEF Signals, Done, FiberSleeps
    <3> QED BY <2>5, <2>6, <3>1 DEF FiberSleeps, Done
  <2>7. ASSUME NEW fd \in Fds, NEW k \in Interest, NEW dl, FiberWaitsFd(fd, k, dl)
        PROVE  JobAnnounced'
    <3>1. <<fd, k>> \in Signals /\ <<fd, k>> \notin Handles /\ job' = job /\ wake' = wake
      BY <2>7, SignalAssumption DEF Signals, FiberWaitsFd
    <3>2. <<fd, k>> \notin Done'
      BY <3>1 DEF Done
    <3> QED BY <2>5, <2>7, <3>1, <3>2 DEF FiberWaitsFd, Done
  <2>8. ASSUME NEW h \in Handles, NEW dl, FiberWaitsJob(h, dl) PROVE JobAnnounced'
    <3>1. /\ job[h] = "none" /\ job' = [job EXCEPT ![h] = "running"] /\ wake' = wake
          /\ job \in [Handles -> {"none", "running", "poke", "over"}] /\ h \in Signals
      BY <2>8 DEF FiberWaitsJob, Types, Signals
    <3>2. /\ h \notin Done'
          /\ \A g \in Handles : (g \in Done' <=> g \in Done)
                                /\ (job[g] = "poke" => job'[g] = "poke")
      BY <3>1 DEF Done
    <3> QED BY <2>5, <2>8, <3>1, <3>2 DEF FiberWaitsJob
  <2>9. CASE FiberRefused
    <3>1. UNCHANGED <<pc, tick, waiting, wait, job, wake>>
      BY <2>9 DEF FiberRefused
    <3>2. Swept' => Swept
      BY <3>1 DEF Swept
    <3> QED BY <1>5, <3>1, <3>2
  <2>10. ASSUME NEW t \in Tasks, FiberSchedules(t) PROVE JobAnnounced'
    BY <1>3, <2>10 DEF FiberSchedules, PokeWake
  <2> QED BY <1>7, <2>4, <2>6, <2>7, <2>8, <2>9, <2>10 DEF TaskStep
<1>8. CASE DriverStep
  <2>1. CASE DrainFully
    <3>1. ~Swept'
      BY <2>1 DEF DrainFully, BeginTick, Swept
    <3> QED BY <3>1 DEF JobAnnounced
  <2>2. CASE Continue
    <3>1. UNCHANGED <<waiting, wait, job, wake>> /\ Swept
      BY <2>2 DEF Continue, Swept
    <3> QED BY <1>5, <3>1
  <2>3. CASE Unpark \/ SnapshotPending \/ Start
    <3>1. UNCHANGED <<waiting, wait, job, wake, tick>>
      BY <2>3 DEF Unpark, SnapshotPending, Start, Drive
    <3>2. Swept' => Swept
      BY <2>3, <3>1 DEF Unpark, SnapshotPending, Start, Swept
    <3> QED BY <1>5, <3>1, <3>2
  <2>4. CASE DrainWaitingForShutdown
    <3>1. /\ UNCHANGED <<wait, job, wake, tick>> /\ pc = "start" /\ pc' = "poll"
          /\ waiting' = waiting \/ waiting' = <<>>
      BY <2>4 DEF DrainWaitingForShutdown
    <3>2. ToSet(waiting') \subseteq ToSet(waiting)
      BY <3>1 DEF ToSet
    <3>3. Swept' => Swept
      BY <3>1 DEF Swept
    <3> QED BY <1>5, <3>1, <3>2, <3>3
  <2>5. CASE PollWake \/ PollTimeout \/ DrainExpiredWaits \/ Exit \/ \E fd \in Fds : PollFd(fd)
    <3>1. ~Swept'
      BY <2>5 DEF PollWake, PollTimeout, DrainExpiredWaits, Exit, PollFd, Swept
    <3> QED BY <3>1 DEF JobAnnounced
  <2>6. CASE DrainCompletedWaits
    <3> DEFINE G == {f \in Fibers : wait[f].signal \in Done}
    <3>1. /\ ready' = ready \o Matching(G) /\ waiting' = NotMatching(G) /\ UNCHANGED <<wait, job>>
      BY <2>6 DEF DrainCompletedWaits
    <3>2. ToSet(waiting') = ToSet(waiting) \ G
      <4> HIDE DEF G
      <4> QED BY <3>1, SweepEffect
    <3>3. Done' = Done
      BY <3>1 DEF Done
    <3>4. \A f \in ToSet(waiting') : wait'[f].signal \notin Done'
      BY <1>1, <3>1, <3>2, <3>3
    <3> QED BY <1>4, <3>4
  <2> QED BY <1>8, <2>1, <2>2, <2>3, <2>4, <2>5, <2>6 DEF DriverStep
<1> QED BY <1>6, <1>7, <1>8 DEF Next

-------------------------------------------------------------------------------
(* The inductive invariant                                                   *)

\* A Worker begins with nothing in it.
LEMMA WorkerInit == Init => WorkerInv
<1> SUFFICES ASSUME Init PROVE WorkerInv
  OBVIOUS
<1> USE DEF Init
<1>1. ToSet(<<>>) = {} /\ Once(<<>>) /\ 0 \notin Fibers /\ \A f \in Fibers : ~(f <= 0)
  BY FibersAre DEF ToSet, Once
<1>2. Types
  <2>1. wait \in [Fibers -> [signal : Signals \cup {NoSignal}, timedOut : BOOLEAN]]
    OBVIOUS
  <2>2. waits \in [Tasks -> 0..MaxWaits] /\ born \in 0..Cardinality(Tasks)
    BY WorkerAssumption, FibersAre
  <2>3. ~Running /\ cur \notin Fibers
    BY <1>1 DEF Running
  <2>4. wake \in BOOLEAN /\ shutdown \in BOOLEAN /\ progressed \in BOOLEAN
    OBVIOUS
  <2>5. ext \in [task : Tasks \cup {NoTask}, at : {"idle", "append", "poke"}]
    OBVIOUS
  <2>6. /\ pending \in Seq(Tasks)
        /\ ready \in Seq(Fibers) /\ idlePool \in Seq(Fibers) /\ waiting \in Seq(Fibers)
    OBVIOUS
  <2>7. interest \in [Fds -> SUBSET Interest] /\ fdReady \in [Fds -> SUBSET Interest]
    OBVIOUS
  <2>8. /\ fstate \in [Fibers -> {"idle", "running", "parked"}]
        /\ ftask \in [Fibers -> Tasks \cup {NoTask}]
        /\ deadline \in [Fibers -> {"none", "armed", "passed"}]
        /\ result \in [Fibers -> {"none", "Ok", "TimedOut", "Shutdown"}]
        /\ status \in [Tasks -> {"new", "live", "finished"}]
        /\ job \in [Handles -> {"none", "running", "poke", "over"}]
    OBVIOUS
  <2> QED BY <2>1, <2>2, <2>3, <2>4, <2>5, <2>6, <2>7, <2>8 DEF Types
<1>3. Places
  BY <1>1 DEF Places, PlaceOf
<1>4. Carried
  BY <1>1 DEF Carried, CarriedBy
<1>5. Counted
  <2>1. {t \in Tasks : status[t] = "live"} = {}
    OBVIOUS
  <2> QED BY <2>1, FS_EmptySet DEF Counted
<1>6. Snapshots /\ Quiet /\ TaskAnnounced /\ JobAnnounced
  BY DEF Snapshots, Quiet, Running, TaskAnnounced, JobAnnounced, Swept
<1>7. RegisteredIffWaited
  BY <1>1 DEF RegisteredIffWaited
<1>8. Justified /\ ResultJustified
  BY DEF Justified, JustifiedOf, ResultJustified
<1> QED BY <1>2, <1>3, <1>4, <1>5, <1>6, <1>7, <1>8 DEF WorkerInv

\* Every step of every thread.
LEMMA WorkerStep == WorkerInv /\ [Next]_vars => WorkerInv'
<1> SUFFICES ASSUME WorkerInv, [Next]_vars PROVE WorkerInv'
  OBVIOUS
<1>1. CASE Next
  <2> USE <1>1
  <2>1. Types'
    BY TypesDriver, TypesTask, TypesOutside DEF WorkerInv, Next
  <2>2. Places'
    BY PlacesDriver, PlacesTask, PlacesOutside DEF WorkerInv, Next
  <2>3. Carried'
    BY CarriedDriver, CarriedTask, CarriedOutside DEF WorkerInv, Next
  <2>4. Counted' /\ Snapshots' /\ Quiet'
    BY CountedStep, SnapshotsStep, QuietStep DEF WorkerInv
  <2>5. RegisteredIffWaited' /\ Justified' /\ ResultJustified'
    BY RegisteredStep, JustifiedStep, ResultStep DEF WorkerInv
  <2>6. TaskAnnounced' /\ JobAnnounced'
    BY TaskAnnouncedStep, JobAnnouncedStep DEF WorkerInv
  <2> QED BY <2>1, <2>2, <2>3, <2>4, <2>5, <2>6 DEF WorkerInv
<1>2. CASE UNCHANGED vars
  <2> USE <1>2 DEF vars, queueVars, fiberVars, tickVars, sharedVars, envVars, WorkerInv
  <2>1. Types'
    BY DEF Types, Running
  <2>2. Places' /\ Carried' /\ Counted'
    BY DEF Places, PlaceOf, Carried, CarriedBy, Counted
  <2>3. Snapshots' /\ Quiet' /\ TaskAnnounced'
    BY DEF Snapshots, Quiet, Running, TaskAnnounced
  <2>4. RegisteredIffWaited'
    BY DEF RegisteredIffWaited, WaitsOnFd
  <2>5. Justified' /\ ResultJustified'
    BY DEF Justified, JustifiedOf, ResultJustified, Done
  <2>6. JobAnnounced'
    BY DEF JobAnnounced, Swept, Done
  <2> QED BY <2>1, <2>2, <2>3, <2>4, <2>5, <2>6
<1> QED BY <1>1, <1>2

\* Where every fiber and every task of a Worker is, what is registered with its
\* poller, how far its tick has got and which bytes are on the way.
THEOREM WorkerInvariant == Spec => []WorkerInv
BY WorkerInit, WorkerStep, PTL DEF Spec

\* In a list without duplicates an item occurs once or not at all.
LEMMA OccursOnce ==
  ASSUME NEW s \in Seq(Fibers), Once(s), NEW f \in Fibers
  PROVE  Occurrences(f, s) = IF f \in ToSet(s) THEN 1 ELSE 0
<1> DEFINE P == {i \in DOMAIN s : s[i] = f}
<1>1. DOMAIN s = 1..Len(s)
  OBVIOUS
<1>2. CASE f \in ToSet(s)
  <2>1. PICK i \in 1..Len(s) : s[i] = f
    BY <1>1, <1>2 DEF ToSet
  <2>2. P = {i}
    BY <1>1, <2>1 DEF Once
  <2> QED BY <1>2, <2>2, FS_Singleton DEF Occurrences
<1>3. CASE f \notin ToSet(s)
  <2>1. P = {}
    BY <1>3 DEF ToSet
  <2> QED BY <1>3, <2>1, FS_EmptySet DEF Occurrences
<1> QED BY <1>2, <1>3

\* Fiber.start() and Fiber.unpark() are called on the right fibers: every fiber
\* is in the list its state says, once, whatever made it ready.
THEOREM WorkerFiberInOnePlace == Spec => []FiberInOnePlace
<1>1. WorkerInv => FiberInOnePlace
  <2> SUFFICES ASSUME Types, Places, NEW f \in 1..born
               PROVE /\ Occurrences(f, idlePool) = IF fstate[f] = "idle" THEN 1 ELSE 0
                     /\ Occurrences(f, ready \o waiting) = IF fstate[f] = "parked" THEN 1 ELSE 0
                     /\ fstate[f] = "running" <=> f = cur
    BY DEF WorkerInv, FiberInOnePlace
  <2>1. f \in Fibers /\ f <= born
    BY FibersAre DEF Types
  <2>2. PlaceOf(f)
    BY <2>1 DEF Places
  <2>3. /\ ready \in Seq(Fibers) /\ waiting \in Seq(Fibers) /\ idlePool \in Seq(Fibers)
        /\ Once(ready) /\ Once(waiting) /\ Once(idlePool)
    BY DEF Types, Places
  <2>4. ToSet(ready) \cap ToSet(waiting) = {}
    BY ListedAreFibers DEF Places, PlaceOf
  <2>5. /\ ready \o waiting \in Seq(Fibers) /\ Once(ready \o waiting)
        /\ ToSet(ready \o waiting) = ToSet(ready) \cup ToSet(waiting)
    BY <2>3, <2>4, ConcatFacts
  <2>6. Occurrences(f, idlePool) = IF f \in ToSet(idlePool) THEN 1 ELSE 0
    BY <2>1, <2>3, OccursOnce
  <2>7. Occurrences(f, ready \o waiting) = IF f \in ToSet(ready \o waiting) THEN 1 ELSE 0
    BY <2>1, <2>5, OccursOnce
  <2> QED BY <2>1, <2>2, <2>5, <2>6, <2>7 DEF PlaceOf
<1> QED BY <1>1, WorkerInvariant, PTL

\* register() never finds the fd registered and unregister() never finds it
\* missing, whichever of event, deadline and shutdown ends a wait.
THEOREM WorkerRegisteredIffWaited == Spec => []RegisteredIffWaited
<1>1. WorkerInv => RegisteredIffWaited
  BY DEF WorkerInv
<1> QED BY <1>1, WorkerInvariant, PTL

\* What _wait_on_signal() returns is true when its task sees it.
THEOREM WorkerResultJustified == Spec => []ResultJustified
<1>1. WorkerInv => ResultJustified
  BY DEF WorkerInv
<1> QED BY <1>1, WorkerInvariant, PTL

\* An infinite poller.wait() never sleeps on a scheduled task or on a finished
\* pool job without a byte in the wake pair or on the way.
THEOREM WorkerNoStrandedWork == Spec => []NoStrandedWork
<1>1. WorkerInv => NoStrandedWork
  <2>1. Blocking => Swept
    BY DEF Blocking, Swept
  <2> QED BY <2>1 DEF WorkerInv, NoStrandedWork, Blocking, TaskAnnounced, JobAnnounced
<1> QED BY <1>1, WorkerInvariant, PTL

\* drain_fully() returns with no fiber parked, and a Reactor's worker with no
\* task scheduled and not run.
THEOREM WorkerExitsDrained == Spec => ExitsDrained
<1>1. ASSUME WorkerInv, Exit
      PROVE  /\ ready = <<>> /\ waiting = <<>>
             /\ HasReactor => pending = <<>> /\ ext.at # "append"
  <2>1. ready = <<>> /\ waiting = <<>>
    BY <1>1 DEF Exit, Exits, WorkerInv, Quiet
  <2>2. ASSUME HasReactor PROVE pending = <<>> /\ ext.at # "append"
    <3> DEFINE alive == {t \in Tasks : status[t] = "live"}
    <3>1. Cardinality(alive) = 0
      BY <1>1, <2>2 DEF Exit, Exits, LoadsZero, WorkerInv, Counted
    <3>2. IsFiniteSet(alive)
      BY WorkerAssumption, FS_Subset
    <3>3. alive = {}
      BY <3>1, <3>2, FS_EmptySet
    <3>4. ext.at # "append"
      BY <1>1, <3>3 DEF WorkerInv, Carried
    <3>5. ToSet(pending) = {}
      BY <1>1, <3>3 DEF WorkerInv, Carried
    <3>6. pending \in Seq(Tasks)
      BY <1>1 DEF WorkerInv, Types
    <3>7. Len(pending) \in Nat /\ (Len(pending) > 0 => pending[1] \in ToSet(pending))
      BY <3>6 DEF ToSet
    <3>8. Len(pending) = 0
      BY <3>5, <3>7
    <3> QED BY <3>4, <3>6, <3>8
  <2> QED BY <2>1, <2>2
<1>2. WorkerInv /\ [Next]_vars =>
        [Exit => /\ ready = <<>> /\ waiting = <<>>
                 /\ HasReactor => pending = <<>> /\ ext.at # "append"]_vars
  BY <1>1
<1> QED BY <1>2, WorkerInvariant, PTL DEF Spec, ExitsDrained
===============================================================================
