------------------------------ MODULE ThreadPool ------------------------------
(***************************************************************************)
(* lib/threading.py: ThreadPool and its _PoolWorkers.  submit() takes an    *)
(* atomic ticket, and only later puts the job on the queue of the worker    *)
(* the ticket names; shutdown() puts a None sentinel on every queue, one    *)
(* worker after the other and retrying while a bounded queue is full, and   *)
(* then joins the threads.  Submissions race with all of that.  A queue is  *)
(* used at the level of BatchQueue (Queue.tla implements it): put() is one  *)
(* step and drain() takes everything in one step.                           *)
(***************************************************************************)
EXTENDS Integers, Sequences, FiniteSets

CONSTANTS Jobs,       \* closures, each submitted once, by a thread of its own
          Closers,    \* threads that call shutdown()
          Waiters,    \* those of them that pass wait=True
          Size,       \* size
          MaxDepth,   \* max_queue_depth: a natural number, or NoLimit
          NoLimit,    \* max_queue_depth = None
          TicketMod,  \* 2^w of __next's usize
          None        \* the sentinel

\* A thread may be joined once only (a second pthread_join is undefined), so
\* at most one shutdown() waits.  A pool of size zero panics on its first use.
ASSUME PoolAssumption ==
  /\ Waiters \subseteq Closers
  /\ \A c, d \in Waiters : c = d
  /\ Size \in Nat \ {0}
  /\ NoLimit \notin Nat
  /\ MaxDepth \in Nat \cup {NoLimit}
  /\ TicketMod \in Nat \ {0}
  /\ None \notin Jobs

Workers == 0..(Size - 1)
Items == Jobs \cup {None}

VARIABLES
  next,    \* __next
  jpc,     \* job -> "new", "ticketed", "accepted", "rejected", "running", "done"
  idx,     \* job -> the worker its ticket names
  queue,   \* worker -> __queue
  batch,   \* worker -> what is left of the batch drain() returned
  wpc,     \* worker -> "drain", "loop" (in the batch), "job" or "exited"
  cpc,     \* closer -> "idle", "requesting", "joining" or "returned"
  ci,      \* closer -> i
  log,     \* history: worker -> everything ever put on its queue
  ran,     \* history: worker -> everything run_forever() has taken from batches
  before   \* history: jobs accepted when the first shutdown() was called

vars == <<next, jpc, idx, queue, batch, wpc, cpc, ci, log, ran, before>>

Accepted == {j \in Jobs : jpc[j] \in {"accepted", "running", "done"}}

ShutdownCalled == \E c \in Closers : cpc[c] # "idle"

Init ==
  /\ next = 0
  /\ jpc = [j \in Jobs |-> "new"]
  /\ idx = [j \in Jobs |-> 0]
  /\ queue = [w \in Workers |-> <<>>]
  /\ batch = [w \in Workers |-> <<>>]
  /\ wpc = [w \in Workers |-> "drain"]
  /\ cpc = [c \in Closers |-> "idle"]
  /\ ci = [c \in Closers |-> 0]
  /\ log = [w \in Workers |-> <<>>]
  /\ ran = [w \in Workers |-> <<>>]
  /\ before = {}

-------------------------------------------------------------------------------
(* ThreadPool.submit()                                                       *)

HasRoom(w) == MaxDepth # NoLimit => Len(queue[w]) < MaxDepth

\* Queue.put() of an item there is room for.
Put(w, item) ==
  /\ HasRoom(w)
  /\ queue' = [queue EXCEPT ![w] = Append(@, item)]
  /\ log' = [log EXCEPT ![w] = Append(@, item)]

\* fetch_add( 1 ) of a usize.
TicketAfter(n) == (n + 1) % TicketMod

TakeTicket(j) ==
  /\ jpc[j] = "new"
  /\ jpc' = [jpc EXCEPT ![j] = "ticketed"]
  /\ idx' = [idx EXCEPT ![j] = next % Size]
  /\ next' = TicketAfter(next)
  /\ UNCHANGED <<queue, batch, wpc, cpc, ci, log, ran, before>>

Accept(j) ==
  /\ jpc[j] = "ticketed"
  /\ Put(idx[j], j)
  /\ jpc' = [jpc EXCEPT ![j] = "accepted"]
  /\ UNCHANGED <<next, idx, batch, wpc, cpc, ci, ran, before>>

\* QueueFullError.
Reject(j) ==
  /\ jpc[j] = "ticketed"
  /\ ~HasRoom(idx[j])
  /\ jpc' = [jpc EXCEPT ![j] = "rejected"]
  /\ UNCHANGED <<next, idx, queue, batch, wpc, cpc, ci, log, ran, before>>

-------------------------------------------------------------------------------
(* _PoolWorker.run_forever()                                                 *)

Drain(w) ==
  /\ wpc[w] = "drain"
  /\ queue[w] # <<>>
  /\ batch' = [batch EXCEPT ![w] = queue[w]]
  /\ queue' = [queue EXCEPT ![w] = <<>>]
  /\ wpc' = [wpc EXCEPT ![w] = "loop"]
  /\ UNCHANGED <<next, jpc, idx, cpc, ci, log, ran, before>>

\* The batch's next item, with what is left of the batch.
Advance(w) ==
  /\ wpc[w] = "loop"
  /\ batch[w] # <<>>
  /\ batch' = [batch EXCEPT ![w] = Tail(@)]
  /\ ran' = [ran EXCEPT ![w] = Append(@, Head(batch[w]))]

\* Mutant: the batch is taken from its end, as list.pop() would.
RunJob_FromTheEnd(w) ==
  /\ wpc[w] = "loop"
  /\ batch[w] # <<>>
  /\ LET item == batch[w][Len(batch[w])] IN
       /\ item # None
       /\ batch' = [batch EXCEPT ![w] = SubSeq(@, 1, Len(@) - 1)]
       /\ ran' = [ran EXCEPT ![w] = Append(@, item)]
       /\ jpc' = [jpc EXCEPT ![item] = "running"]
  /\ wpc' = [wpc EXCEPT ![w] = "job"]
  /\ UNCHANGED <<next, idx, queue, cpc, ci, log, before>>

RunJob(w) ==
  /\ Advance(w)
  /\ Head(batch[w]) # None
  /\ jpc' = [jpc EXCEPT ![Head(batch[w])] = "running"]
  /\ wpc' = [wpc EXCEPT ![w] = "job"]
  /\ UNCHANGED <<next, idx, queue, cpc, ci, log, before>>

\* Mutant: the rest of the batch is forgotten after a job.
JobEnds_DropsBatch(w) ==
  /\ wpc[w] = "job"
  /\ jpc' = [jpc EXCEPT ![ran[w][Len(ran[w])]] = "done"]
  /\ batch' = [batch EXCEPT ![w] = <<>>]
  /\ wpc' = [wpc EXCEPT ![w] = "drain"]
  /\ UNCHANGED <<next, idx, queue, cpc, ci, log, ran, before>>

JobEnds(w) ==
  /\ wpc[w] = "job"
  /\ jpc' = [jpc EXCEPT ![ran[w][Len(ran[w])]] = "done"]
  /\ wpc' = [wpc EXCEPT ![w] = "loop"]
  /\ UNCHANGED <<next, idx, queue, batch, cpc, ci, log, ran, before>>

BatchEnds(w) ==
  /\ wpc[w] = "loop"
  /\ batch[w] = <<>>
  /\ wpc' = [wpc EXCEPT ![w] = "drain"]
  /\ UNCHANGED <<next, jpc, idx, queue, batch, cpc, ci, log, ran, before>>

\* The sentinel: return, leaving the rest of the batch and the queue.
ExitAtSentinel(w) ==
  /\ Advance(w)
  /\ Head(batch[w]) = None
  /\ wpc' = [wpc EXCEPT ![w] = "exited"]
  /\ UNCHANGED <<next, jpc, idx, queue, cpc, ci, log, before>>

-------------------------------------------------------------------------------
(* ThreadPool.shutdown()                                                     *)

CallShutdown(c) ==
  /\ cpc[c] = "idle"
  /\ cpc' = [cpc EXCEPT ![c] = "requesting"]
  /\ before' = IF ShutdownCalled THEN before ELSE Accepted
  /\ UNCHANGED <<next, jpc, idx, queue, batch, wpc, ci, log, ran>>

\* After the last sentinel a waiting caller goes on to the joins.
AfterLastRequest(c) == IF c \in Waiters THEN "joining" ELSE "returned"

PutSentinel(w) == Put(w, None)

\* request_shutdown() of the i-th worker; on a full queue it tries again.
RequestShutdown(c) ==
  /\ cpc[c] = "requesting"
  /\ PutSentinel(ci[c])
  /\ ci' = [ci EXCEPT ![c] = (@ + 1) % Size]
  /\ cpc' = [cpc EXCEPT ![c] = IF ci[c] + 1 = Size THEN AfterLastRequest(c) ELSE @]
  /\ UNCHANGED <<next, jpc, idx, batch, wpc, ran, before>>

\* Mutant: shutdown() returns without joining.
CanJoin_Always(w) == TRUE

CanJoin(w) == wpc[w] = "exited"

JoinWorker(c) ==
  /\ cpc[c] = "joining"
  /\ CanJoin(ci[c])
  /\ ci' = [ci EXCEPT ![c] = (@ + 1) % Size]
  /\ cpc' = [cpc EXCEPT ![c] = IF ci[c] + 1 = Size THEN "returned" ELSE @]
  /\ UNCHANGED <<next, jpc, idx, queue, batch, wpc, log, ran, before>>

-------------------------------------------------------------------------------

SubmitStep(j) == Accept(j) \/ Reject(j)

WorkerStep(w) ==
  Drain(w) \/ RunJob(w) \/ JobEnds(w) \/ BatchEnds(w) \/ ExitAtSentinel(w)

CloserStep(c) == RequestShutdown(c) \/ JoinWorker(c)

Next ==
  \/ \E j \in Jobs : TakeTicket(j) \/ SubmitStep(j)
  \/ \E w \in Workers : WorkerStep(w)
  \/ \E c \in Closers : CallShutdown(c) \/ CloserStep(c)

Spec == Init /\ [][Next]_vars

\* Threads keep running and jobs end; nobody has to submit or to shut down.
\* Weak fairness of a retrying shutdown() is enough because there are finitely
\* many jobs to keep a bounded queue full with.
Fairness ==
  /\ \A j \in Jobs : WF_vars(SubmitStep(j))
  /\ \A w \in Workers : WF_vars(WorkerStep(w))
  /\ \A c \in Closers : WF_vars(CloserStep(c))

FairSpec == Spec /\ Fairness

-------------------------------------------------------------------------------
(* Properties                                                                *)

\* submit()'s docstring: "FIFO per worker".  What a worker has taken, then the
\* rest of its batch, then its queue, is exactly what was put on the queue, in
\* that order: nothing is lost, repeated or overtaken, whoever submits.
FifoPerWorker ==
  \A w \in Workers : log[w] = ran[w] \o batch[w] \o queue[w]

\* run_forever()'s docstring: "any real job queued before it still runs first".
\* When shutdown(wait=True) returns, every job accepted before the first
\* shutdown() call has ended, although submissions raced with the sentinels.
JoinMeansDone ==
  \A c \in Waiters, j \in before : cpc[c] = "returned" => jpc[j] = "done"

\* A job submit() accepted is run, unless shutdown() is called.
AcceptedJobsRun ==
  \A j \in Jobs : jpc[j] = "accepted" ~> jpc[j] = "done" \/ ShutdownCalled

\* shutdown() returns; of a bounded queue that is full request_shutdown() says
\* "the worker thread is concurrently draining, so a momentarily-full bounded
\* queue frees up shortly".
ShutdownReturns ==
  \A c \in Closers : cpc[c] = "requesting" ~> cpc[c] = "returned"
===============================================================================
