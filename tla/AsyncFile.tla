------------------------------- MODULE AsyncFile ------------------------------
(***************************************************************************)
(* lib/asyncfile.py: do_read()/do_write() of _ReactorAsyncFileOps, its pool *)
(* of threads, and the CompletionHandle (lib/reactor.py) that carries a     *)
(* result back.  A fiber hands a closure over its own buffer to a pool      *)
(* thread and waits; the thread runs the system call, fills the handle      *)
(* field by field, stores __done and wakes the fiber's worker.  The wait    *)
(* may end without the completion (deadline, shutdown), and the fiber then  *)
(* reuses its buffer while the job is still queued or running.  Queues are  *)
(* at the level of BatchQueue, the worker's side of the wait (Worker.tla)   *)
(* is one step.                                                             *)
(***************************************************************************)
EXTENDS Integers, Sequences, FiniteSets

CONSTANTS Fibers,      \* each has one buffer, and one operation at a time
          MaxOps,      \* bound of the model: operations per fiber
          PoolSize,    \* _POOL_SIZE
          Abandoners   \* the fibers whose waits can end by a deadline or by shutdown

ASSUME AsyncFileAssumption ==
  /\ MaxOps \in Nat
  /\ PoolSize \in Nat \ {0}
  /\ Abandoners \subseteq Fibers

Threads == 0..(PoolSize - 1)

\* The k-th operation of a fiber: its Job, its CompletionHandle, its closure.
Ops == Fibers \X (1..MaxOps)
NoOp == <<>>

\* What a system call answers.
Answers == {"ok", "err"}

\* An initialised CompletionHandle: __ok (with __value or __err) and __done.
FreshHandle == [ok |-> FALSE, done |-> FALSE]

VARIABLES
  fpc,      \* fiber -> "run", "put" (has a ticket) or "wait"
  count,    \* fiber -> operations begun
  target,   \* fiber -> the pool thread its ticket names
  next,     \* __next
  handle,   \* op -> its CompletionHandle
  result,   \* fiber -> what its last operation returned
  content,  \* fiber -> the op whose system call last used its buffer
  queue,    \* thread -> what is left of its batch, then __queue
  tpc,      \* thread -> "drain", "call", "value", "done" or "wake"
  job,      \* thread -> the op it is running
  answer,   \* op -> what its system call answered, or "none"
  woken     \* ops whose worker has been woken: wake_external()

vars == <<fpc, count, target, next, handle, result, content, queue, tpc, job, answer, woken>>

Current(f) == <<f, count[f]>>

Init ==
  /\ fpc = [f \in Fibers |-> "run"]
  /\ count = [f \in Fibers |-> 0]
  /\ target = [f \in Fibers |-> 0]
  /\ next = 0
  /\ handle = [o \in Ops |-> FreshHandle]
  /\ result = [f \in Fibers |-> "none"]
  /\ content = [f \in Fibers |-> NoOp]
  /\ queue = [w \in Threads |-> <<>>]
  /\ tpc = [w \in Threads |-> "drain"]
  /\ job = [w \in Threads |-> NoOp]
  /\ answer = [o \in Ops |-> "none"]
  /\ woken = {}

-------------------------------------------------------------------------------
(* do_read() on a reactor's fiber, and _Pool.submit()                        *)

BeginOp(f) ==
  /\ fpc[f] = "run"
  /\ count[f] < MaxOps
  /\ count' = [count EXCEPT ![f] = @ + 1]
  /\ target' = [target EXCEPT ![f] = next]
  /\ next' = (next + 1) % PoolSize
  /\ result' = [result EXCEPT ![f] = "none"]
  /\ fpc' = [fpc EXCEPT ![f] = "put"]
  /\ UNCHANGED <<handle, content, queue, tpc, job, answer, woken>>

PutJob(f) ==
  /\ fpc[f] = "put"
  /\ queue' = [queue EXCEPT ![target[f]] = Append(@, Current(f))]
  /\ fpc' = [fpc EXCEPT ![f] = "wait"]
  /\ UNCHANGED <<count, target, next, handle, result, content, tpc, job, answer, woken>>

\* Mutant: the fiber is let go when a pool thread picks its job up.
IsDone_PickedUp(o) == \E w \in Threads : job[w] = o

\* Mutant: the fiber is let go before complete() has stored the result.
IsDone_Started(o) == answer[o] # "none"

\* The worker's sweep: is_done().
IsDone(o) == handle[o].done

Take(o) == IF handle[o].ok THEN "ok" ELSE "err"

\* wait_for_signal() returns Ok, and the fiber take()s its result.
Completed(f) ==
  /\ fpc[f] = "wait"
  /\ IsDone(Current(f))
  /\ result' = [result EXCEPT ![f] = Take(Current(f))]
  /\ fpc' = [fpc EXCEPT ![f] = "run"]
  /\ UNCHANGED <<count, target, next, handle, content, queue, tpc, job, answer, woken>>

\* wait_for_signal() returns TimedOut or Shutdown, possibly although __done has
\* just been stored; the job goes on.
Abandoned(f) ==
  /\ f \in Abandoners
  /\ fpc[f] = "wait"
  /\ result' = [result EXCEPT ![f] = "abandoned"]
  /\ fpc' = [fpc EXCEPT ![f] = "run"]
  /\ UNCHANGED <<count, target, next, handle, content, queue, tpc, job, answer, woken>>

-------------------------------------------------------------------------------
(* _PoolWorker.run_forever() and CompletionHandle.complete()                 *)

NextJob(w) ==
  /\ tpc[w] = "drain"
  /\ queue[w] # <<>>
  /\ job' = [job EXCEPT ![w] = Head(queue[w])]
  /\ queue' = [queue EXCEPT ![w] = Tail(@)]
  /\ tpc' = [tpc EXCEPT ![w] = "call"]
  /\ UNCHANGED <<fpc, count, target, next, handle, result, content, answer, woken>>

\* work(): the system call fills (do_write(): reads) the captured buffer.
SystemCall(w, a) ==
  /\ tpc[w] = "call"
  /\ answer' = [answer EXCEPT ![job[w]] = a]
  /\ content' = [content EXCEPT ![job[w][1]] = job[w]]
  /\ tpc' = [tpc EXCEPT ![w] = "value"]
  /\ UNCHANGED <<fpc, count, target, next, handle, result, queue, job, woken>>

\* __value and __ok, or __err and __ok: plain stores.
StoreResult(w) ==
  /\ tpc[w] = "value"
  /\ handle' = [handle EXCEPT ![job[w]].ok = (answer[job[w]] = "ok")]
  /\ tpc' = [tpc EXCEPT ![w] = "done"]
  /\ UNCHANGED <<fpc, count, target, next, result, content, queue, job, answer, woken>>

StoreDone(w) ==
  /\ tpc[w] = "done"
  /\ handle' = [handle EXCEPT ![job[w]].done = TRUE]
  /\ tpc' = [tpc EXCEPT ![w] = "wake"]
  /\ UNCHANGED <<fpc, count, target, next, result, content, queue, job, answer, woken>>

\* Mutant: the thread does not come back for the rest of its queue.
AfterWake_Stops == "stopped"

AfterWake == "drain"

WakeWaiter(w) ==
  /\ tpc[w] = "wake"
  /\ woken' = woken \cup {job[w]}
  /\ tpc' = [tpc EXCEPT ![w] = AfterWake]
  /\ UNCHANGED <<fpc, count, target, next, handle, result, content, queue, job, answer>>

-------------------------------------------------------------------------------

FiberStep(f) == PutJob(f) \/ Completed(f)

ThreadStep(w) ==
  \/ NextJob(w) \/ StoreResult(w) \/ StoreDone(w) \/ WakeWaiter(w)
  \/ \E a \in Answers : SystemCall(w, a)

Next ==
  \/ \E f \in Fibers : BeginOp(f) \/ FiberStep(f) \/ Abandoned(f)
  \/ \E w \in Threads : ThreadStep(w)

Spec == Init /\ [][Next]_vars

\* Pool threads run, system calls return, and a fiber whose worker was woken is
\* resumed (NoStrandedWork of Worker.tla).
Fairness ==
  /\ \A f \in Fibers : WF_vars(PutJob(f)) /\ WF_vars(Current(f) \in woken /\ Completed(f))
  /\ \A w \in Threads : WF_vars(ThreadStep(w))

FairSpec == Spec /\ Fairness

-------------------------------------------------------------------------------
(* Properties                                                                *)

\* do_read() returns what its own system call answered: take() never sees the
\* initial fields of a handle, or half of complete()'s stores.
OwnAnswer ==
  \A f \in Fibers : result[f] \in Answers => result[f] = answer[Current(f)]

\* When do_read() returns a result, the buffer holds the data of that very call,
\* whatever other fibers' abandoned jobs do.  (A fiber that abandoned an earlier
\* call itself has no such guarantee: that call still writes into its buffer.)
DataIsThere ==
  \A f \in Fibers \ Abandoners : result[f] \in Answers => content[f] = Current(f)

\* Every operation begun returns.
OpsReturn == \A f \in Fibers : fpc[f] = "put" ~> fpc[f] = "run"
===============================================================================
