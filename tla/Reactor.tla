------------------------------- MODULE Reactor --------------------------------
(***************************************************************************)
(* lib/reactor.py: a Reactor and its Workers, at the level that decides     *)
(* when run() may return.  A worker that has drained its own queues must    *)
(* not leave while a task of a sibling may still spawn() work onto it; the  *)
(* shared live_tasks counter is what it asks.  Worker.tla has one worker's  *)
(* queues, signals and wake pair in detail; here a worker's queues are the  *)
(* sets of tasks at each stage, taken in any order, and a blocked worker is *)
(* woken by whatever becomes runnable on it.  spawn() is four steps, so two *)
(* tasks spawning at once read and write __next_worker unsynchronised.      *)
(***************************************************************************)
EXTENDS Integers, FiniteSets

CONSTANTS Tasks,         \* closures, each spawned at most once
          N,             \* num_workers
          MaxYields,     \* bound of the model: parks and waits of one task
          SpawnAnytime,  \* a thread outside the reactor may spawn() during run()
          Outside        \* that thread; before run() it is run()'s own caller

Workers == 0..(N - 1)

ASSUME ReactorAssumption ==
  /\ IsFiniteSet(Tasks)
  /\ N \in Nat \ {0}
  /\ MaxYields \in Nat
  /\ SpawnAnytime \in BOOLEAN
  /\ Outside \notin Workers

VARIABLES
  at,       \* task -> its stage, see Stages
  on,       \* task -> the worker spawn() chose for it
  by,       \* task -> who spawned it
  yields,   \* task -> parks and waits so far
  next,     \* __next_worker
  live,     \* live_tasks
  wpc,      \* worker -> "off", "tick", "quiet", "blocked" or "exited"
  started,  \* run(): threads started so far
  joined    \* run(): threads joined so far

vars == <<at, on, by, yields, next, live, wpc, started, joined>>

\* spawn() has read __next_worker; has stored it; schedule() has counted.
Spawning == {"chosen", "stored", "counted"}
\* In __pending_tasks; on the running fiber; in __ready_to_unpark; in __waiting.
Scheduled == {"pending", "running", "ready", "waiting"}
Stages == {"new", "finished"} \cup Spawning \cup Scheduled

On(w, stage) == {t \in Tasks : at[t] = stage /\ on[t] = w}

\* The tasks live_tasks is meant to count.
LiveTasks == {t \in Tasks : at[t] \in {"counted"} \cup Scheduled}

Init ==
  /\ at = [t \in Tasks |-> "new"]
  /\ on = [t \in Tasks |-> 0]
  /\ by = [t \in Tasks |-> Outside]
  /\ yields = [t \in Tasks |-> 0]
  /\ next = 0
  /\ live = 0
  /\ wpc = [w \in Workers |-> "off"]
  /\ started = 0
  /\ joined = 0

-------------------------------------------------------------------------------
(* Reactor.spawn() and Worker.schedule(), by the outside thread or by the    *)
(* task a worker is running                                                  *)

InSpawn(a) == \E t \in Tasks : at[t] \in Spawning /\ by[t] = a

MaySpawn(a) ==
  /\ ~InSpawn(a)
  /\ IF a = Outside THEN SpawnAnytime \/ started = 0 ELSE On(a, "running") # {}

SpawnRead(a, t) ==
  /\ at[t] = "new"
  /\ MaySpawn(a)
  /\ at' = [at EXCEPT ![t] = "chosen"]
  /\ on' = [on EXCEPT ![t] = next]
  /\ by' = [by EXCEPT ![t] = a]
  /\ UNCHANGED <<yields, next, live, wpc, started, joined>>

\* Mutant: the wrap-around is forgotten.
NextIndex_NoWrap(i) == i + 1

NextIndex(i) == (i + 1) % N

SpawnStore(t) ==
  /\ at[t] = "chosen"
  /\ next' = NextIndex(on[t])
  /\ at' = [at EXCEPT ![t] = "stored"]
  /\ UNCHANGED <<on, by, yields, live, wpc, started, joined>>

\* Mutant: the task is enqueued without being counted.
ScheduleCount_Forgotten(t) ==
  /\ at[t] = "stored"
  /\ at' = [at EXCEPT ![t] = "counted"]
  /\ UNCHANGED <<live, on, by, yields, next, wpc, started, joined>>

ScheduleCount(t) ==
  /\ at[t] = "stored"
  /\ live' = live + 1
  /\ at' = [at EXCEPT ![t] = "counted"]
  /\ UNCHANGED <<on, by, yields, next, wpc, started, joined>>

ScheduleAppend(t) ==
  /\ at[t] = "counted"
  /\ at' = [at EXCEPT ![t] = "pending"]
  /\ UNCHANGED <<on, by, yields, next, live, wpc, started, joined>>

-------------------------------------------------------------------------------
(* Worker.run_until_idle(): fibers are driven one at a time                  *)

\* start() a pending task or unpark() a ready one.
Drive(w, t) ==
  /\ wpc[w] = "tick"
  /\ On(w, "running") = {}
  /\ t \in On(w, "pending") \cup On(w, "ready")
  /\ at' = [at EXCEPT ![t] = "running"]
  /\ UNCHANGED <<on, by, yields, next, live, wpc, started, joined>>

\* The running task parks, or waits for a signal.
Yield(t, stage) ==
  /\ at[t] = "running"
  /\ ~InSpawn(on[t])
  /\ yields[t] < MaxYields
  /\ yields' = [yields EXCEPT ![t] = @ + 1]
  /\ at' = [at EXCEPT ![t] = stage]
  /\ UNCHANGED <<on, by, next, live, wpc, started, joined>>

\* Mutant: a finished task stays counted.
Finish_StillLive(t) ==
  /\ at[t] = "running"
  /\ ~InSpawn(on[t])
  /\ at' = [at EXCEPT ![t] = "finished"]
  /\ UNCHANGED <<live, on, by, yields, next, wpc, started, joined>>

Finish(t) ==
  /\ at[t] = "running"
  /\ ~InSpawn(on[t])
  /\ at' = [at EXCEPT ![t] = "finished"]
  /\ live' = live - 1
  /\ UNCHANGED <<on, by, yields, next, wpc, started, joined>>

\* The signal a task waits for fires, or its deadline passes.
SignalFires(t) ==
  /\ at[t] = "waiting"
  /\ at' = [at EXCEPT ![t] = "ready"]
  /\ UNCHANGED <<on, by, yields, next, live, wpc, started, joined>>

-------------------------------------------------------------------------------
(* Worker.drain_fully()                                                      *)

MoveTo(w, pc) ==
  /\ wpc' = [wpc EXCEPT ![w] = pc]
  /\ UNCHANGED <<at, on, by, yields, next, live, started, joined>>

Runnable(w) == On(w, "pending") \cup On(w, "ready")

\* A tick that found nothing to do returns False.
TickFindsNothing(w) ==
  /\ wpc[w] = "tick"
  /\ On(w, "running") = {}
  /\ Runnable(w) = {}
  /\ MoveTo(w, "quiet")

\* Something is in __waiting: a tick with no timeout.
Block(w) ==
  /\ wpc[w] = "quiet"
  /\ On(w, "waiting") # {}
  /\ MoveTo(w, "blocked")

Wake(w) ==
  /\ wpc[w] = "blocked"
  /\ Runnable(w) # {}
  /\ MoveTo(w, "tick")

\* Mutant: only the worker's own queues are looked at.
LoadsZero_Local == TRUE

LoadsZero == live = 0

\* Nothing in __waiting: leave when live_tasks is zero, else look again after
\* at most _QUIESCENCE_RECHECK_MS.
ExitWorker(w) ==
  /\ wpc[w] = "quiet"
  /\ On(w, "waiting") = {}
  /\ LoadsZero
  /\ MoveTo(w, "exited")

Recheck(w) ==
  /\ wpc[w] = "quiet"
  /\ On(w, "waiting") = {}
  /\ ~LoadsZero
  /\ MoveTo(w, "tick")

-------------------------------------------------------------------------------
(* Reactor.run()                                                             *)

StartThread ==
  /\ started < N
  /\ SpawnAnytime \/ ~InSpawn(Outside)
  /\ started' = started + 1
  /\ wpc' = [wpc EXCEPT ![started] = "tick"]
  /\ UNCHANGED <<at, on, by, yields, next, live, joined>>

JoinThread ==
  /\ started = N
  /\ joined < N
  /\ wpc[joined] = "exited"
  /\ joined' = joined + 1
  /\ UNCHANGED <<at, on, by, yields, next, live, wpc, started>>

-------------------------------------------------------------------------------

SpawnStep(t) == SpawnStore(t) \/ ScheduleCount(t) \/ ScheduleAppend(t)

WorkerStep(w) ==
  \/ TickFindsNothing(w) \/ Block(w) \/ Wake(w) \/ ExitWorker(w) \/ Recheck(w)
  \/ \E t \in Tasks : Drive(w, t)

TaskStep(t) == Finish(t) \/ Yield(t, "ready") \/ Yield(t, "waiting")

Next ==
  \/ \E t \in Tasks, a \in Workers \cup {Outside} : SpawnRead(a, t)
  \/ \E t \in Tasks : SpawnStep(t) \/ TaskStep(t) \/ SignalFires(t)
  \/ \E w \in Workers : WorkerStep(w)
  \/ StartThread \/ JoinThread

Spec == Init /\ [][Next]_vars

\* Every worker thread, the task it runs included, keeps running once started;
\* run() proceeds; and the signals tasks wait for do fire (each has a deadline).
\* Nobody has to spawn, and nobody has to call run().
Fairness ==
  /\ \A w \in Workers : WF_vars(WorkerStep(w))
  /\ \A t \in Tasks : WF_vars(SpawnStep(t)) /\ WF_vars(TaskStep(t)) /\ WF_vars(SignalFires(t))
  /\ WF_vars(started > 0 /\ StartThread)
  /\ WF_vars(JoinThread)

FairSpec == Spec /\ Fairness

-------------------------------------------------------------------------------
(* Properties                                                                *)

\* Types; __next_worker is always a worker's index, however spawns race on it.
TypeOK ==
  /\ at \in [Tasks -> Stages]
  /\ on \in [Tasks -> Workers]
  /\ by \in [Tasks -> Workers \cup {Outside}]
  /\ yields \in [Tasks -> 0..MaxYields]
  /\ next \in Workers
  /\ live \in Int
  /\ wpc \in [Workers -> {"off", "tick", "quiet", "blocked", "exited"}]
  /\ started \in 0..N
  /\ joined \in 0..N

\* live_tasks is the number of tasks between schedule() and their end, across
\* all workers and all threads in the middle of a spawn().
LiveTasksExact == live = Cardinality(LiveTasks)

\* No task is left with a worker that has gone: not in its queues, not on a
\* fiber, not in the hands of a thread about to append it there.  (Spawns come
\* from tasks, or from outside before run().)
NoTaskStranded ==
  \A w \in Workers, t \in Tasks :
    wpc[w] = "exited" /\ at[t] \in Spawning \cup Scheduled => on[t] # w

\* The first worker to leave ends the reactor: from then on no task is spawned,
\* started or resumed on any worker, for a live_tasks of zero that one worker
\* reads without a lock stays true of all of them.  (Spawns as above.)
QuietAfterExit == [][(\E w \in Workers : wpc[w] = "exited") => UNCHANGED at]_vars

\* What makes NoTaskStranded inductive, and gives QuietAfterExit.  A thread that
\* is inside spawn() before counting its task is either run()'s caller, with no
\* worker started, or a worker whose running task is counted; so a worker that
\* reads live_tasks = 0 knows that nothing is anywhere, and nothing can come from
\* nowhere after.
StartedPrefix == \A w \in Workers : wpc[w] # "off" => started > 0

SpawnerAlive ==
  \A t \in Tasks : at[t] \in Spawning =>
    IF by[t] = Outside THEN started = 0
    ELSE \E u \in Tasks : at[u] = "running" /\ on[u] = by[t]

NothingAfterExit ==
  \A w \in Workers, t \in Tasks :
    wpc[w] = "exited" => at[t] \in {"new", "finished"}

Quiescence == StartedPrefix /\ SpawnerAlive /\ NothingAfterExit

\* run() returns, once started, when every task ends: no worker waits for ever
\* on a counter that does not come back to zero.
RunReturns == started > 0 ~> joined = N
===============================================================================
