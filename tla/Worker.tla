-------------------------------- MODULE Worker --------------------------------
(***************************************************************************)
(* lib/reactor.py: one Worker, the thread that drives it (drain_fully), the *)
(* fibers it runs (lib/fiber.py), and the threads that reach into it from   *)
(* outside: schedule(), request_shutdown(), and a pool job that completes a *)
(* CompletionHandle and calls wake_external().                              *)
(*                                                                          *)
(* Only __pending_tasks, the wake pair, __shutting_down, live_tasks and the *)
(* handles' __done flags are shared; everything else belongs to the driving *)
(* thread.  Each step below therefore reads or writes at most one of the    *)
(* shared things the other threads can change in between.  The wake pair is *)
(* a level: one undrained byte already makes the poller return, and         *)
(* __drain_wake empties it, so it is a Boolean.  The poller is the POSIX    *)
(* one, whose wait() reports at most one event.                             *)
(***************************************************************************)
EXTENDS Integers, Sequences, SequencesExt, FiniteSets

CONSTANTS Tasks,      \* closures that may be scheduled, each at most once
          Fds,        \* sockets a task may wait on
          Handles,    \* CompletionHandles, each used for one pool job
          Yielders,   \* the tasks that may call fiber.park() themselves
          Sleepers,   \* the tasks that may call reactor.sleep()
          MaxWaits,   \* bound of the model: waits made by one task
          HasReactor, \* the Worker belongs to a Reactor (__reactor_state)
          MayShutdown,\* whether some thread calls request_shutdown()
          NoSignal, Sleep, NoTask

ASSUME WorkerAssumption ==
  /\ IsFiniteSet(Tasks)
  /\ Yielders \subseteq Tasks
  /\ Sleepers \subseteq Tasks
  /\ MaxWaits \in Nat
  /\ HasReactor \in BOOLEAN
  /\ MayShutdown \in BOOLEAN
  /\ NoTask \notin Tasks

\* Fibers are created on demand; no more than one per task is ever needed.
Fibers == 1..Cardinality(Tasks)

Interest == {"r", "w"}

\* Signal.FdReady, Signal.Completion, and sleep()'s never-completed Completion.
Signals == (Fds \X Interest) \cup Handles \cup {Sleep}

\* The kinds of signal are variants of one type; sleep()'s handle is its own.
ASSUME SignalAssumption ==
  /\ Sleep \notin Handles
  /\ (Fds \X Interest) \cap (Handles \cup {Sleep, NoSignal}) = {}

VARIABLES
  pending,    \* __pending_tasks
  ready,      \* __ready_to_unpark
  idlePool,   \* __idle_pool
  waiting,    \* __waiting: the fibers of its entries, in order
  wait,       \* fiber -> its own _PendingWait: signal and timed_out
  interest,   \* fd -> what the poller watches it for; {} if not registered
  wake,       \* an undrained byte is in the wake pair
  shutdown,   \* __shutting_down
  live,       \* live_tasks (kept whether or not HasReactor; see LoadsZero)
  born,       \* number of fibers created so far
  fstate,     \* fiber -> "idle", "running" or "parked"
  ftask,      \* fiber -> the task it carries
  deadline,   \* fiber -> "none", "armed" or "passed"
  result,     \* fiber -> what its last wait_for_signal() returned
  pc,         \* where drain_fully()/run_until_idle() is
  tick,       \* timeout of the current tick: "zero", "recheck" or "infinite"
  left,       \* to_unpark or to_start: the snapshot still to process
  progressed, \* run_until_idle()'s local
  cur,        \* the fiber being driven, 0 if none
  status,     \* task -> "new", "live" (from fetch_add to the end) or "finished"
  waits,      \* task -> waits made
  fdReady,    \* fd -> what the kernel would report
  job,        \* handle -> "none", "running", "poke" (done, not yet woken), "over"
  ext,        \* a thread outside, inside schedule(): its task and step
  closer      \* a thread outside, inside request_shutdown()

queueVars == <<pending, ready, idlePool, waiting>>
fiberVars == <<born, fstate, ftask, deadline, result, wait>>
tickVars  == <<pc, tick, left, progressed, cur>>
sharedVars == <<wake, shutdown, live, job, ext, closer, status>>
envVars   == <<interest, fdReady, waits>>
vars == <<queueVars, fiberVars, tickVars, sharedVars, envVars>>

Done == {h \in Handles : job[h] \in {"poke", "over"}}

Init ==
  /\ pending = <<>> /\ ready = <<>> /\ idlePool = <<>> /\ waiting = <<>>
  /\ wait = [f \in Fibers |-> [signal |-> NoSignal, timedOut |-> FALSE]]
  /\ interest = [fd \in Fds |-> {}]
  /\ wake = FALSE /\ shutdown = FALSE /\ live = 0
  /\ born = 0
  /\ fstate = [f \in Fibers |-> "idle"]
  /\ ftask = [f \in Fibers |-> NoTask]
  /\ deadline = [f \in Fibers |-> "none"]
  /\ result = [f \in Fibers |-> "none"]
  /\ pc = "new" /\ tick = "zero" /\ left = 0 /\ progressed = FALSE /\ cur = 0
  /\ status = [t \in Tasks |-> "new"]
  /\ waits = [t \in Tasks |-> 0]
  /\ fdReady = [fd \in Fds |-> {}]
  /\ job = [h \in Handles |-> "none"]
  /\ ext = [task |-> NoTask, at |-> "idle"]
  /\ closer = "idle"

-------------------------------------------------------------------------------
(* The threads outside the worker                                            *)

\* Mutant: a poke that leaves no byte.
PokeWake_Lost == wake' = wake

\* __poke_wake(): a byte, unless one is already waiting to be drained.
PokeWake == wake' = TRUE

CountTask(t) ==
  /\ status' = [status EXCEPT ![t] = "live"]
  /\ live' = live + 1

\* schedule(): count the task, append it, poke the wake pair - three steps.
ScheduleCount(t) ==
  /\ ext.at = "idle"
  /\ status[t] = "new"
  /\ CountTask(t)
  /\ ext' = [task |-> t, at |-> "append"]
  /\ UNCHANGED <<queueVars, fiberVars, tickVars, envVars, wake, shutdown, job, closer>>

ScheduleAppend ==
  /\ ext.at = "append"
  /\ pending' = Append(pending, ext.task)
  /\ ext' = [ext EXCEPT !.at = "poke"]
  /\ UNCHANGED <<ready, idlePool, waiting, fiberVars, tickVars, envVars,
                 wake, shutdown, live, job, closer, status>>

SchedulePoke ==
  /\ ext.at = "poke"
  /\ PokeWake
  /\ ext' = [task |-> NoTask, at |-> "idle"]
  /\ UNCHANGED <<queueVars, fiberVars, tickVars, envVars,
                 shutdown, live, job, closer, status>>

\* request_shutdown(): store the flag, then poke.
ShutdownStore ==
  /\ MayShutdown
  /\ closer = "idle"
  /\ shutdown' = TRUE
  /\ closer' = "poke"
  /\ UNCHANGED <<queueVars, fiberVars, tickVars, envVars, wake, live, job, ext, status>>

ShutdownPoke ==
  /\ closer = "poke"
  /\ PokeWake
  /\ closer' = "done"
  /\ UNCHANGED <<queueVars, fiberVars, tickVars, envVars, shutdown, live, job, ext, status>>

\* A pool thread: complete() sets __done, then wake_external() pokes.
JobComplete(h) ==
  /\ job[h] = "running"
  /\ job' = [job EXCEPT ![h] = "poke"]
  /\ UNCHANGED <<queueVars, fiberVars, tickVars, envVars,
                 wake, shutdown, live, ext, closer, status>>

JobPoke(h) ==
  /\ job[h] = "poke"
  /\ PokeWake
  /\ job' = [job EXCEPT ![h] = "over"]
  /\ UNCHANGED <<queueVars, fiberVars, tickVars, envVars,
                 shutdown, live, ext, closer, status>>

\* The kernel: a socket becomes readable or writable.  Readiness that is neither
\* watched nor waited for is left out: a wait begins after WouldBlock cleared it.
FdBecomesReady(fd, k) ==
  /\ k \notin fdReady[fd]
  /\ k \in interest[fd] \/ \E f \in ToSet(waiting) : wait[f].signal = <<fd, k>>
  /\ fdReady' = [fdReady EXCEPT ![fd] = @ \cup {k}]
  /\ UNCHANGED <<queueVars, fiberVars, tickVars, sharedVars, interest, waits>>

\* The clock reaches the deadline of an enclosing `with timeout(...)`.
DeadlinePasses(f) ==
  /\ deadline[f] = "armed"
  /\ fstate[f] = "parked"
  /\ deadline' = [deadline EXCEPT ![f] = "passed"]
  /\ UNCHANGED <<queueVars, tickVars, sharedVars, envVars, born, fstate, ftask,
                 result, wait>>

-------------------------------------------------------------------------------
(* drain_fully() and the queue loops of run_until_idle()                     *)

\* The beginning of run_until_idle(timeout): to_unpark is snapshot here.
BeginTick(timeout) ==
  /\ pc' = "unpark"
  /\ tick' = timeout
  /\ left' = Len(ready)
  /\ progressed' = FALSE
  /\ UNCHANGED cur

DrainFully ==
  /\ pc = "new"
  /\ BeginTick("zero")
  /\ UNCHANGED <<queueVars, fiberVars, sharedVars, envVars>>

\* Switch into fiber f: start() or unpark().
Drive(f) ==
  /\ cur' = f
  /\ progressed' = TRUE
  /\ left' = left - 1
  /\ UNCHANGED tick

\* Mutant: timed_out is not looked at.
WaitResult_NoTimeout(f) ==
  CASE wait[f].signal = NoSignal -> "none"
    [] wait[f].signal # NoSignal /\ shutdown -> "Shutdown"
    [] OTHER -> "Ok"

\* What _wait_on_signal() returns once fiber.park() returns.
WaitResult(f) ==
  CASE wait[f].signal = NoSignal -> "none"
    [] wait[f].signal # NoSignal /\ shutdown -> "Shutdown"
    [] wait[f].signal # NoSignal /\ ~shutdown /\ wait[f].timedOut -> "TimedOut"
    [] OTHER -> "Ok"

\* list.pop() removes the LAST element, so both loops are last-in first-out.
Unpark ==
  /\ pc = "unpark"
  /\ left > 0
  /\ LET f == Last(ready) IN
       /\ ready' = Front(ready)
       /\ fstate' = [fstate EXCEPT ![f] = "running"]
       /\ result' = [result EXCEPT ![f] = WaitResult(f)]
       /\ Drive(f)
  /\ pc' = "runUnparked"
  /\ UNCHANGED <<pending, idlePool, waiting, sharedVars, envVars,
                 born, ftask, deadline, wait>>

\* The unpark loop is over: to_start is snapshot.
SnapshotPending ==
  /\ pc = "unpark"
  /\ left = 0
  /\ pc' = "start"
  /\ left' = Len(pending)
  /\ UNCHANGED <<queueVars, fiberVars, sharedVars, envVars,
                 tick, progressed, cur>>

\* __take_idle_fiber(): the fiber idled last, or a new one.
TakeIdleFiber == IF idlePool # <<>> THEN Last(idlePool) ELSE born + 1

Start ==
  /\ pc = "start"
  /\ left > 0
  /\ LET f == TakeIdleFiber IN
       /\ idlePool' = IF idlePool # <<>> THEN Front(idlePool) ELSE idlePool
       /\ born' = IF idlePool # <<>> THEN born ELSE born + 1
       /\ ftask' = [ftask EXCEPT ![f] = Last(pending)]
       /\ fstate' = [fstate EXCEPT ![f] = "running"]
       /\ Drive(f)
  /\ pending' = Front(pending)
  /\ pc' = "runStarted"
  /\ UNCHANGED <<ready, waiting, sharedVars, envVars, deadline, result, wait>>

-------------------------------------------------------------------------------
(* What the running fiber's task may do; the fiber runs on the worker's own  *)
(* thread until it finishes or parks, and is then requeued by its state.     *)

Running == pc \in {"runUnparked", "runStarted"}

\* Back in run_until_idle() after __requeue_by_state().
ReturnToLoop ==
  /\ pc' = IF pc = "runUnparked" THEN "unpark" ELSE "start"
  /\ cur' = 0
  /\ UNCHANGED <<tick, left, progressed>>

\* Mutant: a PARKED fiber is made ready without looking at __waiting.
RequeueParked_Always(isWaiting) == ready' = Append(ready, cur)

\* __requeue_by_state(), PARKED: a signal wait is already in __waiting.
RequeueParked(isWaiting) ==
  ready' = IF isWaiting THEN ready ELSE Append(ready, cur)

\* The task returns: IDLE, back to the pool, no longer live.
FiberFinishes ==
  /\ Running
  /\ fstate' = [fstate EXCEPT ![cur] = "idle"]
  /\ ftask' = [ftask EXCEPT ![cur] = NoTask]
  /\ deadline' = [deadline EXCEPT ![cur] = "none"]
  /\ wait' = [wait EXCEPT ![cur] = [signal |-> NoSignal, timedOut |-> FALSE]]
  /\ result' = [result EXCEPT ![cur] = "none"]
  /\ idlePool' = Append(idlePool, cur)
  /\ live' = live - 1
  /\ status' = [status EXCEPT ![ftask[cur]] = "finished"]
  /\ ReturnToLoop
  /\ UNCHANGED <<pending, ready, waiting, born, wake, shutdown, job, ext, closer, envVars>>

\* fiber.park() called by the task itself: PARKED and not in __waiting.
FiberParks ==
  /\ Running
  /\ ftask[cur] \in Yielders
  /\ fstate' = [fstate EXCEPT ![cur] = "parked"]
  /\ deadline' = [deadline EXCEPT ![cur] = "none"]
  /\ wait' = [wait EXCEPT ![cur] = [signal |-> NoSignal, timedOut |-> FALSE]]
  /\ result' = [result EXCEPT ![cur] = "none"]
  /\ RequeueParked(FALSE)
  /\ ReturnToLoop
  /\ UNCHANGED <<pending, idlePool, waiting, born, ftask, sharedVars, envVars>>

\* schedule() called by the task, on its own worker.
FiberSchedules(t) ==
  /\ Running
  /\ status[t] = "new"
  /\ CountTask(t)
  /\ pending' = Append(pending, t)
  /\ PokeWake
  /\ UNCHANGED <<ready, idlePool, waiting, fiberVars, tickVars, envVars,
                 shutdown, job, ext, closer>>

\* _wait_on_signal() up to fiber.park(): registers the fd only if it is not
\* registered yet, appends to __waiting, parks.  It is reached with the
\* operation having just failed with WouldBlock (fdReady) or with the pool job
\* just submitted (job).
MayWait ==
  /\ Running
  /\ waits[ftask[cur]] < MaxWaits
  /\ ~shutdown

ParkWaiting(sig, dl) ==
  /\ waits' = [waits EXCEPT ![ftask[cur]] = @ + 1]
  /\ wait' = [wait EXCEPT ![cur] = [signal |-> sig, timedOut |-> FALSE]]
  /\ deadline' = [deadline EXCEPT ![cur] = dl]
  /\ result' = [result EXCEPT ![cur] = "none"]
  /\ fstate' = [fstate EXCEPT ![cur] = "parked"]
  /\ waiting' = Append(waiting, cur)
  /\ RequeueParked(TRUE)
  /\ ReturnToLoop
  /\ UNCHANGED <<pending, idlePool, born, ftask>>

Register(fd, k) ==
  interest' = [interest EXCEPT ![fd] = IF @ = {} THEN {k} ELSE @]

FiberWaitsFd(fd, k, dl) ==
  /\ MayWait
  /\ Register(fd, k)
  /\ fdReady' = [fdReady EXCEPT ![fd] = @ \ {k}]
  /\ ParkWaiting(<<fd, k>>, dl)
  /\ UNCHANGED sharedVars

FiberWaitsJob(h, dl) ==
  /\ MayWait
  /\ job[h] = "none"
  /\ job' = [job EXCEPT ![h] = "running"]
  /\ ParkWaiting(h, dl)
  /\ UNCHANGED <<interest, fdReady, wake, shutdown, live, ext, closer, status>>

FiberSleeps ==
  /\ MayWait
  /\ ftask[cur] \in Sleepers
  /\ ParkWaiting(Sleep, "armed")
  /\ UNCHANGED <<interest, fdReady, sharedVars>>

\* The early return of _wait_on_signal(): nothing registered, nothing parked.
FiberRefused ==
  /\ Running
  /\ waits[ftask[cur]] < MaxWaits
  /\ shutdown
  /\ waits' = [waits EXCEPT ![ftask[cur]] = @ + 1]
  /\ result' = [result EXCEPT ![cur] = "Shutdown"]
  /\ UNCHANGED <<queueVars, tickVars, sharedVars, interest, fdReady,
                 born, fstate, ftask, deadline, wait>>

-------------------------------------------------------------------------------
(* The rest of run_until_idle(): forced wakeups, the poller, the two sweeps  *)

WaitsOnFd(f, fd) == wait[f].signal \in {fd} \X Interest

\* The loop that sweeps a list: after n entries it has kept those in G, in order.
Sweep(s, G) ==
  LET kept[n \in 0..Len(s)] ==
        IF n = 0 THEN <<>>
        ELSE IF s[n] \in G THEN Append(kept[n - 1], s[n]) ELSE kept[n - 1]
  IN kept[Len(s)]

\* The entries of __waiting whose fibers are in G, and the others.
Matching(G) == Sweep(waiting, G)
NotMatching(G) == Sweep(waiting, Fibers \ G)

\* Poller.unregister() and __forget_registered_fd(), for every fd of S.
Unregistered(S) == [fd \in Fds |-> IF fd \in S THEN {} ELSE interest[fd]]

DrainWaitingForShutdown ==
  /\ pc = "start"
  /\ left = 0
  /\ pc' = "poll"
  /\ IF shutdown /\ waiting # <<>>
     THEN /\ ready' = ready \o waiting
          /\ waiting' = <<>>
          /\ interest' = Unregistered(Fds)
          /\ progressed' = TRUE
     ELSE UNCHANGED <<ready, waiting, interest, progressed>>
  /\ UNCHANGED <<pending, idlePool, fiberVars, sharedVars, fdReady, waits,
                 tick, left, cur>>

\* Mutant: only readability is reported.
ReadyFds_ReadOnly == {fd \in Fds : "r" \in interest[fd] \cap fdReady[fd]}

ReadyFds == {fd \in Fds : interest[fd] \cap fdReady[fd] # {}}

\* poller.wait() reports the wake fd: __drain_wake() empties it.
PollWake ==
  /\ pc = "poll"
  /\ wake
  /\ wake' = FALSE
  /\ pc' = "expire"
  /\ UNCHANGED <<queueVars, fiberVars, envVars, shutdown, live, job, ext, closer, status,
                 tick, left, progressed, cur>>

\* poller.wait() reports fd: whoever waits on it, for reading or for writing,
\* is made ready, and the fd is unregistered.
PollFd(fd) ==
  /\ pc = "poll"
  /\ fd \in ReadyFds
  /\ LET hit == {f \in Fibers : WaitsOnFd(f, fd)} IN
       /\ ready' = ready \o Matching(hit)
       /\ waiting' = NotMatching(hit)
       /\ progressed' = (progressed \/ Matching(hit) # <<>>)
  /\ interest' = Unregistered({fd})
  /\ pc' = "expire"
  /\ UNCHANGED <<pending, idlePool, fiberVars, sharedVars, fdReady, waits,
                 tick, left, cur>>

\* Mutant: the timeout is not clamped to the soonest deadline.
MayTimeOut_NotClamped == tick # "infinite"

\* The timeout is clamped to the soonest deadline in __waiting, in whole
\* milliseconds, so the call may return just before the deadline.
MayTimeOut ==
  tick # "infinite" \/ \E f \in ToSet(waiting) : deadline[f] # "none"

\* poller.wait() times out.
PollTimeout ==
  /\ pc = "poll"
  /\ ~wake
  /\ ReadyFds = {}
  /\ MayTimeOut
  /\ pc' = "expire"
  /\ UNCHANGED <<queueVars, fiberVars, sharedVars, envVars,
                 tick, left, progressed, cur>>

\* Mutant: the waiters that have not expired are forgotten.
FdStillWaitedOn_Never(fd, out) == FALSE

\* __fd_still_waited_on(), once the expired entries are out of __waiting.
FdStillWaitedOn(fd, out) == \E f \in ToSet(waiting) \ out : WaitsOnFd(f, fd)

\* __drain_expired_waits(): an fd is unregistered unless a waiter that has not
\* expired still needs it.
DrainExpiredWaits ==
  /\ pc = "expire"
  /\ LET expired == {f \in Fibers : deadline[f] = "passed"}
         out == ToSet(Matching(expired))
     IN /\ ready' = ready \o Matching(expired)
        /\ waiting' = NotMatching(expired)
        /\ wait' = [f \in Fibers |->
                      IF f \in out THEN [wait[f] EXCEPT !.timedOut = TRUE] ELSE wait[f]]
        /\ interest' = Unregistered({fd \in Fds : /\ \E f \in out : WaitsOnFd(f, fd)
                                                  /\ ~FdStillWaitedOn(fd, out)})
        /\ progressed' = (progressed \/ out # {})
  /\ pc' = "complete"
  /\ UNCHANGED <<pending, idlePool, sharedVars, fdReady, waits, tick, left, cur,
                 born, fstate, ftask, deadline, result>>

\* __drain_completed_waits(), the last thing run_until_idle() does.
DrainCompletedWaits ==
  /\ pc = "complete"
  /\ LET completed == {f \in Fibers : wait[f].signal \in Done} IN
       /\ ready' = ready \o Matching(completed)
       /\ waiting' = NotMatching(completed)
       /\ progressed' = (progressed \/ Matching(completed) # <<>>)
  /\ pc' = "decide"
  /\ UNCHANGED <<pending, idlePool, fiberVars, sharedVars, envVars,
                 tick, left, cur>>

-------------------------------------------------------------------------------
(* __drain_fully_body(): what to do after a tick                             *)

\* Mutant: a locally idle worker leaves whatever its siblings still run.
LoadsZero_Local == TRUE

\* state.live_tasks.load() == 0; without a Reactor nothing is asked.
LoadsZero == ~HasReactor \/ live = 0

NextTick ==
  CASE tick # "zero" \/ progressed -> "zero"
    [] tick = "zero" /\ ~progressed /\ waiting # <<>> -> "infinite"
    [] OTHER -> "recheck"

Exits == tick = "zero" /\ ~progressed /\ waiting = <<>> /\ LoadsZero

Continue ==
  /\ pc = "decide"
  /\ ~Exits
  /\ BeginTick(NextTick)
  /\ UNCHANGED <<queueVars, fiberVars, sharedVars, envVars>>

Exit ==
  /\ pc = "decide"
  /\ Exits
  /\ pc' = "exited"
  /\ UNCHANGED <<queueVars, fiberVars, sharedVars, envVars,
                 tick, left, progressed, cur>>

-------------------------------------------------------------------------------

Deadlines == {"none", "armed"}

\* The steps of the driving thread that do not depend on what a task chooses.
DriverStep ==
  \/ DrainFully \/ Unpark \/ SnapshotPending \/ Start
  \/ DrainWaitingForShutdown
  \/ PollWake \/ PollTimeout \/ (\E fd \in Fds : PollFd(fd))
  \/ DrainExpiredWaits \/ DrainCompletedWaits \/ Continue \/ Exit

TaskStep ==
  \/ FiberFinishes \/ FiberParks \/ FiberSleeps \/ FiberRefused
  \/ \E t \in Tasks : FiberSchedules(t)
  \/ \E fd \in Fds, k \in Interest, dl \in Deadlines : FiberWaitsFd(fd, k, dl)
  \/ \E h \in Handles, dl \in Deadlines : FiberWaitsJob(h, dl)

OutsideStep ==
  \/ \E t \in Tasks : ScheduleCount(t)
  \/ ScheduleAppend \/ SchedulePoke
  \/ ShutdownStore \/ ShutdownPoke
  \/ \E h \in Handles : JobComplete(h) \/ JobPoke(h)
  \/ \E fd \in Fds, k \in Interest : FdBecomesReady(fd, k)
  \/ \E f \in Fibers : DeadlinePasses(f)

Next == DriverStep \/ TaskStep \/ OutsideStep

Spec == Init /\ [][Next]_vars

\* The driving thread runs whenever it can, its tasks included; a thread inside
\* schedule() or request_shutdown() finishes the call; pool jobs complete; and
\* time passes.  Nobody has to schedule a task or to shut down, and no peer has
\* to make a socket ready.
Fairness ==
  /\ WF_vars(DriverStep \/ TaskStep)
  /\ WF_vars(ScheduleAppend \/ SchedulePoke)
  /\ WF_vars(ShutdownPoke)
  /\ \A h \in Handles : WF_vars(JobComplete(h) \/ JobPoke(h))
  /\ \A f \in Fibers : WF_vars(DeadlinePasses(f))

FairSpec == Spec /\ Fairness

-------------------------------------------------------------------------------
(* Properties                                                                *)

Occurrences(f, s) == Cardinality({i \in DOMAIN s : s[i] = f})

\* Every fiber is in exactly one place, once: an idle one in the pool, a parked
\* one in __ready_to_unpark or __waiting, the running one in none.  Two entries
\* would make Fiber.unpark() or Fiber.start() panic on a fiber that is not
\* PARKED or IDLE any more; none would lose the task for good.
FiberInOnePlace ==
  \A f \in 1..born :
    /\ Occurrences(f, idlePool) = IF fstate[f] = "idle" THEN 1 ELSE 0
    /\ Occurrences(f, ready \o waiting) = IF fstate[f] = "parked" THEN 1 ELSE 0
    /\ fstate[f] = "running" <=> f = cur

\* An fd is registered with the poller exactly while some entry of __waiting is
\* on it, whichever of event, deadline and shutdown removes the entries: a
\* leftover registration would make the next register() fail (EEXIST) and a
\* missing one would make unregister() fail or the waiter sleep for ever.
RegisteredIffWaited ==
  \A fd \in Fds : interest[fd] # {} <=> \E f \in ToSet(waiting) : WaitsOnFd(f, fd)

\* wait_for_signal()'s answer is true when the task sees it: TimedOut only after
\* the deadline, Shutdown only after request_shutdown(), Ok for a Completion only
\* once the handle is done (so take() reads a finished result) and never for
\* sleep()'s handle (its `unreachable` panic).
ResultJustified ==
  \A f \in Fibers :
    /\ result[f] = "TimedOut" => deadline[f] = "passed"
    /\ result[f] = "Shutdown" => shutdown
    /\ result[f] = "Ok" => /\ wait[f].signal # Sleep
                           /\ wait[f].signal \in Handles => wait[f].signal \in Done

\* The worker is, or is about to be, in poller.wait() with no timeout.
Blocking == pc = "poll" /\ tick = "infinite"

\* An infinite wait sleeps neither on a scheduled task nor on a finished pool
\* job: whatever the snapshot of __pending_tasks or the sweep of __waiting missed
\* has its byte in the wake pair or on the way.
NoStrandedWork ==
  Blocking =>
    /\ pending # <<>> => wake \/ ext.at = "poke"
    /\ (\E f \in ToSet(waiting) : wait[f].signal \in Done)
         => wake \/ \E h \in Handles : job[h] = "poke"

\* drain_fully() returns only with nothing left: no parked fiber, and for a
\* Reactor's worker no task that was scheduled before.
ExitsDrained ==
  [][Exit => /\ ready = <<>> /\ waiting = <<>>
             /\ HasReactor => pending = <<>> /\ ext.at # "append"]_vars

\* A wait that has a deadline, or whose pool job completes, ends (a
\* request_shutdown() may leave the worker blocked with the fiber ready to run).
BoundedWaitsEnd ==
  \A f \in Fibers :
    f \in ToSet(waiting) /\ (deadline[f] # "none" \/ wait[f].signal \in Handles)
      ~> fstate[f] = "running" \/ shutdown

\* A fiber does not wait for ever for readiness the poller watches and the
\* kernel keeps reporting, whatever else is waited for, scheduled or completed.
ReadinessServed ==
  \A f \in Fibers, fd \in Fds, k \in Interest :
    ~<>[](/\ f \in ToSet(waiting)
          /\ wait[f].signal = <<fd, k>>
          /\ k \in interest[fd] \cap fdReady[fd])
===============================================================================
