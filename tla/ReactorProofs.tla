----------------------------- MODULE ReactorProofs -----------------------------
(***************************************************************************)
(* Proofs about Reactor.tla for any finite set of tasks and any number of   *)
(* workers: its types, the exactness of live_tasks, that no task is left    *)
(* with a worker that has gone, and that nothing happens on the others once *)
(* one has gone.                                                            *)
(***************************************************************************)
EXTENDS Reactor, FiniteSetTheorems, TLAPS

\* A task's stage, worker and so on have the types of TypeOK after any step.
LEMMA TypeStep == TypeOK /\ [Next]_vars => TypeOK'
<1> SUFFICES ASSUME TypeOK, [Next]_vars PROVE TypeOK'
  OBVIOUS
<1> USE ReactorAssumption DEF TypeOK, Stages, Spawning, Scheduled, Workers
<1>1. ASSUME NEW t \in Tasks, NEW a \in Workers \cup {Outside}, SpawnRead(a, t) PROVE TypeOK'
  BY <1>1 DEF SpawnRead
<1>2. ASSUME NEW t \in Tasks, SpawnStore(t) PROVE TypeOK'
  <2>1. (on[t] + 1) % N \in 0..(N - 1)
    OBVIOUS
  <2> QED BY <1>2, <2>1 DEF SpawnStore, NextIndex
<1>3. ASSUME NEW t \in Tasks, ScheduleCount(t) PROVE TypeOK'
  BY <1>3 DEF ScheduleCount
<1>4. ASSUME NEW t \in Tasks, ScheduleAppend(t) PROVE TypeOK'
  BY <1>4 DEF ScheduleAppend
<1>5. ASSUME NEW t \in Tasks, Finish(t) PROVE TypeOK'
  BY <1>5 DEF Finish
<1>6. ASSUME NEW t \in Tasks, NEW s \in {"ready", "waiting"}, Yield(t, s) PROVE TypeOK'
  BY <1>6 DEF Yield
<1>7. ASSUME NEW t \in Tasks, SignalFires(t) PROVE TypeOK'
  BY <1>7 DEF SignalFires
<1>8. ASSUME NEW w \in Workers, NEW t \in Tasks, Drive(w, t) PROVE TypeOK'
  BY <1>8 DEF Drive
<1>9. ASSUME NEW w \in Workers,
             NEW pc \in {"tick", "quiet", "blocked", "exited"}, MoveTo(w, pc)
      PROVE  TypeOK'
  BY <1>9 DEF MoveTo
<1>10. CASE StartThread
  BY <1>10 DEF StartThread
<1>11. CASE JoinThread
  BY <1>11 DEF JoinThread
<1>12. CASE UNCHANGED vars
  BY <1>12 DEF vars
<1> HIDE DEF TypeOK, Stages, Spawning, Scheduled, Workers
<1>13. QED
  BY <1>1, <1>2, <1>3, <1>4, <1>5, <1>6, <1>7, <1>8, <1>9, <1>10, <1>11, <1>12
  DEF Next, SpawnStep, TaskStep, WorkerStep, TickFindsNothing, Block, Wake, ExitWorker, Recheck

\* The reactor's variables keep their types, and __next_worker stays in range
\* however many threads are in spawn() at once.
THEOREM ReactorTypes == Spec => []TypeOK
<1>1. Init => TypeOK
  BY ReactorAssumption DEF Init, TypeOK, Stages, Workers
<1> QED BY <1>1, TypeStep, PTL DEF Spec

\* Only schedule() and the end of a task change the tasks that are live; every
\* other step leaves both the set and the counter alone.
LEMMA LiveStep == TypeOK /\ LiveTasksExact /\ [Next]_vars => LiveTasksExact'
<1> SUFFICES ASSUME TypeOK, LiveTasksExact, [Next]_vars PROVE LiveTasksExact'
  OBVIOUS
<1> DEFINE Counted == {"counted"} \cup Scheduled
<1>1. IsFiniteSet(LiveTasks)
  BY ReactorAssumption, FS_Subset DEF LiveTasks
<1>2. LiveTasks = {t \in Tasks : at[t] \in Counted} /\ LiveTasks' = {t \in Tasks : at'[t] \in Counted}
  BY DEF LiveTasks
<1>3. ASSUME LiveTasks' = LiveTasks, live' = live PROVE LiveTasksExact'
  BY <1>3 DEF LiveTasksExact
<1>4. ASSUME NEW t \in Tasks, ScheduleCount(t) PROVE LiveTasksExact'
  <2>1. t \notin LiveTasks /\ LiveTasks' = LiveTasks \cup {t}
    BY <1>2, <1>4 DEF ScheduleCount, TypeOK, Scheduled
  <2>2. Cardinality(LiveTasks') = Cardinality(LiveTasks) + 1
    BY <1>1, <2>1, FS_AddElement
  <2> QED BY <1>4, <2>2 DEF ScheduleCount, LiveTasksExact
<1>5. ASSUME NEW t \in Tasks, Finish(t) PROVE LiveTasksExact'
  <2>1. t \in LiveTasks /\ LiveTasks' = LiveTasks \ {t}
    BY <1>2, <1>5 DEF Finish, TypeOK, Scheduled
  <2>2. Cardinality(LiveTasks') = Cardinality(LiveTasks) - 1
    BY <1>1, <2>1, FS_RemoveElement
  <2> QED BY <1>5, <2>2 DEF Finish, LiveTasksExact
<1>6. ASSUME NEW t \in Tasks, NEW a \in Workers \cup {Outside}, SpawnRead(a, t) PROVE LiveTasksExact'
  BY <1>2, <1>3, <1>6 DEF SpawnRead, TypeOK, Scheduled
<1>7. ASSUME NEW t \in Tasks, SpawnStore(t) PROVE LiveTasksExact'
  BY <1>2, <1>3, <1>7 DEF SpawnStore, TypeOK, Scheduled
<1>8. ASSUME NEW t \in Tasks, ScheduleAppend(t) PROVE LiveTasksExact'
  BY <1>2, <1>3, <1>8 DEF ScheduleAppend, TypeOK, Scheduled
<1>9. ASSUME NEW t \in Tasks, NEW s \in {"ready", "waiting"}, Yield(t, s) PROVE LiveTasksExact'
  BY <1>2, <1>3, <1>9 DEF Yield, TypeOK, Scheduled
<1>10. ASSUME NEW t \in Tasks, SignalFires(t) PROVE LiveTasksExact'
  BY <1>2, <1>3, <1>10 DEF SignalFires, TypeOK, Scheduled
<1>11. ASSUME NEW w \in Workers, NEW t \in Tasks, Drive(w, t) PROVE LiveTasksExact'
  BY <1>2, <1>3, <1>11 DEF Drive, On, TypeOK, Scheduled
<1>12. ASSUME UNCHANGED <<at, live>> PROVE LiveTasksExact'
  BY <1>2, <1>3, <1>12
<1>13. QED
  BY <1>4, <1>5, <1>6, <1>7, <1>8, <1>9, <1>10, <1>11, <1>12
  DEF Next, vars, SpawnStep, TaskStep, WorkerStep, TickFindsNothing, Block, Wake, ExitWorker,
      Recheck, MoveTo, StartThread, JoinThread

\* live_tasks counts exactly the tasks between schedule() and their end.
THEOREM ReactorLiveTasks == Spec => []LiveTasksExact
<1>1. Init => LiveTasksExact
  <2> SUFFICES ASSUME Init PROVE live = Cardinality(LiveTasks)
    BY DEF LiveTasksExact
  <2>1. LiveTasks = {}
    BY DEF Init, LiveTasks, Scheduled
  <2> QED BY <2>1, FS_EmptySet DEF Init
<1> QED BY <1>1, LiveStep, ReactorTypes, PTL DEF Spec

-------------------------------------------------------------------------------

\* Without spawns from outside during run(), the quiescence argument is
\* inductive: whoever is inside spawn() keeps live_tasks above zero.
LEMMA QuiescenceStep ==
  ASSUME ~SpawnAnytime
  PROVE  TypeOK /\ LiveTasksExact /\ Quiescence /\ [Next]_vars => Quiescence'
<1> SUFFICES ASSUME TypeOK, LiveTasksExact, Quiescence, [Next]_vars PROVE Quiescence'
  OBVIOUS
<1>a. StartedPrefix /\ SpawnerAlive /\ NothingAfterExit
  BY DEF Quiescence
<1>1. ASSUME NEW t \in Tasks, NEW a \in Workers \cup {Outside}, SpawnRead(a, t) PROVE Quiescence'
  <2>1. UNCHANGED <<wpc, started>>
    BY <1>1 DEF SpawnRead
  <2>2. a = Outside => started = 0
    BY <1>1, ~SpawnAnytime DEF SpawnRead, MaySpawn
  <2>3. a # Outside => \E u \in Tasks : at[u] = "running" /\ on[u] = a
    BY <1>1 DEF SpawnRead, MaySpawn, On
  <2>4. \A u \in Tasks : u # t => at'[u] = at[u] /\ on'[u] = on[u] /\ by'[u] = by[u]
    BY <1>1 DEF SpawnRead, TypeOK
  <2>5. at[t] = "new" /\ at'[t] = "chosen" /\ by'[t] = a
    BY <1>1 DEF SpawnRead, TypeOK
  <2>6. SpawnerAlive'
    BY <1>a, <2>1, <2>2, <2>3, <2>4, <2>5 DEF SpawnerAlive
  <2>7. \A w \in Workers : wpc[w] # "exited"
    BY <1>a, <2>2, <2>3 DEF StartedPrefix, NothingAfterExit, TypeOK
  <2> QED BY <1>a, <2>1, <2>6, <2>7 DEF Quiescence, StartedPrefix, NothingAfterExit
<1>2. ASSUME NEW t \in Tasks, NEW s \in Stages, at[t] \notin {"new", "finished"},
             at' = [at EXCEPT ![t] = s],
             s \in Spawning => at[t] \in Spawning,
             at[t] = "running" => ~InSpawn(on[t]),
             UNCHANGED <<on, by, wpc, started>>
      PROVE  Quiescence'
  <2>1. \A w \in Workers : wpc[w] # "exited"
    BY <1>2, <1>a DEF NothingAfterExit
  <2>2. \A u \in Tasks : at'[u] \in Spawning => at[u] \in Spawning
    BY <1>2 DEF TypeOK
  <2>3. ASSUME NEW u \in Tasks, at[u] \in Spawning, NEW v \in Tasks,
               at[v] = "running", on[v] = by[u]
        PROVE  at'[v] = "running"
    BY <1>2, <2>3 DEF TypeOK, InSpawn
  <2>4. SpawnerAlive'
    BY <1>2, <1>a, <2>2, <2>3 DEF SpawnerAlive
  <2> QED BY <1>2, <1>a, <2>1, <2>4 DEF Quiescence, StartedPrefix, NothingAfterExit
<1>3. ASSUME NEW w \in Workers, NEW pc, MoveTo(w, pc), pc # "exited", wpc[w] # "off"
      PROVE  Quiescence'
  BY <1>3, <1>a DEF MoveTo, Quiescence, StartedPrefix, SpawnerAlive, NothingAfterExit, TypeOK
<1>4. ASSUME NEW w \in Workers, ExitWorker(w) PROVE Quiescence'
  <2>1. started # 0
    BY <1>4, <1>a DEF ExitWorker, StartedPrefix
  <2>2. LiveTasks = {}
    <3>1. IsFiniteSet(LiveTasks)
      BY ReactorAssumption, FS_Subset DEF LiveTasks
    <3>2. Cardinality(LiveTasks) = 0
      BY <1>4 DEF ExitWorker, LoadsZero, LiveTasksExact
    <3> QED BY <3>1, <3>2, FS_EmptySet
  <2>3. \A t \in Tasks : at[t] \notin Scheduled
    BY <2>2 DEF LiveTasks
  <2>4. \A t \in Tasks : at[t] \notin Spawning
    BY <2>1, <2>3, <1>a DEF SpawnerAlive, Scheduled
  <2>5. \A t \in Tasks : at[t] \in {"new", "finished"}
    BY <2>3, <2>4 DEF TypeOK, Stages
  <2> QED BY <1>4, <1>a, <2>1, <2>4, <2>5
          DEF ExitWorker, MoveTo, Quiescence, StartedPrefix, SpawnerAlive, NothingAfterExit, TypeOK
<1>5. CASE StartThread
  <2>1. \A t \in Tasks : at[t] \in Spawning => by[t] # Outside
    BY <1>5, ~SpawnAnytime DEF StartThread, InSpawn
  <2>2. UNCHANGED <<at, on, by>> /\ started' > 0
    BY <1>5 DEF StartThread, TypeOK
  <2>3. \A w \in Workers : wpc'[w] = "exited" => wpc[w] = "exited"
    BY <1>5 DEF StartThread, TypeOK
  <2> QED BY <1>a, <2>1, <2>2, <2>3 DEF Quiescence, StartedPrefix, SpawnerAlive, NothingAfterExit
<1>6. ASSUME UNCHANGED <<at, on, by, wpc, started>> PROVE Quiescence'
  BY <1>6, <1>a DEF Quiescence, StartedPrefix, SpawnerAlive, NothingAfterExit
<1>7. ASSUME NEW t \in Tasks, SpawnStep(t) PROVE Quiescence'
  BY <1>2, <1>7 DEF SpawnStep, SpawnStore, ScheduleCount, ScheduleAppend, Stages, Spawning, Scheduled
<1>8. ASSUME NEW t \in Tasks, TaskStep(t) \/ SignalFires(t) PROVE Quiescence'
  BY <1>2, <1>8 DEF TaskStep, Finish, Yield, SignalFires, Stages, Spawning, Scheduled
<1>9. ASSUME NEW w \in Workers, NEW t \in Tasks, Drive(w, t) PROVE Quiescence'
  BY <1>2, <1>9 DEF Drive, On, Stages, Spawning, Scheduled
<1>10. ASSUME NEW w \in Workers, WorkerStep(w) PROVE Quiescence'
  BY <1>3, <1>4, <1>9, <1>10 DEF WorkerStep, TickFindsNothing, Block, Wake, Recheck
<1>11. QED
  BY <1>1, <1>5, <1>6, <1>7, <1>8, <1>10 DEF Next, vars, JoinThread

\* Quiescence holds from the start.
LEMMA Quiesces ==
  ASSUME ~SpawnAnytime
  PROVE  Spec => [](TypeOK /\ Quiescence)
<1>1. Init => Quiescence
  BY ReactorAssumption DEF Init, Quiescence, StartedPrefix, SpawnerAlive, NothingAfterExit, Spawning
<1>2. TypeOK /\ LiveTasksExact /\ Quiescence /\ [Next]_vars => Quiescence'
  BY QuiescenceStep, ~SpawnAnytime
<1> QED BY <1>1, <1>2, ReactorTypes, ReactorLiveTasks, PTL DEF Spec

\* When nobody outside the reactor spawns during run(), a worker never leaves
\* a task behind: drain_fully() returns only after the last task of every
\* worker has ended.
THEOREM ReactorNoTaskStranded ==
  ASSUME ~SpawnAnytime
  PROVE  Spec => []NoTaskStranded
<1>1. Spec => [](TypeOK /\ Quiescence)
  BY Quiesces, ~SpawnAnytime
<1>2. Quiescence => NoTaskStranded
  BY DEF Quiescence, NothingAfterExit, NoTaskStranded, Spawning, Scheduled
<1> QED BY <1>1, <1>2, PTL

\* A step of a task needs one that is neither new nor finished, and a spawn needs
\* a task that runs.
LEMMA QuietStep ==
  ASSUME ~SpawnAnytime, TypeOK, Quiescence, [Next]_vars, NEW e \in Workers, wpc[e] = "exited"
  PROVE  UNCHANGED at
<1>1. started > 0 /\ \A t \in Tasks : at[t] \in {"new", "finished"}
  BY DEF Quiescence, StartedPrefix, NothingAfterExit
<1>2. ASSUME NEW t \in Tasks, NEW a \in Workers \cup {Outside}, SpawnRead(a, t) PROVE FALSE
  BY <1>1, <1>2, ~SpawnAnytime DEF SpawnRead, MaySpawn, On, TypeOK
<1>3. ASSUME NEW t \in Tasks, SpawnStep(t) \/ TaskStep(t) \/ SignalFires(t) PROVE FALSE
  BY <1>1, <1>3 DEF SpawnStep, SpawnStore, ScheduleCount, ScheduleAppend, TaskStep, Finish, Yield, SignalFires
<1>4. ASSUME NEW w \in Workers, WorkerStep(w) PROVE UNCHANGED at
  BY <1>1, <1>4 DEF WorkerStep, TickFindsNothing, Block, Wake, ExitWorker, Recheck, MoveTo, Drive, On
<1>5. CASE StartThread \/ JoinThread \/ UNCHANGED vars
  BY <1>5 DEF StartThread, JoinThread, vars
<1> QED BY <1>2, <1>3, <1>4, <1>5 DEF Next

\* When nobody outside the reactor spawns during run(), the first drain_fully()
\* to return is the end of the work on all workers.
THEOREM ReactorQuietAfterExit ==
  ASSUME ~SpawnAnytime
  PROVE  Spec => QuietAfterExit
<1>1. Spec => [](TypeOK /\ Quiescence)
  BY Quiesces, ~SpawnAnytime
<1>2. TypeOK /\ Quiescence /\ [Next]_vars => [(\E w \in Workers : wpc[w] = "exited") => UNCHANGED at]_vars
  BY QuietStep, ~SpawnAnytime
<1> QED BY <1>1, <1>2, PTL DEF Spec, QuietAfterExit
=============================================================================
