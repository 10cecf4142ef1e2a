---------------------------- MODULE AsyncFileProofs ----------------------------
(***************************************************************************)
(* AsyncFile.tla for any number of fibers, pool threads and operations: a   *)
(* fiber is given the answer of its own system call, and a fiber that never *)
(* abandons a wait finds that call's data in its buffer.  Neither is        *)
(* inductive: both need that an operation is on one queue or with one       *)
(* thread, once, and how far its system call has got there.                 *)
(***************************************************************************)
EXTENDS AsyncFile, TLAPS

Active(w) == tpc[w] # "drain"

\* submit() has put the operation on a queue.
Placed(o) == o[2] < count[o[1]] \/ (o[2] = count[o[1]] /\ fpc[o[1]] # "put")

\* The variables' types.  A fiber is outside "run", or has a result, only after its
\* first operation has begun, and a thread is busy only with an operation.
Types ==
  /\ fpc \in [Fibers -> {"run", "put", "wait"}]
  /\ count \in [Fibers -> 0..MaxOps]
  /\ target \in [Fibers -> Threads]
  /\ next \in Threads
  /\ handle \in [Ops -> [ok : BOOLEAN, done : BOOLEAN]]
  /\ result \in [Fibers -> Answers \cup {"none", "abandoned"}]
  /\ content \in [Fibers -> Ops \cup {NoOp}]
  /\ queue \in [Threads -> Seq(Ops)]
  /\ tpc \in [Threads -> {"drain", "call", "value", "done", "wake"}]
  /\ job \in [Threads -> Ops \cup {NoOp}]
  /\ answer \in [Ops -> Answers \cup {"none"}]
  /\ woken \in SUBSET Ops
  /\ \A f \in Fibers : fpc[f] # "run" \/ result[f] # "none" => count[f] > 0
  /\ \A w \in Threads : Active(w) => job[w] \in Ops

\* A queued operation is there once, on no thread, and has not been called.
QueuedOnce ==
  /\ \A w, v \in Threads : \A i \in DOMAIN queue[w], k \in DOMAIN queue[v] :
       queue[w][i] = queue[v][k] => w = v /\ i = k
  /\ \A w \in Threads : \A i \in DOMAIN queue[w] :
       /\ answer[queue[w][i]] = "none"
       /\ Placed(queue[w][i])
       /\ \A v \in Threads : Active(v) => job[v] # queue[w][i]

\* Two busy threads have different operations.
RunOnce ==
  \A w, v \in Threads : Active(w) /\ Active(v) /\ job[w] = job[v] => w = v

\* What the stores of complete() have left in the handle at each of its steps.
PhaseOf(w) ==
  /\ Active(w) => Placed(job[w])
  /\ tpc[w] = "call" => answer[job[w]] = "none"
  /\ tpc[w] \in {"value", "done"} => answer[job[w]] # "none" /\ ~handle[job[w]].done
  /\ tpc[w] = "done" => handle[job[w]].ok = (answer[job[w]] = "ok")

Filled(o) ==
  /\ answer[o] # "none" => Placed(o)
  /\ handle[o].done => answer[o] # "none" /\ handle[o].ok = (answer[o] = "ok")

Phases == (\A w \in Threads : PhaseOf(w)) /\ (\A o \in Ops : Filled(o))

Stages == Types /\ QueuedOnce /\ RunOnce /\ Phases

\* A fiber that never abandons a wait has seen every earlier call answered, and
\* the last call answered is the last that used its buffer.
InTurn ==
  \A f \in Fibers \ Abandoners :
    /\ \A k \in 1..MaxOps :
         k < count[f] \/ (k = count[f] /\ fpc[f] = "run") => answer[<<f, k>>] # "none"
    /\ count[f] > 0 /\ answer[Current(f)] # "none" => content[f] = Current(f)

-------------------------------------------------------------------------------

\* Every step of a fiber or of a pool thread keeps the types.
LEMMA TypeStep == Types /\ [Next]_vars => Types'
<1> SUFFICES ASSUME Types, [Next]_vars PROVE Types'
  OBVIOUS
<1> USE AsyncFileAssumption DEF Types, Threads, Answers, Active
<1>1. ASSUME NEW f \in Fibers, BeginOp(f) PROVE Types'
  <2>1. (next + 1) % PoolSize \in 0..(PoolSize - 1)
    OBVIOUS
  <2>2. count' \in [Fibers -> 0..MaxOps] /\ count'[f] > 0
    BY <1>1 DEF BeginOp
  <2>3. \A g \in Fibers : fpc'[g] # "run" \/ result'[g] # "none" => count'[g] > 0
    BY <1>1, <2>2 DEF BeginOp
  <2> QED BY <1>1, <2>1, <2>2, <2>3 DEF BeginOp
<1>2. ASSUME NEW f \in Fibers, PutJob(f) PROVE Types'
  <2>1. count[f] \in 1..MaxOps
    <3>1. fpc[f] # "run" /\ count[f] \in 0..MaxOps
      BY <1>2 DEF PutJob
    <3> QED BY <3>1
  <2>2. Current(f) \in Ops
    BY <2>1 DEF Current, Ops
  <2>3. queue' \in [Threads -> Seq(Ops)]
    BY <1>2, <2>2 DEF PutJob
  <2> QED BY <1>2, <2>3 DEF PutJob
<1>3. ASSUME NEW f \in Fibers, Completed(f) PROVE Types'
  BY <1>3 DEF Completed, Take
<1>4. ASSUME NEW f \in Fibers, Abandoned(f) PROVE Types'
  BY <1>4 DEF Abandoned
<1>5. ASSUME NEW w \in Threads, NextJob(w) PROVE Types'
  <2>1. Head(queue[w]) \in Ops /\ Tail(queue[w]) \in Seq(Ops)
    BY <1>5 DEF NextJob
  <2> QED BY <1>5, <2>1 DEF NextJob
<1>6. ASSUME NEW w \in Threads, NEW a \in Answers, SystemCall(w, a) PROVE Types'
  <2>1. job[w] \in Ops /\ job[w][1] \in Fibers
    BY <1>6 DEF SystemCall, Ops
  <2> QED BY <1>6, <2>1 DEF SystemCall
<1>7. ASSUME NEW w \in Threads, StoreResult(w) PROVE Types'
  <2>1. job[w] \in Ops
    BY <1>7 DEF StoreResult
  <2> DEFINE b == answer[job[w]] = "ok"
  <2>2. b \in BOOLEAN /\ handle' = [handle EXCEPT ![job[w]].ok = b]
    BY <1>7 DEF StoreResult
  <2> HIDE DEF b
  <2>3. handle' \in [Ops -> [ok : BOOLEAN, done : BOOLEAN]]
    BY <2>1, <2>2
  <2> QED BY <1>7, <2>3 DEF StoreResult
<1>8. ASSUME NEW w \in Threads, StoreDone(w) PROVE Types'
  BY <1>8 DEF StoreDone
<1>9. ASSUME NEW w \in Threads, WakeWaiter(w) PROVE Types'
  BY <1>9 DEF WakeWaiter, AfterWake
<1>10. CASE UNCHANGED vars
  BY <1>10 DEF vars
<1> QED
  BY <1>1, <1>2, <1>3, <1>4, <1>5, <1>6, <1>7, <1>8, <1>9, <1>10
  DEF Next, FiberStep, ThreadStep

\* Beginning an operation and putting it on its queue only add to what is placed.
LEMMA PlacedStays ==
  ASSUME Types, NEW f \in Fibers, BeginOp(f) \/ PutJob(f) \/ Completed(f) \/ Abandoned(f)
  PROVE  \A o \in Ops : Placed(o) => Placed(o)'
<1> SUFFICES ASSUME NEW o \in Ops, Placed(o) PROVE Placed(o)'
  OBVIOUS
<1>1. o[1] \in Fibers /\ o[2] \in 1..MaxOps
  BY DEF Ops
<1>2. CASE BeginOp(f)
  BY <1>1, <1>2, AsyncFileAssumption DEF BeginOp, Types, Placed
<1>3. CASE PutJob(f) \/ Completed(f) \/ Abandoned(f)
  BY <1>1, <1>3 DEF PutJob, Completed, Abandoned, Types, Placed
<1> QED BY <1>2, <1>3

\* submit(): the operation was nowhere, and is now at the end of one queue.
LEMMA PutJobStages == ASSUME Stages, NEW f \in Fibers, PutJob(f)
                      PROVE  QueuedOnce' /\ RunOnce' /\ Phases'
<1> DEFINE o == Current(f)
           t == target[f]
<1>1. o \in Ops /\ t \in Threads /\ ~Placed(o) /\ Placed(o)' /\ o' = o
  <2>1. fpc[f] = "put" /\ count[f] > 0 /\ count[f] \in 0..MaxOps
    BY DEF Stages, Types, PutJob
  <2>2. o \in Ops /\ o[1] = f /\ o[2] = count[f]
    BY <2>1, AsyncFileAssumption DEF Ops, Current
  <2> HIDE DEF o
  <2>3. fpc'[f] = "wait" /\ count' = count /\ count[f] \in Nat
    BY <2>1, AsyncFileAssumption DEF PutJob, Stages, Types
  <2>4. o' = o
    BY <2>3 DEF o, Current
  <2>5. ~Placed(o)
    BY <2>1, <2>2, <2>3 DEF Placed
  <2>6. Placed(o)'
    BY <2>2, <2>3, <2>4 DEF Placed
  <2>7. t \in Threads
    BY DEF Stages, Types
  <2> QED BY <2>2, <2>4, <2>5, <2>6, <2>7
<1>2. \A x \in Ops : Placed(x) => Placed(x)'
  BY PlacedStays DEF Stages
<1>3. UNCHANGED <<handle, tpc, job, answer>> /\ queue' = [queue EXCEPT ![t] = Append(@, o)]
  BY DEF PutJob
<1> HIDE DEF o, t
<1>4. queue \in [Threads -> Seq(Ops)] /\ job \in [Threads -> Ops \cup {NoOp}]
      /\ \A w \in Threads : Active(w) => job[w] \in Ops
  BY DEF Stages, Types
<1>5. \A w \in Threads : \A i \in DOMAIN queue'[w] :
        \/ i \in DOMAIN queue[w] /\ queue'[w][i] = queue[w][i]
        \/ w = t /\ i = Len(queue[w]) + 1 /\ queue'[w][i] = o
  BY <1>1, <1>3, <1>4
<1>6. \A w \in Threads : \A i \in DOMAIN queue[w] : queue[w][i] \in Ops /\ queue[w][i] # o
  BY <1>1, <1>4 DEF Stages, QueuedOnce
<1>7. \A w \in Threads : Active(w) => job[w] # o
  BY <1>1 DEF Stages, Phases, PhaseOf
<1>8. answer[o] = "none"
  BY <1>1 DEF Stages, Phases, Filled
<1>9. QueuedOnce'
  <2>1. \A w, v \in Threads : \A i \in DOMAIN queue'[w], k \in DOMAIN queue'[v] :
          queue'[w][i] = queue'[v][k] => w = v /\ i = k
    BY <1>5, <1>6 DEF Stages, QueuedOnce
  <2>2. \A w \in Threads : \A i \in DOMAIN queue'[w] :
          /\ answer'[queue'[w][i]] = "none"
          /\ Placed(queue[w][i])'
          /\ \A v \in Threads : Active(v)' => job'[v] # queue'[w][i]
    <3> SUFFICES ASSUME NEW w \in Threads, NEW i \in DOMAIN queue'[w]
                 PROVE  /\ answer'[queue'[w][i]] = "none"
                        /\ Placed(queue[w][i])'
                        /\ \A v \in Threads : Active(v)' => job'[v] # queue'[w][i]
      OBVIOUS
    <3>1. CASE i \in DOMAIN queue[w] /\ queue'[w][i] = queue[w][i]
      <4>1. queue[w][i] \in Ops /\ Placed(queue[w][i])
        BY <1>6, <3>1 DEF Stages, QueuedOnce
      <4>2. Placed(queue[w][i])'
        BY <1>2, <3>1, <4>1 DEF Placed
      <4> QED BY <1>3, <3>1, <4>2 DEF Stages, QueuedOnce, Active
    <3>2. CASE queue'[w][i] = o
      <4>1. Placed(queue[w][i])'
        BY <1>1, <3>2 DEF Placed
      <4> QED BY <1>3, <1>7, <1>8, <3>2, <4>1 DEF Active
    <3> QED BY <1>5, <3>1, <3>2
  <2> QED BY <2>1, <2>2 DEF QueuedOnce
<1>10. RunOnce'
  BY <1>3 DEF Stages, RunOnce, Active
<1>11. Phases'
  BY <1>2, <1>3, <1>4 DEF Stages, Phases, PhaseOf, Filled, Active, Placed
<1> QED BY <1>9, <1>10, <1>11

\* run_forever() takes the first operation of its queue.
LEMMA NextJobStages == ASSUME Stages, NEW w \in Threads, NextJob(w)
                       PROVE  QueuedOnce' /\ RunOnce' /\ Phases'
<1> DEFINE o == Head(queue[w])
<1>1. queue \in [Threads -> Seq(Ops)] /\ job \in [Threads -> Ops \cup {NoOp}]
      /\ tpc \in [Threads -> {"drain", "call", "value", "done", "wake"}]
      /\ \A v \in Threads : Active(v) => job[v] \in Ops
  BY DEF Stages, Types
<1>2. o \in Ops /\ 1 \in DOMAIN queue[w] /\ o = queue[w][1] /\ ~Active(w)
  BY <1>1 DEF NextJob, Active
<1>3. /\ UNCHANGED <<handle, answer, count, fpc>>
      /\ queue' = [queue EXCEPT ![w] = Tail(@)]
      /\ job' = [job EXCEPT ![w] = o]
      /\ tpc' = [tpc EXCEPT ![w] = "call"]
  BY DEF NextJob
<1> HIDE DEF o
<1>4. \A v \in Threads : \A i \in DOMAIN queue'[v] :
        \/ v # w /\ i \in DOMAIN queue[v] /\ queue'[v][i] = queue[v][i]
        \/ v = w /\ i + 1 \in DOMAIN queue[w] /\ i \in Nat \ {0} /\ queue'[w][i] = queue[w][i + 1]
  BY <1>1, <1>2, <1>3
<1>5. \A x : Placed(x)' <=> Placed(x)
  BY <1>3 DEF Placed
<1>6. \A v \in Threads : Active(v)' <=> Active(v) \/ v = w
  BY <1>1, <1>3 DEF Active
<1>7. \A v \in Threads : job'[v] = IF v = w THEN o ELSE job[v]
  BY <1>1, <1>2, <1>3
<1>8. QueuedOnce'
  <2>1. \A u, v \in Threads : \A i \in DOMAIN queue'[u], k \in DOMAIN queue'[v] :
          queue'[u][i] = queue'[v][k] => u = v /\ i = k
    BY <1>4 DEF Stages, QueuedOnce
  <2>2. \A v \in Threads : \A i \in DOMAIN queue'[v] : queue'[v][i] # o
    BY <1>2, <1>4 DEF Stages, QueuedOnce
  <2>3. \A v \in Threads : \A i \in DOMAIN queue'[v] :
          /\ answer'[queue'[v][i]] = "none"
          /\ Placed(queue[v][i])'
          /\ \A u \in Threads : Active(u)' => job'[u] # queue'[v][i]
    BY <1>3, <1>4, <1>5, <1>6, <1>7, <2>2 DEF Stages, QueuedOnce
  <2> QED BY <2>1, <2>3 DEF QueuedOnce
<1>9. RunOnce'
  <2>1. \A v \in Threads : Active(v) => job[v] # o
    BY <1>2 DEF Stages, QueuedOnce
  <2> QED BY <1>6, <1>7, <2>1 DEF Stages, RunOnce
<1>10. Phases'
  <2>1. Placed(o) /\ answer[o] = "none"
    BY <1>2 DEF Stages, QueuedOnce
  <2>2. \A v \in Threads : tpc'[v] = IF v = w THEN "call" ELSE tpc[v]
    BY <1>1, <1>3
  <2> QED BY <1>3, <1>5, <1>6, <1>7, <2>1, <2>2 DEF Stages, Phases, PhaseOf, Filled, Placed
<1> QED BY <1>8, <1>9, <1>10

\* The system call and the stores of complete(), each on the thread's own
\* operation.
LEMMA RunningStages ==
  ASSUME Stages, NEW w \in Threads,
         \/ \E a \in Answers : SystemCall(w, a)
         \/ StoreResult(w) \/ StoreDone(w) \/ WakeWaiter(w)
  PROVE  QueuedOnce' /\ RunOnce' /\ Phases'
<1>1. /\ queue \in [Threads -> Seq(Ops)] /\ job \in [Threads -> Ops \cup {NoOp}]
      /\ tpc \in [Threads -> {"drain", "call", "value", "done", "wake"}]
      /\ answer \in [Ops -> Answers \cup {"none"}]
      /\ handle \in [Ops -> [ok : BOOLEAN, done : BOOLEAN]]
      /\ \A v \in Threads : Active(v) => job[v] \in Ops
  BY DEF Stages, Types
<1>2. PICK o \in Ops : o = job[w] /\ Active(w)
  BY <1>1 DEF Active, SystemCall, StoreResult, StoreDone, WakeWaiter
<1>3. UNCHANGED <<queue, job, count, fpc>>
  BY DEF SystemCall, StoreResult, StoreDone, WakeWaiter
<1>4. \A x : Placed(x)' <=> Placed(x)
  BY <1>3 DEF Placed
<1>5. \A v \in Threads : Active(v)' => Active(v)
  BY <1>1, <1>2 DEF Active, SystemCall, StoreResult, StoreDone, WakeWaiter, AfterWake
<1>6. \A v \in Threads : v # w => tpc'[v] = tpc[v]
  BY <1>1 DEF SystemCall, StoreResult, StoreDone, WakeWaiter
<1>7. \A x \in Ops : x # o => answer'[x] = answer[x] /\ handle'[x] = handle[x]
  BY <1>1, <1>2 DEF SystemCall, StoreResult, StoreDone, WakeWaiter
<1>8. \A v \in Threads : v # w /\ Active(v) => job[v] # o
  BY <1>2 DEF Stages, RunOnce
<1>9. \A v \in Threads : \A i \in DOMAIN queue[v] : queue[v][i] \in Ops \ {o}
  BY <1>1, <1>2 DEF Stages, QueuedOnce
<1>10. QueuedOnce'
  <2>1. \A v \in Threads : \A i \in DOMAIN queue[v] : answer'[queue[v][i]] = "none"
    BY <1>7, <1>9 DEF Stages, QueuedOnce
  <2> QED BY <1>3, <1>4, <1>5, <2>1 DEF Stages, QueuedOnce
<1>11. RunOnce'
  BY <1>3, <1>5 DEF Stages, RunOnce
<1>12. ASSUME NEW v \in Threads, v # w PROVE PhaseOf(v)'
  <2> SUFFICES ASSUME Active(v) PROVE PhaseOf(v)'
    BY <1>6, <1>12 DEF PhaseOf, Active
  <2>1. job[v] \in Ops /\ job[v] # o
    BY <1>1, <1>8, <1>12
  <2>2. answer'[job[v]] = answer[job[v]] /\ handle'[job[v]] = handle[job[v]] /\ job'[v] = job[v]
    BY <1>3, <1>7, <2>1
  <2>3. PhaseOf(v) /\ tpc'[v] = tpc[v]
    BY <1>6, <1>12 DEF Stages, Phases
  <2>4. Placed(job[v])'
    BY <1>3, <2>2, <2>3 DEF PhaseOf, Placed
  <2> QED BY <2>2, <2>3, <2>4 DEF PhaseOf
<1>13. PhaseOf(w)' /\ Filled(o)'
  <2>1. Placed(job[w])' /\ Placed(o)' /\ PhaseOf(w) /\ Filled(o)
    BY <1>2, <1>3 DEF Stages, Phases, PhaseOf, Placed
  <2>2. ASSUME NEW a \in Answers, SystemCall(w, a) PROVE <1>13
    <3>1. answer'[o] = a /\ handle' = handle /\ tpc'[w] = "value" /\ a # "none" /\ job' = job
      BY <1>1, <1>2, <2>2 DEF SystemCall, Answers
    <3>2. ~handle[o].done
      BY <1>2, <2>1, <2>2 DEF SystemCall, PhaseOf, Filled
    <3> QED BY <1>2, <2>1, <3>1, <3>2 DEF PhaseOf, Filled
  <2>3. CASE StoreResult(w)
    <3>1. answer[o] # "none" /\ ~handle[o].done
      BY <1>2, <2>1, <2>3 DEF StoreResult, PhaseOf
    <3> DEFINE b == answer[o] = "ok"
    <3>2. handle' = [handle EXCEPT ![o].ok = b] /\ answer' = answer /\ tpc'[w] = "done" /\ job' = job
      BY <1>1, <1>2, <2>3 DEF StoreResult
    <3> HIDE DEF b
    <3>3. handle'[o].ok = b /\ handle'[o].done = handle[o].done
      BY <1>1, <1>2, <3>2
    <3> QED BY <1>2, <2>1, <3>1, <3>2, <3>3 DEF b, PhaseOf, Filled
  <2>4. CASE StoreDone(w)
    <3>1. answer[o] # "none" /\ handle[o].ok = (answer[o] = "ok")
      BY <1>2, <2>1, <2>4 DEF StoreDone, PhaseOf
    <3>2. handle'[o].ok = handle[o].ok /\ answer' = answer /\ tpc'[w] = "wake" /\ job' = job
      BY <1>1, <1>2, <2>4 DEF StoreDone
    <3> QED BY <1>2, <2>1, <3>1, <3>2 DEF PhaseOf, Filled
  <2>5. CASE WakeWaiter(w)
    <3>1. UNCHANGED <<answer, handle, job>> /\ tpc'[w] = "drain"
      BY <1>1, <2>5 DEF WakeWaiter, AfterWake
    <3> QED BY <1>2, <2>1, <3>1 DEF PhaseOf, Filled, Active
  <2> QED BY <2>2, <2>3, <2>4, <2>5
<1>14. ASSUME NEW x \in Ops, x # o PROVE Filled(x)'
  BY <1>4, <1>7, <1>14 DEF Stages, Phases, Filled
<1>15. Phases'
  BY <1>12, <1>13, <1>14 DEF Phases
<1> QED BY <1>10, <1>11, <1>15

\* Where every operation is, and how far it has got, after any step.
LEMMA StageStep == Stages /\ [Next]_vars => Stages'
<1> SUFFICES ASSUME Stages, [Next]_vars PROVE QueuedOnce' /\ RunOnce' /\ Phases'
  BY TypeStep DEF Stages
<1>1. ASSUME NEW f \in Fibers, BeginOp(f) \/ Completed(f) \/ Abandoned(f)
      PROVE  QueuedOnce' /\ RunOnce' /\ Phases'
  <2>1. \A o \in Ops : Placed(o) => Placed(o)'
    BY <1>1, PlacedStays DEF Stages
  <2>2. UNCHANGED <<handle, queue, tpc, job, answer>>
    BY <1>1 DEF BeginOp, Completed, Abandoned
  <2>3. /\ \A w \in Threads : \A i \in DOMAIN queue[w] : queue[w][i] \in Ops
        /\ \A w \in Threads : Active(w) => job[w] \in Ops
    BY DEF Stages, Types
  <2>4. QueuedOnce'
    <3>1. \A w \in Threads : \A i \in DOMAIN queue[w] : Placed(queue[w][i])'
      BY <2>1, <2>2, <2>3 DEF Stages, QueuedOnce, Placed
    <3> QED BY <2>2, <3>1 DEF Stages, QueuedOnce, Active
  <2>5. RunOnce'
    BY <2>2 DEF Stages, RunOnce, Active
  <2>6. Phases'
    BY <2>1, <2>2, <2>3 DEF Stages, Phases, PhaseOf, Filled, Active, Placed
  <2> QED BY <2>4, <2>5, <2>6
<1>2. CASE UNCHANGED vars
  <2>1. UNCHANGED <<fpc, count, handle, queue, tpc, job, answer>>
    BY <1>2 DEF vars
  <2>2. QueuedOnce'
    BY <2>1 DEF Stages, QueuedOnce, Active, Placed
  <2>3. RunOnce'
    BY <2>1 DEF Stages, RunOnce, Active
  <2>4. Phases'
    BY <2>1 DEF Stages, Phases, PhaseOf, Filled, Active, Placed
  <2> QED BY <2>2, <2>3, <2>4
<1> QED
  BY <1>1, <1>2, PutJobStages, NextJobStages, RunningStages DEF Next, FiberStep, ThreadStep

\* Every operation is on one queue or with one pool thread, once; its handle is
\* filled once, after its system call, and __done is stored last.
THEOREM AsyncFileStages == Spec => []Stages
<1>1. Init => Stages
  <2> SUFFICES ASSUME Init PROVE Stages
    OBVIOUS
  <2> USE AsyncFileAssumption DEF Init
  <2>1. Types
    BY DEF Types, Threads, Ops, Answers, Active, FreshHandle
  <2>2. QueuedOnce /\ RunOnce
    BY DEF QueuedOnce, RunOnce, Active
  <2>3. Phases
    BY DEF Phases, PhaseOf, Filled, Active, FreshHandle
  <2> QED BY <2>1, <2>2, <2>3 DEF Stages
<1> QED BY <1>1, StageStep, PTL DEF Spec

-------------------------------------------------------------------------------

\* An answer is written once, while the operation's fiber is still without a
\* result.
LEMMA OwnAnswerStep == Stages /\ OwnAnswer /\ [Next]_vars => OwnAnswer'
<1> SUFFICES ASSUME Stages, OwnAnswer, [Next]_vars PROVE OwnAnswer'
  OBVIOUS
<1>1. ASSUME NEW f \in Fibers, BeginOp(f) PROVE OwnAnswer'
  BY <1>1 DEF BeginOp, OwnAnswer, Answers, Current, Stages, Types
<1>2. ASSUME NEW f \in Fibers, Abandoned(f) PROVE OwnAnswer'
  BY <1>2 DEF Abandoned, OwnAnswer, Answers, Current, Stages, Types
<1>3. ASSUME NEW f \in Fibers, Completed(f) PROVE OwnAnswer'
  <2>1. Current(f) \in Ops
    <3>1. count[f] \in 0..MaxOps /\ count[f] > 0
      BY <1>3 DEF Completed, Stages, Types
    <3> QED BY <3>1, AsyncFileAssumption DEF Current, Ops
  <2>2. Take(Current(f)) = answer[Current(f)]
    <3>1. Filled(Current(f)) /\ answer[Current(f)] \in Answers \cup {"none"}
      BY <2>1 DEF Stages, Types, Phases
    <3> QED BY <1>3, <3>1 DEF Completed, IsDone, Take, Filled, Answers
  <2>3. result' = [result EXCEPT ![f] = answer[Current(f)]] /\ UNCHANGED <<count, answer>>
    BY <1>3, <2>2 DEF Completed
  <2> QED BY <2>3 DEF OwnAnswer, Current, Stages, Types
<1>4. ASSUME NEW w \in Threads, NEW a \in Answers, SystemCall(w, a) PROVE OwnAnswer'
  <2>1. job[w] \in Ops /\ answer[job[w]] = "none"
    BY <1>4 DEF SystemCall, Stages, Types, Phases, PhaseOf, Active
  <2>2. \A f \in Fibers : result[f] \in Answers => Current(f) # job[w]
    BY <2>1 DEF OwnAnswer, Answers
  <2>3. answer' = [answer EXCEPT ![job[w]] = a] /\ UNCHANGED <<count, result>>
    BY <1>4 DEF SystemCall
  <2>4. \A x : x # job[w] => answer'[x] = answer[x]
    BY <2>1, <2>3 DEF Stages, Types
  <2> QED BY <2>2, <2>3, <2>4 DEF OwnAnswer, Current
<1>5. CASE UNCHANGED <<count, result, answer>>
  BY <1>5 DEF OwnAnswer, Current
<1> QED
  BY <1>1, <1>2, <1>3, <1>4, <1>5
  DEF Next, vars, FiberStep, ThreadStep, PutJob, NextJob, StoreResult, StoreDone, WakeWaiter

\* do_read() and do_write() return what their own system call answered, however
\* many fibers share the pool and however many waits are abandoned.
THEOREM AsyncFileOwnAnswer == Spec => []OwnAnswer
<1>1. Init => OwnAnswer
  BY DEF Init, OwnAnswer, Answers
<1> QED BY <1>1, OwnAnswerStep, AsyncFileStages, PTL DEF Spec

\* A system call that is not the fiber's current one belongs to a wait that was
\* abandoned.
LEMMA InTurnStep == Stages /\ InTurn /\ [Next]_vars => InTurn'
<1> SUFFICES ASSUME Stages, InTurn, [Next]_vars, NEW f \in Fibers \ Abandoners
             PROVE  /\ \A k \in 1..MaxOps :
                         k < count'[f] \/ (k = count'[f] /\ fpc'[f] = "run") => answer'[<<f, k>>] # "none"
                    /\ count'[f] > 0 /\ answer'[Current(f)'] # "none" => content'[f] = Current(f)'
  BY DEF InTurn
<1> DEFINE Turn == /\ \A k \in 1..MaxOps :
                        k < count[f] \/ (k = count[f] /\ fpc[f] = "run") => answer[<<f, k>>] # "none"
                   /\ count[f] > 0 /\ answer[Current(f)] # "none" => content[f] = Current(f)
<1>0. Turn /\ count[f] \in 0..MaxOps /\ MaxOps \in Nat
  BY AsyncFileAssumption DEF InTurn, Stages, Types
<1>1. ASSUME NEW g \in Fibers, BeginOp(g) PROVE Turn'
  <2>1. CASE g # f
    BY <1>0, <1>1, <2>1 DEF BeginOp, Current, Stages, Types
  <2>2. CASE g = f
    <3>1. /\ fpc[f] = "run" /\ fpc'[f] = "put" /\ count'[f] = count[f] + 1 /\ count'[f] \in 1..MaxOps
          /\ UNCHANGED <<answer, content>>
      BY <1>0, <1>1, <2>2 DEF BeginOp, Stages, Types
    <3>2. Current(f)' = <<f, count[f] + 1>> /\ <<f, count[f] + 1>> \in Ops
      BY <3>1 DEF Current, Ops
    <3>3. ~Placed(<<f, count[f] + 1>>)
      BY <1>0, <3>1 DEF Placed
    <3>4. answer[<<f, count[f] + 1>>] = "none"
      BY <3>2, <3>3 DEF Stages, Phases, Filled
    <3> QED BY <1>0, <3>1, <3>2, <3>4
  <2> QED BY <2>1, <2>2
<1>2. ASSUME NEW g \in Fibers, PutJob(g) PROVE Turn'
  BY <1>0, <1>2 DEF PutJob, Current, Stages, Types
<1>3. ASSUME NEW g \in Fibers, Abandoned(g) PROVE Turn'
  BY <1>0, <1>3 DEF Abandoned, Current, Stages, Types
<1>4. ASSUME NEW g \in Fibers, Completed(g) PROVE Turn'
  <2>1. CASE g # f
    BY <1>0, <1>4, <2>1 DEF Completed, Current, Stages, Types
  <2>2. CASE g = f
    <3>1. count[f] \in 1..MaxOps
      BY <1>0, <1>4, <2>2 DEF Completed, Stages, Types
    <3>2. answer[<<f, count[f]>>] # "none"
      <4>1. <<f, count[f]>> \in Ops
        BY <3>1 DEF Ops
      <4> QED BY <1>4, <2>2, <4>1 DEF Completed, IsDone, Current, Stages, Phases, Filled
    <3> QED BY <1>0, <1>4, <3>1, <3>2 DEF Completed, Current
  <2> QED BY <2>1, <2>2
<1>5. ASSUME NEW w \in Threads, NEW a \in Answers, SystemCall(w, a) PROVE Turn'
  <2>1. PICK o \in Ops : o = job[w] /\ answer[o] = "none" /\ Placed(o)
    BY <1>5 DEF SystemCall, Stages, Types, Phases, PhaseOf, Active
  <2>2. /\ \A x \in Ops : answer'[x] = IF x = o THEN a ELSE answer[x]
        /\ a # "none"
        /\ \A g \in Fibers : content'[g] = IF g = o[1] THEN o ELSE content[g]
        /\ UNCHANGED <<count, fpc>> /\ Current(f)' = Current(f)
    BY <1>5, <2>1 DEF SystemCall, Stages, Types, Answers, Ops, Current
  <2>3. \A k \in 1..MaxOps : <<f, k>> \in Ops
    BY DEF Ops
  <2>4. CASE o[1] # f
    <3>1. o # Current(f) /\ \A k \in 1..MaxOps : o # <<f, k>>
      BY <2>4 DEF Current
    <3>2. count[f] > 0 => Current(f) \in Ops
      BY <1>0, <2>3 DEF Current
    <3> QED BY <1>0, <2>2, <2>3, <2>4, <3>1, <3>2
  <2>5. CASE o[1] = f
    <3>1. o = <<f, o[2]>> /\ o[2] \in 1..MaxOps
      BY <2>5 DEF Ops
    <3>2. o[2] = count[f]
      BY <1>0, <2>1, <2>5, <3>1 DEF Placed
    <3>3. content'[f] = Current(f)
      BY <2>2, <2>5, <3>1, <3>2 DEF Current
    <3>4. \A k \in 1..MaxOps : answer[<<f, k>>] # "none" => answer'[<<f, k>>] # "none"
      BY <2>2, <2>3
    <3> QED BY <1>0, <2>2, <3>3, <3>4
  <2> QED BY <2>4, <2>5
<1>6. CASE UNCHANGED <<count, fpc, answer, content>>
  BY <1>0, <1>6 DEF Current
<1>7. Turn'
  BY <1>1, <1>2, <1>3, <1>4, <1>5, <1>6
  DEF Next, vars, FiberStep, ThreadStep, NextJob, StoreResult, StoreDone, WakeWaiter
<1> QED BY <1>7

\* When do_read() returns to a fiber whose waits are never cut short, its buffer
\* holds the data of that call: no late system call of another operation, and
\* none of an abandoned one, has used it since.
THEOREM AsyncFileDataIsThere == Spec => []DataIsThere
<1>1. Init => InTurn
  BY AsyncFileAssumption DEF Init, InTurn
<1>2. Stages /\ OwnAnswer /\ InTurn => DataIsThere
  <2> SUFFICES ASSUME Stages, OwnAnswer, InTurn, NEW f \in Fibers \ Abandoners, result[f] \in Answers
               PROVE  content[f] = Current(f)
    BY DEF DataIsThere
  <2>1. answer[Current(f)] \in Answers
    BY DEF OwnAnswer
  <2>2. count[f] > 0
    BY DEF Stages, Types, Answers
  <2> QED BY <2>1, <2>2 DEF InTurn, Answers
<1> QED BY <1>1, <1>2, InTurnStep, AsyncFileStages, AsyncFileOwnAnswer, PTL DEF Spec
===============================================================================
