---------------------------- MODULE TcpServerProofs ---------------------------
(***************************************************************************)
(* Proofs about TcpServer.tla for any clients, any number of shutdown()     *)
(* calls, any dispatchers and any capacity of the wake pair: its types, that *)
(* a shutdown is never lost to run()'s blocking poll, and that nothing is    *)
(* accepted once a waiting shutdown() has returned.                          *)
(***************************************************************************)
EXTENDS TcpServer, TLAPS

\* Every step of run(), shutdown(), the clients and the handlers keeps the types.
LEMMA TypeStep == TypeOK /\ [Next]_vars => TypeOK'
<1> SUFFICES ASSUME TypeOK, [Next]_vars PROVE TypeOK'
  OBVIOUS
<1> USE ServerAssumption DEF TypeOK
<1>1. CASE CallRun
  BY <1>1 DEF CallRun
<1>2. CASE CheckFlag
  BY <1>2 DEF CheckFlag, Leave
<1>3. CASE PollReturns
  BY <1>3 DEF PollReturns, Ready
<1>4. CASE PollFails
  BY <1>4 DEF PollFails, Leave
<1>5. CASE Accept
  <2>1. PICK k \in Backlog, stage \in Dispatched : conn' = [conn EXCEPT ![k] = stage]
    BY <1>5 DEF Accept
  <2>2. stage \in {"handling", "queued", "closed"} /\ k \in Conns
    BY DEF Dispatched, Backlog
  <2> QED BY <1>5, <2>1, <2>2 DEF Accept, ListenerEvent
<1>6. CASE AcceptWouldBlock
  BY <1>6 DEF AcceptWouldBlock
<1>7. CASE AcceptFails
  BY <1>7 DEF AcceptFails, Backlog
<1>8. CASE WakeEvent
  BY <1>8 DEF WakeEvent, Received
<1>9. CASE EventsHandled
  BY <1>9 DEF EventsHandled, Leave
<1>10. ASSUME NEW k \in Conns, Connect(k) \/ ClientAborts(k) \/ ConnStep(k) PROVE TypeOK'
  BY <1>10 DEF Connect, ClientAborts, ConnStep, PoolStarts, HandlerReturns
<1>11. ASSUME NEW c \in Callers, StoreFlag(c) PROVE TypeOK'
  BY <1>11 DEF StoreFlag
<1>12. ASSUME NEW c \in Callers, Poke(c) PROVE TypeOK'
  BY <1>12 DEF Poke, AfterPoke, BytesSent
<1>13. ASSUME NEW c \in Callers, PollStopped(c) PROVE TypeOK'
  BY <1>13 DEF PollStopped
<1>14. CASE UNCHANGED vars
  BY <1>14 DEF vars
<1> QED
  BY <1>1, <1>2, <1>3, <1>4, <1>5, <1>6, <1>7, <1>8, <1>9, <1>10, <1>11, <1>12,
     <1>13, <1>14 DEF Next, RunStep, CallerStep

\* The accept loop's variables keep their types; the wake pair stays within its
\* capacity however many shutdown() calls write to it.
THEOREM ServerTypes == Spec => []TypeOK
<1>1. Init => TypeOK
  <2> SUFFICES ASSUME Init PROVE TypeOK
    OBVIOUS
  <2>1. stopNow \in BOOLEAN /\ shutting \in BOOLEAN /\ stopped \in BOOLEAN
    BY Zenon DEF Init
  <2>2. wake \in 0..WakeCap
    BY ServerAssumption DEF Init
  <2>3. /\ dispatcher \in Dispatchers
        /\ rpc \in {"off", "check", "wait", "events", "inline", "returned"}
        /\ ev \in SUBSET {"listener", "wake"}
        /\ conn \in [Conns -> {"none", "backlog", "queued", "handling", "done", "closed"}]
        /\ spc \in [Callers -> {"idle", "poke", "poll", "returned"}]
    BY DEF Init
  <2> QED BY <2>1, <2>2, <2>3 DEF TypeOK
<1> QED BY <1>1, TypeStep, PTL DEF Spec

-------------------------------------------------------------------------------

\* run() goes into the wait only having seen the flag down, drains the pair only
\* outside the wait, and a byte that does not fit leaves a full pair.
LEMMA ShutdownStep == TypeOK /\ NoLostShutdown /\ [Next]_vars => NoLostShutdown'
<1> SUFFICES ASSUME TypeOK, NoLostShutdown, [Next]_vars, shutting', rpc' = "wait"
             PROVE  wake' > 0 \/ \E c \in Callers : spc'[c] = "poke"
  BY DEF NoLostShutdown
<1> USE ServerAssumption DEF TypeOK, NoLostShutdown
<1>1. ASSUME UNCHANGED <<shutting, wake, spc>>, rpc' = rpc
      PROVE  wake' > 0 \/ \E c \in Callers : spc'[c] = "poke"
  BY <1>1
<1>2. CASE CallRun \/ PollReturns \/ PollFails \/ EventsHandled
  BY <1>2 DEF CallRun, PollReturns, PollFails, EventsHandled, Leave
<1>3. CASE CheckFlag
  BY <1>3 DEF CheckFlag, Leave
<1>4. CASE Accept \/ AcceptWouldBlock \/ AcceptFails \/ WakeEvent
  BY <1>4 DEF Accept, AcceptWouldBlock, AcceptFails, WakeEvent, ListenerEvent
<1>5. ASSUME NEW k \in Conns, Connect(k) \/ ClientAborts(k) \/ ConnStep(k)
      PROVE  wake' > 0 \/ \E c \in Callers : spc'[c] = "poke"
  BY <1>1, <1>5 DEF Connect, ClientAborts, ConnStep, PoolStarts, HandlerReturns
<1>6. ASSUME NEW c \in Callers, StoreFlag(c)
      PROVE  wake' > 0 \/ \E d \in Callers : spc'[d] = "poke"
  BY <1>6 DEF StoreFlag
<1>7. ASSUME NEW c \in Callers, Poke(c) PROVE wake' > 0
  BY <1>7 DEF Poke, BytesSent
<1>8. ASSUME NEW c \in Callers, PollStopped(c)
      PROVE  wake' > 0 \/ \E d \in Callers : spc'[d] = "poke"
  BY <1>8 DEF PollStopped
<1>9. CASE UNCHANGED vars
  BY <1>1, <1>9 DEF vars
<1> QED
  BY <1>2, <1>3, <1>4, <1>5, <1>6, <1>7, <1>8, <1>9 DEF Next, RunStep, CallerStep

\* A shutdown() that finds run() in its blocking poll, or on its way there, has
\* left a byte that ends the poll, or is about to.
THEOREM ServerNoLostShutdown == Spec => []NoLostShutdown
<1>1. Init => NoLostShutdown
  BY DEF Init, NoLostShutdown
<1> QED BY <1>1, ShutdownStep, ServerTypes, PTL DEF Spec

-------------------------------------------------------------------------------

\* What a waiting shutdown() knows when it returns: __stopped has been stored,
\* and it is stored only as run() returns.
StoppedMeansReturned ==
  /\ stopped => rpc = "returned"
  /\ \A c \in Waiters : spc[c] = "returned" => stopped

\* An inline handler is on run()'s own thread, alone, so that its end cannot
\* take a run() that has returned back into the loop.
HandlerOnRunThread ==
  dispatcher = "inline" =>
    /\ \A k \in Conns : conn[k] # "queued"
    /\ \A k \in Conns : conn[k] = "handling" => rpc = "inline"
    /\ \A j, k \in Conns : conn[j] = "handling" /\ conn[k] = "handling" => j = k

\* A server keeps the dispatcher it was constructed with.
LEMMA DispatcherFixed == [Next]_vars => dispatcher' = dispatcher
BY DEF Next, vars, RunStep, ConnStep, CallerStep, CallRun, CheckFlag, PollReturns,
  PollFails, Accept, AcceptWouldBlock, AcceptFails, WakeEvent, EventsHandled, Connect,
  ClientAborts, PoolStarts, HandlerReturns, StoreFlag, Poke, PollStopped

\* The loop dispatches only from its events, where no inline handler runs.
LEMMA HandlerStep ==
  TypeOK /\ HandlerOnRunThread /\ [Next]_vars => HandlerOnRunThread'
<1> SUFFICES ASSUME TypeOK, HandlerOnRunThread, [Next]_vars, dispatcher = "inline"
             PROVE  /\ \A k \in Conns : conn'[k] # "queued"
                    /\ \A k \in Conns : conn'[k] = "handling" => rpc' = "inline"
                    /\ \A j, k \in Conns :
                         conn'[j] = "handling" /\ conn'[k] = "handling" => j = k
  BY DispatcherFixed DEF HandlerOnRunThread
<1> USE DEF TypeOK, HandlerOnRunThread
<1>1. CASE CallRun \/ CheckFlag \/ PollReturns \/ PollFails \/ EventsHandled
  BY <1>1 DEF CallRun, CheckFlag, PollReturns, PollFails, EventsHandled, Leave
<1>2. CASE Accept
  <2>1. PICK i \in Backlog, stage \in Dispatched : conn' = [conn EXCEPT ![i] = stage]
    BY <1>2 DEF Accept
  <2>2. stage = "handling" /\ i \in Conns
    BY DEF Dispatched, Backlog
  <2>3. \A k \in Conns : conn[k] # "handling"
    BY <1>2 DEF Accept, ListenerEvent
  <2> QED BY <1>2, <2>1, <2>2, <2>3 DEF Accept
<1>3. CASE AcceptWouldBlock \/ WakeEvent
  BY <1>3 DEF AcceptWouldBlock, WakeEvent
<1>4. CASE AcceptFails
  BY <1>4 DEF AcceptFails, Backlog
<1>5. ASSUME NEW i \in Conns, Connect(i) \/ ClientAborts(i)
      PROVE  /\ \A k \in Conns : conn'[k] # "queued"
             /\ \A k \in Conns : conn'[k] = "handling" => rpc' = "inline"
             /\ \A j, k \in Conns : conn'[j] = "handling" /\ conn'[k] = "handling" => j = k
  BY <1>5 DEF Connect, ClientAborts
<1>6. ASSUME NEW i \in Conns, ConnStep(i)
      PROVE  /\ \A k \in Conns : conn'[k] # "queued"
             /\ \A k \in Conns : conn'[k] = "handling" => rpc' = "inline"
             /\ \A j, k \in Conns : conn'[j] = "handling" /\ conn'[k] = "handling" => j = k
  BY <1>6 DEF ConnStep, PoolStarts, HandlerReturns
<1>7. CASE UNCHANGED <<conn, rpc>>
  BY <1>7
<1> QED
  BY <1>1, <1>2, <1>3, <1>4, <1>5, <1>6, <1>7 DEF Next, RunStep, CallerStep, StoreFlag,
    Poke, PollStopped, vars

\* Nothing takes run() back from its return, and __stopped is never reset.
LEMMA StoppedStep ==
  TypeOK /\ HandlerOnRunThread /\ StoppedMeansReturned /\ [Next]_vars
    => StoppedMeansReturned'
<1> SUFFICES ASSUME TypeOK, HandlerOnRunThread, StoppedMeansReturned, [Next]_vars
             PROVE  StoppedMeansReturned'
  OBVIOUS
<1> USE ServerAssumption DEF TypeOK, StoppedMeansReturned
<1>1. CASE CallRun \/ CheckFlag \/ PollReturns \/ PollFails \/ EventsHandled
  BY <1>1 DEF CallRun, CheckFlag, PollReturns, PollFails, EventsHandled, Leave
<1>2. CASE Accept \/ AcceptWouldBlock \/ AcceptFails \/ WakeEvent
  BY <1>2 DEF Accept, AcceptWouldBlock, AcceptFails, WakeEvent, ListenerEvent
<1>3. ASSUME NEW k \in Conns, Connect(k) \/ ClientAborts(k) \/ PoolStarts(k)
      PROVE  StoppedMeansReturned'
  BY <1>3 DEF Connect, ClientAborts, PoolStarts
<1>4. ASSUME NEW k \in Conns, HandlerReturns(k) PROVE StoppedMeansReturned'
  BY <1>4 DEF HandlerReturns, HandlerOnRunThread
<1>5. ASSUME NEW c \in Callers, StoreFlag(c) PROVE StoppedMeansReturned'
  BY <1>5 DEF StoreFlag
<1>6. ASSUME NEW c \in Callers, Poke(c) PROVE StoppedMeansReturned'
  BY <1>6 DEF Poke, AfterPoke
<1>7. ASSUME NEW c \in Callers, PollStopped(c) PROVE StoppedMeansReturned'
  BY <1>7 DEF PollStopped, SeesStopped
<1>8. CASE UNCHANGED vars
  BY <1>8 DEF vars
<1> QED
  BY <1>1, <1>2, <1>3, <1>4, <1>5, <1>6, <1>7, <1>8 DEF Next, RunStep, ConnStep, CallerStep

\* A connection leaves the backlog only through the loop, or by its client.
LEMMA BacklogStep ==
  ASSUME TypeOK, StoppedMeansReturned, [Next]_vars,
         \E c \in Waiters : spc[c] = "returned"
  PROVE  \A k \in Conns : conn[k] = "backlog" => conn'[k] \in {"backlog", "closed"}
<1> USE DEF TypeOK
<1>1. rpc = "returned"
  BY DEF StoppedMeansReturned
<1>2. CASE CallRun \/ RunStep \/ PollFails \/ AcceptFails
  BY <1>1, <1>2 DEF CallRun, RunStep, CheckFlag, PollReturns, Accept, AcceptWouldBlock,
    WakeEvent, EventsHandled, PollFails, AcceptFails, ListenerEvent
<1>3. ASSUME NEW k \in Conns, Connect(k) \/ ClientAborts(k) \/ ConnStep(k)
      PROVE  \A j \in Conns : conn[j] = "backlog" => conn'[j] \in {"backlog", "closed"}
  BY <1>3 DEF Connect, ClientAborts, ConnStep, PoolStarts, HandlerReturns
<1>4. CASE UNCHANGED conn
  BY <1>4
<1> QED
  BY <1>2, <1>3, <1>4 DEF Next, CallerStep, StoreFlag, Poke, PollStopped, vars

\* Once a shutdown( wait = True ) has returned, the server takes no connection
\* from its backlog any more, whichever dispatcher it has.
THEOREM ServerNoAcceptAfterShutdown == Spec => NoAcceptAfterShutdown
<1>1. Init => HandlerOnRunThread /\ StoppedMeansReturned
  BY ServerAssumption DEF Init, HandlerOnRunThread, StoppedMeansReturned
<1>2. TypeOK /\ StoppedMeansReturned /\ [Next]_vars =>
        [(\E c \in Waiters : spc[c] = "returned") =>
           \A k \in Conns : conn[k] = "backlog" => conn'[k] \in {"backlog", "closed"}]_vars
  BY BacklogStep
<1> QED
  BY <1>1, <1>2, HandlerStep, StoppedStep, ServerTypes, PTL DEF Spec, NoAcceptAfterShutdown
===============================================================================
