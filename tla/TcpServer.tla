------------------------------- MODULE TcpServer ------------------------------
(***************************************************************************)
(* lib/tcpserver.py: the accept loop of TcpServer.run(), shutdown() from    *)
(* other threads, and the three dispatchers.  run() blocks in its own       *)
(* poller on two descriptors, the listener and the read end of a wake pair; *)
(* shutdown() stores a flag, sends a byte, and then watches a second flag.  *)
(* A shutdown() can fall between run()'s look at the flag and its wait, and *)
(* connections, aborts and failing calls come in any order.                 *)
(***************************************************************************)
EXTENDS Integers, FiniteSets

CONSTANTS Conns,         \* clients, each connecting at most once
          Callers,       \* threads that call shutdown()
          Waiters,       \* those of them that pass wait=True
          Dispatchers,   \* the kinds of dispatcher considered: "inline", "thread", "pool"
          WakeCap,       \* bytes the wake pair can hold
          RecvMax        \* bytes one recv() of it takes (64)

ASSUME ServerAssumption ==
  /\ Waiters \subseteq Callers
  /\ Dispatchers \subseteq {"inline", "thread", "pool"}
  /\ WakeCap \in Nat \ {0}
  /\ RecvMax \in Nat \ {0}

VARIABLES
  dispatcher, \* __dispatcher: its kind, chosen at construction
  rpc,        \* run(): "off", "check", "wait", "events", "inline" or "returned"
  ev,         \* the events still to be handled: a subset of {"listener", "wake"}
  stopNow,    \* stop_now
  shutting,   \* __shutting_down
  stopped,    \* __stopped
  wake,       \* bytes in the wake pair
  conn,       \* client -> "none", "backlog", "queued", "handling", "done" or "closed"
  spc         \* caller -> "idle", "poke", "poll" or "returned"

vars == <<dispatcher, rpc, ev, stopNow, shutting, stopped, wake, conn, spc>>

Backlog == {k \in Conns : conn[k] = "backlog"}

Init ==
  /\ dispatcher \in Dispatchers
  /\ rpc = "off"
  /\ ev = {}
  /\ stopNow = FALSE
  /\ shutting = FALSE
  /\ stopped = FALSE
  /\ wake = 0
  /\ conn = [k \in Conns |-> "none"]
  /\ spc = [c \in Callers |-> "idle"]

-------------------------------------------------------------------------------
(* run()                                                                     *)

CallRun ==
  /\ rpc = "off"
  /\ rpc' = "check"
  /\ UNCHANGED <<dispatcher, ev, stopNow, shutting, stopped, wake, conn, spc>>

\* Mutant: a return that does not tell.
Leave_Unrecorded ==
  /\ rpc' = "returned"
  /\ UNCHANGED stopped

\* The loop's end: __stopped is stored as run() returns.
Leave ==
  /\ rpc' = "returned"
  /\ stopped' = TRUE

CheckFlag ==
  /\ rpc = "check"
  /\ IF shutting THEN Leave ELSE rpc' = "wait" /\ UNCHANGED stopped
  /\ UNCHANGED <<dispatcher, ev, stopNow, shutting, wake, conn, spc>>

Ready == {e \in {"listener", "wake"} :
            IF e = "wake" THEN wake > 0 ELSE Backlog # {}}

\* poller.wait( -1 ): epoll reports one ready descriptor, WSAPoll all of them.
PollReturns ==
  /\ rpc = "wait"
  /\ \E some \in SUBSET Ready :
       /\ some # {}
       /\ Cardinality(some) = 1 \/ some = Ready
       /\ ev' = some
  /\ rpc' = "events"
  /\ stopNow' = FALSE
  /\ UNCHANGED <<dispatcher, shutting, stopped, wake, conn, spc>>

\* poller.wait() fails: EINTR after a handled signal, for one.
PollFails ==
  /\ rpc = "wait"
  /\ Leave
  /\ UNCHANGED <<dispatcher, ev, stopNow, shutting, wake, conn, spc>>

\* Events are handled in registration order: the listener's before the wake.
ListenerEvent == rpc = "events" /\ "listener" \in ev

\* Mutant: a connection the pool refuses is forgotten.
Dispatched_NotClosed ==
  CASE dispatcher = "inline" -> {"handling"}
    [] dispatcher = "thread" -> {"handling"}
    [] dispatcher = "pool"   -> {"queued", "refused"}

\* What dispatch() makes of a connection; a full pool has it closed.
Dispatched ==
  CASE dispatcher = "inline" -> {"handling"}
    [] dispatcher = "thread" -> {"handling"}
    [] dispatcher = "pool"   -> {"queued", "closed"}

Accept ==
  /\ ListenerEvent
  /\ \E k \in Backlog, stage \in Dispatched : conn' = [conn EXCEPT ![k] = stage]
  /\ ev' = ev \ {"listener"}
  /\ rpc' = IF dispatcher = "inline" THEN "inline" ELSE rpc
  /\ UNCHANGED <<dispatcher, stopNow, shutting, stopped, wake, spc>>

\* The client has gone since the poll.
AcceptWouldBlock ==
  /\ ListenerEvent
  /\ Backlog = {}
  /\ ev' = ev \ {"listener"}
  /\ UNCHANGED <<dispatcher, rpc, stopNow, shutting, stopped, wake, conn, spc>>

\* A real error, of accept() or of making the accepted socket non-blocking: in
\* the second case the connection is dropped.
AcceptFails ==
  /\ ListenerEvent
  /\ conn' \in {conn} \cup {[conn EXCEPT ![k] = "closed"] : k \in Backlog}
  /\ ev' = ev \ {"listener"}
  /\ stopNow' = TRUE
  /\ UNCHANGED <<dispatcher, rpc, shutting, stopped, wake, spc>>

Received == IF wake < RecvMax THEN wake ELSE RecvMax

WakeEvent ==
  /\ rpc = "events"
  /\ "listener" \notin ev
  /\ "wake" \in ev
  /\ wake' = wake - Received
  /\ ev' = ev \ {"wake"}
  /\ UNCHANGED <<dispatcher, rpc, stopNow, shutting, stopped, conn, spc>>

EventsHandled ==
  /\ rpc = "events"
  /\ ev = {}
  /\ IF stopNow THEN Leave ELSE rpc' = "check" /\ UNCHANGED stopped
  /\ UNCHANGED <<dispatcher, ev, stopNow, shutting, wake, conn, spc>>

RunStep ==
  CheckFlag \/ PollReturns \/ Accept \/ AcceptWouldBlock \/ WakeEvent \/ EventsHandled

-------------------------------------------------------------------------------
(* Clients and on_connection                                                 *)

Connect(k) ==
  /\ conn[k] = "none"
  /\ conn' = [conn EXCEPT ![k] = "backlog"]
  /\ UNCHANGED <<dispatcher, rpc, ev, stopNow, shutting, stopped, wake, spc>>

ClientAborts(k) ==
  /\ conn[k] = "backlog"
  /\ conn' = [conn EXCEPT ![k] = "closed"]
  /\ UNCHANGED <<dispatcher, rpc, ev, stopNow, shutting, stopped, wake, spc>>

\* The pool gets to the job.
PoolStarts(k) ==
  /\ conn[k] = "queued"
  /\ conn' = [conn EXCEPT ![k] = "handling"]
  /\ UNCHANGED <<dispatcher, rpc, ev, stopNow, shutting, stopped, wake, spc>>

\* on_connection returns; an inline one gives run() its thread back.
HandlerReturns(k) ==
  /\ conn[k] = "handling"
  /\ conn' = [conn EXCEPT ![k] = "done"]
  /\ rpc' = IF dispatcher = "inline" THEN "events" ELSE rpc
  /\ UNCHANGED <<dispatcher, ev, stopNow, shutting, stopped, wake, spc>>

-------------------------------------------------------------------------------
(* shutdown()                                                                *)

StoreFlag(c) ==
  /\ spc[c] = "idle"
  /\ shutting' = TRUE
  /\ spc' = [spc EXCEPT ![c] = "poke"]
  /\ UNCHANGED <<dispatcher, rpc, ev, stopNow, stopped, wake, conn>>

AfterPoke(c) == IF c \in Waiters THEN "poll" ELSE "returned"

\* Mutant: no byte is sent.
BytesSent_None == 0

\* Mutant: the pair is taken to hold any number of bytes.
BytesSent_Unbounded == 1

\* send() of one byte; a full pair answers WouldBlock, which is ignored.
BytesSent == IF wake < WakeCap THEN 1 ELSE 0

Poke(c) ==
  /\ spc[c] = "poke"
  /\ wake' = wake + BytesSent
  /\ spc' = [spc EXCEPT ![c] = AfterPoke(c)]
  /\ UNCHANGED <<dispatcher, rpc, ev, stopNow, shutting, stopped, conn>>

\* Mutant: shutdown() watches the flag it set itself.
SeesStopped_OwnFlag == shutting

SeesStopped == stopped

\* The 1 ms poll of __stopped succeeds.
PollStopped(c) ==
  /\ spc[c] = "poll"
  /\ SeesStopped
  /\ spc' = [spc EXCEPT ![c] = "returned"]
  /\ UNCHANGED <<dispatcher, rpc, ev, stopNow, shutting, stopped, wake, conn>>

-------------------------------------------------------------------------------

ConnStep(k) == PoolStarts(k) \/ HandlerReturns(k)

CallerStep(c) == Poke(c) \/ PollStopped(c)

Next ==
  \/ CallRun \/ RunStep \/ PollFails \/ AcceptFails
  \/ \E k \in Conns : Connect(k) \/ ClientAborts(k) \/ ConnStep(k)
  \/ \E c \in Callers : StoreFlag(c) \/ CallerStep(c)

Spec == Init /\ [][Next]_vars

\* Threads keep running and handlers return.  Calls need not fail, clients need
\* not connect, and nobody has to call run() or shutdown().
Fairness ==
  /\ WF_vars(RunStep)
  /\ \A k \in Conns : WF_vars(ConnStep(k))
  /\ \A c \in Callers : WF_vars(CallerStep(c))

FairSpec == Spec /\ Fairness

-------------------------------------------------------------------------------
(* Properties                                                                *)

\* Types; the wake pair never holds more than it can, nor less than nothing.
TypeOK ==
  /\ dispatcher \in Dispatchers
  /\ rpc \in {"off", "check", "wait", "events", "inline", "returned"}
  /\ ev \in SUBSET {"listener", "wake"}
  /\ stopNow \in BOOLEAN
  /\ shutting \in BOOLEAN
  /\ stopped \in BOOLEAN
  /\ wake \in 0..WakeCap
  /\ conn \in [Conns -> {"none", "backlog", "queued", "handling", "done", "closed"}]
  /\ spc \in [Callers -> {"idle", "poke", "poll", "returned"}]

\* shutdown() may be called "while run() is blocked in its own poller.wait()":
\* whenever run() is in that wait and the flag is up, a byte is there to end the
\* wait, or is about to be sent.
NoLostShutdown ==
  shutting /\ rpc = "wait" => wake > 0 \/ \E c \in Callers : spc[c] = "poke"

\* "wait=True additionally blocks until run() has actually returned": from then
\* on the server takes no connection.
NoAcceptAfterShutdown ==
  [][(\E c \in Waiters : spc[c] = "returned") =>
       \A k \in Conns : conn[k] = "backlog" => conn'[k] \in {"backlog", "closed"}]_vars

\* Once asked, a running accept loop stops, whatever else is ready.
ShutdownStops == shutting /\ rpc # "off" ~> rpc = "returned"

\* A shutdown() of a server whose run() is under way, has returned or is called
\* later returns, whatever made run() return; without wait=True it always does.
\* (The docstring says that one of a server that is never run returns as well:
\* with wait=True it does not.)
ShutdownReturns ==
  \A c \in Callers :
    spc[c] \in {"poke", "poll"} /\ (rpc # "off" \/ c \notin Waiters) ~> spc[c] = "returned"

\* A connection taken from the backlog is handled to its end or closed, though
\* shutdown() comes in between: it "does NOT reject already-dispatched
\* connections".
DispatchedIsSettled ==
  \A k \in Conns : conn[k] \notin {"none", "backlog"} ~> conn[k] \in {"done", "closed"}
===============================================================================
