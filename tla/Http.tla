-------------------------------- MODULE Http --------------------------------
(***************************************************************************)
(* One fiber of lib/http/server.py serving keep-alive connections, one     *)
(* after another, to a client: Connection of lib/http/client.py, or a peer *)
(* that pipelines.  Between them lib/tcp.py's TcpConnection (retry after   *)
(* WouldBlock, an ambient deadline, a reactor that shuts down) and a       *)
(* network that cuts the bytes anywhere.  The client is also run against   *)
(* a foreign server that frames its answers in every way the client reads. *)
(*                                                                         *)
(* Bytes are tokens: NL is one CRLF, a line token stands for the start     *)
(* line with the header lines, and carries the number of the request, its  *)
(* Content-Length and whether it says Connection: close.                   *)
(***************************************************************************)
EXTENDS Integers, Sequences, FiniteSets, SequencesExt, Timeout

CONSTANTS
  MaxConns,      \* connections of a behaviour
  MaxReqs,       \* requests on one connection
  Window,        \* tokens in flight in one direction
  Bodies,        \* kinds of request bodies: subset of {"none", "empty", "lines"}
  Clients,       \* subset of {"library", "pipelining"}
  Servers,       \* subset of {"library", "foreign"}
  Limits,        \* deltas a timeout scope or a sleep may have
  MaxTime        \* bound on the clock

ASSUME HttpAssumption ==
  /\ MaxConns \in Nat /\ MaxReqs \in Nat /\ Window \in Nat \ {0} /\ MaxTime \in Nat
  /\ Limits \subseteq Nat

VARIABLES
  net,           \* [up, down, cfin, sfin, rst]: tokens in flight, closed ends
  srv,           \* the serving fiber
  cli,           \* the client
  asked,         \* the requests the client has made on this connection
  handled,       \* the requests the handler was called with
  answered,      \* the responses the server has set out to send
  got,           \* the responses the client's calls have returned
  conns, now, amb, stopping

vars == <<net, srv, cli, asked, handled, answered, got, conns, now, amb, stopping>>

-----------------------------------------------------------------------------
(* Messages.                                                                *)

NL == <<"nl">>
NoLength == -1
BadRequest == 0
Chunked == -2
Line(id, length, close) == <<"line", id, length, close>>
Head1(id, length, close) == <<Line(id, length, close), NL, NL>>

Body(kind) == IF kind = "lines" THEN <<NL, NL>> ELSE <<>>
Length(kind) == IF kind = "none" THEN NoLength ELSE Len(Body(kind))

\* _build_request_head and the body; Response._head_str and the body
Request(id, kind, close) == Head1(id, Length(kind), close) \o Body(kind)
Response(id, kind, close) == Head1(id, Len(Body(kind)), close) \o Body(kind)
Junk == << <<"junk">>, NL, NL >>

\* find_double_crlf( 0 ): where the head ends, 0 if it is not all there
find_double_crlf(buf) ==
  LET ends == {i \in 1..Len(buf) - 1 : buf[i] = NL /\ buf[i + 1] = NL}
  IN IF ends = {} THEN 0 ELSE CHOOSE i \in ends : \A j \in ends : i <= j

\* parse_request_line, parse_status_line, parse_headers
WellFormed(block) == Len(block) = 1 /\ block[1][1] = "line"

More == [st |-> "more"]
Bad == [st |-> "bad"]
Ok(line, body, used) == [st |-> "ok", id |-> line[2], close |-> line[4], body |-> body, used |-> used]

\* _read_content_length_body
ContentLengthBody(buf, start, line) ==
  IF Len(buf) - start >= line[3]
  THEN Ok(line, SubSeq(buf, start + 1, start + line[3]), start + line[3])
  ELSE More

\* _read_one_request on what is buffered: a request, an error, or more to read
ReadOneRequest(buf) ==
  LET e == find_double_crlf(buf)
  IN IF e = 0 THEN More
     ELSE IF ~ WellFormed(SubSeq(buf, 1, e - 1)) THEN Bad
     ELSE IF buf[1][3] = NoLength THEN Ok(buf[1], <<>>, e + 1)
     ELSE ContentLengthBody(buf, e + 1, buf[1])

\* Mutant: what came after the request is thrown away with it.
compact_All(buf, consumed) == <<>>

compact(buf, consumed) == SubSeq(buf, consumed + 1, Len(buf))

-----------------------------------------------------------------------------
(* The client's side of reading.                                            *)

\* decode_chunked of data: the chunks, or More while a part is missing; the
\* CRLF after the last chunk is not looked for.
decode_chunked(data) ==
  LET From[p \in 1..Len(data) + 1] ==
        LET n == data[p][2]
            rest == From[p + n + 3]
        IN IF Len(data) < p + 1 THEN More
           ELSE IF data[p][1] # "size" \/ data[p + 1] # NL THEN Bad
           ELSE IF n = 0 THEN [st |-> "ok", body |-> <<>>]
           ELSE IF Len(data) < p + n + 2 THEN More
           ELSE IF data[p + n + 2] # NL THEN Bad
           ELSE IF rest.st = "ok" THEN [rest EXCEPT !.body = SubSeq(data, p + 2, p + n + 1) \o @]
           ELSE rest
  IN From[1]

\* Mutant: the end of the connection ends a body of any framing.
GetResponse_EofCompletes(buf, eof) ==
  LET e == find_double_crlf(buf)
  IN IF e = 0 THEN More
     ELSE IF ~ WellFormed(SubSeq(buf, 1, e - 1)) THEN Bad
     ELSE IF eof THEN Ok(buf[1], SubSeq(buf, e + 2, Len(buf)), Len(buf))
     ELSE IF buf[1][3] < 0 THEN More
     ELSE ContentLengthBody(buf, e + 1, buf[1])

\* getresponse on what is buffered
GetResponse(buf, eof) ==
  LET e == find_double_crlf(buf)
      line == buf[1]
      rest == SubSeq(buf, e + 2, Len(buf))
      d == decode_chunked(rest)
  IN IF e = 0 THEN More
     ELSE IF ~ WellFormed(SubSeq(buf, 1, e - 1)) THEN Bad
     ELSE IF line[3] = Chunked
          THEN IF d.st = "ok" THEN Ok(line, d.body, Len(buf)) ELSE d
     ELSE IF line[3] = NoLength THEN IF eof THEN Ok(line, rest, Len(buf)) ELSE More
     ELSE ContentLengthBody(buf, e + 1, line)

-----------------------------------------------------------------------------
Idle == [pc |-> "idle"]

Init ==
  /\ net = [up |-> <<>>, down |-> <<>>, cfin |-> TRUE, sfin |-> TRUE, rst |-> FALSE]
  /\ srv = Idle /\ cli = Idle
  /\ asked = <<>> /\ handled = <<>> /\ answered = <<>> /\ got = <<>>
  /\ conns = 0 /\ now = 0 /\ amb = NoScope /\ stopping = FALSE

\* A client connects and the connection is handed to the fiber, which serves
\* it under a timeout scope of its own or under none.
Serve(client, server, limit) ==
  /\ srv = Idle /\ cli = Idle /\ conns < MaxConns
  /\ conns' = conns + 1
  /\ net' = [up |-> <<>>, down |-> <<>>, cfin |-> FALSE, sfin |-> FALSE, rst |-> FALSE]
  /\ cli' = [pc |-> "ready", kind |-> client, out |-> <<>>, buf |-> <<>>]
  /\ srv' = [pc |-> "read", kind |-> server, buf |-> <<>>, out |-> <<>>, req |-> More,
             first |-> TRUE, close |-> FALSE, early |-> FALSE, slept |-> "no"]
  /\ amb' = IF limit = 0 THEN amb ELSE EnterTimeout(amb, now, limit)
  /\ asked' = <<>> /\ handled' = <<>> /\ answered' = <<>> /\ got' = <<>>
  /\ UNCHANGED <<now, stopping>>

-----------------------------------------------------------------------------
(* The server: handle_connection.                                           *)

Server(pc) == srv # Idle /\ srv.kind = "library" /\ srv.pc = pc

ServerOnly == UNCHANGED <<cli, asked, got, conns, now, stopping>>

\* _write_best_effort_error: 400, and the connection is closed after it
Refuse ==
  /\ srv' = [srv EXCEPT !.pc = "write", !.out = Response(BadRequest, "empty", FALSE), !.close = TRUE]
  /\ answered' = Append(answered, <<BadRequest, <<>>>>)

\* TcpConnection.read: what is there, EOF or an error, or a wait for more
ServerReads(n) ==
  /\ Server("read") /\ ReadOneRequest(srv.buf) = More
  /\ n <= Len(net.up)
  /\ srv' = [srv EXCEPT !.buf = @ \o SubSeq(net.up, 1, n), !.first = FALSE]
  /\ net' = [net EXCEPT !.up = SubSeq(@, n + 1, Len(@))]
  /\ UNCHANGED <<handled, answered, amb>> /\ ServerOnly

ServerReadsEnd ==
  /\ Server("read") /\ ReadOneRequest(srv.buf) = More
  /\ net.up = <<>> /\ net.cfin
  /\ IF srv.first /\ ~ net.rst THEN srv' = [srv EXCEPT !.pc = "close"] /\ UNCHANGED answered
     ELSE Refuse
  /\ UNCHANGED <<net, handled, amb>> /\ ServerOnly

ServerReadBlocks ==
  /\ Server("read") /\ ReadOneRequest(srv.buf) = More
  /\ net.up = <<>> /\ ~ net.cfin
  /\ srv' = [srv EXCEPT !.pc = "waitread"]
  /\ UNCHANGED <<net, handled, answered, amb>> /\ ServerOnly

\* wait_for_signal: ready, or Err( TimedOut ), or Err( Shutdown )
ReadReady ==
  /\ Server("waitread") /\ ~ stopping /\ (net.up # <<>> \/ net.cfin)
  /\ srv' = [srv EXCEPT !.pc = "read"]
  /\ UNCHANGED <<net, handled, answered, amb>> /\ ServerOnly

ReadWaitFails ==
  /\ Server("waitread") /\ (stopping \/ Expired(amb.at, now))
  /\ Refuse
  /\ UNCHANGED <<net, handled, amb>> /\ ServerOnly

BadHead ==
  /\ Server("read") /\ ReadOneRequest(srv.buf) = Bad
  /\ Refuse
  /\ UNCHANGED <<net, handled, amb>> /\ ServerOnly

CallHandler ==
  LET r == ReadOneRequest(srv.buf)
  IN /\ Server("read") /\ r.st = "ok"
     /\ srv' = [srv EXCEPT !.pc = "handle", !.req = r, !.buf = compact(@, r.used)]
     /\ handled' = Append(handled, <<r.id, r.body>>)
     /\ UNCHANGED <<net, answered, amb>> /\ ServerOnly

\* The handler may sleep, under a timeout scope of its own or not; sleep() is
\* one more scope around a wait that nothing completes.
HandlerSleeps(limit, delta) ==
  /\ Server("handle") /\ srv.slept = "no" /\ ~ stopping
  /\ srv' = [srv EXCEPT !.pc = "asleep", !.slept = IF limit = 0 THEN "plain" ELSE "scoped"]
  /\ amb' = EnterTimeout(IF limit = 0 THEN amb ELSE EnterTimeout(amb, now, limit), now, delta)
  /\ \E d \in Range(amb'.limits) : d <= MaxTime
  /\ UNCHANGED <<net, handled, answered>> /\ ServerOnly

SleepEnds ==
  /\ Server("asleep") /\ (stopping \/ Expired(amb.at, now))
  /\ srv' = [srv EXCEPT !.pc = "handle"]
  /\ amb' = ExitTimeout(IF srv.slept = "scoped" THEN ExitTimeout(amb) ELSE amb)
  /\ UNCHANGED <<net, handled, answered>> /\ ServerOnly

\* The handler returns its response; _wants_close decides, write_to begins.
HandlerReturns(kind, close) ==
  LET closing == srv.req.close \/ close
  IN /\ Server("handle")
     /\ srv' = [srv EXCEPT !.pc = "write", !.close = closing, !.req = More, !.slept = "no",
                           !.out = Response(srv.req.id, kind, closing)]
     /\ answered' = Append(answered, <<srv.req.id, Body(kind)>>)
     /\ UNCHANGED <<net, handled, amb>> /\ ServerOnly

\* io.write_all over TcpConnection.write; a peer that has gone may still seem
\* to take the bytes
ServerWrites(n) ==
  /\ Server("write") /\ n <= Len(srv.out)
  /\ net.cfin \/ Len(net.down) + n <= Window
  /\ srv' = [srv EXCEPT !.out = SubSeq(@, n + 1, Len(@))]
  /\ net' = IF net.cfin THEN net ELSE [net EXCEPT !.down = @ \o SubSeq(srv.out, 1, n)]
  /\ UNCHANGED <<handled, answered, amb>> /\ ServerOnly

ServerWriteBlocks ==
  /\ Server("write") /\ srv.out # <<>> /\ ~ net.cfin /\ Len(net.down) = Window
  /\ srv' = [srv EXCEPT !.pc = "waitwrite"]
  /\ UNCHANGED <<net, handled, answered, amb>> /\ ServerOnly

WriteReady ==
  /\ Server("waitwrite") /\ ~ stopping /\ (Len(net.down) < Window \/ net.cfin)
  /\ srv' = [srv EXCEPT !.pc = "write"]
  /\ UNCHANGED <<net, handled, answered, amb>> /\ ServerOnly

\* BrokenPipe or a failed wait: the connection is closed
WriteFails ==
  /\ \/ Server("write") /\ srv.out # <<>> /\ net.cfin
     \/ Server("waitwrite") /\ (stopping \/ Expired(amb.at, now))
  /\ srv' = [srv EXCEPT !.pc = "close"]
  /\ UNCHANGED <<net, handled, answered, amb>> /\ ServerOnly

Written ==
  /\ Server("write") /\ srv.out = <<>>
  /\ srv' = IF srv.close THEN [srv EXCEPT !.pc = "close"]
            ELSE [srv EXCEPT !.pc = "read", !.first = srv.buf = <<>>]
  /\ UNCHANGED <<net, handled, answered, amb>> /\ ServerOnly

\* Mutant: a path that ends the task without closing the socket.
CloseConn_Leaks(reset) ==
  /\ Server("close") /\ ~ reset
  /\ srv' = Idle
  /\ amb' = IF amb.saved = <<>> THEN amb ELSE ExitTimeout(amb)
  /\ UNCHANGED <<net, handled, answered>> /\ ServerOnly

\* conn.close() and the end of the task: the scope around it is left.  Closing
\* with unread input resets the connection, and the client may lose the rest.
CloseConn(reset) ==
  /\ Server("close")
  /\ reset => net.up # <<>>
  /\ net' = [net EXCEPT !.up = <<>>, !.sfin = TRUE, !.rst = @ \/ reset,
                        !.down = IF reset THEN <<>> ELSE @]
  /\ srv' = Idle
  /\ amb' = IF amb.saved = <<>> THEN amb ELSE ExitTimeout(amb)
  /\ UNCHANGED <<handled, answered>> /\ ServerOnly

-----------------------------------------------------------------------------
(* A foreign server: it reads the whole request, answers with a Content-    *)
(* Length, in chunks or until it closes, and may close too early.           *)

Chunks(body) ==
  CASE body = <<>> -> << <<"size", 0>>, NL, NL >>
    [] OTHER -> << <<"size", 1>>, NL, body[1], NL, <<"size", Len(body) - 1>>, NL >>
                \o SubSeq(body, 2, Len(body)) \o <<NL, <<"size", 0>>, NL, NL >>

Foreign(pc) == srv # Idle /\ srv.kind = "foreign" /\ srv.pc = pc

ForeignReads ==
  /\ Foreign("read") /\ ReadOneRequest(srv.buf) = More /\ net.up # <<>>
  /\ srv' = [srv EXCEPT !.buf = @ \o net.up]
  /\ net' = [net EXCEPT !.up = <<>>]
  /\ UNCHANGED <<handled, answered, amb>> /\ ServerOnly

ForeignAnswers(kind, framing) ==
  LET r == ReadOneRequest(srv.buf)
  IN /\ Foreign("read") /\ r.st = "ok"
     /\ srv' = [srv EXCEPT !.pc = "write", !.buf = compact(@, r.used), !.close = framing # Length(kind),
                           !.early = framing # NoLength, !.out = Head1(r.id, framing, framing # Length(kind)) \o
                                   (IF framing = Chunked THEN Chunks(Body(kind)) ELSE Body(kind))]
     /\ answered' = Append(answered, <<r.id, Body(kind)>>)
     /\ UNCHANGED <<net, handled, amb>> /\ ServerOnly

ForeignWrites(n) ==
  /\ Foreign("write") /\ n <= Len(srv.out) /\ Len(net.down) + n <= Window
  /\ srv' = [srv EXCEPT !.out = SubSeq(@, n + 1, Len(@)),
                        !.pc = IF n = Len(srv.out) /\ ~ srv.close THEN "read" ELSE @]
  /\ net' = [net EXCEPT !.down = @ \o SubSeq(srv.out, 1, n)]
  /\ UNCHANGED <<handled, answered, amb>> /\ ServerOnly

\* after its answer, early in one that says how long it is, or because the
\* client has closed
ForeignCloses ==
  /\ srv # Idle /\ srv.kind = "foreign"
  /\ (srv.close /\ srv.out = <<>>) \/ srv.early \/ net.cfin
  /\ net' = [net EXCEPT !.up = <<>>, !.sfin = TRUE]
  /\ srv' = Idle
  /\ UNCHANGED <<handled, answered, amb>> /\ ServerOnly

-----------------------------------------------------------------------------
(* The client.                                                              *)

Client(pc) == cli # Idle /\ cli.pc = pc
Library == cli.kind = "library"
ClientOnly == UNCHANGED <<srv, handled, answered, conns, now, amb, stopping>>

\* Connection.request; a peer that pipelines does not wait for the answers
MakeRequest(kind, close) ==
  LET id == Len(asked) + 1
  IN /\ Client("ready") \/ (Client("busy") /\ ~ Library /\ cli.out = <<>>)
     /\ Len(asked) < MaxReqs
     /\ asked' = Append(asked, <<id, Body(kind)>>)
     /\ cli' = [cli EXCEPT !.pc = "busy", !.out = @ \o Request(id, kind, close)]
     /\ UNCHANGED <<net, got>> /\ ClientOnly

SendJunk ==
  /\ cli # Idle /\ ~ Library /\ cli.out = <<>> /\ Len(asked) < MaxReqs
  /\ asked' = Append(asked, <<BadRequest, <<>>>>)
  /\ cli' = [cli EXCEPT !.pc = "busy", !.out = @ \o Junk]
  /\ UNCHANGED <<net, got>> /\ ClientOnly

\* _send_all: short writes; to a server that has gone, lost or refused
ClientSends(n) ==
  /\ Client("busy") /\ n <= Len(cli.out)
  /\ net.sfin \/ Len(net.up) + n <= Window
  /\ cli' = [cli EXCEPT !.out = SubSeq(@, n + 1, Len(@))]
  /\ net' = IF net.sfin THEN net ELSE [net EXCEPT !.up = @ \o SubSeq(cli.out, 1, n)]
  /\ UNCHANGED <<asked, got>> /\ ClientOnly

ClientSendFails ==
  /\ Client("busy") /\ cli.out # <<>> /\ net.sfin
  /\ cli' = [cli EXCEPT !.pc = "failed"]
  /\ UNCHANGED <<net, asked, got>> /\ ClientOnly

\* getresponse starts with an empty buffer
CallGetresponse ==
  /\ Client("busy") /\ Library /\ cli.out = <<>>
  /\ cli' = [cli EXCEPT !.pc = "recv", !.buf = <<>>]
  /\ UNCHANGED <<net, asked, got>> /\ ClientOnly

ClientReceives(n) ==
  /\ cli # Idle
  /\ IF Library THEN Client("recv") /\ GetResponse(cli.buf, FALSE) = More ELSE n = Len(net.down)
  /\ n <= Len(net.down)
  /\ cli' = [cli EXCEPT !.buf = IF Library THEN @ \o SubSeq(net.down, 1, n) ELSE @]
  /\ net' = [net EXCEPT !.down = SubSeq(@, n + 1, Len(@))]
  /\ UNCHANGED <<asked, got>> /\ ClientOnly

\* a response is all there, or the connection has ended it
Return(r) ==
  /\ cli' = [cli EXCEPT !.pc = IF r.st = "ok" THEN "ready" ELSE "failed", !.buf = <<>>]
  /\ got' = IF r.st = "ok" THEN Append(got, <<r.id, r.body>>) ELSE got
  /\ UNCHANGED <<net, asked>> /\ ClientOnly

GetresponseReturns ==
  /\ Client("recv") /\ GetResponse(cli.buf, FALSE) # More
  /\ Return(GetResponse(cli.buf, FALSE))

GetresponseAtEof ==
  /\ Client("recv") /\ GetResponse(cli.buf, FALSE) = More
  /\ net.down = <<>> /\ net.sfin
  /\ Return(IF net.rst THEN Bad ELSE GetResponse(cli.buf, TRUE))

\* Connection.close; a pipelining peer may go at any time
ClientCloses(reset) ==
  /\ cli # Idle
  /\ reset => net.down # <<>>
  /\ Library => cli.pc \in {"ready", "failed"}
  /\ cli' = Idle
  /\ net' = [net EXCEPT !.cfin = TRUE, !.down = <<>>, !.up = IF reset THEN <<>> ELSE @,
                        !.rst = @ \/ reset]
  /\ UNCHANGED <<asked, got>> /\ ClientOnly

-----------------------------------------------------------------------------
Tick ==
  /\ now < MaxTime /\ now' = now + 1
  /\ UNCHANGED <<net, srv, cli, asked, handled, answered, got, conns, amb, stopping>>

RequestShutdown ==
  /\ ~ stopping /\ stopping' = TRUE
  /\ UNCHANGED <<net, srv, cli, asked, handled, answered, got, conns, now, amb>>

Sizes == 1..Window
Replies == {"empty", "lines"}

ServerStep ==
  \/ \E n \in Sizes : ServerReads(n) \/ ServerWrites(n)
  \/ ServerReadsEnd \/ ServerReadBlocks \/ ReadReady \/ ReadWaitFails
  \/ BadHead \/ CallHandler \/ SleepEnds
  \/ \E kind \in Replies, close \in BOOLEAN : HandlerReturns(kind, close)
  \/ ServerWriteBlocks \/ WriteReady \/ WriteFails \/ Written
  \/ \E reset \in BOOLEAN : CloseConn(reset)

ForeignStep ==
  \/ ForeignReads \/ ForeignCloses
  \/ \E kind \in Replies : \E framing \in {Length(kind), Chunked, NoLength} : ForeignAnswers(kind, framing)
  \/ \E n \in Sizes : ForeignWrites(n)

ClientStep ==
  \/ \E n \in Sizes : ClientSends(n) \/ ClientReceives(n)
  \/ ClientSendFails \/ CallGetresponse \/ GetresponseReturns \/ GetresponseAtEof

Next ==
  \/ \E client \in Clients : Serve(client, "library", 0)
  \/ \E client \in Clients, limit \in Limits : Serve(client, "library", limit)
  \/ "foreign" \in Servers /\ "library" \in Clients /\ Serve("library", "foreign", 0)
  \/ \E kind \in Bodies, close \in BOOLEAN : MakeRequest(kind, close)
  \/ SendJunk
  \/ \E reset \in BOOLEAN : ClientCloses(reset)
  \/ \E limit \in Limits \cup {0}, delta \in Limits : HandlerSleeps(limit, delta)
  \/ ServerStep \/ ForeignStep \/ ClientStep
  \/ Tick \/ RequestShutdown

\* The reactor goes on driving a fiber that can run, until it is told to stop:
\* its worker may then block with the fiber ready.  A client's thread goes on
\* running, time passes, and a foreign server answers or closes.
Fairness ==
  /\ WF_vars(~ stopping /\ ServerStep)
  /\ WF_vars(ForeignStep) /\ WF_vars(ClientStep) /\ WF_vars(Tick)

Spec == Init /\ [][Next]_vars /\ Fairness

-----------------------------------------------------------------------------
\* However the network cuts the stream, and whatever the bodies hold, the
\* handler is called with the requests that were sent, whole and in order; 400
\* is answered only to junk, to a peer that has closed, on a deadline or in a
\* shutdown.
HandledAsSent ==
  /\ IsPrefix(handled, asked)
  /\ \A i \in DOMAIN answered : srv # Idle /\ answered[i][1] = BadRequest =>
       \/ \E j \in DOMAIN asked : asked[j][1] = BadRequest
       \/ net.cfin \/ stopping \/ (amb.limits # <<>> /\ amb.limits[1] <= now)

\* A response the client's call returns is the one the server sent for that
\* request, to its last byte, and a call fails only on a connection that the
\* server has closed or closes after the answer it is writing.
ResultsJustified ==
  /\ IsPrefix(got, answered)
  /\ \A i \in DOMAIN got : got[i][1] \in {i, BadRequest}
  /\ cli # Idle /\ cli.pc = "failed" => net.sfin \/ (srv # Idle /\ srv.close)

\* The deadline in force is the soonest of the open scopes', and there is none
\* on a fiber that is back in the pool.
DeadlinesNest ==
  /\ amb.at = IF amb.limits = <<>> THEN NO_DEADLINE
               ELSE CHOOSE d \in Range(amb.limits) : \A e \in Range(amb.limits) : d <= e
  /\ srv = Idle => amb = NoScope

\* A call that waits for a response returns: the server answers or closes, on
\* every path of handle_connection, unless it is still there when its reactor
\* is told to stop.
ClientReturns ==
  Client("recv") ~> \/ ~ Client("recv")
                    \/ stopping /\ srv # Idle /\ srv.kind = "library"
=============================================================================
