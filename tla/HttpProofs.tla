------------------------------ MODULE HttpProofs ------------------------------
(***************************************************************************)
(* Http, for any number of connections and requests, any window of the      *)
(* network, any deadlines and any clock: the handler is called with the     *)
(* requests that were sent, a call of Connection returns the response the   *)
(* server sent, and timeout scopes nest on the serving fiber.               *)
(*                                                                          *)
(* The inductive invariant HttpInv speaks of the two streams of tokens.     *)
(* Towards the server (Up), what is buffered, in flight and not yet sent is *)
(* the requests not yet taken, one after another.  Towards Connection       *)
(* (Down), it is the one response that the call waits for, and perhaps a    *)
(* 400 that nobody asked for behind it; or the rest of such a 400 whose     *)
(* beginning went with the buffer of an earlier call (Lost).  The two       *)
(* parsers, on a beginning of such a stream, find the first message of it   *)
(* or ask for more: ReadsStream, GetsReply.                                 *)
(***************************************************************************)
EXTENDS Http, SequenceTheorems, TLAPS

\* The forms a token has.
Tokens ==
  {NL, <<"junk">>} \cup {Line(id, length, close) : id \in Nat, length \in Int, close \in BOOLEAN}
  \cup {<<"size", n>> : n \in Nat}

\* A message is the number of a request and a body.
Payloads == {<<>>, <<NL, NL>>}
Messages == Nat \X Payloads

Requests == [st : {"ok"}, id : Nat, close : BOOLEAN, body : Payloads, used : Nat]

\* A serving fiber and a client.
Serving ==
  [pc : {"read", "waitread", "handle", "asleep", "write", "waitwrite", "close"},
   kind : {"library", "foreign"}, buf : Seq(Tokens), out : Seq(Tokens), req : {More} \cup Requests,
   first : BOOLEAN, close : BOOLEAN, early : BOOLEAN, slept : {"no", "plain", "scoped"}]
Calling == [pc : {"ready", "busy", "recv", "failed"}, kind : Clients, out : Seq(Tokens), buf : Seq(Tokens)]
Nets == [up : Seq(Tokens), down : Seq(Tokens), cfin : BOOLEAN, sfin : BOOLEAN, rst : BOOLEAN]

Types ==
  /\ net \in Nets
  /\ srv \in {Idle} \cup Serving
  /\ cli \in {Idle} \cup Calling
  /\ asked \in Seq(Messages) /\ handled \in Seq(Messages)
  /\ answered \in Seq(Messages) /\ got \in Seq(Messages)
  /\ now \in Nat /\ stopping \in BOOLEAN

\* An end of the connection is closed when nobody has it.
Ends ==
  /\ net.sfin <=> srv = Idle
  /\ net.cfin <=> cli = Idle

-----------------------------------------------------------------------------
(* Deadlines.                                                               *)

\* at is the soonest of the first n limits.
Soonest(at, limits, n) ==
  IF n = 0 THEN at = NO_DEADLINE
  ELSE (\E i \in 1..n : at = limits[i]) /\ (\A i \in 1..n : at <= limits[i])

\* Every open scope saved the deadline of the scopes around it.
Nested(a) ==
  /\ a \in [at : Int, saved : Seq(Int), limits : Seq(Nat)]
  /\ Len(a.saved) = Len(a.limits)
  /\ \A i \in 1..Len(a.limits) : Soonest(a.saved[i], a.limits, i - 1)
  /\ Soonest(a.at, a.limits, Len(a.limits))

\* One scope around the whole connection, one around a sleep, and perhaps one
\* of the handler's between them.
Scopes ==
  /\ Nested(amb)
  /\ srv = Idle \/ srv.kind = "foreign" => Len(amb.limits) = 0
  /\ srv # Idle /\ srv.pc # "asleep" => Len(amb.limits) <= 1
  /\ srv # Idle /\ srv.pc = "asleep" =>
       \/ srv.slept = "plain" /\ Len(amb.limits) \in {1, 2}
       \/ srv.slept = "scoped" /\ Len(amb.limits) \in {2, 3}

-----------------------------------------------------------------------------
(* The order of requests, calls of the handler and responses.               *)

\* s is a beginning of t.
Begins(s, t) == Len(s) <= Len(t) /\ \A i \in 1..Len(s) : s[i] = t[i]

Numbered ==
  /\ \A i \in DOMAIN asked : asked[i][1] \in {i, BadRequest}
  /\ \A i \in DOMAIN answered : answered[i][1] \in {i, BadRequest}
  /\ Begins(handled, asked)
  /\ Begins(got, answered)

\* Each stage of handle_connection knows how many responses there are; a 400 is
\* the last.
Served ==
  srv # Idle =>
    /\ srv.kind = "library" =>
         /\ srv.pc \in {"read", "waitread"} => Len(answered) = Len(handled)
         /\ srv.pc \in {"handle", "asleep"} =>
              /\ Len(handled) = Len(answered) + 1
              /\ srv.req # More /\ srv.req.id = handled[Len(handled)][1] /\ srv.req.id # BadRequest
         /\ srv.pc \in {"write", "waitwrite", "close"} =>
              \/ Len(answered) = Len(handled)
              \/ Len(answered) = Len(handled) + 1 /\ srv.close
         /\ ~ srv.close => \A i \in DOMAIN answered : answered[i][1] # BadRequest
    /\ srv.kind = "foreign" => srv.pc \in {"read", "write"} /\ Len(answered) <= Len(asked)
    /\ srv.pc \in {"read", "waitread", "handle", "asleep"} => ~ srv.close /\ srv.out = <<>>

\* The second part of HandledAsSent.
Refused ==
  \A i \in DOMAIN answered : srv # Idle /\ answered[i][1] = BadRequest =>
    \/ \E j \in DOMAIN asked : asked[j][1] = BadRequest
    \/ net.cfin \/ stopping \/ (amb.limits # <<>> /\ amb.limits[1] <= now)

-----------------------------------------------------------------------------
(* From the client to the server.                                           *)

\* The tokens of s behind the first p are the request m, and it ends at q.
Asks(s, p, q, m) ==
  \/ /\ m = <<BadRequest, <<>>>> /\ q = p + 3
     /\ s[p + 1] = <<"junk">> /\ s[p + 2] = NL /\ s[p + 3] = NL
  \/ \E length \in Int, close \in BOOLEAN :
       /\ m[1] # BadRequest
       /\ s[p + 1] = Line(m[1], length, close) /\ s[p + 2] = NL /\ s[p + 3] = NL
       /\ length = Len(m[2]) \/ (length = NoLength /\ m[2] = <<>>)
       /\ q = p + 3 + Len(m[2])
       /\ \A k \in 1..Len(m[2]) : s[p + 3 + k] = m[2][k]

\* s is the requests behind the first h, one after another, cut at these places.
Framed(s, cut, h, msgs) ==
  /\ cut \in [h..Len(msgs) -> 0..Len(s)]
  /\ cut[h] = 0 /\ cut[Len(msgs)] = Len(s)
  /\ \A i, j \in h..Len(msgs) : i <= j => cut[i] <= cut[j]
  /\ \A i \in (h + 1)..Len(msgs) : Asks(s, cut[i - 1], cut[i], msgs[i])

Framing(s, h, msgs) == \E cut \in [h..Len(msgs) -> 0..Len(s)] : Framed(s, cut, h, msgs)

Taken == IF srv.kind = "library" THEN Len(handled) ELSE Len(answered)

\* What has come is a beginning of the requests not yet taken, and with what the
\* client has still to send, all of them.
Up ==
  srv # Idle => \E s \in Seq(Tokens) :
    /\ Framing(s, Taken, asked)
    /\ Begins(srv.buf \o net.up, s)
    /\ cli # Idle => s = (srv.buf \o net.up) \o cli.out

-----------------------------------------------------------------------------
(* From the server to Connection.                                           *)

Closing == srv = Idle \/ srv.close
Left == IF srv = Idle THEN <<>> ELSE srv.out

\* The tokens of a response, framed by its length, in chunks or by the end.
Reply(m, framing, close) ==
  Head1(m[1], framing, close) \o (IF framing = Chunked THEN Chunks(m[2]) ELSE m[2])

\* The stream is the responses not yet returned: one, and perhaps a 400 that
\* nobody asked for.
Carries(s, one, two, framing) ==
  LET g == Len(got)
      a == Len(answered)
  IN /\ s = one \o two
     /\ a = g => one = <<>> /\ two = <<>>
     /\ a = g + 1 => two = <<>>
     /\ a # g => /\ framing \in {Len(answered[g + 1][2]), Chunked, NoLength}
                 /\ \E close \in BOOLEAN : one = Reply(answered[g + 1], framing, close)
                 /\ framing # Len(answered[g + 1][2]) => a = g + 1 /\ Closing
                 /\ framing = NoLength /\ srv # Idle => srv.kind = "foreign" /\ ~ srv.early
                 /\ framing = NoLength /\ srv = Idle => s = cli.buf \o net.down
     /\ a = g + 2 => two = Reply(answered[a], 0, FALSE) /\ answered[a][2] = <<>> /\ Closing
     /\ a \in {g, g + 1, g + 2}

InSync ==
  \E s, one, two \in Seq(Tokens) : \E framing \in Int :
    /\ Carries(s, one, two, framing)
    /\ Begins(cli.buf \o net.down, s)
    /\ srv # Idle => s = (cli.buf \o net.down) \o srv.out

\* All that can still come is what is left of a response whose beginning went
\* with the buffer of an earlier call.
Newlines(s) == \A i \in DOMAIN s : s[i] = NL
Lost ==
  /\ Closing
  /\ Newlines(cli.buf) /\ Newlines(net.down) /\ Newlines(Left)
  /\ Len(cli.buf) + Len(net.down) + Len(Left) <= 2

Down ==
  cli # Idle =>
    /\ Library /\ cli.pc = "ready" => Len(asked) = Len(got)
    /\ Library /\ cli.pc \in {"busy", "recv"} => Len(asked) = Len(got) + 1
    /\ Library /\ cli.pc # "failed" => InSync \/ Lost
    /\ cli.pc = "failed" => Closing
    /\ cli.pc = "recv" => Library
    /\ cli.pc # "recv" => cli.buf = <<>>

HttpInv == Types /\ Ends /\ Scopes /\ Numbered /\ Served /\ Refused /\ Up /\ Down

-----------------------------------------------------------------------------
(* Sequences and tokens.                                                    *)

\* The elements of a concatenation.
LEMMA SeqCat ==
  ASSUME NEW S, NEW s \in Seq(S), NEW t \in Seq(S)
  PROVE  /\ s \o t \in Seq(S) /\ Len(s \o t) = Len(s) + Len(t)
         /\ \A i \in 1..Len(s) : (s \o t)[i] = s[i]
         /\ \A i \in 1..Len(t) : (s \o t)[Len(s) + i] = t[i]
  OBVIOUS

\* A sequence is its first n elements and the others.
LEMMA SeqCut ==
  ASSUME NEW S, NEW s \in Seq(S), NEW n \in 0..Len(s)
  PROVE  /\ SubSeq(s, 1, n) \in Seq(S) /\ Len(SubSeq(s, 1, n)) = n
         /\ \A i \in 1..n : SubSeq(s, 1, n)[i] = s[i]
         /\ SubSeq(s, n + 1, Len(s)) \in Seq(S) /\ Len(SubSeq(s, n + 1, Len(s))) = Len(s) - n
         /\ \A i \in 1..(Len(s) - n) : SubSeq(s, n + 1, Len(s))[i] = s[n + i]
         /\ SubSeq(s, 1, n) \o SubSeq(s, n + 1, Len(s)) = s
<1>1. SubSeq(s, 1, n) \in Seq(S) /\ Len(SubSeq(s, 1, n)) = n
      /\ \A i \in 1..n : SubSeq(s, 1, n)[i] = s[i]
  OBVIOUS
<1>2. SubSeq(s, n + 1, Len(s)) \in Seq(S) /\ Len(SubSeq(s, n + 1, Len(s))) = Len(s) - n
      /\ \A i \in 1..(Len(s) - n) : SubSeq(s, n + 1, Len(s))[i] = s[n + i]
  OBVIOUS
<1>3. SubSeq(s, 1, n) \o SubSeq(s, n + 1, Len(s)) = s
  <2>1. 1 \in 1..(Len(s) + 1) /\ n \in (1 - 1)..Len(s) /\ Len(s) \in n..Len(s)
    OBVIOUS
  <2>2. SubSeq(s, 1, n) \o SubSeq(s, n + 1, Len(s)) = SubSeq(s, 1, Len(s))
    BY <2>1, ConcatAdjacentSubSeq
  <2> QED BY <2>2, SubSeqFull
<1> QED BY <1>1, <1>2, <1>3

\* Only the empty sequence has no elements.
LEMMA SeqEmpty == ASSUME NEW S, NEW s \in Seq(S) PROVE Len(s) = 0 <=> s = <<>>
  OBVIOUS

\* Two sequences with a common continuation; a beginning and the rest.
LEMMA BeginsRest ==
  ASSUME NEW S, NEW x \in Seq(S), NEW s \in Seq(S), Begins(x, s)
  PROVE  s = x \o SubSeq(s, Len(x) + 1, Len(s))
<1>1. Len(x) \in 0..Len(s)
  BY DEF Begins
<1>2. SubSeq(s, 1, Len(x)) \in Seq(S) /\ Len(SubSeq(s, 1, Len(x))) = Len(x)
      /\ \A i \in 1..Len(x) : SubSeq(s, 1, Len(x))[i] = s[i]
  BY <1>1, SeqCut
<1>3. \A i \in 1..Len(x) : x[i] = s[i]
  BY DEF Begins
<1>4. SubSeq(s, 1, Len(x)) = x
  BY <1>2, <1>3, SeqEqual
<1> QED BY <1>1, <1>4, SeqCut

\* A sequence begins with what it was made from.
LEMMA BeginsCat ==
  ASSUME NEW S, NEW x \in Seq(S), NEW y \in Seq(S)
  PROVE  Begins(x, x \o y) /\ Begins(x, x) /\ Begins(<<>>, x)
  BY SeqCat DEF Begins

\* A beginning of a beginning.
LEMMA BeginsPart ==
  ASSUME NEW S, NEW x \in Seq(S), NEW y \in Seq(S), NEW s \in Seq(S), Begins(x \o y, s)
  PROVE  Begins(x, s)
<1>1. Len(x \o y) = Len(x) + Len(y) /\ \A i \in 1..Len(x) : (x \o y)[i] = x[i]
  BY SeqCat
<1>2. Len(x) \in Nat /\ Len(y) \in Nat /\ Len(s) \in Nat
  OBVIOUS
<1> QED BY <1>1, <1>2 DEF Begins

\* The beginnings of a sequence are as long as their names say.
LEMMA BeginsAll ==
  ASSUME NEW S, NEW x \in Seq(S), NEW s \in Seq(S), Begins(x, s), Len(s) <= Len(x)
  PROVE  x = s
<1>1. Len(x) = Len(s) /\ \A i \in 1..Len(x) : x[i] = s[i]
  BY DEF Begins
<1> QED BY <1>1, SeqEqual

\* A beginning stays one when something is appended.
LEMMA BeginsAppend ==
  ASSUME NEW S, NEW x \in Seq(S), NEW y \in Seq(S), NEW m \in S, Begins(x, y)
  PROVE  Begins(x, Append(y, m))
<1>1. PICK k \in Nat, n \in Nat : k = Len(x) /\ n = Len(y)
  BY LenProperties
<1>2. k <= n /\ \A i \in 1..k : x[i] = y[i]
  BY <1>1 DEF Begins
<1>3. Len(Append(y, m)) = n + 1 /\ \A i \in 1..n : Append(y, m)[i] = y[i]
  BY <1>1, AppendProperties
<1>4. \A i \in 1..k : x[i] = Append(y, m)[i]
  BY <1>2, <1>3
<1>5. k <= n + 1
  BY <1>2
<1> QED BY <1>1, <1>3, <1>4, <1>5 DEF Begins

\* Begins is IsPrefix, element by element.
LEMMA BeginsIsPrefix ==
  ASSUME NEW S, NEW x \in Seq(S), NEW s \in Seq(S), Begins(x, s)
  PROVE  IsPrefix(x, s)
<1>1. Len(x) \in 0..Len(s) /\ Len(x) \in 0..Len(x)
  BY DEF Begins
<1>2. /\ SubSeq(s, 1, Len(x)) \in Seq(S) /\ Len(SubSeq(s, 1, Len(x))) = Len(x)
      /\ \A i \in 1..Len(x) : SubSeq(s, 1, Len(x))[i] = s[i]
  BY <1>1, SeqCut
<1>3. SubSeq(x, 1, Len(x)) = x
  BY SubSeqFull
<1>4. x = SubSeq(s, 1, Len(x))
  BY <1>2, SeqEqual DEF Begins
<1> QED BY <1>1, <1>3, <1>4 DEF IsPrefix

\* What tells the tokens apart.
LEMMA NewlineToken == NL \in Tokens /\ NL[1] # "line" /\ NL[1] # "size"
  BY DEF NL, Tokens

\* Tokens of different forms differ, and show their parts.
LEMMA JunkToken == <<"junk">> \in Tokens /\ <<"junk">> # NL /\ <<"junk">>[1] # "line"
  BY DEF NL, Tokens

\* A line token shows its number, length and close.
LEMMA LineToken ==
  ASSUME NEW id \in Nat, NEW length \in Int, NEW close \in BOOLEAN
  PROVE  /\ Line(id, length, close) \in Tokens /\ Line(id, length, close) # NL
         /\ Line(id, length, close)[1] = "line" /\ Line(id, length, close)[2] = id
         /\ Line(id, length, close)[3] = length /\ Line(id, length, close)[4] = close
<1>1. Line(id, length, close) \in Tokens
  BY DEF Tokens
<1>2. /\ Line(id, length, close)[1] = "line" /\ Line(id, length, close)[2] = id
      /\ Line(id, length, close)[3] = length /\ Line(id, length, close)[4] = close
  BY DEF Line
<1> QED BY <1>1, <1>2, NewlineToken

Size(n) == <<"size", n>>

\* A size token shows its size.
LEMMA SizeToken ==
  ASSUME NEW n \in Nat
  PROVE  Size(n) \in Tokens /\ Size(n)[1] = "size" /\ Size(n)[2] = n
  BY DEF Tokens, Size

\* Bodies of one and two lines.
LEMMA Lines ==
  /\ <<NL>> \in Seq(Tokens) /\ <<NL>> \o <<>> = <<NL>> /\ <<NL>> \o <<NL>> = <<NL, NL>>
<1>1. PICK nl \in Tokens : nl = NL
  BY NewlineToken
<1>2. /\ <<nl>> \in Seq(Tokens) /\ Len(<<nl>>) = 1 /\ <<nl>>[1] = nl
      /\ <<nl, nl>> \in Seq(Tokens) /\ Len(<<nl, nl>>) = 2 /\ <<nl, nl>>[1] = nl /\ <<nl, nl>>[2] = nl
  OBVIOUS
<1>3. <<nl>> \o <<>> = <<nl>>
  BY <1>2, ConcatEmptySeq
<1>4. PICK x \in Seq(Tokens) : x = <<nl>> /\ Len(x) = 1 /\ x[1] = nl
  BY <1>2
<1>5. PICK y \in Seq(Tokens) : y = <<nl, nl>> /\ Len(y) = 2 /\ y[1] = nl /\ y[2] = nl
  BY <1>2
<1>6. PICK z \in Seq(Tokens) : z = x \o x /\ Len(z) = 2 /\ z[1] = nl /\ z[1 + 1] = nl
  <2>1. /\ x \o x \in Seq(Tokens) /\ Len(x \o x) = Len(x) + Len(x)
        /\ \A i \in 1..Len(x) : (x \o x)[i] = x[i]
        /\ \A i \in 1..Len(x) : (x \o x)[Len(x) + i] = x[i]
    BY SeqCat
  <2>2. PICK z \in Seq(Tokens) : z = x \o x
    BY <2>1
  <2>3. Len(z) = 1 + 1 /\ \A i \in 1..1 : z[i] = x[i] /\ z[1 + i] = x[i]
    BY <1>4, <2>1, <2>2
  <2>4. 1 \in 1..1 /\ 1 + 1 = 2
    OBVIOUS
  <2> QED BY <1>4, <2>2, <2>3, <2>4
<1>7. \A i \in 1..Len(z) : z[i] = y[i]
  <2>1. z[2] = nl
    BY <1>6
  <2>2. \A i \in 1..Len(z) : i = 1 \/ i = 2
    BY <1>6
  <2> QED BY <1>5, <1>6, <2>1, <2>2
<1>8. z = y
  BY <1>5, <1>6, <1>7, SeqEqual
<1> QED BY <1>1, <1>2, <1>3, <1>4, <1>5, <1>6, <1>8

\* A body is empty or two empty lines.
LEMMA PayloadTypes ==
  ASSUME NEW b \in Payloads
  PROVE  b \in Seq(Tokens) /\ Len(b) \in {0, 2} /\ (\A i \in 1..Len(b) : b[i] = NL) /\ (Len(b) = 0 <=> b = <<>>)
<1>1. NL \in Tokens
  BY NewlineToken
<1>2. CASE b = <<>>
  BY <1>2
<1>3. CASE b = <<NL, NL>>
  <2>1. b \in Seq(Tokens) /\ Len(b) = 2
    BY <1>1, <1>3
  <2>2. b[1] = NL /\ b[2] = NL
    BY <1>3
  <2>3. \A i \in 1..2 : i = 1 \/ i = 2
    OBVIOUS
  <2> QED BY <2>1, <2>2, <2>3
<1> QED BY <1>2, <1>3 DEF Payloads

\* The head of a message.
LEMMA HeadTypes ==
  ASSUME NEW id \in Nat, NEW length \in Int, NEW close \in BOOLEAN
  PROVE  /\ Head1(id, length, close) \in Seq(Tokens) /\ Len(Head1(id, length, close)) = 3
         /\ Head1(id, length, close)[1] = Line(id, length, close)
         /\ Head1(id, length, close)[2] = NL /\ Head1(id, length, close)[3] = NL
<1>1. Line(id, length, close) \in Tokens /\ NL \in Tokens
  BY LineToken, NewlineToken
<1> QED BY <1>1 DEF Head1

-----------------------------------------------------------------------------
(* Scopes.                                                                  *)

\* Only the first n limits count.
LEMMA SoonestSame ==
  ASSUME NEW x, NEW L, NEW M, NEW n \in Nat, \A i \in 1..n : L[i] = M[i], Soonest(x, L, n)
  PROVE  Soonest(x, M, n)
<1>1. CASE n = 0
  BY <1>1 DEF Soonest
<1>2. CASE n # 0
  <2>1. PICK j \in 1..n : x = L[j]
    BY <1>2 DEF Soonest
  <2>2. \A i \in 1..n : x <= L[i]
    BY <1>2 DEF Soonest
  <2> QED BY <1>2, <2>1, <2>2 DEF Soonest
<1> QED BY <1>1, <1>2

\* Entering a scope: the deadline in force is the soonest of one more.
LEMMA EnterNests ==
  ASSUME NEW a, Nested(a), NEW t \in Nat, NEW d \in Nat
  PROVE  Nested(EnterTimeout(a, t, d)) /\ Len(EnterTimeout(a, t, d).limits) = Len(a.limits) + 1
         /\ \A i \in 1..Len(a.limits) : EnterTimeout(a, t, d).limits[i] = a.limits[i]
<1> DEFINE b == EnterTimeout(a, t, d)
           n == Len(a.limits)
<1>1. a \in [at : Int, saved : Seq(Int), limits : Seq(Nat)] /\ n \in Nat /\ Len(a.saved) = n
  BY DEF Nested
<1>2. /\ b.limits = Append(a.limits, t + d) /\ b.saved = Append(a.saved, a.at)
      /\ b.at = IF a.at # NO_DEADLINE /\ a.at < t + d THEN a.at ELSE t + d
      /\ b = [at |-> b.at, saved |-> b.saved, limits |-> b.limits]
  BY DEF EnterTimeout
<1>3. b.limits \in Seq(Nat) /\ b.saved \in Seq(Int) /\ b.at \in Int
  BY <1>1, <1>2
<1>4. /\ Len(b.limits) = n + 1 /\ Len(b.saved) = n + 1
      /\ b.limits[n + 1] = t + d /\ b.saved[n + 1] = a.at
      /\ \A i \in 1..n : b.limits[i] = a.limits[i] /\ b.saved[i] = a.saved[i]
  BY <1>1, <1>2
<1> HIDE DEF b, n
<1>5. \A i \in 1..n : Soonest(b.saved[i], b.limits, i - 1)
  <2> SUFFICES ASSUME NEW i \in 1..n PROVE Soonest(b.saved[i], b.limits, i - 1)
    OBVIOUS
  <2>1. Soonest(a.saved[i], a.limits, i - 1)
    BY <1>1 DEF Nested, n
  <2>2. i - 1 \in Nat /\ \A k \in 1..(i - 1) : a.limits[k] = b.limits[k]
    BY <1>1, <1>4
  <2>3. Soonest(a.saved[i], b.limits, i - 1)
    BY <2>1, <2>2, SoonestSame
  <2> QED BY <1>4, <2>3
<1>6. Soonest(a.at, a.limits, n)
  BY DEF Nested, n
<1>7. Soonest(b.saved[n + 1], b.limits, n)
  BY <1>1, <1>4, <1>6, SoonestSame
<1>8. Soonest(b.at, b.limits, n + 1)
  <2>1. CASE n = 0
    BY <1>1, <1>2, <1>4, <1>6, <2>1 DEF Soonest
  <2>2. CASE n # 0
    <3>1. PICK i \in 1..n : a.at = a.limits[i]
      BY <1>1, <1>6, <2>2 DEF Soonest
    <3>2. \A j \in 1..n : a.limits[j] \in Nat
      BY <1>1 DEF n
    <3>3. a.at \in Nat /\ a.at # NO_DEADLINE
      BY <3>1, <3>2 DEF NO_DEADLINE
    <3>4. \A j \in 1..n : a.at <= a.limits[j]
      BY <1>6, <2>2 DEF Soonest
    <3>5. b.at = IF a.at < t + d THEN a.at ELSE t + d
      BY <1>2, <3>3
    <3>6. \A j \in 1..(n + 1) : b.at <= b.limits[j]
      <4> SUFFICES ASSUME NEW j \in 1..(n + 1) PROVE b.at <= b.limits[j]
        OBVIOUS
      <4>1. CASE j = n + 1
        BY <1>4, <3>3, <3>5, <4>1
      <4>2. CASE j # n + 1
        <5>1. j \in 1..n
          BY <1>1, <4>2
        <5> QED BY <1>4, <3>2, <3>3, <3>4, <3>5, <5>1, SMTT(30)
      <4> QED BY <4>1, <4>2
    <3>7. \E j \in 1..(n + 1) : b.at = b.limits[j]
      <4>1. i \in 1..(n + 1) /\ n + 1 \in 1..(n + 1)
        BY <1>1
      <4> QED BY <1>4, <3>1, <3>5, <4>1
    <3> QED BY <1>1, <3>6, <3>7 DEF Soonest
  <2> QED BY <2>1, <2>2
<1>9. \A i \in 1..(n + 1) : Soonest(b.saved[i], b.limits, i - 1)
  <2> SUFFICES ASSUME NEW i \in 1..(n + 1) PROVE Soonest(b.saved[i], b.limits, i - 1)
    OBVIOUS
  <2>1. CASE i = n + 1
    BY <1>1, <1>7, <2>1
  <2>2. CASE i # n + 1
    BY <1>1, <1>5, <2>2
  <2> QED BY <2>1, <2>2
<1>10. b \in [at : Int, saved : Seq(Int), limits : Seq(Nat)]
  BY <1>2, <1>3
<1>11. Nested(b)
  BY <1>4, <1>8, <1>9, <1>10 DEF Nested
<1> QED BY <1>4, <1>11 DEF b, n

\* Leaving a scope: the deadline it saved is the soonest of the others.
LEMMA ExitNests ==
  ASSUME NEW a, Nested(a), Len(a.limits) > 0
  PROVE  Nested(ExitTimeout(a)) /\ Len(ExitTimeout(a).limits) = Len(a.limits) - 1
<1> DEFINE b == ExitTimeout(a)
<1>1. PICK n \in Nat : n + 1 = Len(a.limits)
  <2>1. Len(a.limits) \in Nat
    BY DEF Nested
  <2>2. Len(a.limits) - 1 \in Nat /\ (Len(a.limits) - 1) + 1 = Len(a.limits)
    BY <2>1
  <2> QED BY <2>2
<1>2. a \in [at : Int, saved : Seq(Int), limits : Seq(Nat)] /\ Len(a.saved) = n + 1
  BY <1>1 DEF Nested
<1>3. /\ b.limits = SubSeq(a.limits, 1, n) /\ b.saved = SubSeq(a.saved, 1, n) /\ b.at = a.saved[n + 1]
      /\ b = [at |-> b.at, saved |-> b.saved, limits |-> b.limits]
  BY <1>1, <1>2 DEF ExitTimeout
<1> HIDE DEF b
<1>4. /\ Len(b.limits) = n /\ Len(b.saved) = n
      /\ b.limits \in Seq(Nat) /\ b.saved \in Seq(Int) /\ b.at \in Int
      /\ \A i \in 1..n : b.limits[i] = a.limits[i] /\ b.saved[i] = a.saved[i]
  <2>1. a.limits \in Seq(Nat) /\ a.saved \in Seq(Int)
    BY <1>2
  <2>2. b.limits \in Seq(Nat) /\ Len(b.limits) = n /\ \A i \in 1..n : b.limits[i] = a.limits[i]
    <3>1. n \in 0..Len(a.limits)
      BY <1>1
    <3>2. /\ SubSeq(a.limits, 1, n) \in Seq(Nat) /\ Len(SubSeq(a.limits, 1, n)) = n
          /\ \A i \in 1..n : SubSeq(a.limits, 1, n)[i] = a.limits[i]
      BY <2>1, <3>1, SeqCut
    <3> QED BY <1>3, <3>2
  <2>3. b.saved \in Seq(Int) /\ Len(b.saved) = n /\ \A i \in 1..n : b.saved[i] = a.saved[i]
    <3>1. n \in 0..Len(a.saved)
      BY <1>2
    <3>2. /\ SubSeq(a.saved, 1, n) \in Seq(Int) /\ Len(SubSeq(a.saved, 1, n)) = n
          /\ \A i \in 1..n : SubSeq(a.saved, 1, n)[i] = a.saved[i]
      BY <2>1, <3>1, SeqCut
    <3> QED BY <1>3, <3>2
  <2>4. b.at \in Int
    BY <1>2, <1>3, <2>1
  <2> QED BY <2>2, <2>3, <2>4
<1>5. \A i \in 1..(n + 1) : Soonest(a.saved[i], a.limits, i - 1)
  BY <1>1 DEF Nested
<1>6. \A i \in 1..n : Soonest(b.saved[i], b.limits, i - 1)
  <2> SUFFICES ASSUME NEW i \in 1..n PROVE Soonest(b.saved[i], b.limits, i - 1)
    OBVIOUS
  <2>1. Soonest(a.saved[i], a.limits, i - 1)
    BY <1>5
  <2>2. i - 1 \in Nat /\ \A k \in 1..(i - 1) : a.limits[k] = b.limits[k]
    BY <1>4
  <2>3. Soonest(a.saved[i], b.limits, i - 1)
    BY <2>1, <2>2, SoonestSame
  <2> QED BY <1>4, <2>3
<1>7. Soonest(b.at, b.limits, n)
  <2>1. Soonest(a.saved[n + 1], a.limits, n)
    <3>1. (n + 1) - 1 = n /\ n + 1 \in 1..(n + 1)
      OBVIOUS
    <3> QED BY <1>5, <3>1
  <2> QED BY <1>3, <1>4, <2>1, SoonestSame
<1>8. Nested(b)
  BY <1>3, <1>4, <1>6, <1>7 DEF Nested
<1> QED BY <1>1, <1>4, <1>8 DEF b

\* With no scope open there is nothing but the empty record.
LEMMA NothingOpen == ASSUME NEW a, Nested(a), Len(a.limits) = 0 PROVE a = NoScope
<1>1. a \in [at : Int, saved : Seq(Int), limits : Seq(Nat)] /\ Len(a.saved) = 0 /\ a.at = NO_DEADLINE
  BY DEF Nested, Soonest
<1>2. a.saved = <<>> /\ a.limits = <<>>
  BY <1>1
<1>3. a = [at |-> a.at, saved |-> a.saved, limits |-> a.limits]
  BY <1>1
<1> QED BY <1>1, <1>2, <1>3 DEF NoScope

\* No scope is open on a fresh fiber.
LEMMA NoScopeNests == Nested(NoScope) /\ Len(NoScope.limits) = 0
  BY DEF Nested, NoScope, Soonest, NO_DEADLINE

\* What DeadlinesNest says follows.
LEMMA ScopesSoonest == ASSUME Scopes PROVE DeadlinesNest
<1>1. amb \in [at : Int, saved : Seq(Int), limits : Seq(Nat)] /\ Soonest(amb.at, amb.limits, Len(amb.limits))
  BY DEF Scopes, Nested
<1>2. srv = Idle => amb = NoScope
  BY NothingOpen DEF Scopes
<1>3. CASE amb.limits = <<>>
  BY <1>1, <1>2, <1>3 DEF DeadlinesNest, Soonest
<1>4. CASE amb.limits # <<>>
  <2>1. Len(amb.limits) # 0 /\ DOMAIN amb.limits = 1..Len(amb.limits)
    BY <1>1, <1>4
  <2>2. amb.at \in Range(amb.limits) /\ \A e \in Range(amb.limits) : amb.at <= e
    BY <1>1, <2>1 DEF Soonest, Range
  <2>3. Range(amb.limits) \subseteq Nat
    BY <1>1 DEF Range
  <2>4. \A d \in Range(amb.limits) : (\A e \in Range(amb.limits) : d <= e) => d = amb.at
    BY <2>2, <2>3
  <2>5. amb.at = CHOOSE d \in Range(amb.limits) : \A e \in Range(amb.limits) : d <= e
    BY <2>2, <2>4
  <2> QED BY <1>2, <1>4, <2>5 DEF DeadlinesNest
<1> QED BY <1>3, <1>4

-----------------------------------------------------------------------------
(* The two parsers, on a beginning of what was sent.                        *)

\* A head that is not all there has no double CRLF: its first token is none.
LEMMA FindNone ==
  ASSUME NEW buf \in Seq(Tokens), Len(buf) < 3, Len(buf) > 0 => buf[1] # NL
  PROVE  find_double_crlf(buf) = 0
<1> DEFINE E == {i \in 1..(Len(buf) - 1) : buf[i] = NL /\ buf[i + 1] = NL}
<1>1. \A i \in 1..(Len(buf) - 1) : i = 1 /\ Len(buf) > 0
  OBVIOUS
<1>2. E = {}
  BY <1>1
<1> QED BY <1>2 DEF find_double_crlf

\* A head of one line token ends behind it.
LEMMA FindHead ==
  ASSUME NEW buf \in Seq(Tokens), Len(buf) >= 3, buf[1] # NL, buf[2] = NL, buf[3] = NL
  PROVE  find_double_crlf(buf) = 2
<1> DEFINE E == {i \in 1..(Len(buf) - 1) : buf[i] = NL /\ buf[i + 1] = NL}
           First(i) == \A j \in E : i <= j
<1>1. 2 \in E
  OBVIOUS
<1>2. \A i \in E : i \in Nat /\ i >= 2
  <2> SUFFICES ASSUME NEW i \in 1..(Len(buf) - 1), buf[i] = NL PROVE i >= 2
    OBVIOUS
  <2>1. i # 1
    OBVIOUS
  <2> QED BY <2>1
<1> HIDE DEF E
<1>3. First(2) /\ \A i \in E : First(i) => i = 2
  BY <1>1, <1>2
<1> HIDE DEF First
<1>4. (CHOOSE i \in E : First(i)) = 2
  BY <1>1, <1>3
<1>5. find_double_crlf(buf) = IF E = {} THEN 0 ELSE CHOOSE i \in E : First(i)
  BY DEF find_double_crlf, E, First
<1> QED BY <1>1, <1>4, <1>5

\* The rest of a 400 has an empty head, or none yet.
LEMMA FindNewlines ==
  ASSUME NEW buf \in Seq(Tokens), Len(buf) <= 2, Newlines(buf)
  PROVE  find_double_crlf(buf) = IF Len(buf) = 2 THEN 1 ELSE 0
<1> DEFINE E == {i \in 1..(Len(buf) - 1) : buf[i] = NL /\ buf[i + 1] = NL}
           First(i) == \A j \in E : i <= j
<1>1. find_double_crlf(buf) = IF E = {} THEN 0 ELSE CHOOSE i \in E : First(i)
  BY DEF find_double_crlf
<1>2. CASE Len(buf) = 2
  <2>1. buf[1] = NL /\ buf[2] = NL
    BY <1>2 DEF Newlines
  <2>2. E = {1}
    BY <1>2, <2>1
  <2> HIDE DEF E
  <2>3. (CHOOSE i \in E : First(i)) = 1
    BY <2>2
  <2> QED BY <1>1, <1>2, <2>2, <2>3
<1>3. CASE Len(buf) # 2
  <2>1. \A i \in 1..(Len(buf) - 1) : FALSE
    <3>1. PICK n \in Nat : n = Len(buf)
      BY LenProperties
    <3>2. n < 2
      BY <1>3, <3>1
    <3> QED BY <3>1, <3>2
  <2>2. E = {}
    BY <2>1
  <2> QED BY <1>1, <1>3, <2>2
<1> QED BY <1>2, <1>3

\* The block in front of the double CRLF is the line.
LEMMA OneLine ==
  ASSUME NEW buf \in Seq(Tokens), Len(buf) >= 3
  PROVE  WellFormed(SubSeq(buf, 1, 2 - 1)) <=> buf[1][1] = "line"
<1>1. 1 \in 0..Len(buf) /\ 2 - 1 = 1
  OBVIOUS
<1>2. Len(SubSeq(buf, 1, 1)) = 1 /\ \A i \in 1..1 : SubSeq(buf, 1, 1)[i] = buf[i]
  BY <1>1, SeqCut
<1>3. SubSeq(buf, 1, 1)[1] = buf[1]
  BY <1>2
<1> QED BY <1>1, <1>2, <1>3 DEF WellFormed

\* A body of a declared length that follows the head.
LEMMA LengthBody ==
  ASSUME NEW buf \in Seq(Tokens), NEW b \in Payloads, NEW id \in Nat, NEW close \in BOOLEAN,
         \A k \in 1..Len(b) : 3 + k <= Len(buf) => buf[3 + k] = b[k], Len(buf) >= 3
  PROVE  IF Len(buf) >= 3 + Len(b)
         THEN ContentLengthBody(buf, 2 + 1, Line(id, Len(b), close)) =
                [st |-> "ok", id |-> id, close |-> close, body |-> b, used |-> 3 + Len(b)]
         ELSE ContentLengthBody(buf, 2 + 1, Line(id, Len(b), close)) = More
<1>1. b \in Seq(Tokens) /\ Len(b) \in Nat /\ Len(buf) \in Nat /\ Len(b) \in Int
  BY PayloadTypes
<1>2. /\ Line(id, Len(b), close)[3] = Len(b) /\ Line(id, Len(b), close)[2] = id
      /\ Line(id, Len(b), close)[4] = close
  <2>1. \A length \in Int : /\ Line(id, length, close)[3] = length /\ Line(id, length, close)[2] = id
                            /\ Line(id, length, close)[4] = close
    BY LineToken
  <2> QED BY <1>1, <2>1
<1>3. CASE Len(buf) >= 3 + Len(b)
  <2>1. SubSeq(buf, (2 + 1) + 1, (2 + 1) + Len(b)) = b
    <3>1. \A i \in 4..(3 + Len(b)) : buf[i] \in Tokens
      BY <1>1, <1>3
    <3> DEFINE z == SubSeq(buf, 4, 3 + Len(b))
    <3>2. /\ z \in Seq(Tokens) /\ Len(z) = IF 4 <= 3 + Len(b) THEN ((3 + Len(b)) - 4) + 1 ELSE 0
          /\ \A i \in 1..(((3 + Len(b)) - 4) + 1) : z[i] = buf[(4 + i) - 1]
      <4>1. 4 \in Int /\ 3 + Len(b) \in Int
        BY <1>1
      <4> QED BY <1>1, <1>3, SMT
    <3>3. Len(z) = Len(b) /\ \A i \in 1..Len(b) : z[i] = buf[3 + i]
      BY <1>1, <3>2
    <3>4. \A i \in 1..Len(b) : z[i] = b[i]
      BY <1>1, <1>3, <3>3
    <3>5. z = b
      BY <1>1, <3>2, <3>3, <3>4, SeqEqual
    <3> QED BY <3>5
  <2>2. Len(buf) - (2 + 1) >= Len(b) /\ (2 + 1) + Len(b) = 3 + Len(b)
    BY <1>1, <1>3
  <2> QED BY <1>2, <1>3, <2>1, <2>2 DEF ContentLengthBody, Ok
<1>4. CASE ~(Len(buf) >= 3 + Len(b))
  <2>1. ~(Len(buf) - (2 + 1) >= Len(b))
    BY <1>1, <1>4
  <2> QED BY <1>2, <1>4, <2>1 DEF ContentLengthBody
<1> QED BY <1>3, <1>4

\* _read_one_request on a beginning of a request: not yet, junk, or the request.
LEMMA ReadsAsked ==
  ASSUME NEW buf \in Seq(Tokens), NEW s \in Seq(Tokens), Begins(buf, s),
         NEW m \in Messages, NEW q \in Nat, q <= Len(s), Asks(s, 0, q, m)
  PROVE  \/ ReadOneRequest(buf) = More
         \/ ReadOneRequest(buf) = Bad /\ m[1] = BadRequest
         \/ /\ ReadOneRequest(buf) \in Requests
            /\ <<ReadOneRequest(buf).id, ReadOneRequest(buf).body>> = m /\ m[1] # BadRequest
            /\ ReadOneRequest(buf).used = q /\ q <= Len(buf)
<1>1. /\ m[1] \in Nat /\ m[2] \in Payloads /\ m = <<m[1], m[2]>> /\ m[2] \in Seq(Tokens)
      /\ Len(m[2]) \in Nat /\ Len(buf) \in Nat /\ Len(s) \in Nat
  BY PayloadTypes DEF Messages
<1>2. \A i \in 1..Len(buf) : buf[i] = s[i]
  BY DEF Begins
<1>3. CASE m = <<BadRequest, <<>>>> /\ q = 0 + 3 /\ s[0 + 1] = <<"junk">> /\ s[0 + 2] = NL /\ s[0 + 3] = NL
  <2>0. s[1] = <<"junk">> /\ s[2] = NL /\ s[3] = NL
    BY <1>3
  <2>1. CASE Len(buf) < 3
    <3>1. ASSUME Len(buf) > 0 PROVE buf[1] # NL
      <4>1. 1 \in 1..Len(buf)
        BY <1>1, <3>1
      <4> QED BY <1>2, <2>0, <4>1, JunkToken
    <3>2. find_double_crlf(buf) = 0
      BY <2>1, <3>1, FindNone
    <3> QED BY <3>2 DEF ReadOneRequest
  <2>2. CASE Len(buf) >= 3
    <3>1. buf[1] = <<"junk">> /\ buf[2] = NL /\ buf[3] = NL
      <4>1. 1 \in 1..Len(buf) /\ 2 \in 1..Len(buf) /\ 3 \in 1..Len(buf)
        BY <1>1, <2>2
      <4> QED BY <1>2, <2>0, <4>1
    <3>2. find_double_crlf(buf) = 2
      BY <2>2, <3>1, JunkToken, FindHead
    <3>3. ~ WellFormed(SubSeq(buf, 1, 2 - 1))
      BY <2>2, <3>1, JunkToken, OneLine
    <3>4. ReadOneRequest(buf) = Bad
      BY <3>2, <3>3 DEF ReadOneRequest
    <3>5. m[1] = BadRequest
      BY <1>3
    <3> QED BY <3>4, <3>5
  <2> QED BY <1>1, <2>1, <2>2
<1>4. ASSUME NEW length \in Int, NEW close \in BOOLEAN,
             m[1] # BadRequest,
             s[0 + 1] = Line(m[1], length, close), s[0 + 2] = NL, s[0 + 3] = NL,
             length = Len(m[2]) \/ (length = NoLength /\ m[2] = <<>>),
             q = (0 + 3) + Len(m[2]),
             \A k \in 1..Len(m[2]) : s[(0 + 3) + k] = m[2][k]
      PROVE  \/ ReadOneRequest(buf) = More
             \/ /\ ReadOneRequest(buf) \in Requests
                /\ <<ReadOneRequest(buf).id, ReadOneRequest(buf).body>> = m
                /\ ReadOneRequest(buf).used = q /\ q <= Len(buf)
  <2>0. s[1] = Line(m[1], length, close) /\ s[2] = NL /\ s[3] = NL /\ q = 3 + Len(m[2])
        /\ \A k \in 1..Len(m[2]) : s[3 + k] = m[2][k]
    BY <1>1, <1>4
  <2>1. /\ s[1] # NL /\ s[1][1] = "line" /\ s[1][2] = m[1] /\ s[1][3] = length /\ s[1][4] = close
    BY <1>1, <2>0, LineToken
  <2>2. CASE Len(buf) < 3
    <3>1. ASSUME Len(buf) > 0 PROVE buf[1] # NL
      <4>1. 1 \in 1..Len(buf)
        BY <1>1, <3>1
      <4> QED BY <1>2, <2>1, <4>1
    <3>2. find_double_crlf(buf) = 0
      BY <2>2, <3>1, FindNone
    <3> QED BY <3>2 DEF ReadOneRequest
  <2>3. CASE Len(buf) >= 3
    <3>1. buf[1] = s[1] /\ buf[2] = NL /\ buf[3] = NL
      <4>1. 1 \in 1..Len(buf) /\ 2 \in 1..Len(buf) /\ 3 \in 1..Len(buf)
        BY <1>1, <2>3
      <4> QED BY <1>2, <2>0, <4>1
    <3>2. find_double_crlf(buf) = 2
      BY <2>3, <2>1, <3>1, FindHead
    <3>3. WellFormed(SubSeq(buf, 1, 2 - 1))
      BY <2>3, <2>1, <3>1, OneLine
    <3>4. ReadOneRequest(buf) = IF length = NoLength THEN Ok(buf[1], <<>>, 2 + 1)
                                ELSE ContentLengthBody(buf, 2 + 1, buf[1])
      BY <2>1, <3>1, <3>2, <3>3 DEF ReadOneRequest
    <3>5. CASE length = NoLength
      <4>1. m[2] = <<>> /\ Len(m[2]) = 0
        BY <1>1, <1>4, <3>5, PayloadTypes DEF NoLength
      <4>2. ReadOneRequest(buf) = [st |-> "ok", id |-> m[1], close |-> close, body |-> m[2], used |-> 3]
        BY <2>1, <3>1, <3>4, <3>5, <4>1 DEF Ok
      <4>3. q = 3
        BY <2>0, <4>1
      <4> QED BY <1>1, <2>3, <4>2, <4>3 DEF Requests
    <3>6. CASE length # NoLength
      <4>1. length = Len(m[2]) /\ buf[1] = Line(m[1], Len(m[2]), close)
        BY <1>4, <2>0, <3>1, <3>6
      <4>2. \A k \in 1..Len(m[2]) : 3 + k <= Len(buf) => buf[3 + k] = m[2][k]
        BY <1>1, <1>2, <2>0
      <4>3. IF Len(buf) >= 3 + Len(m[2])
            THEN ReadOneRequest(buf) = [st |-> "ok", id |-> m[1], close |-> close, body |-> m[2], used |-> 3 + Len(m[2])]
            ELSE ReadOneRequest(buf) = More
        BY <1>1, <2>3, <3>4, <3>6, <4>1, <4>2, LengthBody, SMTT(30)
      <4> QED BY <1>1, <2>0, <4>3 DEF Requests
    <3> QED BY <3>5, <3>6
  <2> QED BY <1>1, <2>2, <2>3
<1> QED BY <1>3, <1>4 DEF Asks

\* Nothing has come.
LEMMA ReadsNothing == ReadOneRequest(<<>>) = More
<1>1. PICK buf \in Seq(Tokens) : buf = <<>> /\ Len(buf) = 0
  <2>1. <<>> \in Seq(Tokens)
    BY EmptySeq
  <2>2. Len(<<>>) = 0
    OBVIOUS
  <2> QED BY <2>1, <2>2
<1>2. find_double_crlf(buf) = 0
  <2>1. Len(buf) < 3 /\ ~(Len(buf) > 0)
    BY <1>1
  <2> QED BY <2>1, FindNone
<1> QED BY <1>1, <1>2 DEF ReadOneRequest

\* One chunk of data at p, when rest is what the others decode to.
Chunk(data, p, rest) ==
  LET n == data[p][2]
  IN IF Len(data) < p + 1 THEN More
     ELSE IF data[p][1] # "size" \/ data[p + 1] # NL THEN Bad
     ELSE IF n = 0 THEN [st |-> "ok", body |-> <<>>]
     ELSE IF Len(data) < p + n + 2 THEN More
     ELSE IF data[p + n + 2] # NL THEN Bad
     ELSE IF rest.st = "ok" THEN [rest EXCEPT !.body = SubSeq(data, p + 2, p + n + 1) \o @]
     ELSE rest

\* decode_chunked is the function that takes the chunks one after another, if
\* there is one.
LEMMA DecodeIsChunks ==
  ASSUME NEW d, NEW G, G = [p \in 1..Len(d) + 1 |-> Chunk(d, p, G[p + d[p][2] + 3])]
  PROVE  \E F : /\ F = [p \in 1..Len(d) + 1 |-> Chunk(d, p, F[p + d[p][2] + 3])]
                /\ decode_chunked(d) = F[1]
<1> DEFINE Is(F) == F = [p \in 1..Len(d) + 1 |-> Chunk(d, p, F[p + d[p][2] + 3])]
           F1 == CHOOSE F : Is(F)
<1>1. decode_chunked(d) = F1[1]
  BY DEF decode_chunked, Chunk
<1>2. Is(G)
  OBVIOUS
<1> HIDE DEF Is
<1>3. Is(F1)
  BY <1>2
<1> HIDE DEF F1
<1>4. \E F : Is(F) /\ decode_chunked(d) = F[1]
  BY <1>1, <1>3
<1> QED BY <1>4 DEF Is

\* The tokens of the two bodies a server sends, in chunks.
LEMMA ChunksOfNothing ==
  /\ Chunks(<<>>) \in Seq(Tokens) /\ Len(Chunks(<<>>)) = 3
  /\ Chunks(<<>>)[1] = Size(0) /\ Chunks(<<>>)[2] = NL /\ Chunks(<<>>)[3] = NL
<1>1. PICK zero \in Tokens : zero = Size(0)
  BY SizeToken
<1>2. PICK nl \in Tokens : nl = NL
  BY NewlineToken
<1>3. Chunks(<<>>) = <<zero, nl, nl>>
  BY <1>1, <1>2 DEF Chunks, Size
<1>4. /\ <<zero, nl, nl>> \in Seq(Tokens) /\ Len(<<zero, nl, nl>>) = 3
      /\ <<zero, nl, nl>>[1] = zero /\ <<zero, nl, nl>>[2] = nl /\ <<zero, nl, nl>>[3] = nl
  OBVIOUS
<1> QED BY <1>1, <1>2, <1>3, <1>4

\* The chunks of two empty lines, token by token.
LEMMA ChunksOfLines ==
  LET c == Chunks(<<NL, NL>>)
  IN /\ c \in Seq(Tokens) /\ Len(c) = 11
     /\ c[1] = Size(1) /\ c[2] = NL /\ c[3] = NL /\ c[4] = NL
     /\ c[5] = Size(1) /\ c[6] = NL /\ c[7] = NL /\ c[8] = NL
     /\ c[9] = Size(0) /\ c[10] = NL /\ c[11] = NL
<1>1. PICK one \in Tokens : one = Size(1)
  BY SizeToken
<1>2. PICK zero \in Tokens : zero = Size(0)
  BY SizeToken
<1>0. PICK nl \in Tokens : nl = NL
  BY NewlineToken
<1>3. /\ Len(<<nl, nl>>) - 1 = 1 /\ <<nl, nl>>[1] = nl /\ <<nl, nl>> # <<>>
      /\ SubSeq(<<nl, nl>>, 2, Len(<<nl, nl>>)) = <<nl>>
  <2>1. <<nl, nl>> \in Seq(Tokens) /\ Len(<<nl, nl>>) = 2 /\ <<nl, nl>>[1] = nl /\ <<nl, nl>>[2] = nl
    OBVIOUS
  <2>2. PICK u \in Seq(Tokens) : u = <<nl, nl>>
    BY <2>1
  <2>3. Len(u) = 2 /\ u[1 + 1] = nl /\ 1 \in 0..Len(u)
    BY <2>1, <2>2
  <2>4. /\ SubSeq(u, 1 + 1, Len(u)) \in Seq(Tokens) /\ Len(SubSeq(u, 1 + 1, Len(u))) = Len(u) - 1
        /\ \A i \in 1..(Len(u) - 1) : SubSeq(u, 1 + 1, Len(u))[i] = u[1 + i]
    BY <2>3, SeqCut
  <2>5. PICK v \in Seq(Tokens) : v = SubSeq(u, 2, Len(u)) /\ Len(v) = 1 /\ v[1] = nl
    <3>1. PICK v \in Seq(Tokens) : v = SubSeq(u, 1 + 1, Len(u)) /\ Len(v) = Len(u) - 1
                                   /\ \A i \in 1..(Len(u) - 1) : v[i] = u[1 + i]
      BY <2>4
    <3>2. Len(v) = 1 /\ v[1] = u[1 + 1]
      BY <2>3, <3>1
    <3>3. 1 + 1 = 2
      OBVIOUS
    <3> QED BY <2>3, <3>1, <3>2, <3>3
  <2>6. PICK w \in Seq(Tokens) : w = <<nl>>
    <3>1. <<nl>> \in Seq(Tokens)
      OBVIOUS
    <3> QED BY <3>1
  <2>7. Len(w) = 1 /\ w[1] = nl
    BY <2>6
  <2>8. \A i \in 1..Len(v) : v[i] = w[i]
    BY <2>5, <2>7
  <2>9. v = w
    BY <2>5, <2>7, <2>8, SeqEqual
  <2>10. Len(<<nl, nl>>) - 1 = 1 /\ <<nl, nl>> # <<>>
    BY <2>1
  <2>11. SubSeq(<<nl, nl>>, 2, Len(<<nl, nl>>)) = <<nl>>
    BY <2>2, <2>5, <2>6, <2>9, Zenon
  <2> QED BY <2>1, <2>10, <2>11
<1>4. Chunks(<<nl, nl>>) = (<<one, nl, nl, nl, one, nl>> \o <<nl>>) \o <<nl, zero, nl, nl>>
  BY <1>0, <1>1, <1>2, <1>3, Zenon DEF Chunks, Size
<1>5. PICK x \in Seq(Tokens) : x = <<one, nl, nl, nl, one, nl>>
  <2>1. <<one, nl, nl, nl, one, nl>> \in Seq(Tokens)
    OBVIOUS
  <2> QED BY <2>1
<1>6. PICK y \in Seq(Tokens) : y = <<nl, zero, nl, nl>>
  <2>1. <<nl, zero, nl, nl>> \in Seq(Tokens)
    OBVIOUS
  <2> QED BY <2>1
<1>7. PICK z \in Seq(Tokens) : z = <<nl>>
  <2>1. <<nl>> \in Seq(Tokens)
    OBVIOUS
  <2> QED BY <2>1
<1>8. /\ Len(x) = 6 /\ x[1] = one /\ x[2] = nl /\ x[3] = nl /\ x[4] = nl /\ x[5] = one /\ x[6] = nl
      /\ Len(y) = 4 /\ y[1] = nl /\ y[2] = zero /\ y[3] = nl /\ y[4] = nl /\ Len(z) = 1 /\ z[1] = nl
  BY <1>5, <1>6, <1>7
<1>9. PICK w \in Seq(Tokens) : w = x \o z
  BY SeqCat
<1>10. /\ Len(w) = 7 /\ (\A i \in 1..6 : w[i] = x[i]) /\ w[6 + 1] = z[1]
  <2>1. Len(w) = Len(x) + Len(z) /\ (\A i \in 1..Len(x) : w[i] = x[i]) /\ \A i \in 1..Len(z) : w[Len(x) + i] = z[i]
    BY <1>9, SeqCat
  <2> QED BY <1>8, <2>1
<1>11. PICK c \in Seq(Tokens) : c = w \o y
  BY SeqCat
<1>12. /\ Len(c) = 11 /\ (\A i \in 1..7 : c[i] = w[i]) /\ \A i \in 1..4 : c[7 + i] = y[i]
  <2>1. Len(c) = Len(w) + Len(y) /\ (\A i \in 1..Len(w) : c[i] = w[i]) /\ \A i \in 1..Len(y) : c[Len(w) + i] = y[i]
    BY <1>11, SeqCat
  <2> QED BY <1>8, <1>10, <2>1
<1>13. c = Chunks(<<nl, nl>>)
  BY <1>4, <1>5, <1>6, <1>7, <1>9, <1>11
<1>14. /\ c[1] = one /\ c[2] = nl /\ c[3] = nl /\ c[4] = nl /\ c[5] = one /\ c[6] = nl /\ c[7] = nl
  BY <1>8, <1>10, <1>12
<1>15. c[7 + 1] = nl /\ c[7 + 2] = zero /\ c[7 + 3] = nl /\ c[7 + 4] = nl
  BY <1>8, <1>12
<1>16. c[8] = nl /\ c[9] = zero /\ c[10] = nl /\ c[11] = nl
  BY <1>15
<1> QED BY <1>0, <1>1, <1>2, <1>12, <1>13, <1>14, <1>16

\* A beginning of a body without chunks.
LEMMA DecodesNothing ==
  ASSUME NEW d \in Seq(Tokens), Begins(d, Chunks(<<>>))
  PROVE  \/ decode_chunked(d) = More
         \/ decode_chunked(d) = [st |-> "ok", body |-> <<>>] /\ Len(d) >= 2
<1>1. PICK n \in Nat : n = Len(d) /\ n <= 3
  BY ChunksOfNothing DEF Begins
<1>2. /\ n >= 1 => d[1] = Size(0)
      /\ n >= 2 => d[2] = NL
      /\ n >= 3 => d[3] = NL
  BY <1>1, ChunksOfNothing DEF Begins
<1>3. \A r : Chunk(d, 1, r) = IF n < 2 THEN More ELSE [st |-> "ok", body |-> <<>>]
  BY <1>1, <1>2, SizeToken DEF Chunk
<1>4. \A r, p : p \in 2..(n + 1) => Chunk(d, p, r) = Chunk(d, p, More)
  <2> SUFFICES ASSUME NEW r, NEW p \in 2..(n + 1) PROVE Chunk(d, p, r) = Chunk(d, p, More)
    OBVIOUS
  <2>1. CASE n < p + 1
    BY <1>1, <2>1 DEF Chunk
  <2>2. CASE ~(n < p + 1)
    <3>1. p = 2
      BY <1>1, <2>2
    <3>2. d[p][1] # "size"
      BY <1>1, <1>2, <2>2, <3>1, NewlineToken
    <3> QED BY <1>1, <2>2, <3>2 DEF Chunk
  <2> QED BY <2>1, <2>2
<1>5. PICK G : G = [p \in 1..Len(d) + 1 |-> Chunk(d, p, More)]
  OBVIOUS
<1>6. \A p \in 1..Len(d) + 1 : \A r : Chunk(d, p, More) = Chunk(d, p, r)
  <2> SUFFICES ASSUME NEW p \in 1..Len(d) + 1, NEW r PROVE Chunk(d, p, More) = Chunk(d, p, r)
    OBVIOUS
  <2>1. p = 1 \/ p \in 2..(n + 1)
    BY <1>1
  <2> QED BY <1>3, <1>4, <2>1
<1>7. G = [p \in 1..Len(d) + 1 |-> Chunk(d, p, G[p + d[p][2] + 3])]
  BY <1>5, <1>6
<1>8. PICK F : /\ F = [p \in 1..Len(d) + 1 |-> Chunk(d, p, F[p + d[p][2] + 3])]
               /\ decode_chunked(d) = F[1]
  BY <1>7, DecodeIsChunks
<1>9. 1 \in 1..Len(d) + 1
  BY <1>1
<1>10. F[1] = Chunk(d, 1, F[1 + d[1][2] + 3])
  BY <1>8, <1>9
<1> QED BY <1>1, <1>3, <1>8, <1>10

\* One chunk of one token, when it is all there and when it is not.
LEMMA ChunkOfOne ==
  ASSUME NEW d \in Seq(Tokens), NEW p \in Nat \ {0}, NEW r,
         p <= Len(d) => d[p] = Size(1),
         \A k \in {p + 1, p + 2, p + 3} : k <= Len(d) => d[k] = NL
  PROVE  Chunk(d, p, r) = IF Len(d) < p + 3 THEN More
                          ELSE IF r.st = "ok" THEN [r EXCEPT !.body = <<NL>> \o @] ELSE r
<1>1. PICK n \in Nat : n = Len(d)
  BY LenProperties
<1>2. CASE n < p + 1
  BY <1>1, <1>2 DEF Chunk
<1>3. CASE ~(n < p + 1)
  <2>1. d[p][1] = "size" /\ d[p][2] = 1 /\ d[p + 1] = NL
    BY <1>1, <1>3, SizeToken
  <2>0. Chunk(d, p, r) = IF n < p + 1 + 2 THEN More
                         ELSE IF d[p + 1 + 2] # NL THEN Bad
                         ELSE IF r.st = "ok" THEN [r EXCEPT !.body = SubSeq(d, p + 2, p + 1 + 1) \o @] ELSE r
    BY <1>1, <1>3, <2>1 DEF Chunk
  <2>2. CASE n < p + 3
    <3>1. n < p + 1 + 2
      BY <2>2
    <3> QED BY <1>1, <2>0, <2>2, <3>1
  <2>3. CASE ~(n < p + 3)
    <3>1. ~(n < p + 1 + 2) /\ p + 1 + 2 = p + 3 /\ p + 1 + 1 = p + 2
      BY <2>3
    <3>2. d[p + 3] = NL /\ d[p + 2] = NL
      BY <1>1, <2>3
    <3>3. SubSeq(d, p + 2, p + 2) = <<NL>>
      <4>1. p + 2 \in 1..Len(d) /\ p + 2 \in (p + 2)..Len(d)
        BY <1>1, <2>3
      <4>2. SubSeq(d, p + 2, p + 2) = <<d[p + 2]>> \o SubSeq(d, (p + 2) + 1, p + 2)
        BY <4>1, SubSeqRecursiveFirst
      <4>3. SubSeq(d, (p + 2) + 1, p + 2) = <<>>
        <5>1. (p + 2) + 1 \in Int /\ p + 2 \in Int /\ p + 2 < (p + 2) + 1
          OBVIOUS
        <5> QED BY <5>1, SubSeqEmpty
      <4> QED BY <3>2, <4>2, <4>3, Lines
    <3> QED BY <1>1, <2>0, <2>3, <3>1, <3>2, <3>3
  <2> QED BY <1>1, <2>2, <2>3
<1> QED BY <1>2, <1>3

\* What is not the size of a chunk that goes on does not look further.
LEMMA ChunkEnds ==
  ASSUME NEW d \in Seq(Tokens), NEW p \in Nat \ {0},
         Len(d) < p + 1 \/ d[p] = NL \/ d[p] = Size(0)
  PROVE  \A r : Chunk(d, p, r) = Chunk(d, p, More)
<1>1. CASE Len(d) < p + 1
  BY <1>1 DEF Chunk
<1>2. CASE d[p] = NL
  BY <1>2, NewlineToken DEF Chunk
<1>3. CASE d[p] = Size(0)
  <2>1. d[p][2] = 0
    BY <1>3, SizeToken
  <2> QED BY <2>1 DEF Chunk
<1> QED BY <1>1, <1>2, <1>3

\* A beginning of a body of two chunks.
LEMMA DecodesLines ==
  ASSUME NEW d \in Seq(Tokens), Begins(d, Chunks(<<NL, NL>>))
  PROVE  \/ decode_chunked(d) = More
         \/ decode_chunked(d) = [st |-> "ok", body |-> <<NL, NL>>] /\ Len(d) >= 10
<1>1. PICK c \in Seq(Tokens) :
        /\ c = Chunks(<<NL, NL>>) /\ Len(c) = 11
        /\ c[1] = Size(1) /\ c[2] = NL /\ c[3] = NL /\ c[4] = NL
        /\ c[5] = Size(1) /\ c[6] = NL /\ c[7] = NL /\ c[8] = NL
        /\ c[9] = Size(0) /\ c[10] = NL /\ c[11] = NL
  BY ChunksOfLines
<1>2. PICK n \in Nat : n = Len(d) /\ n <= 11 /\ \A i \in 1..n : d[i] = c[i]
  <2>1. Len(d) \in Nat /\ Len(d) <= Len(c) /\ \A i \in 1..Len(d) : d[i] = c[i]
    BY <1>1, LenProperties DEF Begins
  <2> QED BY <1>1, <2>1
<1>0. \A i \in 1..11 : i <= n => i \in 1..n /\ d[i] = c[i]
  BY <1>2
<1>3. \A r : Chunk(d, 1, r) = IF n < 4 THEN More
                              ELSE IF r.st = "ok" THEN [r EXCEPT !.body = <<NL>> \o @] ELSE r
  <2>1. 1 <= n => d[1] = Size(1)
    <3>1. 1 \in 1..11
      OBVIOUS
    <3> QED BY <1>0, <1>1, <3>1
  <2>2. 1 + 1 <= n => d[1 + 1] = NL
    <3>1. 1 + 1 = 2 /\ 2 \in 1..11
      OBVIOUS
    <3> QED BY <1>0, <1>1, <3>1
  <2>3. 1 + 2 <= n => d[1 + 2] = NL
    <3>1. 1 + 2 = 3 /\ 3 \in 1..11
      OBVIOUS
    <3> QED BY <1>0, <1>1, <3>1
  <2>4. 1 + 3 <= n => d[1 + 3] = NL
    <3>1. 1 + 3 = 4 /\ 4 \in 1..11
      OBVIOUS
    <3> QED BY <1>0, <1>1, <3>1
  <2>5. \A k \in {1 + 1, 1 + 2, 1 + 3} : k <= Len(d) => d[k] = NL
    BY <1>2, <2>2, <2>3, <2>4
  <2>6. \A r : Chunk(d, 1, r) = IF Len(d) < 1 + 3 THEN More
                                ELSE IF r.st = "ok" THEN [r EXCEPT !.body = <<NL>> \o @] ELSE r
    <3>1. 1 \in Nat \ {0} /\ (1 <= Len(d) => d[1] = Size(1))
      BY <1>2, <2>1
    <3> QED BY <2>5, <3>1, ChunkOfOne
  <2>7. Len(d) < 1 + 3 <=> n < 4
    BY <1>2
  <2> QED BY <2>6, <2>7
<1>4. \A r : Chunk(d, 5, r) = IF n < 8 THEN More
                              ELSE IF r.st = "ok" THEN [r EXCEPT !.body = <<NL>> \o @] ELSE r
  <2>1. 5 <= n => d[5] = Size(1)
    <3>1. 5 \in 1..11
      OBVIOUS
    <3> QED BY <1>0, <1>1, <3>1
  <2>2. 5 + 1 <= n => d[5 + 1] = NL
    <3>1. 5 + 1 = 6 /\ 6 \in 1..11
      OBVIOUS
    <3> QED BY <1>0, <1>1, <3>1
  <2>3. 5 + 2 <= n => d[5 + 2] = NL
    <3>1. 5 + 2 = 7 /\ 7 \in 1..11
      OBVIOUS
    <3> QED BY <1>0, <1>1, <3>1
  <2>4. 5 + 3 <= n => d[5 + 3] = NL
    <3>1. 5 + 3 = 8 /\ 8 \in 1..11
      OBVIOUS
    <3> QED BY <1>0, <1>1, <3>1
  <2>5. \A k \in {5 + 1, 5 + 2, 5 + 3} : k <= Len(d) => d[k] = NL
    BY <1>2, <2>2, <2>3, <2>4
  <2>6. \A r : Chunk(d, 5, r) = IF Len(d) < 5 + 3 THEN More
                                ELSE IF r.st = "ok" THEN [r EXCEPT !.body = <<NL>> \o @] ELSE r
    <3>1. 5 \in Nat \ {0} /\ (5 <= Len(d) => d[5] = Size(1))
      BY <1>2, <2>1
    <3> QED BY <2>5, <3>1, ChunkOfOne
  <2>7. Len(d) < 5 + 3 <=> n < 8
    BY <1>2
  <2> QED BY <2>6, <2>7
<1>5. \A r : Chunk(d, 9, r) = IF n < 10 THEN More ELSE [st |-> "ok", body |-> <<>>]
  <2>1. CASE n < 10
    BY <1>2, <2>1 DEF Chunk
  <2>2. CASE ~(n < 10)
    <3>1. d[9] = Size(0) /\ d[9 + 1] = NL
      <4>1. 9 \in 1..11 /\ 10 \in 1..11 /\ 9 <= n /\ 10 <= n /\ 9 + 1 = 10
        BY <2>2
      <4> QED BY <1>0, <1>1, <4>1
    <3>2. d[9][1] = "size" /\ d[9][2] = 0
      BY <3>1, SizeToken
    <3> QED BY <1>2, <2>2, <3>1, <3>2 DEF Chunk
  <2> QED BY <2>1, <2>2
<1>6. \A p \in 1..(n + 1) : p # 1 /\ p # 5 => \A r : Chunk(d, p, r) = Chunk(d, p, More)
  <2> SUFFICES ASSUME NEW p \in 1..(n + 1), p # 1, p # 5 PROVE \A r : Chunk(d, p, r) = Chunk(d, p, More)
    OBVIOUS
  <2>1. n < p + 1 \/ (p \in 1..n /\ p \in {2, 3, 4, 6, 7, 8, 9, 10})
    BY <1>2
  <2>2. n < p + 1 \/ d[p] = NL \/ d[p] = Size(0)
    BY <1>1, <1>2, <2>1
  <2> QED BY <1>2, <2>2, ChunkEnds
<1>7. 4 <= n => d[1][2] = 1
  <2>1. 1 \in 1..11 /\ (4 <= n => 1 <= n)
    OBVIOUS
  <2> QED BY <1>0, <1>1, <2>1, SizeToken
<1>8. 8 <= n => d[5][2] = 1
  <2>1. 5 \in 1..11 /\ (8 <= n => 5 <= n)
    OBVIOUS
  <2> QED BY <1>0, <1>1, <2>1, SizeToken
<1>9. PICK v5 : v5 = Chunk(d, 5, Chunk(d, 9, More))
  OBVIOUS
<1>10. PICK G : G = [p \in 1..Len(d) + 1 |-> IF p = 1 THEN Chunk(d, 1, v5) ELSE IF p = 5 THEN v5 ELSE Chunk(d, p, More)]
  OBVIOUS
<1>11. \A p \in 1..Len(d) + 1 : G[p] = Chunk(d, p, G[p + d[p][2] + 3])
  <2> SUFFICES ASSUME NEW p \in 1..(n + 1) PROVE G[p] = Chunk(d, p, G[p + d[p][2] + 3])
    BY <1>2
  <2>0. G[p] = IF p = 1 THEN Chunk(d, 1, v5) ELSE IF p = 5 THEN v5 ELSE Chunk(d, p, More)
    BY <1>2, <1>10
  <2>1. CASE p = 1
    <3>1. CASE n < 4
      BY <1>3, <2>0, <2>1, <3>1
    <3>2. CASE ~(n < 4)
      <4>1. 1 + d[1][2] + 3 = 5 /\ 5 \in 1..Len(d) + 1
        BY <1>2, <1>7, <3>2
      <4>2. G[5] = v5
        BY <1>10, <4>1
      <4> QED BY <2>0, <2>1, <4>1, <4>2
    <3> QED BY <3>1, <3>2
  <2>2. CASE p = 5
    <3>1. CASE n < 8
      BY <1>4, <1>9, <2>0, <2>2, <3>1
    <3>2. CASE ~(n < 8)
      <4>1. 5 + d[5][2] + 3 = 9 /\ 9 \in 1..Len(d) + 1
        BY <1>2, <1>8, <3>2
      <4>2. G[9] = Chunk(d, 9, More)
        BY <1>10, <4>1
      <4> QED BY <1>9, <2>0, <2>2, <4>1, <4>2
    <3> QED BY <3>1, <3>2
  <2>3. CASE p # 1 /\ p # 5
    BY <1>6, <2>0, <2>3
  <2> QED BY <2>1, <2>2, <2>3
<1>12. G = [p \in 1..Len(d) + 1 |-> Chunk(d, p, G[p + d[p][2] + 3])]
  <2>1. G = [p \in 1..Len(d) + 1 |-> G[p]]
    BY <1>10
  <2> QED BY <1>11, <2>1
<1>13. PICK F : /\ F = [p \in 1..Len(d) + 1 |-> Chunk(d, p, F[p + d[p][2] + 3])]
                /\ decode_chunked(d) = F[1]
  BY <1>12, DecodeIsChunks
<1>14. \A p \in 1..(n + 1) : F[p] = Chunk(d, p, F[p + d[p][2] + 3])
  BY <1>2, <1>13
<1>15. 1 \in 1..(n + 1) /\ F[1] = Chunk(d, 1, F[1 + d[1][2] + 3])
  BY <1>14
<1>16. CASE n < 4
  BY <1>3, <1>13, <1>15, <1>16
<1>17. CASE ~(n < 4)
  <2>1. F[1] = IF F[5].st = "ok" THEN [F[5] EXCEPT !.body = <<NL>> \o @] ELSE F[5]
    <3>1. 1 + d[1][2] + 3 = 5
      BY <1>7, <1>17
    <3> QED BY <1>3, <1>15, <1>17, <3>1
  <2>2. F[5] = Chunk(d, 5, F[5 + d[5][2] + 3])
    <3>1. 5 \in 1..(n + 1)
      BY <1>17
    <3> QED BY <1>14, <3>1
  <2>3. CASE n < 8
    <3>1. F[5] = More
      BY <1>4, <2>2, <2>3
    <3> QED BY <1>13, <2>1, <3>1 DEF More
  <2>4. CASE ~(n < 8)
    <3>1. 5 + d[5][2] + 3 = 9 /\ 9 \in 1..(n + 1)
      BY <1>8, <2>4
    <3>2. F[5] = IF F[9].st = "ok" THEN [F[9] EXCEPT !.body = <<NL>> \o @] ELSE F[9]
      BY <1>4, <2>2, <2>4, <3>1
    <3>3. F[9] = IF n < 10 THEN More ELSE [st |-> "ok", body |-> <<>>]
      BY <1>5, <1>14, <3>1
    <3>4. CASE n < 10
      <4>1. F[9] = More
        BY <3>3, <3>4
      <4>2. F[5] = More
        BY <3>2, <4>1 DEF More
      <4> QED BY <1>13, <2>1, <4>2 DEF More
    <3>5. CASE ~(n < 10)
      <4>2. <<NL>> \o <<>> = <<NL>> /\ <<NL>> \o <<NL>> = <<NL, NL>>
        BY Lines
      <4>3. F[9] = [st |-> "ok", body |-> <<>>]
        BY <3>3, <3>5
      <4>4. F[5] = [st |-> "ok", body |-> <<NL>>]
        BY <3>2, <4>2, <4>3
      <4>5. F[1] = [st |-> "ok", body |-> <<NL, NL>>]
        <5>1. F[1] = [F[5] EXCEPT !.body = <<NL>> \o @]
          BY <2>1, <4>4
        <5>2. F[1] = [st |-> "ok", body |-> <<NL>> \o <<NL>>]
          BY <4>4, <5>1
        <5> QED BY <4>2, <5>2, Zenon
      <4>6. Len(d) >= 10
        BY <1>2, <3>5
      <4> QED BY <1>13, <4>5, <4>6
    <3> QED BY <3>4, <3>5
  <2> QED BY <2>3, <2>4
<1> QED BY <1>16, <1>17

\* A chunked body ends with the CRLF of its last chunk.
LEMMA ChunksTypes ==
  ASSUME NEW b \in Payloads
  PROVE  Chunks(b) \in Seq(Tokens) /\ Len(Chunks(b)) \in Nat /\ Len(Chunks(b)) >= 3 /\ Chunks(b)[Len(Chunks(b))] = NL
<1>1. CASE b = <<>>
  BY <1>1, ChunksOfNothing
<1>2. CASE b = <<NL, NL>>
  BY <1>2, ChunksOfLines, SMTT(30)
<1> QED BY <1>1, <1>2 DEF Payloads

\* decode_chunked does not fail on a beginning, and when it succeeds only the
\* last CRLF can be missing.
LEMMA DecodesBegin ==
  ASSUME NEW b \in Payloads, NEW d \in Seq(Tokens), Begins(d, Chunks(b))
  PROVE  \/ decode_chunked(d) = More
         \/ decode_chunked(d) = [st |-> "ok", body |-> b] /\ Len(d) + 1 >= Len(Chunks(b))
<1>0. PICK n \in Nat : n = Len(d)
  BY LenProperties
<1>1. CASE b = <<>>
  <2>1. decode_chunked(d) = More \/ (decode_chunked(d) = [st |-> "ok", body |-> b] /\ Len(d) >= 2)
    BY <1>1, DecodesNothing
  <2>2. Len(Chunks(b)) = 3
    BY <1>1, ChunksOfNothing
  <2> QED BY <1>0, <2>1, <2>2
<1>2. CASE b = <<NL, NL>>
  <2>1. decode_chunked(d) = More \/ (decode_chunked(d) = [st |-> "ok", body |-> b] /\ Len(d) >= 10)
    BY <1>2, DecodesLines
  <2>2. Len(Chunks(b)) = 11
    BY <1>2, ChunksOfLines
  <2> QED BY <1>0, <2>1, <2>2
<1> QED BY <1>1, <1>2 DEF Payloads

\* What follows the head of a response.
Content(m, framing) == IF framing = Chunked THEN Chunks(m[2]) ELSE m[2]
Framings(m) == {Len(m[2]), Chunked, NoLength}

\* A response is its head and its content.
LEMMA ReplyTypes ==
  ASSUME NEW m \in Messages, NEW f \in Framings(m), NEW close \in BOOLEAN
  PROVE  /\ Reply(m, f, close) \in Seq(Tokens) /\ Content(m, f) \in Seq(Tokens)
         /\ Len(Reply(m, f, close)) = 3 + Len(Content(m, f)) /\ f \in Int
         /\ Reply(m, f, close)[1] = Line(m[1], f, close)
         /\ Reply(m, f, close)[2] = NL /\ Reply(m, f, close)[3] = NL
         /\ \A k \in 1..Len(Content(m, f)) : Reply(m, f, close)[3 + k] = Content(m, f)[k]
<1>1. m[1] \in Nat /\ m[2] \in Payloads
  BY DEF Messages
<1>2. f \in Int
  BY <1>1, PayloadTypes DEF Framings, Chunked, NoLength
<1>3. Content(m, f) \in Seq(Tokens)
  BY <1>1, ChunksTypes, PayloadTypes DEF Content
<1>4. PICK h \in Seq(Tokens) :
        /\ h = Head1(m[1], f, close) /\ Len(h) = 3
        /\ h[1] = Line(m[1], f, close) /\ h[2] = NL /\ h[3] = NL
  BY <1>1, <1>2, HeadTypes
<1>5. PICK r \in Seq(Tokens) :
        /\ r = h \o Content(m, f) /\ Len(r) = Len(h) + Len(Content(m, f))
        /\ \A i \in 1..Len(h) : r[i] = h[i]
        /\ \A i \in 1..Len(Content(m, f)) : r[Len(h) + i] = Content(m, f)[i]
  <2>1. \A t \in Seq(Tokens) :
          /\ h \o t \in Seq(Tokens) /\ Len(h \o t) = Len(h) + Len(t)
          /\ \A i \in 1..Len(h) : (h \o t)[i] = h[i]
          /\ \A i \in 1..Len(t) : (h \o t)[Len(h) + i] = t[i]
    BY SeqCat
  <2> QED BY <1>3, <2>1
<1>6. r = Reply(m, f, close)
  BY <1>4, <1>5 DEF Reply, Content
<1>7. r[1] = h[1] /\ r[2] = h[2] /\ r[3] = h[3]
  <2>1. 1 \in 1..Len(h) /\ 2 \in 1..Len(h) /\ 3 \in 1..Len(h)
    BY <1>4
  <2> QED BY <1>5, <2>1
<1> QED BY <1>2, <1>3, <1>4, <1>5, <1>6, <1>7

\* What getresponse makes of the buffer buf when the response m, framed by f, is
\* the sequence one: it needs more, or it has m, and all of one has come except
\* perhaps the last CRLF of the chunks.
Gets(r, m, f, one, buf, eof) ==
  \/ r = More
  \/ /\ r.st = "ok" /\ r.id = m[1] /\ r.body = m[2]
     /\ f = Len(m[2]) => Len(one) <= Len(buf)
     /\ f = Chunked => Len(one) <= Len(buf) + 1
     /\ f = NoLength => eof

\* buf is a beginning of the stream s of a response, with or without another
\* behind it.
Arriving(m, f, close, one, two, s, buf, eof) ==
  /\ m \in Messages /\ f \in Framings(m) /\ close \in BOOLEAN /\ eof \in BOOLEAN
  /\ one \in Seq(Tokens) /\ two \in Seq(Tokens) /\ s \in Seq(Tokens) /\ buf \in Seq(Tokens)
  /\ one = Reply(m, f, close) /\ s = one \o two /\ Begins(buf, s)
  /\ f # Len(m[2]) => two = <<>>
  /\ eof /\ f = NoLength => buf = s

\* getresponse on a beginning of a response, with or without another behind it:
\* not yet, or the response.
LEMMA GetsReply ==
  ASSUME NEW m, NEW f, NEW close, NEW one, NEW two, NEW s, NEW buf, NEW eof,
         Arriving(m, f, close, one, two, s, buf, eof)
  PROVE  Gets(GetResponse(buf, eof), m, f, one, buf, eof)
<1> SUFFICES \/ GetResponse(buf, eof) = More
             \/ /\ GetResponse(buf, eof).st = "ok"
                /\ GetResponse(buf, eof).id = m[1] /\ GetResponse(buf, eof).body = m[2]
                /\ f = Len(m[2]) => Len(one) <= Len(buf)
                /\ f = Chunked => Len(one) <= Len(buf) + 1
                /\ f = NoLength => eof
  BY DEF Gets
<1>0. /\ m \in Messages /\ f \in Framings(m) /\ close \in BOOLEAN /\ eof \in BOOLEAN
      /\ one \in Seq(Tokens) /\ two \in Seq(Tokens) /\ s \in Seq(Tokens) /\ buf \in Seq(Tokens)
      /\ one = Reply(m, f, close) /\ s = one \o two /\ Begins(buf, s)
      /\ f # Len(m[2]) => two = <<>>
      /\ eof /\ f = NoLength => buf = s
  BY DEF Arriving
<1> USE <1>0
<1>1. /\ m[1] \in Nat /\ m[2] \in Payloads /\ m[2] \in Seq(Tokens) /\ f \in Int /\ Len(m[2]) \in {0, 2}
      /\ NoLength = -1 /\ Chunked = -2
  BY ReplyTypes, PayloadTypes DEF Messages, NoLength, Chunked
<1>2. PICK n \in Nat : n = Len(buf)
  BY LenProperties
<1>3. PICK k \in Nat : k = Len(Content(m, f))
  BY ReplyTypes, LenProperties
<1>4. /\ Len(one) = 3 + k /\ one[1] = Line(m[1], f, close) /\ one[2] = NL /\ one[3] = NL
      /\ \A i \in 1..k : one[3 + i] = Content(m, f)[i]
  BY <1>3, ReplyTypes
<1>5. /\ n <= Len(s) /\ Len(s) = (3 + k) + Len(two) /\ Len(two) \in Nat
      /\ \A i \in 1..(3 + k) : s[i] = one[i]
  <2>1. Len(s) = Len(one) + Len(two) /\ \A i \in 1..Len(one) : s[i] = one[i]
    BY SeqCat
  <2>2. Len(two) \in Nat
    BY LenProperties
  <2>3. n <= Len(s)
    BY <1>2 DEF Begins
  <2> QED BY <1>4, <2>1, <2>2, <2>3
<1>6. \A i \in 1..n : buf[i] = s[i]
  BY <1>2 DEF Begins
<1>7. \A i \in 1..(3 + k) : i <= n => buf[i] = one[i]
  BY <1>5, <1>6
<1>8. /\ one[1] # NL /\ one[1][1] = "line" /\ one[1][2] = m[1] /\ one[1][3] = f /\ one[1][4] = close
  <2>1. PICK l : l = Line(m[1], f, close) /\ l # NL /\ l[1] = "line" /\ l[2] = m[1] /\ l[3] = f /\ l[4] = close
    BY <1>1, LineToken
  <2> QED BY <1>4, <2>1
<1>9. CASE n < 3
  <2>1. ASSUME n > 0 PROVE buf[1] # NL
    <3>1. 1 \in 1..(3 + k) /\ 1 <= n
      BY <2>1
    <3> QED BY <1>7, <1>8, <3>1
  <2>2. find_double_crlf(buf) = 0
    BY <1>2, <1>9, <2>1, FindNone
  <2> QED BY <2>2 DEF GetResponse
<1>10. CASE ~(n < 3)
  <2>1. buf[1] = one[1] /\ buf[2] = NL /\ buf[3] = NL
    <3>1. 1 \in 1..(3 + k) /\ 2 \in 1..(3 + k) /\ 3 \in 1..(3 + k) /\ 1 <= n /\ 2 <= n /\ 3 <= n
      BY <1>10
    <3> QED BY <1>4, <1>7, <3>1
  <2>2. Len(buf) >= 3
    BY <1>2, <1>10
  <2>3. find_double_crlf(buf) = 2
    BY <1>8, <2>1, <2>2, FindHead
  <2>4. WellFormed(SubSeq(buf, 1, 2 - 1))
    BY <1>8, <2>1, <2>2, OneLine
  <2>5. PICK rest \in Seq(Tokens) :
          /\ rest = SubSeq(buf, 2 + 2, Len(buf)) /\ Len(rest) = n - 3
          /\ \A i \in 1..(n - 3) : rest[i] = buf[3 + i]
    <3>1. 3 \in 0..Len(buf) /\ 2 + 2 = 3 + 1
      BY <1>2, <1>10
    <3>2. /\ SubSeq(buf, 3 + 1, Len(buf)) \in Seq(Tokens) /\ Len(SubSeq(buf, 3 + 1, Len(buf))) = Len(buf) - 3
          /\ \A i \in 1..(Len(buf) - 3) : SubSeq(buf, 3 + 1, Len(buf))[i] = buf[3 + i]
      BY <3>1, SeqCut, ZenonT(60)
    <3> QED BY <1>2, <3>1, <3>2
  <2>6. GetResponse(buf, eof) =
          IF f = Chunked THEN IF decode_chunked(rest).st = "ok" THEN Ok(buf[1], decode_chunked(rest).body, Len(buf))
                              ELSE decode_chunked(rest)
          ELSE IF f = NoLength THEN IF eof THEN Ok(buf[1], rest, Len(buf)) ELSE More
          ELSE ContentLengthBody(buf, 2 + 1, buf[1])
    BY <1>8, <2>1, <2>3, <2>4, <2>5 DEF GetResponse
  <2>7. two = <<>> => Len(two) = 0
    OBVIOUS
  <2>8. \A i \in 1..k : i <= n - 3 => rest[i] = Content(m, f)[i]
    <3> SUFFICES ASSUME NEW i \in 1..k, i <= n - 3 PROVE rest[i] = Content(m, f)[i]
      OBVIOUS
    <3>1. i \in 1..(n - 3) /\ 3 + i \in 1..(3 + k) /\ 3 + i <= n
      BY <1>10
    <3> QED BY <1>4, <1>7, <2>5, <3>1
  <2>9. CASE f = Chunked
    <3>1. f # Len(m[2]) /\ f # NoLength
      BY <1>1, <2>9
    <3>2. n <= 3 + k
      BY <1>5, <2>7, <3>1
    <3>3. Content(m, f) = Chunks(m[2])
      BY <2>9 DEF Content
    <3>4. Begins(rest, Chunks(m[2]))
      <4>1. Len(rest) <= k
        BY <1>2, <2>5, <3>2
      <4>2. \A i \in 1..Len(rest) : i \in 1..k /\ i <= n - 3
        BY <1>10, <2>5, <4>1
      <4> QED BY <1>3, <2>8, <3>3, <4>1, <4>2 DEF Begins
    <3>5. CASE decode_chunked(rest) = More
      BY <2>6, <2>9, <3>5 DEF More
    <3>6. CASE decode_chunked(rest) = [st |-> "ok", body |-> m[2]] /\ Len(rest) + 1 >= Len(Chunks(m[2]))
      <4>1. GetResponse(buf, eof) = Ok(buf[1], m[2], Len(buf))
        BY <2>6, <2>9, <3>6
      <4>2. (n - 3) + 1 >= k
        BY <1>3, <2>5, <3>3, <3>6
      <4>3. Len(one) <= Len(buf) + 1
        BY <1>2, <1>4, <4>2
      <4> QED BY <1>8, <2>1, <3>1, <4>1, <4>3 DEF Ok
    <3> QED BY <1>1, <3>4, <3>5, <3>6, DecodesBegin
  <2>10. CASE f = NoLength
    <3>1. f # Len(m[2]) /\ f # Chunked
      BY <1>1, <2>10
    <3>2. CASE eof
      <4>1. n = 3 + k
        BY <1>2, <1>5, <2>7, <2>10, <3>1, <3>2
      <4>2. Content(m, f) = m[2]
        BY <3>1 DEF Content
      <4>3. Len(rest) = Len(m[2])
        BY <1>3, <2>5, <4>1, <4>2
      <4>4. \A i \in 1..Len(rest) : rest[i] = m[2][i]
        <5>1. \A i \in 1..Len(rest) : i \in 1..k /\ i <= n - 3
          BY <2>5, <4>1
        <5> QED BY <2>8, <4>2, <5>1
      <4>5. rest = m[2]
        BY <1>1, <4>3, <4>4, SeqEqual
      <4>6. GetResponse(buf, eof) = Ok(buf[1], m[2], Len(buf))
        BY <2>6, <2>10, <3>1, <3>2, <4>5
      <4>7. /\ GetResponse(buf, eof).st = "ok"
            /\ GetResponse(buf, eof).id = m[1] /\ GetResponse(buf, eof).body = m[2]
        BY <1>8, <2>1, <4>6 DEF Ok
      <4> QED BY <3>1, <3>2, <4>7, Zenon
    <3>3. CASE ~eof
      BY <2>6, <2>10, <3>1, <3>3
    <3> QED BY <3>2, <3>3
  <2>11. CASE f = Len(m[2]) /\ f # Chunked /\ f # NoLength
    <3>1. Content(m, f) = m[2] /\ k = Len(m[2])
      BY <1>3, <2>11 DEF Content
    <3>2. \A i \in 1..Len(m[2]) : 3 + i <= Len(buf) => buf[3 + i] = m[2][i]
      <4> SUFFICES ASSUME NEW i \in 1..k, 3 + i <= n PROVE buf[3 + i] = m[2][i]
        BY <1>2, <3>1
      <4>1. 3 + i \in 1..(3 + k)
        OBVIOUS
      <4> QED BY <1>4, <1>7, <3>1, <4>1
    <3>3. buf[1] = Line(m[1], Len(m[2]), close)
      BY <1>4, <2>1, <2>11
    <3>4. IF Len(buf) >= 3 + Len(m[2])
          THEN GetResponse(buf, eof) = [st |-> "ok", id |-> m[1], close |-> close, body |-> m[2], used |-> 3 + Len(m[2])]
          ELSE GetResponse(buf, eof) = More
      BY <1>1, <2>2, <2>6, <2>11, <3>2, <3>3, LengthBody
    <3>5. Len(buf) >= 3 + Len(m[2]) => Len(one) <= Len(buf)
      BY <1>2, <1>4, <3>1
    <3> QED BY <2>11, <3>4, <3>5
  <2> QED BY <1>1, <2>9, <2>10, <2>11 DEF Framings
<1> QED BY <1>9, <1>10

\* getresponse on what is left of a response without its beginning.
LEMMA GetsNewlines ==
  ASSUME NEW buf \in Seq(Tokens), Newlines(buf), Len(buf) <= 2, NEW eof \in BOOLEAN
  PROVE  GetResponse(buf, eof) \in {More, Bad}
<1>1. CASE Len(buf) = 2
  <2>1. find_double_crlf(buf) = 1
    BY <1>1, FindNewlines
  <2>2. ~ WellFormed(SubSeq(buf, 1, 1 - 1))
    <3>1. 0 \in 0..Len(buf) /\ 1 - 1 = 0
      BY <1>1
    <3>2. Len(SubSeq(buf, 1, 0)) = 0
      BY <3>1, SeqCut
    <3> QED BY <3>1, <3>2 DEF WellFormed
  <2> QED BY <2>1, <2>2 DEF GetResponse
<1>2. CASE Len(buf) # 2
  <2>1. find_double_crlf(buf) = 0
    BY <1>2, FindNewlines
  <2> QED BY <2>1 DEF GetResponse
<1> QED BY <1>1, <1>2

-----------------------------------------------------------------------------
(* A stream of requests grows at one end and is taken from at the other.    *)

\* A request is where its tokens are.
LEMMA AsksMoved ==
  ASSUME NEW s, NEW t, NEW p \in Nat, NEW o \in Nat, NEW q \in Nat, NEW m \in Messages, Asks(s, p, q, m),
         \A i \in 1..(q - p) : t[o + i] = s[p + i]
  PROVE  Asks(t, o, o + (q - p), m) /\ q >= p + 3
<1>0. PICK k \in Nat : k = Len(m[2])
  BY PayloadTypes DEF Messages
<1>1. CASE m = <<BadRequest, <<>>>> /\ q = p + 3 /\ s[p + 1] = <<"junk">> /\ s[p + 2] = NL /\ s[p + 3] = NL
  <2>1. q - p = 3
    BY <1>1
  <2>2. t[o + 1] = s[p + 1] /\ t[o + 2] = s[p + 2] /\ t[o + 3] = s[p + 3]
    <3>1. 1 \in 1..(q - p) /\ 2 \in 1..(q - p) /\ 3 \in 1..(q - p)
      BY <2>1
    <3> QED BY <3>1
  <2>3. Asks(t, o, o + 3, m)
    BY <1>1, <2>2 DEF Asks
  <2> QED BY <1>1, <2>1, <2>3
<1>2. ASSUME NEW length \in Int, NEW close \in BOOLEAN,
             m[1] # BadRequest,
             s[p + 1] = Line(m[1], length, close), s[p + 2] = NL, s[p + 3] = NL,
             length = Len(m[2]) \/ (length = NoLength /\ m[2] = <<>>),
             q = p + 3 + Len(m[2]),
             \A i \in 1..Len(m[2]) : s[p + 3 + i] = m[2][i]
      PROVE  Asks(t, o, o + (q - p), m) /\ q >= p + 3
  <2>0. q = p + 3 + k
    BY <1>0, <1>2, Zenon
  <2>1. q - p = 3 + k
    BY <2>0
  <2>2. t[o + 1] = s[p + 1] /\ t[o + 2] = s[p + 2] /\ t[o + 3] = s[p + 3]
    <3>1. 1 \in 1..(q - p) /\ 2 \in 1..(q - p) /\ 3 \in 1..(q - p)
      BY <2>1
    <3> QED BY <3>1
  <2>3. \A i \in 1..Len(m[2]) : t[o + 3 + i] = m[2][i]
    <3> SUFFICES ASSUME NEW i \in 1..k PROVE t[o + 3 + i] = m[2][i]
      BY <1>0
    <3>1. 3 + i \in 1..(q - p) /\ o + (3 + i) = o + 3 + i /\ p + (3 + i) = p + 3 + i
      BY <2>1
    <3>2. t[o + (3 + i)] = s[p + (3 + i)]
      BY <3>1
    <3>3. s[p + 3 + i] = m[2][i]
      BY <1>0, <1>2
    <3> QED BY <3>1, <3>2, <3>3
  <2>4. o + (q - p) = o + 3 + Len(m[2])
    <3>1. o + (q - p) = o + 3 + k
      BY <2>1
    <3> QED BY <1>0, <3>1, Zenon
  <2>5. Asks(t, o, o + (q - p), m)
    BY <1>2, <2>2, <2>3, <2>4 DEF Asks
  <2>6. q >= p + 3
    BY <2>0
  <2> QED BY <2>5, <2>6
<1> QED BY <1>1, <1>2 DEF Asks

\* Nothing in flight when every request is taken.
LEMMA FramingEmpty ==
  ASSUME NEW msgs \in Seq(Messages)
  PROVE  Framing(<<>>, Len(msgs), msgs)
<1>1. PICK n \in Nat : n = Len(msgs)
  BY LenProperties
<1>2. PICK cut : cut = [i \in n..n |-> 0]
  OBVIOUS
<1>3. Len(<<>>) = 0
  OBVIOUS
<1>4. cut \in [n..n -> 0..0] /\ cut[n] = 0
  BY <1>2
<1>5. \A i \in n..n : i = n
  OBVIOUS
<1>6. Framed(<<>>, cut, n, msgs)
  BY <1>1, <1>3, <1>4, <1>5 DEF Framed
<1> QED BY <1>1, <1>3, <1>4, <1>6 DEF Framing

\* One more request is sent.
LEMMA FramingAppend ==
  ASSUME NEW msgs \in Seq(Messages), NEW h \in 0..Len(msgs), NEW s \in Seq(Tokens), Framing(s, h, msgs),
         NEW m \in Messages, NEW x \in Seq(Tokens), Asks(x, 0, Len(x), m)
  PROVE  Framing(s \o x, h, Append(msgs, m))
<1>1. PICK n \in Nat : n = Len(msgs) /\ h \in 0..n
  BY LenProperties
<1>2. PICK k \in Nat : k = Len(s)
  BY LenProperties
<1>3. PICK e \in Nat : e = Len(x)
  BY LenProperties
<1>4. PICK t \in Seq(Tokens) : /\ t = s \o x /\ Len(t) = k + e
                               /\ \A i \in 1..k : t[i] = s[i]
                               /\ \A i \in 1..e : t[k + i] = x[i]
  <2>1. /\ s \o x \in Seq(Tokens) /\ Len(s \o x) = Len(s) + Len(x)
        /\ \A i \in 1..Len(s) : (s \o x)[i] = s[i]
        /\ \A i \in 1..Len(x) : (s \o x)[Len(s) + i] = x[i]
    BY SeqCat
  <2> QED BY <1>2, <1>3, <2>1
<1>5. PICK ms \in Seq(Messages) : /\ ms = Append(msgs, m) /\ Len(ms) = n + 1 /\ ms[n + 1] = m
                                  /\ \A i \in 1..n : ms[i] = msgs[i]
  <2>1. /\ Append(msgs, m) \in Seq(Messages) /\ Len(Append(msgs, m)) = Len(msgs) + 1
        /\ Append(msgs, m)[Len(msgs) + 1] = m
        /\ \A i \in 1..Len(msgs) : Append(msgs, m)[i] = msgs[i]
    BY AppendProperties
  <2> QED BY <1>1, <2>1
<1>6. PICK cut \in [h..n -> 0..k] :
        /\ cut[h] = 0 /\ cut[n] = k
        /\ \A i, j \in h..n : i <= j => cut[i] <= cut[j]
        /\ \A i \in (h + 1)..n : Asks(s, cut[i - 1], cut[i], msgs[i])
  BY <1>1, <1>2 DEF Framing, Framed
<1>7. PICK c : c = [i \in h..(n + 1) |-> IF i <= n THEN cut[i] ELSE k + e]
  OBVIOUS
<1>8. (\A i \in h..n : c[i] = cut[i] /\ cut[i] \in 0..k) /\ c[n + 1] = k + e
  <2>0. \A i \in h..n : cut[i] \in 0..k
    OBVIOUS
  <2>1. \A i \in h..n : i \in h..(n + 1) /\ i <= n
    BY <1>1
  <2>2. n + 1 \in h..(n + 1) /\ ~(n + 1 <= n)
    BY <1>1
  <2> QED BY <1>7, <2>0, <2>1, <2>2
<1>9. c \in [h..(n + 1) -> 0..(k + e)]
  BY <1>1, <1>6, <1>7
<1>10. c[h] = 0
  BY <1>1, <1>6, <1>8
<1>11. \A i, j \in h..(n + 1) : i <= j => c[i] <= c[j]
  <2> SUFFICES ASSUME NEW i \in h..(n + 1), NEW j \in h..(n + 1), i <= j PROVE c[i] <= c[j]
    OBVIOUS
  <2>1. CASE j = n + 1
    BY <1>8, <1>9, <2>1
  <2>2. CASE j # n + 1
    <3>1. i \in h..n /\ j \in h..n
      BY <1>1, <2>2
    <3> QED BY <1>6, <1>8, <3>1
  <2> QED BY <2>1, <2>2
<1>12. \A i \in (h + 1)..(n + 1) : Asks(t, c[i - 1], c[i], ms[i])
  <2> SUFFICES ASSUME NEW i \in (h + 1)..(n + 1) PROVE Asks(t, c[i - 1], c[i], ms[i])
    OBVIOUS
  <2>1. CASE i = n + 1
    <3>1. i - 1 = n /\ c[i - 1] = k /\ c[i] = k + (e - 0) /\ ms[i] = m
      BY <1>1, <1>5, <1>6, <1>8, <2>1
    <3>2. \A j \in 1..(e - 0) : t[k + j] = x[0 + j]
      BY <1>4, SMTT(30)
    <3>3. Asks(t, k, k + (e - 0), m)
      BY <1>3, <3>2, AsksMoved
    <3> QED BY <3>1, <3>3
  <2>2. CASE i # n + 1
    <3>1. i \in (h + 1)..n /\ i - 1 \in h..n /\ i \in h..n /\ i \in 1..n
      BY <1>1, <2>2
    <3>2. PICK p \in 0..k, q \in 0..k : p = cut[i - 1] /\ q = cut[i] /\ c[i - 1] = p /\ c[i] = q
      <4>1. cut[i - 1] \in 0..k /\ cut[i] \in 0..k /\ c[i - 1] = cut[i - 1] /\ c[i] = cut[i]
        BY <1>8, <3>1
      <4> QED BY <4>1
    <3>3. Asks(s, p, q, msgs[i])
      BY <1>6, <3>1, <3>2
    <3>4. msgs[i] \in Messages /\ ms[i] = msgs[i]
      BY <1>1, <1>5, <3>1
    <3>5. \A j \in 1..(q - p) : t[p + j] = s[p + j]
      <4> SUFFICES ASSUME NEW j \in 1..(q - p) PROVE t[p + j] = s[p + j]
        OBVIOUS
      <4>1. p \in Nat /\ q \in Nat /\ j \in Nat /\ q <= k /\ j <= q - p /\ j >= 1
        OBVIOUS
      <4>2. p + j \in 1..k
        BY <4>1
      <4> QED BY <1>4, <4>2
    <3>6. Asks(t, p, p + (q - p), msgs[i])
      <4>1. p \in Nat /\ q \in Nat
        OBVIOUS
      <4> QED BY <3>3, <3>4, <3>5, <4>1, AsksMoved
    <3>7. p + (q - p) = q
      OBVIOUS
    <3> QED BY <3>2, <3>4, <3>6, <3>7
  <2> QED BY <2>1, <2>2
<1>13. Framed(t, c, h, ms)
  BY <1>4, <1>5, <1>8, <1>9, <1>10, <1>11, <1>12 DEF Framed
<1> QED BY <1>4, <1>5, <1>9, <1>13 DEF Framing

\* The first request is taken.
LEMMA FramingTake ==
  ASSUME NEW msgs \in Seq(Messages), NEW h \in Nat, h < Len(msgs), NEW s \in Seq(Tokens), Framing(s, h, msgs)
  PROVE  \E q \in 0..Len(s) : /\ Asks(s, 0, q, msgs[h + 1])
                              /\ Framing(SubSeq(s, q + 1, Len(s)), h + 1, msgs)
<1>1. PICK n \in Nat : n = Len(msgs) /\ h < n
  BY LenProperties
<1>2. PICK k \in Nat : k = Len(s)
  BY LenProperties
<1>3. PICK cut \in [h..n -> 0..k] :
        /\ cut[h] = 0 /\ cut[n] = k
        /\ \A i, j \in h..n : i <= j => cut[i] <= cut[j]
        /\ \A i \in (h + 1)..n : Asks(s, cut[i - 1], cut[i], msgs[i])
  BY <1>1, <1>2 DEF Framing, Framed
<1>4. h + 1 \in (h + 1)..n /\ h + 1 \in h..n /\ (h + 1) - 1 = h
  BY <1>1
<1>5. PICK o \in 0..k : o = cut[h + 1]
  BY <1>3, <1>4
<1>6. Asks(s, 0, o, msgs[h + 1])
  BY <1>3, <1>4, <1>5
<1>7. PICK t \in Seq(Tokens) : /\ t = SubSeq(s, o + 1, Len(s)) /\ Len(t) = k - o
                               /\ \A i \in 1..(k - o) : t[i] = s[o + i]
  <2>1. o \in 0..Len(s)
    BY <1>2
  <2>2. /\ SubSeq(s, o + 1, Len(s)) \in Seq(Tokens) /\ Len(SubSeq(s, o + 1, Len(s))) = Len(s) - o
        /\ \A i \in 1..(Len(s) - o) : SubSeq(s, o + 1, Len(s))[i] = s[o + i]
    BY <2>1, SeqCut
  <2> QED BY <1>2, <2>2
<1>8. PICK c : c = [i \in (h + 1)..n |-> cut[i] - o]
  OBVIOUS
<1>9. \A i \in (h + 1)..n : i \in h..n /\ cut[i] \in o..k /\ c[i] = cut[i] - o /\ c[i] \in 0..(k - o)
  <2> SUFFICES ASSUME NEW i \in (h + 1)..n
               PROVE  i \in h..n /\ cut[i] \in o..k /\ c[i] = cut[i] - o /\ c[i] \in 0..(k - o)
    OBVIOUS
  <2>1. i \in h..n /\ h + 1 <= i /\ c[i] = cut[i] - o
    BY <1>8
  <2>2. cut[i] \in 0..k /\ cut[h + 1] <= cut[i]
    BY <1>3, <1>4, <2>1
  <2> QED BY <1>5, <2>1, <2>2
<1>10. c \in [(h + 1)..n -> 0..(k - o)]
  BY <1>8, <1>9
<1>11. c[h + 1] = 0 /\ c[n] = k - o
  <2>1. n \in (h + 1)..n
    BY <1>1
  <2> QED BY <1>3, <1>4, <1>5, <1>9, <2>1, SMTT(30)
<1>12. \A i, j \in (h + 1)..n : i <= j => c[i] <= c[j]
  <2> SUFFICES ASSUME NEW i \in (h + 1)..n, NEW j \in (h + 1)..n, i <= j PROVE c[i] <= c[j]
    OBVIOUS
  <2>1. cut[i] <= cut[j] /\ cut[i] \in Int /\ cut[j] \in Int
    BY <1>3, <1>9
  <2> QED BY <1>9, <2>1
<1>13. \A i \in ((h + 1) + 1)..n : Asks(t, c[i - 1], c[i], msgs[i])
  <2> SUFFICES ASSUME NEW i \in ((h + 1) + 1)..n PROVE Asks(t, c[i - 1], c[i], msgs[i])
    OBVIOUS
  <2>1. i \in (h + 1)..n /\ i - 1 \in (h + 1)..n /\ i \in 1..n
    OBVIOUS
  <2>2. PICK p \in o..k, q \in o..k : p = cut[i - 1] /\ q = cut[i] /\ c[i - 1] = p - o /\ c[i] = q - o
    BY <1>9, <2>1
  <2>3. Asks(s, p, q, msgs[i]) /\ msgs[i] \in Messages
    BY <1>1, <1>3, <2>1, <2>2
  <2>0. p \in Nat /\ q \in Nat /\ o \in Nat /\ o <= p /\ q <= k
    OBVIOUS
  <2>4. p - o \in Nat /\ (p - o) + (q - p) = q - o
    BY <2>0
  <2>5. \A j \in 1..(q - p) : t[(p - o) + j] = s[p + j]
    <3> SUFFICES ASSUME NEW j \in 1..(q - p) PROVE t[(p - o) + j] = s[p + j]
      OBVIOUS
    <3>1. (p - o) + j \in 1..(k - o) /\ o + ((p - o) + j) = p + j
      BY <2>0
    <3> QED BY <1>7, <3>1
  <2>6. Asks(t, p - o, (p - o) + (q - p), msgs[i])
    BY <2>0, <2>3, <2>4, <2>5, AsksMoved
  <2> QED BY <2>2, <2>4, <2>6
<1>14. Framed(t, c, h + 1, msgs)
  BY <1>1, <1>7, <1>10, <1>11, <1>12, <1>13 DEF Framed
<1>15. Framing(t, h + 1, msgs)
  BY <1>1, <1>7, <1>10, <1>14 DEF Framing
<1> QED BY <1>2, <1>5, <1>6, <1>7, <1>15

\* What a client adds to the stream is a request.
LEMMA RequestAsks ==
  ASSUME NEW id \in Nat \ {0}, NEW kind, NEW close \in BOOLEAN
  PROVE  /\ <<id, Body(kind)>> \in Messages /\ Request(id, kind, close) \in Seq(Tokens)
         /\ Asks(Request(id, kind, close), 0, Len(Request(id, kind, close)), <<id, Body(kind)>>)
<1>1. Body(kind) \in Payloads
  BY DEF Body, Payloads
<1>2. PICK b \in Seq(Tokens) : b = Body(kind) /\ Len(b) \in Nat
  BY <1>1, PayloadTypes
<1>3. Length(kind) \in Int /\ (Length(kind) = Len(b) \/ (Length(kind) = NoLength /\ b = <<>>))
  BY <1>2 DEF Length, NoLength, Body
<1>4. PICK h \in Seq(Tokens) :
        /\ h = Head1(id, Length(kind), close) /\ Len(h) = 3
        /\ h[1] = Line(id, Length(kind), close) /\ h[2] = NL /\ h[3] = NL
  BY <1>3, HeadTypes
<1>5. /\ h \o b \in Seq(Tokens) /\ Len(h \o b) = Len(h) + Len(b)
      /\ \A i \in 1..Len(h) : (h \o b)[i] = h[i]
      /\ \A i \in 1..Len(b) : (h \o b)[Len(h) + i] = b[i]
  BY SeqCat
<1>6. PICK x \in Seq(Tokens) : /\ x = h \o b /\ Len(x) = 3 + Len(b)
                               /\ \A i \in 1..3 : x[i] = h[i]
                               /\ \A i \in 1..Len(b) : x[3 + i] = b[i]
  <2>1. PICK x \in Seq(Tokens) : x = h \o b
    BY <1>5
  <2>2. /\ Len(x) = Len(h) + Len(b)
        /\ \A i \in 1..Len(h) : x[i] = h[i]
        /\ \A i \in 1..Len(b) : x[Len(h) + i] = b[i]
    BY <1>5, <2>1
  <2>3. Len(h) = 3
    BY <1>4
  <2> QED BY <2>1, <2>2, <2>3, ZenonT(60)
<1>7. x = Request(id, kind, close)
  BY <1>2, <1>4, <1>6 DEF Request
<1>8. x[1] = Line(id, Length(kind), close) /\ x[2] = NL /\ x[3] = NL
  <2>1. 1 \in 1..3 /\ 2 \in 1..3 /\ 3 \in 1..3
    OBVIOUS
  <2> QED BY <1>4, <1>6, <2>1
<1>9. PICK m \in Messages : m = <<id, b>> /\ m[1] = id /\ m[2] = b
  <2>1. <<id, b>> \in Messages
    BY <1>1, <1>2 DEF Messages
  <2>2. <<id, b>>[1] = id /\ <<id, b>>[2] = b
    OBVIOUS
  <2> QED BY <2>1, <2>2
<1>10. Asks(x, 0, Len(x), m)
  <2>1. 0 + 1 = 1 /\ 0 + 2 = 2 /\ 0 + 3 = 3 /\ id # BadRequest
    BY DEF BadRequest
  <2>2. x[0 + 1] = Line(m[1], Length(kind), close) /\ x[0 + 2] = NL /\ x[0 + 3] = NL
    BY <1>8, <1>9, <2>1
  <2>3. \A k \in 1..Len(m[2]) : x[0 + 3 + k] = m[2][k]
    BY <1>6, <1>9, <2>1
  <2>4. Len(x) = 0 + 3 + Len(m[2])
    BY <1>6, <1>9, <2>1
  <2>5. Length(kind) = Len(m[2]) \/ (Length(kind) = NoLength /\ m[2] = <<>>)
    BY <1>3, <1>9
  <2> QED BY <1>3, <1>9, <2>1, <2>2, <2>3, <2>4, <2>5 DEF Asks
<1> QED BY <1>2, <1>7, <1>9, <1>10

\* Junk is a request that is none.
LEMMA JunkAsks ==
  <<BadRequest, <<>>>> \in Messages /\ Junk \in Seq(Tokens) /\ Asks(Junk, 0, Len(Junk), <<BadRequest, <<>>>>)
<1>1. PICK j \in Tokens : j = <<"junk">>
  BY JunkToken
<1>2. PICK nl \in Tokens : nl = NL
  BY NewlineToken
<1>3. /\ <<j, nl, nl>> \in Seq(Tokens) /\ Len(<<j, nl, nl>>) = 3
      /\ <<j, nl, nl>>[1] = j /\ <<j, nl, nl>>[2] = nl /\ <<j, nl, nl>>[3] = nl
  OBVIOUS
<1>4. PICK x \in Seq(Tokens) : x = <<j, nl, nl>> /\ Len(x) = 3 /\ x[1] = j /\ x[2] = nl /\ x[3] = nl
  BY <1>3
<1>5. x = Junk
  BY <1>1, <1>2, <1>4 DEF Junk
<1>6. 0 + 1 = 1 /\ 0 + 2 = 2 /\ 0 + 3 = 3
  OBVIOUS
<1>7. Asks(x, 0, Len(x), <<BadRequest, <<>>>>)
  BY <1>1, <1>2, <1>4, <1>6 DEF Asks
<1>8. <<BadRequest, <<>>>> \in Messages
  BY DEF Messages, Payloads, BadRequest
<1> QED BY <1>5, <1>7, <1>8

\* Dropping from a concatenation what is within its first part.
LEMMA DropCat ==
  ASSUME NEW x \in Seq(Tokens), NEW y \in Seq(Tokens), NEW n \in 0..Len(x)
  PROVE  SubSeq(x \o y, n + 1, Len(x \o y)) = SubSeq(x, n + 1, Len(x)) \o y
<1>1. PICK k \in Nat : k = Len(x) /\ n \in 0..k
  BY LenProperties
<1>2. PICK e \in Nat : e = Len(y)
  BY LenProperties
<1>3. PICK z \in Seq(Tokens) : /\ z = x \o y /\ Len(z) = k + e
                               /\ \A i \in 1..k : z[i] = x[i]
                               /\ \A i \in 1..e : z[k + i] = y[i]
  <2>1. /\ x \o y \in Seq(Tokens) /\ Len(x \o y) = Len(x) + Len(y)
        /\ \A i \in 1..Len(x) : (x \o y)[i] = x[i]
        /\ \A i \in 1..Len(y) : (x \o y)[Len(x) + i] = y[i]
    BY SeqCat
  <2> QED BY <1>1, <1>2, <2>1
<1>4. PICK u \in Seq(Tokens) : /\ u = SubSeq(x, n + 1, Len(x)) /\ Len(u) = k - n
                               /\ \A i \in 1..(k - n) : u[i] = x[n + i]
  <2>1. /\ SubSeq(x, n + 1, Len(x)) \in Seq(Tokens) /\ Len(SubSeq(x, n + 1, Len(x))) = Len(x) - n
        /\ \A i \in 1..(Len(x) - n) : SubSeq(x, n + 1, Len(x))[i] = x[n + i]
    BY SeqCut
  <2> QED BY <1>1, <2>1
<1>5. PICK v \in Seq(Tokens) : /\ v = SubSeq(z, n + 1, Len(z)) /\ Len(v) = (k + e) - n
                               /\ \A i \in 1..((k + e) - n) : v[i] = z[n + i]
  <2>0. n \in 0..Len(z)
    BY <1>1, <1>3
  <2>1. /\ SubSeq(z, n + 1, Len(z)) \in Seq(Tokens) /\ Len(SubSeq(z, n + 1, Len(z))) = Len(z) - n
        /\ \A i \in 1..(Len(z) - n) : SubSeq(z, n + 1, Len(z))[i] = z[n + i]
    BY <2>0, SeqCut
  <2> QED BY <1>3, <2>1
<1>6. PICK w \in Seq(Tokens) : /\ w = u \o y /\ Len(w) = (k - n) + e
                               /\ \A i \in 1..(k - n) : w[i] = u[i]
                               /\ \A i \in 1..e : w[(k - n) + i] = y[i]
  <2>1. /\ u \o y \in Seq(Tokens) /\ Len(u \o y) = Len(u) + Len(y)
        /\ \A i \in 1..Len(u) : (u \o y)[i] = u[i]
        /\ \A i \in 1..Len(y) : (u \o y)[Len(u) + i] = y[i]
    BY SeqCat
  <2>2. PICK w \in Seq(Tokens) : w = u \o y
    BY <2>1
  <2>3. /\ Len(w) = Len(u) + Len(y)
        /\ \A i \in 1..Len(u) : w[i] = u[i]
        /\ \A i \in 1..Len(y) : w[Len(u) + i] = y[i]
    BY <2>1, <2>2
  <2>4. Len(u) = k - n /\ Len(y) = e
    BY <1>2, <1>4
  <2> QED BY <2>2, <2>3, <2>4, ZenonT(60)
<1>7. \A i \in 1..Len(v) : v[i] = w[i]
  <2> SUFFICES ASSUME NEW i \in 1..((k + e) - n) PROVE v[i] = w[i]
    BY <1>5
  <2>0. i \in Nat /\ i >= 1 /\ i <= (k + e) - n /\ n \in Nat /\ n <= k
    BY <1>1
  <2>1. v[i] = z[n + i]
    BY <1>5
  <2>2. CASE i <= k - n
    <3>1. i \in 1..(k - n) /\ n + i \in 1..k
      BY <2>0, <2>2
    <3> QED BY <1>3, <1>4, <1>6, <2>1, <3>1
  <2>3. CASE ~(i <= k - n)
    <3>1. PICK j \in 1..e : j = i - (k - n)
      BY <2>0, <2>3
    <3>2. n + i = k + j /\ i = (k - n) + j
      BY <2>0, <3>1
    <3> QED BY <1>3, <1>6, <2>1, <3>2
  <2> QED BY <2>2, <2>3
<1>8. Len(v) = Len(w)
  <2>1. n \in Nat
    BY <1>1
  <2> QED BY <1>5, <1>6, <2>1
<1>9. v = w
  BY <1>7, <1>8, SeqEqual
<1> QED BY <1>3, <1>4, <1>5, <1>6, <1>9

\* Taking from a beginning takes from the whole.
LEMMA DropBegins ==
  ASSUME NEW x \in Seq(Tokens), NEW s \in Seq(Tokens), Begins(x, s), NEW n \in 0..Len(x)
  PROVE  Begins(SubSeq(x, n + 1, Len(x)), SubSeq(s, n + 1, Len(s)))
<1>1. PICK k \in Nat, e \in Nat : k = Len(x) /\ e = Len(s) /\ k <= e /\ n \in 0..k /\ \A i \in 1..k : x[i] = s[i]
  BY LenProperties DEF Begins
<1>2. n \in 0..Len(s)
  BY <1>1
<1>3. /\ Len(SubSeq(x, n + 1, Len(x))) = Len(x) - n
      /\ \A i \in 1..(Len(x) - n) : SubSeq(x, n + 1, Len(x))[i] = x[n + i]
  BY SeqCut
<1>4. /\ Len(SubSeq(s, n + 1, Len(s))) = Len(s) - n
      /\ \A i \in 1..(Len(s) - n) : SubSeq(s, n + 1, Len(s))[i] = s[n + i]
  BY <1>2, SeqCut
<1>5. \A i \in 1..(k - n) : i \in 1..(e - n) /\ n + i \in 1..k
  BY <1>1
<1> QED BY <1>1, <1>3, <1>4, <1>5 DEF Begins

\* What _read_one_request makes of the beginning buf of the requests s behind
\* the first h: nothing yet, or an error because there is junk, or the next one
\* and the requests behind it are left.
Parses(r, buf, up, s, h, msgs) ==
  \/ r = More
  \/ r = Bad /\ \E j \in DOMAIN msgs : msgs[j][1] = BadRequest
  \/ /\ r \in Requests /\ h + 1 \in DOMAIN msgs
     /\ <<r.id, r.body>> = msgs[h + 1] /\ r.id # BadRequest
     /\ compact(buf, r.used) \in Seq(Tokens)
     /\ \E z \in Seq(Tokens) :
          /\ Framing(z, h + 1, msgs)
          /\ Begins(compact(buf, r.used) \o up, z)
          /\ \A out \in Seq(Tokens) : s = (buf \o up) \o out => z = (compact(buf, r.used) \o up) \o out

\* _read_one_request, on any beginning of the stream of requests.
LEMMA ReadsStream ==
  ASSUME NEW msgs \in Seq(Messages), NEW h \in 0..Len(msgs), NEW s \in Seq(Tokens), Framing(s, h, msgs),
         NEW buf \in Seq(Tokens), NEW up \in Seq(Tokens), Begins(buf \o up, s)
  PROVE  Parses(ReadOneRequest(buf), buf, up, s, h, msgs)
<1>0. PICK n \in Nat : n = Len(msgs) /\ h \in 0..n /\ DOMAIN msgs = 1..n
  BY LenProperties
<1>1. Begins(buf, s)
  BY BeginsPart
<1>2. CASE h = n
  <2>1. Len(s) = 0
    <3>1. PICK cut : Framed(s, cut, n, msgs)
      BY <1>0, <1>2 DEF Framing
    <3> QED BY <1>0, <1>2, <3>1 DEF Framed
  <2>2. Len(buf) = 0
    <3>1. PICK k \in Nat : k = Len(buf)
      BY LenProperties
    <3>2. k <= 0
      BY <1>1, <2>1, <3>1 DEF Begins
    <3> QED BY <3>1, <3>2
  <2>3. buf = <<>>
    BY <2>2, SeqEmpty
  <2> QED BY <2>3, ReadsNothing DEF Parses
<1>3. CASE h # n
  <2>1. h \in Nat /\ h < Len(msgs) /\ h + 1 \in DOMAIN msgs
    BY <1>0, <1>3
  <2>2. PICK q \in 0..Len(s) : Asks(s, 0, q, msgs[h + 1]) /\ Framing(SubSeq(s, q + 1, Len(s)), h + 1, msgs)
    BY <2>1, FramingTake
  <2>3. q \in Nat /\ q <= Len(s)
    <3>1. Len(s) \in Nat
      BY LenProperties
    <3> QED BY <3>1
  <2>4. msgs[h + 1] \in Messages
    BY <1>0, <2>1
  <2>5. \/ ReadOneRequest(buf) = More
        \/ ReadOneRequest(buf) = Bad /\ msgs[h + 1][1] = BadRequest
        \/ /\ ReadOneRequest(buf) \in Requests
           /\ <<ReadOneRequest(buf).id, ReadOneRequest(buf).body>> = msgs[h + 1] /\ msgs[h + 1][1] # BadRequest
           /\ ReadOneRequest(buf).used = q /\ q <= Len(buf)
    BY <1>1, <2>2, <2>3, <2>4, ReadsAsked
  <2>6. CASE /\ ReadOneRequest(buf) \in Requests
             /\ <<ReadOneRequest(buf).id, ReadOneRequest(buf).body>> = msgs[h + 1] /\ msgs[h + 1][1] # BadRequest
             /\ ReadOneRequest(buf).used = q /\ q <= Len(buf)
    <3>1. q \in 0..Len(buf)
      <4>1. Len(buf) \in Nat
        BY LenProperties
      <4> QED BY <2>3, <2>6, <4>1
    <3>2. PICK z \in Seq(Tokens) : z = SubSeq(s, q + 1, Len(s))
      BY SeqCut
    <3>3. PICK c \in Seq(Tokens) : c = SubSeq(buf, q + 1, Len(buf))
      BY <3>1, SeqCut
    <3>4. PICK w \in Seq(Tokens) : w = buf \o up /\ q \in 0..Len(w)
      <4>1. buf \o up \in Seq(Tokens) /\ Len(buf \o up) = Len(buf) + Len(up) /\ Len(buf) \in Nat /\ Len(up) \in Nat
        BY SeqCat, LenProperties
      <4>2. q \in 0..Len(buf \o up)
        BY <3>1, <4>1
      <4> QED BY <4>1, <4>2
    <3>5. SubSeq(w, q + 1, Len(w)) = c \o up
      BY <3>1, <3>3, <3>4, DropCat
    <3>6. Begins(c \o up, z)
      <4>1. Begins(SubSeq(w, q + 1, Len(w)), SubSeq(s, q + 1, Len(s)))
        BY <3>4, DropBegins
      <4> QED BY <3>2, <3>5, <4>1
    <3>7. ASSUME NEW out \in Seq(Tokens), s = (buf \o up) \o out PROVE z = (c \o up) \o out
      <4>1. SubSeq(w \o out, q + 1, Len(w \o out)) = SubSeq(w, q + 1, Len(w)) \o out
        BY <3>4, DropCat
      <4> QED BY <3>2, <3>4, <3>5, <3>7, <4>1
    <3>8. compact(buf, ReadOneRequest(buf).used) = c
      BY <2>6, <3>3 DEF compact
    <3>9. ReadOneRequest(buf).id # BadRequest
      <4>1. <<ReadOneRequest(buf).id, ReadOneRequest(buf).body>>[1] = ReadOneRequest(buf).id
        OBVIOUS
      <4> QED BY <2>6, <4>1
    <3> QED BY <2>1, <2>2, <2>6, <3>2, <3>6, <3>7, <3>8, <3>9 DEF Parses
  <2>7. CASE ReadOneRequest(buf) = Bad /\ msgs[h + 1][1] = BadRequest
    BY <2>1, <2>7 DEF Parses
  <2>8. CASE ReadOneRequest(buf) = More
    BY <2>8 DEF Parses
  <2> QED BY <2>5, <2>6, <2>7, <2>8
<1> QED BY <1>2, <1>3

-----------------------------------------------------------------------------
(* What a step leaves alone.                                                *)

\* A fiber that serves is not idle, and neither is a client that calls.
LEMMA NotIdle == (\A x \in Serving : x # Idle) /\ (\A x \in Calling : x # Idle)
<1>1. ASSUME NEW x \in Serving PROVE x # Idle
  BY DEF Serving, Idle
<1>2. ASSUME NEW x \in Calling PROVE x # Idle
  BY DEF Calling, Idle
<1> QED BY <1>1, <1>2

\* The stream of requests.
LEMMA UpFrame ==
  ASSUME Up, net'.up = net.up, asked' = asked,
         srv' # Idle => srv # Idle /\ srv'.buf = srv.buf /\ Taken' = Taken,
         cli' # Idle => cli # Idle /\ cli'.out = cli.out
  PROVE  Up'
<1> SUFFICES ASSUME srv' # Idle
             PROVE  \E s \in Seq(Tokens) : /\ Framing(s, Taken', asked')
                                           /\ Begins(srv'.buf \o net'.up, s)
                                           /\ cli' # Idle => s = (srv'.buf \o net'.up) \o cli'.out
  BY DEF Up
<1>1. PICK s \in Seq(Tokens) : /\ Framing(s, Taken, asked)
                               /\ Begins(srv.buf \o net.up, s)
                               /\ cli # Idle => s = (srv.buf \o net.up) \o cli.out
  BY DEF Up
<1>2. Framing(s, Taken', asked')
  BY <1>1
<1>3. Begins(srv'.buf \o net'.up, s)
  BY <1>1
<1>4. cli' # Idle => s = (srv'.buf \o net'.up) \o cli'.out
  BY <1>1
<1> QED BY <1>2, <1>3, <1>4

\* The stream of responses, while the same server is there.
SameServer ==
  /\ srv' = Idle <=> srv = Idle
  /\ srv # Idle => srv'.out = srv.out /\ srv'.close = srv.close /\ srv'.kind = srv.kind /\ srv'.early = srv.early

\* A step that leaves the stream alone leaves it in sync,
LEMMA InSyncFrame ==
  ASSUME InSync, SameServer, cli'.buf = cli.buf, net'.down = net.down, answered' = answered, got' = got
  PROVE  InSync'
<1>1. PICK s \in Seq(Tokens), one \in Seq(Tokens), two \in Seq(Tokens), f \in Int :
        /\ Carries(s, one, two, f)
        /\ Begins(cli.buf \o net.down, s)
        /\ srv # Idle => s = (cli.buf \o net.down) \o srv.out
  BY DEF InSync
<1>2. Carries(s, one, two, f)'
  BY <1>1 DEF Carries, SameServer, Closing
<1>3. Begins(cli'.buf \o net'.down, s) /\ (srv' # Idle => s = (cli'.buf \o net'.down) \o srv'.out)
  BY <1>1 DEF SameServer
<1> QED BY <1>2, <1>3 DEF InSync

\* or lost,
LEMMA LostFrame ==
  ASSUME Lost, SameServer, cli'.buf = cli.buf, net'.down = net.down
  PROVE  Lost'
<1>1. Left' = Left /\ Closing'
  BY DEF Lost, SameServer, Left, Closing
<1> QED BY <1>1 DEF Lost

\* and Connection where it was.
LEMMA DownFrame ==
  ASSUME Down, SameServer, net'.down = net.down, asked' = asked, answered' = answered, got' = got,
         cli' # Idle => cli # Idle /\ cli'.pc = cli.pc /\ cli'.kind = cli.kind /\ cli'.buf = cli.buf
  PROVE  Down'
<1> SUFFICES ASSUME cli' # Idle PROVE Down'
  BY DEF Down
<1>1. InSync => InSync'
  BY InSyncFrame
<1>2. Lost => Lost'
  BY LostFrame
<1>3. Closing => Closing'
  BY DEF Closing, SameServer
<1> QED BY <1>1, <1>2, <1>3 DEF Down, Library

-----------------------------------------------------------------------------
(* The steps of the server.                                                 *)

\* A step that only moves the server to another stage.
LEMMA StageStep ==
  ASSUME HttpInv, srv \in Serving, srv.kind = "library", srv' \in Serving,
         srv'.kind = srv.kind, srv'.buf = srv.buf, srv'.out = srv.out, srv'.req = srv.req,
         srv'.close = srv.close, srv'.early = srv.early, srv'.slept = srv.slept,
         \/ srv.pc \in {"read", "waitread"} /\ srv'.pc \in {"read", "waitread", "close"}
         \/ srv.pc \in {"write", "waitwrite"} /\ srv'.pc \in {"write", "waitwrite", "close"}
         \/ srv.pc = "write" /\ srv'.pc = "read" /\ ~ srv.close /\ srv.out = <<>>,
         UNCHANGED <<net, cli, asked, handled, answered, got, now, amb, stopping>>
  PROVE  HttpInv'
<1>1. srv # Idle /\ srv' # Idle
  BY NotIdle
<1>2. Types' /\ Ends'
  BY <1>1 DEF HttpInv, Types, Ends
<1>3. Scopes'
  BY <1>1 DEF HttpInv, Scopes
<1>4. Numbered' /\ Refused'
  BY <1>1 DEF HttpInv, Numbered, Refused
<1>5. Served'
  BY <1>1 DEF HttpInv, Served
<1>6. Taken' = Taken
  BY DEF Taken
<1>7. Up'
  BY <1>1, <1>6, UpFrame DEF HttpInv
<1>8. Down'
  <2>1. SameServer
    BY <1>1 DEF SameServer
  <2> QED BY <2>1, DownFrame DEF HttpInv
<1> QED BY <1>2, <1>3, <1>4, <1>5, <1>7, <1>8 DEF HttpInv

\* The steps from one stage of handle_connection to another.
LEMMA StageSteps ==
  ASSUME HttpInv, \/ ServerReadBlocks \/ ReadReady \/ ServerWriteBlocks \/ WriteReady \/ WriteFails \/ Written
                  \/ ServerReadsEnd /\ UNCHANGED answered
  PROVE  HttpInv'
<1>1. srv \in Serving /\ srv.kind = "library"
  BY DEF HttpInv, Types, Server, ServerReadBlocks, ReadReady, ServerWriteBlocks, WriteReady, WriteFails, Written,
         ServerReadsEnd
<1>2. UNCHANGED <<net, cli, asked, handled, answered, got, now, amb, stopping>>
  BY DEF ServerOnly, ServerReadBlocks, ReadReady, ServerWriteBlocks, WriteReady, WriteFails, Written, ServerReadsEnd
<1>3. \E p, b : /\ srv' = [srv EXCEPT !.pc = p, !.first = b]
                /\ b \in BOOLEAN
                /\ \/ srv.pc \in {"read", "waitread"} /\ p \in {"read", "waitread", "close"}
                   \/ srv.pc \in {"write", "waitwrite"} /\ p \in {"write", "waitwrite", "close"}
                   \/ srv.pc = "write" /\ p = "read" /\ ~ srv.close /\ srv.out = <<>>
  <2>1. \A p : [srv EXCEPT !.pc = p] = [srv EXCEPT !.pc = p, !.first = srv.first]
    BY <1>1 DEF Serving
  <2>2. srv.first \in BOOLEAN
    BY <1>1 DEF Serving
  <2>3. CASE ServerReadBlocks \/ ReadReady
    BY <2>1, <2>2, <2>3 DEF ServerReadBlocks, ReadReady, Server
  <2>4. CASE ServerWriteBlocks \/ WriteReady \/ WriteFails
    BY <2>1, <2>2, <2>4 DEF ServerWriteBlocks, WriteReady, WriteFails, Server
  <2>5. CASE Written
    BY <2>1, <2>2, <2>5 DEF Written, Server
  <2>6. CASE ServerReadsEnd /\ UNCHANGED answered
    <3>1. answered # Append(answered, <<BadRequest, <<>>>>)
      BY DEF HttpInv, Types
    <3>2. srv.pc = "read" /\ srv' = [srv EXCEPT !.pc = "close"]
      BY <2>6, <3>1 DEF ServerReadsEnd, Refuse, Server
    <3> QED BY <3>2, <2>1, <2>2
  <2> QED BY <2>3, <2>4, <2>5, <2>6
<1>4. PICK p, b : /\ srv' = [srv EXCEPT !.pc = p, !.first = b]
                  /\ b \in BOOLEAN
                  /\ \/ srv.pc \in {"read", "waitread"} /\ p \in {"read", "waitread", "close"}
                     \/ srv.pc \in {"write", "waitwrite"} /\ p \in {"write", "waitwrite", "close"}
                     \/ srv.pc = "write" /\ p = "read" /\ ~ srv.close /\ srv.out = <<>>
  BY <1>3
<1>5. /\ srv'.pc = p /\ srv'.kind = srv.kind /\ srv'.buf = srv.buf /\ srv'.out = srv.out /\ srv'.req = srv.req
      /\ srv'.close = srv.close /\ srv'.early = srv.early /\ srv'.slept = srv.slept /\ srv' \in Serving
  BY <1>1, <1>4 DEF Serving
<1> QED BY <1>1, <1>2, <1>4, <1>5, StageStep

\* The server sets out to send one more response: the one that is waited for,
\* or a 400 that nobody waits for.
LEMMA AnswerInSync ==
  ASSUME Types, InSync, cli # Idle, srv \in Serving, srv' \in Serving, srv.out = <<>>, ~ srv.close,
         NEW m \in Messages, NEW f \in Framings(m), NEW c \in BOOLEAN,
         srv'.out = Reply(m, f, c), answered' = Append(answered, m), UNCHANGED <<cli, net, got>>,
         Len(answered) = Len(got) \/ (m = <<BadRequest, <<>>>> /\ f = 0 /\ c = FALSE /\ srv'.close),
         f # Len(m[2]) => srv'.close,
         f = NoLength => srv'.kind = "foreign" /\ ~ srv'.early
  PROVE  InSync'
<1>1. cli.buf \in Seq(Tokens) /\ net.down \in Seq(Tokens) /\ answered \in Seq(Messages) /\ got \in Seq(Messages)
  BY DEF Types, Calling, Nets
<1>2. PICK x \in Seq(Tokens) : x = cli.buf \o net.down
  BY <1>1, SeqCat
<1>3. PICK R \in Seq(Tokens) : R = Reply(m, f, c) /\ f \in Int
  BY ReplyTypes
<1>4. srv # Idle /\ srv' # Idle
  BY NotIdle
<1>5. PICK a \in Nat, g \in Nat : a = Len(answered) /\ g = Len(got)
  BY <1>1
<1>6. PICK s \in Seq(Tokens), one \in Seq(Tokens), two \in Seq(Tokens), h \in Int :
        /\ Carries(s, one, two, h)
        /\ s = x \o <<>>
  BY <1>2, <1>4 DEF InSync
<1>7. s = x /\ s = one \o two /\ ~ Closing
  <2>1. x \o <<>> = x
    OBVIOUS
  <2> QED BY <1>4, <1>6, <2>1 DEF Carries, Closing
<1>8. /\ a = g => one = <<>> /\ two = <<>>
      /\ a = g + 1 => /\ two = <<>> /\ h = Len(answered[g + 1][2])
                      /\ \E close \in BOOLEAN : one = Reply(answered[g + 1], h, close)
      /\ a \in {g, g + 1}
  <2>1. a = g => one = <<>> /\ two = <<>>
    BY <1>5, <1>6 DEF Carries
  <2>2. a = g + 1 => two = <<>>
    BY <1>5, <1>6 DEF Carries
  <2>3. a # g => h = Len(answered[g + 1][2])
    BY <1>5, <1>6, <1>7 DEF Carries
  <2>4. a # g => \E close \in BOOLEAN : one = Reply(answered[g + 1], h, close)
    BY <1>5, <1>6 DEF Carries
  <2>5. a \in {g, g + 1}
    BY <1>5, <1>6, <1>7 DEF Carries
  <2> QED BY <2>1, <2>2, <2>3, <2>4, <2>5
<1>9. Len(answered') = a + 1 /\ answered'[a + 1] = m /\ (\A i \in 1..a : answered'[i] = answered[i]) /\ Len(got') = g
  BY <1>1, <1>5
<1>10. CASE a = g
  <2>1. x = <<>> /\ R = <<>> \o R /\ R = R \o <<>>
    BY <1>7, <1>8, <1>10
  <2>2. Carries(R, R, <<>>, f)'
    <3>1. f \in {Len(answered'[g + 1][2]), Chunked, NoLength} /\ answered'[g + 1] = m
      BY <1>9, <1>10 DEF Framings
    <3>2. \E close \in BOOLEAN : R = Reply(answered'[g + 1], f, close)
      BY <1>3, <3>1
    <3>3. f # Len(answered'[g + 1][2]) => Closing'
      BY <3>1 DEF Closing
    <3>4. Len(answered') = g + 1 /\ g + 1 # g /\ g + 1 # g + 2 /\ Len(got') = g
      BY <1>5, <1>9, <1>10
    <3>5. f = NoLength => srv'.kind = "foreign" /\ ~ srv'.early
      OBVIOUS
    <3>6. R = R \o <<>>
      BY <2>1
    <3> QED BY <1>4, <3>1, <3>2, <3>3, <3>4, <3>5, <3>6 DEF Carries
  <2>3. Begins(cli'.buf \o net'.down, R)
    BY <1>2, <2>1, BeginsCat
  <2>4. R = (cli'.buf \o net'.down) \o srv'.out
    BY <1>2, <1>3, <2>1
  <2>5. <<>> \in Seq(Tokens)
    OBVIOUS
  <2> QED BY <1>3, <2>2, <2>3, <2>4, <2>5 DEF InSync
<1>11. CASE a = g + 1
  <2>1. PICK t \in Seq(Tokens) : t = x \o R
    BY SeqCat
  <2>2. one = x /\ m = <<BadRequest, <<>>>> /\ f = 0 /\ c = FALSE /\ srv'.close
    <3>1. one \o <<>> = one
      OBVIOUS
    <3> QED BY <1>5, <1>7, <1>8, <1>11, <3>1
  <2>3. Carries(t, one, R, h)'
    <3>1. answered'[g + 1] = answered[g + 1] /\ answered'[g + 2] = m /\ Len(answered') = g + 2
      BY <1>9, <1>11
    <3>2. \E close \in BOOLEAN : one = Reply(answered'[g + 1], h, close)
      BY <1>8, <1>11, <3>1
    <3>3. R = Reply(answered'[g + 2], 0, FALSE) /\ answered'[g + 2][2] = <<>> /\ Closing'
      <4>1. m[2] = <<>>
        BY <2>2
      <4> QED BY <1>3, <2>2, <3>1, <4>1 DEF Closing
    <3>4. h = Len(answered'[g + 1][2]) /\ h # NoLength
      <4>1. g + 1 \in 1..Len(answered)
        BY <1>5, <1>11
      <4>1a. answered[g + 1] \in Messages
        BY <1>1, <4>1
      <4>2. answered[g + 1][2] \in Payloads
        BY <4>1a DEF Messages
      <4> QED BY <1>8, <1>11, <3>1, <4>2, PayloadTypes DEF NoLength
    <3>5. t = one \o R
      BY <2>1, <2>2
    <3>6. g + 2 # g /\ g + 2 # g + 1 /\ Len(got') = g
      BY <1>5, <1>9
    <3> QED BY <3>1, <3>2, <3>3, <3>4, <3>5, <3>6 DEF Carries
  <2>4. Begins(cli'.buf \o net'.down, t)
    BY <1>2, <2>1, BeginsCat
  <2>5. t = (cli'.buf \o net'.down) \o srv'.out
    BY <1>2, <1>3, <2>1
  <2> QED BY <2>3, <2>4, <2>5 DEF InSync
<1> QED BY <1>8, <1>10, <1>11

\* _write_best_effort_error.
LEMMA RefuseStep ==
  ASSUME HttpInv, srv \in Serving, srv.kind = "library", srv.pc \in {"read", "waitread"}, Refuse,
         UNCHANGED <<net, cli, asked, handled, got, now, amb, stopping>>,
         \/ \E j \in DOMAIN asked : asked[j][1] = BadRequest
         \/ net.cfin \/ stopping \/ (amb.limits # <<>> /\ amb.limits[1] <= now)
  PROVE  HttpInv'
<1> DEFINE m == <<BadRequest, <<>>>>
<1>1. m \in Messages /\ m[1] = BadRequest /\ m[2] = <<>> /\ Len(m[2]) = 0
  BY JunkAsks
<1>2. /\ Response(BadRequest, "empty", FALSE) = Reply(m, 0, FALSE)
      /\ Reply(m, 0, FALSE) \in Seq(Tokens) /\ 0 \in Framings(m)
  <2>1. 0 \in Framings(m)
    BY <1>1 DEF Framings
  <2>2. Reply(m, 0, FALSE) \in Seq(Tokens)
    BY <1>1, <2>1, ReplyTypes
  <2>3. Body("empty") = <<>> /\ Len(Body("empty")) = 0 /\ 0 # Chunked
    BY DEF Body, Chunked
  <2>4. Response(BadRequest, "empty", FALSE) = Reply(m, 0, FALSE)
    BY <1>1, <2>3 DEF Response, Reply
  <2> QED BY <2>1, <2>2, <2>4
<1>3. /\ srv'.pc = "write" /\ srv'.out = Reply(m, 0, FALSE) /\ srv'.close = TRUE
      /\ srv'.kind = srv.kind /\ srv'.buf = srv.buf /\ srv'.early = srv.early
      /\ srv' \in Serving
  <2>1. srv' = [srv EXCEPT !.pc = "write", !.out = Reply(m, 0, FALSE), !.close = TRUE]
    BY <1>2 DEF Refuse
  <2> QED BY <1>2, <2>1 DEF Serving
<1>4. answered' = Append(answered, m) /\ answered \in Seq(Messages)
  BY DEF Refuse, HttpInv, Types
<1> HIDE DEF m
<1>5. srv # Idle /\ srv' # Idle /\ srv.out = <<>> /\ ~ srv.close
  BY <1>3, NotIdle DEF HttpInv, Served
<1>6. /\ answered' \in Seq(Messages) /\ Len(answered') = Len(answered) + 1
      /\ answered'[Len(answered) + 1] = m /\ \A i \in 1..Len(answered) : answered'[i] = answered[i]
  BY <1>1, <1>4
<1>7. Types' /\ Ends'
  BY <1>3, <1>5, <1>6 DEF HttpInv, Types, Ends
<1>8. Scopes'
  BY <1>3, <1>5 DEF HttpInv, Scopes
<1>9. Numbered'
  <2>1. \A i \in DOMAIN answered' : answered'[i][1] \in {i, BadRequest}
    BY <1>1, <1>4, <1>6 DEF HttpInv, Numbered
  <2>2. Begins(got', answered')
    BY <1>1, <1>4, BeginsAppend DEF HttpInv, Types, Numbered
  <2> QED BY <2>1, <2>2 DEF HttpInv, Numbered
<1>10. Served'
  BY <1>3, <1>5, <1>6 DEF HttpInv, Served
<1>11. Refused'
  BY <1>5 DEF HttpInv, Refused
<1>12. Up'
  <2>1. Taken' = Taken
    BY <1>3 DEF Taken
  <2> QED BY <1>3, <1>5, <2>1, UpFrame DEF HttpInv
<1>13. Down'
  <2>1. ~ Lost
    BY <1>5 DEF Lost, Closing
  <2>2. cli # Idle /\ InSync => InSync'
    <3> SUFFICES ASSUME cli # Idle, InSync PROVE InSync'
      OBVIOUS
    <3>1. m = <<BadRequest, <<>>>> /\ 0 # NoLength /\ Types
      BY DEF m, HttpInv, NoLength
    <3> QED BY <1>1, <1>2, <1>3, <1>4, <1>5, <3>1, AnswerInSync
  <2>3. Closing'
    BY <1>3 DEF Closing
  <2> QED BY <2>1, <2>2, <2>3 DEF HttpInv, Down, Library
<1> QED BY <1>7, <1>8, <1>9, <1>10, <1>11, <1>12, <1>13 DEF HttpInv

\* The requests taken are some of those made.
LEMMA TakenInAsked ==
  ASSUME HttpInv, srv \in Serving
  PROVE  Taken \in 0..Len(asked)
<1>1. srv # Idle
  BY NotIdle
<1>2. handled \in Seq(Messages) /\ answered \in Seq(Messages) /\ asked \in Seq(Messages)
  BY DEF HttpInv, Types
<1>3. Len(handled) <= Len(asked)
  BY DEF HttpInv, Numbered, Begins
<1>4. srv.kind = "foreign" => Len(answered) <= Len(asked)
  BY <1>1 DEF HttpInv, Served
<1>5. srv.kind \in {"library", "foreign"}
  BY DEF Serving
<1> QED BY <1>2, <1>3, <1>4, <1>5 DEF Taken

\* What the server's parser finds in its buffer.
LEMMA ServerParses ==
  ASSUME HttpInv, srv \in Serving
  PROVE  \/ ReadOneRequest(srv.buf) = More
         \/ ReadOneRequest(srv.buf) = Bad /\ \E j \in DOMAIN asked : asked[j][1] = BadRequest
         \/ /\ ReadOneRequest(srv.buf) \in Requests /\ Taken + 1 \in DOMAIN asked
            /\ <<ReadOneRequest(srv.buf).id, ReadOneRequest(srv.buf).body>> = asked[Taken + 1]
            /\ ReadOneRequest(srv.buf).id # BadRequest
            /\ compact(srv.buf, ReadOneRequest(srv.buf).used) \in Seq(Tokens)
            /\ \E z \in Seq(Tokens) :
                 /\ Framing(z, Taken + 1, asked)
                 /\ Begins(compact(srv.buf, ReadOneRequest(srv.buf).used) \o net.up, z)
                 /\ cli # Idle => z = (compact(srv.buf, ReadOneRequest(srv.buf).used) \o net.up) \o cli.out
<1>1. srv # Idle
  BY NotIdle
<1>2. PICK s \in Seq(Tokens) : /\ Framing(s, Taken, asked)
                               /\ Begins(srv.buf \o net.up, s)
                               /\ cli # Idle => s = (srv.buf \o net.up) \o cli.out
  BY <1>1 DEF HttpInv, Up
<1>3. srv.buf \in Seq(Tokens) /\ net.up \in Seq(Tokens) /\ asked \in Seq(Messages)
  BY DEF HttpInv, Types, Serving, Nets
<1>4. cli # Idle => cli.out \in Seq(Tokens)
  BY DEF HttpInv, Types, Calling
<1>5. Taken \in 0..Len(asked)
  BY TakenInAsked
<1>6. Parses(ReadOneRequest(srv.buf), srv.buf, net.up, s, Taken, asked)
  BY <1>2, <1>3, <1>5, ReadsStream
<1> QED BY <1>2, <1>4, <1>6 DEF Parses

\* The steps that answer 400.
LEMMA RefuseSteps ==
  ASSUME HttpInv, \/ ServerReadsEnd /\ ~ UNCHANGED answered
                  \/ ReadWaitFails
                  \/ BadHead
  PROVE  HttpInv'
<1>1. srv \in Serving /\ srv # Idle /\ srv.kind = "library" /\ srv.pc \in {"read", "waitread"}
  BY DEF HttpInv, Types, Server, ReadWaitFails, BadHead, ServerReadsEnd
<1>2. UNCHANGED <<net, cli, asked, handled, got, now, amb, stopping>>
  BY DEF ServerOnly, ReadWaitFails, BadHead, ServerReadsEnd
<1>3. Refuse
  BY DEF ReadWaitFails, BadHead, ServerReadsEnd
<1>4. \/ \E j \in DOMAIN asked : asked[j][1] = BadRequest
      \/ net.cfin \/ stopping \/ (amb.limits # <<>> /\ amb.limits[1] <= now)
  <2>1. CASE ServerReadsEnd
    BY <2>1 DEF ServerReadsEnd
  <2>2. CASE ReadWaitFails
    <3>1. stopping \/ Expired(amb.at, now)
      BY <2>2 DEF ReadWaitFails
    <3>2. Nested(amb) /\ Len(amb.limits) <= 1
      BY <1>1 DEF HttpInv, Scopes
    <3>3. amb.limits \in Seq(Nat) /\ amb.at \in Int /\ Soonest(amb.at, amb.limits, Len(amb.limits))
      BY <3>2 DEF Nested
    <3>4. CASE Len(amb.limits) = 0
      <4>1. amb.at = NO_DEADLINE
        BY <3>3, <3>4 DEF Soonest
      <4> QED BY <3>1, <4>1 DEF Expired
    <3>5. CASE Len(amb.limits) = 1
      <4>1. amb.at = amb.limits[1] /\ amb.limits # <<>>
        BY <3>3, <3>5 DEF Soonest
      <4> QED BY <3>1, <4>1 DEF Expired
    <3>6. PICK n \in Nat : n = Len(amb.limits)
      BY <3>3
    <3>7. n = 0 \/ n = 1
      <4>1. n <= 1
        BY <3>2, <3>6, Zenon
      <4> QED BY <4>1
    <3> QED BY <3>4, <3>5, <3>6, <3>7
  <2>3. CASE BadHead
    <3>1. ReadOneRequest(srv.buf) = Bad
      BY <2>3 DEF BadHead
    <3>2. Bad # More /\ Bad \notin Requests
      BY DEF Bad, More, Requests
    <3> QED BY <1>1, <3>1, <3>2, ServerParses, TakenInAsked
  <2> QED BY <2>1, <2>2, <2>3
<1> QED BY <1>1, <1>2, <1>3, <1>4, RefuseStep

\* Concatenation is associative, and tokens move along the stream.
LEMMA CatCat ==
  ASSUME NEW x \in Seq(Tokens), NEW y \in Seq(Tokens), NEW z \in Seq(Tokens)
  PROVE  (x \o y) \o z = x \o (y \o z)
  BY ConcatAssociative

\* Tokens that move between the end of one sequence and the beginning of another.
LEMMA CatMoves ==
  ASSUME NEW x \in Seq(Tokens), NEW y \in Seq(Tokens), NEW n \in 0..Len(y)
  PROVE  (x \o SubSeq(y, 1, n)) \o SubSeq(y, n + 1, Len(y)) = x \o y
<1>1. PICK u \in Seq(Tokens), v \in Seq(Tokens) : u = SubSeq(y, 1, n) /\ v = SubSeq(y, n + 1, Len(y)) /\ u \o v = y
  <2>1. /\ SubSeq(y, 1, n) \in Seq(Tokens) /\ SubSeq(y, n + 1, Len(y)) \in Seq(Tokens)
        /\ SubSeq(y, 1, n) \o SubSeq(y, n + 1, Len(y)) = y
    BY SeqCut
  <2> QED BY <2>1
<1>2. (x \o u) \o v = x \o (u \o v)
  BY CatCat, ZenonT(60)
<1> QED BY <1>1, <1>2

\* Sending moves the beginning of what is left.
LEMMA CatSent ==
  ASSUME NEW b \in Seq(Tokens), NEW c \in Seq(Tokens), NEW o \in Seq(Tokens), NEW n \in 0..Len(o)
  PROVE  /\ (b \o (c \o SubSeq(o, 1, n))) \o SubSeq(o, n + 1, Len(o)) = (b \o c) \o o
         /\ Begins(b \o (c \o SubSeq(o, 1, n)), (b \o c) \o o)
<1>1. PICK u \in Seq(Tokens), v \in Seq(Tokens) : u = SubSeq(o, 1, n) /\ v = SubSeq(o, n + 1, Len(o))
  <2>1. SubSeq(o, 1, n) \in Seq(Tokens) /\ SubSeq(o, n + 1, Len(o)) \in Seq(Tokens)
    BY SeqCut
  <2> QED BY <2>1
<1>2. PICK y \in Seq(Tokens) : y = b \o c
  BY SeqCat
<1>3. (b \o c) \o u = b \o (c \o u)
  BY CatCat, ZenonT(60)
<1>4. (y \o u) \o v = y \o o
  BY <1>1, CatMoves
<1>5. Begins(y \o u, (y \o u) \o v)
  <2>1. y \o u \in Seq(Tokens)
    BY SeqCat
  <2> QED BY <2>1, BeginsCat
<1> QED BY <1>1, <1>2, <1>3, <1>4, <1>5

\* The server takes tokens from the network.
LEMMA ReadStep ==
  ASSUME HttpInv, srv \in Serving, srv' \in Serving, srv'.pc = srv.pc,
         srv'.kind = srv.kind, srv'.out = srv.out, srv'.req = srv.req,
         srv'.close = srv.close, srv'.early = srv.early, srv'.slept = srv.slept,
         NEW n \in 0..Len(net.up), srv'.buf = srv.buf \o SubSeq(net.up, 1, n),
         net' \in Nets, net'.up = SubSeq(net.up, n + 1, Len(net.up)),
         net'.down = net.down, net'.cfin = net.cfin, net'.sfin = net.sfin,
         UNCHANGED <<cli, asked, handled, answered, got, now, amb, stopping>>
  PROVE  HttpInv'
<1>1. srv # Idle /\ srv' # Idle
  BY NotIdle
<1>2. Types' /\ Ends'
  BY <1>1 DEF HttpInv, Types, Ends
<1>3. Scopes'
  BY <1>1 DEF HttpInv, Scopes
<1>4. Numbered' /\ Refused'
  BY <1>1 DEF HttpInv, Numbered, Refused
<1>5. Served'
  BY <1>1 DEF HttpInv, Served
<1>6. Up'
  <2>1. srv.buf \in Seq(Tokens) /\ net.up \in Seq(Tokens)
    BY DEF HttpInv, Types, Nets, Serving
  <2>2. srv'.buf \o net'.up = srv.buf \o net.up
    BY <2>1, CatMoves
  <2>3. Taken' = Taken
    BY DEF Taken
  <2>4. PICK s \in Seq(Tokens) : /\ Framing(s, Taken, asked)
                                 /\ Begins(srv.buf \o net.up, s)
                                 /\ cli # Idle => s = (srv.buf \o net.up) \o cli.out
    BY <1>1 DEF HttpInv, Up
  <2>5. /\ Framing(s, Taken', asked')
        /\ Begins(srv'.buf \o net'.up, s)
        /\ cli' # Idle => s = (srv'.buf \o net'.up) \o cli'.out
    BY <2>2, <2>3, <2>4
  <2> QED BY <2>5 DEF Up
<1>7. Down'
  <2>1. SameServer
    BY <1>1 DEF SameServer
  <2> QED BY <2>1, DownFrame DEF HttpInv
<1> QED BY <1>2, <1>3, <1>4, <1>5, <1>6, <1>7 DEF HttpInv

\* The library's server reads,
LEMMA ServerReadsStep ==
  ASSUME HttpInv, NEW n \in Sizes, ServerReads(n)
  PROVE  HttpInv'
<1>1. srv \in Serving /\ net \in Nets /\ net.up \in Seq(Tokens) /\ srv.buf \in Seq(Tokens)
  BY DEF HttpInv, Types, ServerReads, Server, Nets, Serving
<1>2. UNCHANGED <<cli, asked, handled, answered, got, now, amb, stopping>>
  BY DEF ServerReads, ServerOnly
<1>3. n \in 0..Len(net.up)
  BY <1>1, HttpAssumption DEF ServerReads, Sizes
<1>4. PICK x \in Seq(Tokens), y \in Seq(Tokens) :
        x = srv.buf \o SubSeq(net.up, 1, n) /\ y = SubSeq(net.up, n + 1, Len(net.up))
  <2>1. SubSeq(net.up, 1, n) \in Seq(Tokens) /\ SubSeq(net.up, n + 1, Len(net.up)) \in Seq(Tokens)
    BY <1>1, <1>3, SeqCut
  <2> QED BY <1>1, <2>1, SeqCat
<1>5. srv' = [srv EXCEPT !.buf = x, !.first = FALSE] /\ net' = [net EXCEPT !.up = y]
  BY <1>4 DEF ServerReads
<1>6. /\ srv' \in Serving /\ srv'.pc = srv.pc /\ srv'.kind = srv.kind /\ srv'.out = srv.out /\ srv'.req = srv.req
      /\ srv'.close = srv.close /\ srv'.early = srv.early /\ srv'.slept = srv.slept /\ srv'.buf = x
  BY <1>1, <1>5 DEF Serving
<1>7. /\ net' \in Nets /\ net'.up = y /\ net'.down = net.down /\ net'.cfin = net.cfin /\ net'.sfin = net.sfin
  BY <1>1, <1>5 DEF Nets
<1> QED BY <1>1, <1>2, <1>3, <1>4, <1>6, <1>7, ReadStep

\* and the foreign one.
LEMMA ForeignReadsStep ==
  ASSUME HttpInv, ForeignReads
  PROVE  HttpInv'
<1>1. srv \in Serving /\ net \in Nets /\ net.up \in Seq(Tokens) /\ srv.buf \in Seq(Tokens)
  BY DEF HttpInv, Types, ForeignReads, Foreign, Nets, Serving
<1>2. UNCHANGED <<cli, asked, handled, answered, got, now, amb, stopping>>
  BY DEF ForeignReads, ServerOnly
<1>3. PICK n \in 0..Len(net.up) : n = Len(net.up)
  BY <1>1
<1>4. SubSeq(net.up, 1, n) = net.up /\ SubSeq(net.up, n + 1, Len(net.up)) = <<>> /\ srv.buf \o net.up \in Seq(Tokens)
  BY <1>1, <1>3, SeqCat
<1>5. /\ srv' \in Serving /\ srv'.pc = srv.pc /\ srv'.kind = srv.kind /\ srv'.out = srv.out /\ srv'.req = srv.req
      /\ srv'.close = srv.close /\ srv'.early = srv.early /\ srv'.slept = srv.slept
      /\ srv'.buf = srv.buf \o net.up
  <2>1. srv' = [srv EXCEPT !.buf = srv.buf \o net.up]
    BY DEF ForeignReads
  <2> QED BY <1>1, <1>4, <2>1 DEF Serving
<1>6. /\ net' \in Nets /\ net'.up = <<>> /\ net'.down = net.down /\ net'.cfin = net.cfin /\ net'.sfin = net.sfin
  <2>0. <<>> \in Seq(Tokens)
    OBVIOUS
  <2>1. PICK e \in Seq(Tokens) : e = <<>>
    BY <2>0, Zenon
  <2>2. net' = [net EXCEPT !.up = e]
    BY <2>1 DEF ForeignReads
  <2> QED BY <1>1, <2>1, <2>2 DEF Nets
<1> QED BY <1>1, <1>2, <1>4, <1>5, <1>6, ReadStep

\* The rest of a 400 stays one as it moves.
LEMMA NewlinesMove ==
  ASSUME NEW x \in Seq(Tokens), NEW y \in Seq(Tokens), NEW n \in 0..Len(y), Newlines(x), Newlines(y)
  PROVE  /\ Newlines(x \o SubSeq(y, 1, n)) /\ Newlines(SubSeq(y, n + 1, Len(y)))
         /\ Len(x \o SubSeq(y, 1, n)) = Len(x) + n /\ Len(SubSeq(y, n + 1, Len(y))) = Len(y) - n
<1>1. PICK k \in Nat, e \in Nat : k = Len(x) /\ e = Len(y) /\ n \in Nat /\ n <= e
  BY LenProperties
<1>2. PICK u \in Seq(Tokens), v \in Seq(Tokens) :
        /\ u = SubSeq(y, 1, n) /\ Len(u) = n /\ \A i \in 1..n : u[i] = y[i]
        /\ v = SubSeq(y, n + 1, Len(y)) /\ Len(v) = e - n /\ \A i \in 1..(e - n) : v[i] = y[n + i]
  <2>1. /\ SubSeq(y, 1, n) \in Seq(Tokens) /\ Len(SubSeq(y, 1, n)) = n
        /\ \A i \in 1..n : SubSeq(y, 1, n)[i] = y[i]
        /\ SubSeq(y, n + 1, Len(y)) \in Seq(Tokens) /\ Len(SubSeq(y, n + 1, Len(y))) = Len(y) - n
        /\ \A i \in 1..(Len(y) - n) : SubSeq(y, n + 1, Len(y))[i] = y[n + i]
    BY SeqCut
  <2> QED BY <1>1, <2>1
<1>3. PICK w \in Seq(Tokens) : /\ w = x \o u /\ Len(w) = k + n
                               /\ \A i \in 1..k : w[i] = x[i]
                               /\ \A i \in 1..n : w[k + i] = u[i]
  <2>1. /\ x \o u \in Seq(Tokens) /\ Len(x \o u) = Len(x) + Len(u)
        /\ \A i \in 1..Len(x) : (x \o u)[i] = x[i]
        /\ \A i \in 1..Len(u) : (x \o u)[Len(x) + i] = u[i]
    BY SeqCat
  <2> QED BY <1>1, <1>2, <2>1, ZenonT(60)
<1>4. (\A i \in 1..k : x[i] = NL) /\ (\A i \in 1..e : y[i] = NL)
  BY <1>1, LenProperties DEF Newlines
<1>5. Newlines(w)
  <2> SUFFICES ASSUME NEW i \in 1..(k + n) PROVE w[i] = NL
    BY <1>3, LenProperties DEF Newlines
  <2>1. CASE i \in 1..k
    BY <1>3, <1>4, <2>1
  <2>2. CASE i \notin 1..k
    <3>1. PICK j \in 1..n : i = k + j
      <4>1. i - k \in 1..n /\ i = k + (i - k)
        BY <1>1, <2>2
      <4> QED BY <4>1
    <3>2. u[j] = y[j] /\ j \in 1..e
      BY <1>1, <1>2, <3>1
    <3> QED BY <1>3, <1>4, <3>1, <3>2
  <2> QED BY <2>1, <2>2
<1>6. Newlines(v)
  <2> SUFFICES ASSUME NEW i \in 1..(e - n) PROVE v[i] = NL
    BY <1>2, LenProperties DEF Newlines
  <2>1. n + i \in 1..e
    BY <1>1
  <2> QED BY <1>2, <1>4, <2>1
<1> QED BY <1>1, <1>2, <1>3, <1>5, <1>6

\* The server gives tokens to the network.
LEMMA WriteStep ==
  ASSUME HttpInv, srv \in Serving, srv.pc = "write", srv' \in Serving,
         srv'.kind = srv.kind, srv'.buf = srv.buf, srv'.req = srv.req,
         srv'.close = srv.close, srv'.early = srv.early, srv'.slept = srv.slept,
         NEW n \in 0..Len(srv.out), srv'.out = SubSeq(srv.out, n + 1, Len(srv.out)),
         \/ srv'.pc = srv.pc
         \/ srv.kind = "foreign" /\ srv'.pc = "read" /\ srv'.out = <<>> /\ ~ srv.close,
         net' \in Nets, net'.up = net.up, net'.cfin = net.cfin, net'.sfin = net.sfin,
         cli # Idle => net'.down = net.down \o SubSeq(srv.out, 1, n),
         UNCHANGED <<cli, asked, handled, answered, got, now, amb, stopping>>
  PROVE  HttpInv'
<1>1. srv # Idle /\ srv' # Idle
  BY NotIdle
<1>2. Types' /\ Ends'
  BY <1>1 DEF HttpInv, Types, Ends
<1>3. Scopes'
  BY <1>1 DEF HttpInv, Scopes
<1>4. Numbered' /\ Refused'
  BY <1>1 DEF HttpInv, Numbered, Refused
<1>5. Served'
  BY <1>1 DEF HttpInv, Served
<1>6. Up'
  <2>1. Taken' = Taken
    BY DEF Taken
  <2> QED BY <1>1, <2>1, UpFrame DEF HttpInv
<1>7. Down'
  <2> SUFFICES ASSUME cli # Idle PROVE Down'
    BY DEF Down
  <2>1. /\ cli.buf \in Seq(Tokens) /\ net.down \in Seq(Tokens) /\ srv.out \in Seq(Tokens)
        /\ net'.down \in Seq(Tokens) /\ srv'.out \in Seq(Tokens)
    BY DEF HttpInv, Types, Nets, Serving, Calling
  <2>2. PICK u \in Seq(Tokens), x \in Seq(Tokens) : u = SubSeq(srv.out, 1, n) /\ x = cli.buf \o net.down
    <3>1. SubSeq(srv.out, 1, n) \in Seq(Tokens) /\ cli.buf \o net.down \in Seq(Tokens)
      BY <2>1, SeqCut, SeqCat
    <3> QED BY <3>1
  <2>3. cli.buf \o net'.down = x \o u
    <3>1. PICK b \in Seq(Tokens), d \in Seq(Tokens) : b = cli.buf /\ d = net.down
      BY <2>1
    <3>2. (b \o d) \o u = b \o (d \o u)
      BY CatCat, ZenonT(60)
    <3> QED BY <2>2, <3>1, <3>2
  <2>4. (x \o u) \o srv'.out = x \o srv.out
    <3>1. PICK y \in Seq(Tokens) : y = srv.out
      BY <2>1
    <3>2. n \in 0..Len(y)
      BY <3>1
    <3>3. (x \o SubSeq(y, 1, n)) \o SubSeq(y, n + 1, Len(y)) = x \o y
      BY <3>2, CatMoves
    <3> QED BY <2>2, <3>1, <3>3
  <2>5. InSync => InSync'
    <3> SUFFICES ASSUME InSync PROVE InSync'
      OBVIOUS
    <3>1. PICK s \in Seq(Tokens), one \in Seq(Tokens), two \in Seq(Tokens), f \in Int :
            Carries(s, one, two, f) /\ s = x \o srv.out
      BY <1>1, <2>2 DEF InSync
    <3>2. Carries(s, one, two, f)'
      BY <1>1, <3>1 DEF Carries, Closing
    <3>3. s = (cli'.buf \o net'.down) \o srv'.out
      BY <2>3, <2>4, <3>1
    <3>4. Begins(cli'.buf \o net'.down, s)
      <4>1. x \o u \in Seq(Tokens)
        BY SeqCat
      <4>2. Begins(x \o u, (x \o u) \o srv'.out)
        BY <2>1, <4>1, BeginsCat
      <4> QED BY <2>3, <2>4, <3>1, <4>2
    <3> QED BY <3>2, <3>3, <3>4 DEF InSync
  <2>6. Lost => Lost'
    <3> SUFFICES ASSUME Lost PROVE Lost'
      OBVIOUS
    <3>1. Left = srv.out /\ Left' = srv'.out /\ Closing'
      BY <1>1 DEF Left, Lost, Closing
    <3>2. Newlines(cli.buf) /\ Newlines(net.down) /\ Newlines(srv.out)
      BY <3>1 DEF Lost
    <3>3. /\ Newlines(net'.down) /\ Newlines(srv'.out)
          /\ Len(net'.down) = Len(net.down) + n /\ Len(srv'.out) = Len(srv.out) - n
      <4>1. PICK d \in Seq(Tokens), y \in Seq(Tokens) : d = net.down /\ y = srv.out
        BY <2>1
      <4>2. n \in 0..Len(y) /\ Newlines(d) /\ Newlines(y)
        BY <3>2, <4>1
      <4>3. /\ Newlines(d \o SubSeq(y, 1, n)) /\ Newlines(SubSeq(y, n + 1, Len(y)))
            /\ Len(d \o SubSeq(y, 1, n)) = Len(d) + n /\ Len(SubSeq(y, n + 1, Len(y))) = Len(y) - n
        BY <4>2, NewlinesMove
      <4> QED BY <4>1, <4>3
    <3>4. Len(cli.buf) + Len(net.down) + Len(srv.out) <= 2
      BY <3>1 DEF Lost
    <3>5. PICK i \in Nat, j \in Nat, k \in Nat : i = Len(cli.buf) /\ j = Len(net.down) /\ k = Len(srv.out)
      BY <2>1, LenProperties
    <3>6. Len(cli'.buf) + Len(net'.down) + Len(srv'.out) <= 2
      <4>1. n \in Nat /\ Len(cli'.buf) = i /\ Len(net'.down) = j + n /\ Len(srv'.out) = k - n /\ i + j + k <= 2
        <5>1. n \in Nat
          BY <3>5
        <5>2. Len(cli'.buf) = i
          BY <3>5
        <5>3. Len(net'.down) = j + n /\ Len(srv'.out) = k - n
          BY <3>3, <3>5
        <5>4. i + j + k <= 2
          BY <3>4, <3>5, Zenon
        <5> QED BY <5>1, <5>2, <5>3, <5>4
      <4>2. i + (j + n) + (k - n) <= 2
        BY <4>1
      <4> QED BY <4>1, <4>2
    <3> QED BY <3>1, <3>2, <3>3, <3>6 DEF Lost
  <2>7. Closing => Closing'
    BY <1>1 DEF Closing
  <2> QED BY <2>5, <2>6, <2>7 DEF HttpInv, Down, Library
<1> QED BY <1>2, <1>3, <1>4, <1>5, <1>6, <1>7 DEF HttpInv

\* Both servers write.
LEMMA WriteSteps ==
  ASSUME HttpInv, NEW n \in Sizes, ServerWrites(n) \/ ForeignWrites(n)
  PROVE  HttpInv'
<1>1. /\ srv \in Serving /\ net \in Nets /\ net.down \in Seq(Tokens) /\ srv.out \in Seq(Tokens)
      /\ srv.pc = "write"
  BY DEF HttpInv, Types, ServerWrites, Server, ForeignWrites, Foreign, Nets, Serving
<1>2. UNCHANGED <<cli, asked, handled, answered, got, now, amb, stopping>>
  BY DEF ServerWrites, ForeignWrites, ServerOnly
<1>3. n \in 0..Len(srv.out)
  BY <1>1, HttpAssumption DEF ServerWrites, ForeignWrites, Sizes
<1>4. PICK x \in Seq(Tokens), y \in Seq(Tokens) :
        /\ x = net.down \o SubSeq(srv.out, 1, n) /\ y = SubSeq(srv.out, n + 1, Len(srv.out))
        /\ n = Len(srv.out) => y = <<>>
  <2>1. /\ SubSeq(srv.out, 1, n) \in Seq(Tokens) /\ SubSeq(srv.out, n + 1, Len(srv.out)) \in Seq(Tokens)
        /\ Len(SubSeq(srv.out, n + 1, Len(srv.out))) = Len(srv.out) - n
    BY <1>1, <1>3, SeqCut
  <2>2. n = Len(srv.out) => SubSeq(srv.out, n + 1, Len(srv.out)) = <<>>
    BY <1>1, <2>1, SeqEmpty
  <2> QED BY <1>1, <2>1, <2>2, SeqCat
<1>5. \E p \in {"write", "read"} :
        /\ srv' = [srv EXCEPT !.out = y, !.pc = p]
        /\ p = "read" => srv.kind = "foreign" /\ y = <<>> /\ ~ srv.close
  <2>1. CASE ServerWrites(n)
    <3>1. srv' = [srv EXCEPT !.out = y]
      BY <1>4, <2>1 DEF ServerWrites
    <3>2. srv' = [srv EXCEPT !.out = y, !.pc = "write"]
      BY <1>1, <3>1 DEF Serving
    <3> QED BY <3>2
  <2>2. CASE ForeignWrites(n)
    <3>1. srv' = [srv EXCEPT !.out = y, !.pc = IF n = Len(srv.out) /\ ~ srv.close THEN "read" ELSE srv.pc]
      BY <1>4, <2>2 DEF ForeignWrites
    <3>2. srv.kind = "foreign"
      BY <2>2 DEF ForeignWrites, Foreign
    <3> QED BY <1>1, <1>4, <3>1, <3>2
  <2> QED BY <2>1, <2>2
<1>6. PICK p \in {"write", "read"} :
        /\ srv' = [srv EXCEPT !.out = y, !.pc = p]
        /\ p = "read" => srv.kind = "foreign" /\ y = <<>> /\ ~ srv.close
  BY <1>5
<1>7. /\ srv' \in Serving /\ srv'.pc = p /\ srv'.kind = srv.kind /\ srv'.buf = srv.buf /\ srv'.req = srv.req
      /\ srv'.close = srv.close /\ srv'.early = srv.early /\ srv'.slept = srv.slept /\ srv'.out = y
  BY <1>1, <1>6 DEF Serving
<1>8. /\ net' \in Nets /\ net'.up = net.up /\ net'.cfin = net.cfin /\ net'.sfin = net.sfin
      /\ cli # Idle => net'.down = x
  <2>1. net' = net \/ net' = [net EXCEPT !.down = x]
    BY <1>4 DEF ServerWrites, ForeignWrites
  <2>2. cli # Idle => net' = [net EXCEPT !.down = x]
    BY <1>4 DEF ServerWrites, ForeignWrites, HttpInv, Ends
  <2> QED BY <1>1, <2>1, <2>2 DEF Nets
<1> QED BY <1>1, <1>2, <1>3, <1>4, <1>6, <1>7, <1>8, WriteStep

\* The handler is called with the next request.
LEMMA CallHandlerStep ==
  ASSUME HttpInv, CallHandler
  PROVE  HttpInv'
<1>1. srv \in Serving /\ srv # Idle /\ srv.kind = "library" /\ srv.pc = "read"
  BY DEF HttpInv, Types, CallHandler, Server
<1>2. UNCHANGED <<net, cli, asked, answered, got, now, amb, stopping>>
  BY DEF CallHandler, ServerOnly
<1>3. PICK r : r = ReadOneRequest(srv.buf)
  OBVIOUS
<1>4. r.st = "ok" /\ r # More /\ r # Bad
  BY <1>3 DEF CallHandler, More, Bad
<1>5. Taken = Len(handled)
  BY <1>1 DEF Taken
<1>6. /\ r \in Requests /\ Len(handled) + 1 \in DOMAIN asked
      /\ <<r.id, r.body>> = asked[Len(handled) + 1] /\ r.id # BadRequest
      /\ compact(srv.buf, r.used) \in Seq(Tokens)
      /\ \E z \in Seq(Tokens) :
           /\ Framing(z, Len(handled) + 1, asked)
           /\ Begins(compact(srv.buf, r.used) \o net.up, z)
           /\ cli # Idle => z = (compact(srv.buf, r.used) \o net.up) \o cli.out
  BY <1>1, <1>3, <1>4, <1>5, ServerParses
<1>7. PICK m \in Messages : m = <<r.id, r.body>> /\ m = asked[Len(handled) + 1] /\ m[1] = r.id
  <2>1. asked[Len(handled) + 1] \in Messages
    BY <1>6 DEF HttpInv, Types
  <2> QED BY <1>6, <2>1
<1>8. /\ srv' \in Serving /\ srv'.pc = "handle" /\ srv'.req = r /\ srv'.buf = compact(srv.buf, r.used)
      /\ srv'.kind = srv.kind /\ srv'.out = srv.out /\ srv'.close = srv.close /\ srv'.early = srv.early
  <2>1. srv' = [srv EXCEPT !.pc = "handle", !.req = r, !.buf = compact(srv.buf, r.used)]
    BY <1>3 DEF CallHandler
  <2> QED BY <1>1, <1>6, <2>1 DEF Serving
<1>9. PICK h \in Nat : h = Len(handled) /\ handled \in Seq(Messages) /\ asked \in Seq(Messages)
  BY DEF HttpInv, Types
<1>10. /\ handled' \in Seq(Messages) /\ Len(handled') = h + 1 /\ handled'[h + 1] = m
       /\ \A i \in 1..h : handled'[i] = handled[i]
  <2>1. handled' = Append(handled, m)
    BY <1>3, <1>7 DEF CallHandler
  <2> QED BY <1>9, <2>1
<1>11. srv' # Idle
  BY <1>8, NotIdle
<1>12. Types' /\ Ends'
  BY <1>1, <1>2, <1>8, <1>10, <1>11 DEF HttpInv, Types, Ends
<1>13. Scopes'
  BY <1>1, <1>2, <1>8, <1>11 DEF HttpInv, Scopes
<1>14. Numbered'
  <2>1. Begins(handled', asked)
    <3>1. h <= Len(asked) /\ \A i \in 1..h : handled[i] = asked[i]
      BY <1>9 DEF HttpInv, Numbered, Begins
    <3>2. h + 1 <= Len(asked) /\ handled'[h + 1] = asked[h + 1]
      <4>1. h + 1 \in 1..Len(asked)
        BY <1>6, <1>9
      <4> QED BY <1>7, <1>9, <1>10, <4>1
    <3>3. ASSUME NEW i \in 1..(h + 1) PROVE handled'[i] = asked[i]
      <4>1. i \in 1..h \/ i = h + 1
        OBVIOUS
      <4> QED BY <1>10, <3>1, <3>2, <4>1
    <3> QED BY <1>10, <3>2, <3>3 DEF Begins
  <2> QED BY <1>2, <2>1 DEF HttpInv, Numbered
<1>15. Served'
  <2>1. Len(handled') = Len(answered) + 1
    BY <1>1, <1>9, <1>10 DEF HttpInv, Served
  <2>2. srv'.req # More /\ srv'.req.id = handled'[Len(handled')][1] /\ srv'.req.id # BadRequest
    BY <1>4, <1>6, <1>7, <1>8, <1>10
  <2> QED BY <1>1, <1>2, <1>8, <1>11, <2>1, <2>2 DEF HttpInv, Served
<1>16. Refused'
  BY <1>1, <1>2, <1>11 DEF HttpInv, Refused
<1>17. Up'
  <2>1. Taken' = h + 1
    BY <1>1, <1>8, <1>10 DEF Taken
  <2> QED BY <1>2, <1>6, <1>8, <1>9, <2>1 DEF Up
<1>18. Down'
  <2>1. SameServer
    BY <1>1, <1>8, <1>11 DEF SameServer
  <2> QED BY <1>2, <2>1, DownFrame DEF HttpInv
<1> QED BY <1>12, <1>13, <1>14, <1>15, <1>16, <1>17, <1>18 DEF HttpInv

\* The handler goes to sleep, and wakes.
LEMMA SleepStep ==
  ASSUME HttpInv, srv \in Serving, srv.kind = "library", srv.pc \in {"handle", "asleep"}, srv' \in Serving,
         srv'.pc \in {"handle", "asleep"}, srv'.kind = srv.kind, srv'.buf = srv.buf, srv'.out = srv.out,
         srv'.req = srv.req, srv'.close = srv.close, srv'.early = srv.early, Scopes',
         UNCHANGED <<net, cli, asked, handled, answered, got, now, stopping>>
  PROVE  HttpInv'
<1>1. srv # Idle /\ srv' # Idle
  BY NotIdle
<1>2. Types' /\ Ends' /\ Numbered'
  BY <1>1 DEF HttpInv, Types, Ends, Numbered
<1>3. Served'
  BY <1>1 DEF HttpInv, Served
<1>4. Refused'
  BY <1>1, <1>3 DEF Served, Refused
<1>5. Up'
  <2>1. Taken' = Taken
    BY DEF Taken
  <2> QED BY <1>1, <2>1, UpFrame DEF HttpInv
<1>6. Down'
  <2>1. SameServer
    BY <1>1 DEF SameServer
  <2> QED BY <2>1, DownFrame DEF HttpInv
<1> QED BY <1>2, <1>3, <1>4, <1>5, <1>6 DEF HttpInv

\* The handler sleeps: a scope or two are entered,
LEMMA HandlerSleepsStep ==
  ASSUME HttpInv, NEW limit \in Limits \cup {0}, NEW delta \in Limits, HandlerSleeps(limit, delta)
  PROVE  HttpInv'
<1>1. srv \in Serving /\ srv # Idle /\ srv.kind = "library" /\ srv.pc = "handle" /\ now \in Nat
  BY DEF HttpInv, Types, HandlerSleeps, Server
<1>2. UNCHANGED <<net, cli, asked, handled, answered, got, now, stopping>>
  BY DEF HandlerSleeps, ServerOnly
<1>3. /\ srv' \in Serving /\ srv'.pc = "asleep" /\ srv'.slept = IF limit = 0 THEN "plain" ELSE "scoped"
      /\ srv'.kind = srv.kind /\ srv'.buf = srv.buf /\ srv'.out = srv.out /\ srv'.req = srv.req
      /\ srv'.close = srv.close /\ srv'.early = srv.early
  <2>1. srv' = [srv EXCEPT !.pc = "asleep", !.slept = IF limit = 0 THEN "plain" ELSE "scoped"]
    BY DEF HandlerSleeps
  <2> QED BY <1>1, <2>1 DEF Serving
<1>4. limit \in Nat /\ delta \in Nat
  BY HttpAssumption
<1>5. Nested(amb) /\ Len(amb.limits) <= 1
  BY <1>1 DEF HttpInv, Scopes
<1>6. PICK n \in Nat : n = Len(amb.limits) /\ (n = 0 \/ n = 1)
  <2>1. PICK n \in Nat : n = Len(amb.limits)
    BY <1>5 DEF Nested
  <2>2. n <= 1
    BY <1>5, <2>1, Zenon
  <2> QED BY <2>1, <2>2
<1>6a. n = 0 \/ n = 1
  BY <1>6, Zenon
<1>7. CASE limit = 0
  <2>1. amb' = EnterTimeout(amb, now, delta)
    BY <1>7 DEF HandlerSleeps
  <2>2. Nested(amb') /\ Len(amb'.limits) = n + 1
    BY <1>1, <1>4, <1>5, <1>6, <2>1, EnterNests
  <2>3. srv'.slept = "plain" /\ Len(amb'.limits) \in {1, 2}
    <3>1. n + 1 \in {1, 2}
      BY <1>6a
    <3> QED BY <1>3, <1>7, <2>2, <3>1
  <2>4. Scopes'
    BY <1>1, <1>3, <2>2, <2>3, NotIdle DEF Scopes
  <2> QED BY <1>1, <1>2, <1>3, <2>4, SleepStep
<1>8. CASE limit # 0
  <2>1. PICK b : b = EnterTimeout(amb, now, limit)
    OBVIOUS
  <2>2. amb' = EnterTimeout(b, now, delta)
    BY <1>8, <2>1 DEF HandlerSleeps
  <2>3. Nested(b) /\ Len(b.limits) = n + 1
    BY <1>1, <1>4, <1>5, <1>6, <2>1, EnterNests
  <2>4. Nested(amb') /\ Len(amb'.limits) = n + 1 + 1
    BY <1>1, <1>4, <2>2, <2>3, EnterNests
  <2>5. srv'.slept = "scoped" /\ Len(amb'.limits) \in {2, 3}
    <3>1. n + 1 + 1 \in {2, 3}
      BY <1>6a
    <3> QED BY <1>3, <1>8, <2>4, <3>1
  <2>6. Scopes'
    BY <1>1, <1>3, <2>4, <2>5, NotIdle DEF Scopes
  <2> QED BY <1>1, <1>2, <1>3, <2>6, SleepStep
<1> QED BY <1>7, <1>8

\* and left again.
LEMMA SleepEndsStep ==
  ASSUME HttpInv, SleepEnds
  PROVE  HttpInv'
<1>1. srv \in Serving /\ srv # Idle /\ srv.kind = "library" /\ srv.pc = "asleep"
  BY DEF HttpInv, Types, SleepEnds, Server
<1>2. UNCHANGED <<net, cli, asked, handled, answered, got, now, stopping>>
  BY DEF SleepEnds, ServerOnly
<1>3. /\ srv' \in Serving /\ srv'.pc = "handle" /\ srv'.kind = srv.kind /\ srv'.buf = srv.buf
      /\ srv'.out = srv.out /\ srv'.req = srv.req /\ srv'.close = srv.close /\ srv'.early = srv.early
  <2>1. srv' = [srv EXCEPT !.pc = "handle"]
    BY DEF SleepEnds
  <2> QED BY <1>1, <2>1 DEF Serving
<1>4. Nested(amb)
  BY DEF HttpInv, Scopes
<1>5. PICK n \in Nat : n = Len(amb.limits)
  BY <1>4 DEF Nested
<1>6. Nested(amb') /\ Len(amb'.limits) <= 1
  <2>1. CASE srv.slept = "plain" /\ n \in {1, 2}
    <3>1. amb' = ExitTimeout(amb)
      BY <2>1 DEF SleepEnds
    <3>2. Nested(amb') /\ Len(amb'.limits) = n - 1
      <4>1. n > 0
        BY <2>1
      <4>2. Len(amb.limits) > 0
        BY <1>5, <4>1, Zenon
      <4> QED BY <1>4, <1>5, <3>1, <4>2, ExitNests
    <3>3. n - 1 <= 1
      BY <2>1
    <3> QED BY <3>2, <3>3
  <2>2. CASE srv.slept = "scoped" /\ n \in {2, 3}
    <3>1. PICK b : b = ExitTimeout(amb)
      OBVIOUS
    <3>2. amb' = ExitTimeout(b)
      BY <2>2, <3>1 DEF SleepEnds
    <3>3. Nested(b) /\ Len(b.limits) = n - 1 /\ n - 1 > 0
      <4>1. n > 0 /\ n - 1 > 0
        BY <2>2
      <4>2. Len(amb.limits) > 0
        BY <1>5, <4>1, Zenon
      <4> QED BY <1>4, <1>5, <3>1, <4>1, <4>2, ExitNests
    <3>4. Nested(amb') /\ Len(amb'.limits) = (n - 1) - 1
      BY <3>2, <3>3, ExitNests
    <3>5. (n - 1) - 1 <= 1
      BY <2>2
    <3> QED BY <3>4, <3>5
  <2> QED BY <1>1, <1>5, <2>1, <2>2 DEF HttpInv, Scopes
<1>7. Scopes'
  BY <1>1, <1>3, <1>6, NotIdle DEF Scopes
<1> QED BY <1>1, <1>2, <1>3, <1>7, SleepStep

\* The answer to the request that is waited for.
LEMMA AnswerDown ==
  ASSUME HttpInv, srv \in Serving, srv' \in Serving, srv.out = <<>>, ~ srv.close,
         NEW m \in Messages, NEW f \in Framings(m), NEW c \in BOOLEAN,
         srv'.out = Reply(m, f, c), answered' = Append(answered, m), UNCHANGED <<cli, net, got, asked>>,
         Len(answered) + 1 <= Len(asked),
         f # Len(m[2]) => srv'.close,
         f = NoLength => srv'.kind = "foreign" /\ ~ srv'.early
  PROVE  Down'
<1> SUFFICES ASSUME cli # Idle PROVE Down'
  BY DEF Down
<1>1. ~ Closing /\ ~ Lost
  BY NotIdle DEF Lost, Closing
<1>2. cli.pc # "failed" /\ cli.pc \in {"ready", "busy", "recv"}
  BY <1>1 DEF HttpInv, Types, Calling, Down
<1>3. Library => InSync'
  <2> SUFFICES ASSUME Library PROVE InSync'
    OBVIOUS
  <2>1. InSync
    BY <1>1, <1>2 DEF HttpInv, Down
  <2>2. Len(asked) = Len(got) \/ Len(asked) = Len(got) + 1
    BY <1>2 DEF HttpInv, Down
  <2>3. PICK a \in Nat, g \in Nat, k \in Nat : a = Len(answered) /\ g = Len(got) /\ k = Len(asked)
    BY DEF HttpInv, Types
  <2>4. g <= a
    BY <2>3 DEF HttpInv, Numbered, Begins
  <2>5. a + 1 <= k /\ (k = g \/ k = g + 1)
    BY <2>2, <2>3, Zenon
  <2>6. a = g
    BY <2>4, <2>5
  <2>7. Len(answered) = Len(got) /\ Types
    BY <2>3, <2>6 DEF HttpInv
  <2> QED BY <2>1, <2>7, AnswerInSync
<1> QED BY <1>2, <1>3 DEF HttpInv, Down, Library

\* The bodies a handler may answer with.
LEMMA BodyTypes ==
  ASSUME NEW kind
  PROVE  /\ Body(kind) \in Payloads /\ Len(Body(kind)) \in {0, 2} /\ Len(Body(kind)) # Chunked
         /\ Len(Body(kind)) # NoLength /\ (kind # "none" => Length(kind) = Len(Body(kind)))
<1>1. Body(kind) \in Payloads
  BY DEF Body, Payloads
<1>2. Len(Body(kind)) \in {0, 2}
  BY <1>1, PayloadTypes
<1> QED BY <1>1, <1>2 DEF Chunked, NoLength, Length

\* The handler returns its response.
LEMMA HandlerReturnsStep ==
  ASSUME HttpInv, NEW kind \in Replies, NEW close \in BOOLEAN, HandlerReturns(kind, close)
  PROVE  HttpInv'
<1>1. srv \in Serving /\ srv # Idle /\ srv.kind = "library" /\ srv.pc = "handle"
  BY DEF HttpInv, Types, HandlerReturns, Server
<1>2. UNCHANGED <<net, cli, asked, handled, got, now, amb, stopping>>
  BY DEF HandlerReturns, ServerOnly
<1>3. /\ Len(handled) = Len(answered) + 1 /\ srv.req # More
      /\ srv.req.id = handled[Len(handled)][1] /\ srv.req.id # BadRequest
      /\ (\A i \in DOMAIN answered : answered[i][1] # BadRequest) /\ ~ srv.close /\ srv.out = <<>>
  BY <1>1 DEF HttpInv, Served
<1>4. srv.req \in Requests
  BY <1>1, <1>3 DEF Serving
<1>5. PICK id \in Nat, c \in BOOLEAN : id = srv.req.id /\ c = (srv.req.close \/ close)
  BY <1>4 DEF Requests
<1> DEFINE f == Len(Body(kind))
<1>6. Body(kind) \in Payloads /\ f \in {0, 2} /\ f # Chunked /\ f # NoLength
  BY BodyTypes
<1>7. PICK m \in Messages : m = <<id, Body(kind)>> /\ m[1] = id /\ m[2] = Body(kind)
  <2>1. PICK b \in Payloads : b = Body(kind)
    BY <1>6
  <2>2. <<id, b>> \in Messages /\ <<id, b>>[1] = id /\ <<id, b>>[2] = b
    BY DEF Messages
  <2> QED BY <2>1, <2>2
<1>8. f \in Framings(m) /\ Reply(m, f, c) \in Seq(Tokens) /\ Reply(m, f, c) = Response(id, kind, c)
  <2>1. f \in Framings(m)
    BY <1>7 DEF Framings
  <2>2. Reply(m, f, c) \in Seq(Tokens)
    BY <2>1, ReplyTypes
  <2>3. Reply(m, f, c) = Response(id, kind, c)
    BY <1>6, <1>7 DEF Reply, Response
  <2> QED BY <2>1, <2>2, <2>3
<1> HIDE DEF f
<1>9. /\ srv' \in Serving /\ srv'.pc = "write" /\ srv'.close = c /\ srv'.kind = srv.kind
      /\ srv'.buf = srv.buf /\ srv'.out = Reply(m, f, c) /\ srv'.early = srv.early
  <2>1. srv' = [srv EXCEPT !.pc = "write", !.close = c, !.req = More, !.slept = "no", !.out = Reply(m, f, c)]
    BY <1>5, <1>8 DEF HandlerReturns
  <2> QED BY <1>1, <1>8, <2>1 DEF Serving
<1>10. answered' = Append(answered, m)
  BY <1>5, <1>7 DEF HandlerReturns
<1>11. PICK a \in Nat : a = Len(answered) /\ answered \in Seq(Messages) /\ DOMAIN answered = 1..a
  BY DEF HttpInv, Types
<1>12. /\ answered' \in Seq(Messages) /\ Len(answered') = a + 1 /\ DOMAIN answered' = 1..(a + 1)
       /\ answered'[a + 1] = m /\ \A i \in 1..a : answered'[i] = answered[i]
  BY <1>10, <1>11
<1>13. srv' # Idle
  BY <1>9, NotIdle
<1>14. Len(handled) = a + 1 /\ a + 1 <= Len(asked) /\ handled[a + 1] = asked[a + 1] /\ a + 1 \in DOMAIN asked
  <2>1. Len(handled) = a + 1 /\ asked \in Seq(Messages)
    BY <1>3, <1>11 DEF HttpInv, Types
  <2>2. Len(handled) <= Len(asked) /\ \A i \in 1..Len(handled) : handled[i] = asked[i]
    BY DEF HttpInv, Numbered, Begins
  <2>3. a + 1 \in 1..(a + 1)
    BY <1>11
  <2> QED BY <2>1, <2>2, <2>3
<1>15. Types' /\ Ends'
  BY <1>1, <1>2, <1>9, <1>12, <1>13 DEF HttpInv, Types, Ends
<1>16. Scopes'
  BY <1>1, <1>2, <1>9, <1>13 DEF HttpInv, Scopes
<1>17. Numbered'
  <2>1. id \in {a + 1, BadRequest}
    BY <1>3, <1>5, <1>14 DEF HttpInv, Numbered
  <2>2. \A i \in DOMAIN answered' : answered'[i][1] \in {i, BadRequest}
    <3> SUFFICES ASSUME NEW i \in 1..(a + 1) PROVE answered'[i][1] \in {i, BadRequest}
      BY <1>12
    <3>1. i \in 1..a \/ i = a + 1
      BY <1>11
    <3> QED BY <1>7, <1>11, <1>12, <2>1, <3>1 DEF HttpInv, Numbered
  <2>3. Begins(got', answered')
    BY <1>2, <1>10, <1>11, BeginsAppend DEF HttpInv, Types, Numbered
  <2> QED BY <1>2, <2>2, <2>3 DEF HttpInv, Numbered
<1>18. \A i \in DOMAIN answered' : answered'[i][1] # BadRequest
  <2> SUFFICES ASSUME NEW i \in 1..(a + 1) PROVE answered'[i][1] # BadRequest
    BY <1>12
  <2>1. i \in 1..a \/ i = a + 1
    BY <1>11
  <2> QED BY <1>3, <1>5, <1>7, <1>11, <1>12, <2>1
<1>19. Served'
  BY <1>1, <1>2, <1>9, <1>12, <1>13, <1>14, <1>18 DEF Served
<1>20. Refused'
  BY <1>18 DEF Refused
<1>21. Up'
  <2>1. Taken' = Taken
    BY <1>1, <1>2, <1>9 DEF Taken
  <2> QED BY <1>1, <1>2, <1>9, <1>13, <2>1, UpFrame DEF HttpInv
<1>22. Down'
  <2>1. f = Len(m[2])
    BY <1>7 DEF f
  <2>2. Len(answered) + 1 <= Len(asked)
    BY <1>11, <1>14
  <2> QED BY <1>1, <1>2, <1>3, <1>6, <1>8, <1>9, <1>10, <2>1, <2>2, AnswerDown
<1> QED BY <1>15, <1>16, <1>17, <1>19, <1>20, <1>21, <1>22 DEF HttpInv

\* A foreign server takes the next request and answers it.
LEMMA ForeignAnswersStep ==
  ASSUME HttpInv, NEW kind \in Replies, NEW f \in {Length(kind), Chunked, NoLength}, ForeignAnswers(kind, f)
  PROVE  HttpInv'
<1>1. srv \in Serving /\ srv # Idle /\ srv.kind = "foreign" /\ srv.pc = "read"
  BY DEF HttpInv, Types, ForeignAnswers, Foreign
<1>2. UNCHANGED <<net, cli, asked, handled, got, now, amb, stopping>>
  BY DEF ForeignAnswers, ServerOnly
<1>3. ~ srv.close /\ srv.out = <<>>
  BY <1>1 DEF HttpInv, Served
<1>4. PICK r : r = ReadOneRequest(srv.buf)
  OBVIOUS
<1>5. r.st = "ok" /\ r # More /\ r # Bad
  BY <1>4 DEF ForeignAnswers, More, Bad
<1>6. Taken = Len(answered)
  BY <1>1 DEF Taken
<1>7. /\ r \in Requests /\ Len(answered) + 1 \in DOMAIN asked
      /\ <<r.id, r.body>> = asked[Len(answered) + 1] /\ r.id # BadRequest
      /\ compact(srv.buf, r.used) \in Seq(Tokens)
      /\ \E z \in Seq(Tokens) :
           /\ Framing(z, Len(answered) + 1, asked)
           /\ Begins(compact(srv.buf, r.used) \o net.up, z)
           /\ cli # Idle => z = (compact(srv.buf, r.used) \o net.up) \o cli.out
  BY <1>1, <1>4, <1>5, <1>6, ServerParses
<1>8. PICK id \in Nat, b \in Payloads, c \in BOOLEAN :
        id = r.id /\ b = Body(kind) /\ c = (f # Length(kind)) /\ Length(kind) = Len(b)
  BY <1>7, BodyTypes DEF Requests, Replies
<1>9. PICK m \in Messages : m = <<id, b>> /\ m[1] = id /\ m[2] = b
  <2>1. <<id, b>> \in Messages /\ <<id, b>>[1] = id /\ <<id, b>>[2] = b
    BY DEF Messages
  <2> QED BY <2>1
<1>10. f \in Framings(m) /\ Reply(m, f, c) \in Seq(Tokens)
  <2>1. f \in Framings(m)
    BY <1>8, <1>9 DEF Framings
  <2> QED BY <2>1, ReplyTypes
<1>11. /\ srv' \in Serving /\ srv'.pc = "write" /\ srv'.close = c /\ srv'.kind = srv.kind
       /\ srv'.buf = compact(srv.buf, r.used) /\ srv'.out = Reply(m, f, c) /\ srv'.early = (f # NoLength)
  <2>1. Reply(m, f, c) = Head1(r.id, f, f # Length(kind)) \o (IF f = Chunked THEN Chunks(Body(kind)) ELSE Body(kind))
    BY <1>8, <1>9 DEF Reply
  <2>2. srv' = [srv EXCEPT !.pc = "write", !.buf = compact(srv.buf, r.used), !.close = f # Length(kind),
                           !.early = f # NoLength, !.out = Reply(m, f, c)]
    BY <1>4, <2>1 DEF ForeignAnswers
  <2>3. PICK e \in BOOLEAN : e = (f # NoLength)
    OBVIOUS
  <2>4. srv' = [srv EXCEPT !.pc = "write", !.buf = compact(srv.buf, r.used), !.close = c,
                           !.early = e, !.out = Reply(m, f, c)]
    BY <1>8, <2>2, <2>3
  <2>5. /\ srv' \in Serving /\ srv'.pc = "write" /\ srv'.close = c /\ srv'.kind = srv.kind
        /\ srv'.buf = compact(srv.buf, r.used) /\ srv'.out = Reply(m, f, c) /\ srv'.early = e
    BY <1>1, <1>7, <1>10, <2>4 DEF Serving
  <2> QED BY <2>3, <2>5
<1>12. answered' = Append(answered, m)
  BY <1>4, <1>8, <1>9 DEF ForeignAnswers
<1>13. PICK a \in Nat : a = Len(answered) /\ answered \in Seq(Messages) /\ DOMAIN answered = 1..a
  BY DEF HttpInv, Types
<1>14. /\ answered' \in Seq(Messages) /\ Len(answered') = a + 1 /\ DOMAIN answered' = 1..(a + 1)
       /\ answered'[a + 1] = m /\ \A i \in 1..a : answered'[i] = answered[i]
  BY <1>12, <1>13
<1>15. srv' # Idle
  BY <1>11, NotIdle
<1>16. a + 1 \in DOMAIN asked /\ a + 1 <= Len(asked) /\ m[1] = asked[a + 1][1] /\ m[1] # BadRequest
  <2>1. a + 1 \in DOMAIN asked /\ asked \in Seq(Messages)
    BY <1>7, <1>13 DEF HttpInv, Types
  <2>2. m[1] = asked[a + 1][1]
    <3>1. <<r.id, r.body>>[1] = r.id
      OBVIOUS
    <3> QED BY <1>7, <1>8, <1>9, <1>13, <3>1
  <2> QED BY <1>7, <1>8, <1>9, <2>1, <2>2
<1>17. Types' /\ Ends'
  BY <1>1, <1>2, <1>11, <1>14, <1>15 DEF HttpInv, Types, Ends
<1>18. Scopes'
  BY <1>1, <1>2, <1>11, <1>15 DEF HttpInv, Scopes
<1>19. Numbered'
  <2>1. m[1] \in {a + 1, BadRequest}
    BY <1>16 DEF HttpInv, Numbered
  <2>2. \A i \in DOMAIN answered' : answered'[i][1] \in {i, BadRequest}
    <3> SUFFICES ASSUME NEW i \in 1..(a + 1) PROVE answered'[i][1] \in {i, BadRequest}
      BY <1>14
    <3>1. i \in 1..a \/ i = a + 1
      BY <1>13
    <3> QED BY <1>13, <1>14, <2>1, <3>1 DEF HttpInv, Numbered
  <2>3. Begins(got', answered')
    BY <1>2, <1>12, <1>13, BeginsAppend DEF HttpInv, Types, Numbered
  <2> QED BY <1>2, <2>2, <2>3 DEF HttpInv, Numbered
<1>20. Served'
  BY <1>1, <1>2, <1>11, <1>14, <1>15, <1>16 DEF Served
<1>21. Refused'
  <2> SUFFICES ASSUME NEW i \in 1..(a + 1), answered'[i][1] = BadRequest
               PROVE  \/ \E j \in DOMAIN asked' : asked'[j][1] = BadRequest
                      \/ net'.cfin \/ stopping' \/ (amb'.limits # <<>> /\ amb'.limits[1] <= now')
    BY <1>14 DEF Refused
  <2>1. i \in 1..a
    BY <1>13, <1>14, <1>16
  <2> QED BY <1>1, <1>2, <1>13, <1>14, <2>1 DEF HttpInv, Refused
<1>22. Up'
  <2>1. Taken' = a + 1
    BY <1>1, <1>11, <1>14 DEF Taken
  <2> QED BY <1>2, <1>7, <1>11, <1>13, <2>1 DEF Up
<1>23. Down'
  <2>1. f # Len(m[2]) => srv'.close
    BY <1>8, <1>9, <1>11
  <2>2. f = NoLength => srv'.kind = "foreign" /\ ~ srv'.early
    BY <1>1, <1>11
  <2>3. Len(answered) + 1 <= Len(asked)
    BY <1>13, <1>16
  <2> QED BY <1>1, <1>2, <1>3, <1>10, <1>11, <1>12, <2>1, <2>2, <2>3, AnswerDown
<1> QED BY <1>17, <1>18, <1>19, <1>20, <1>21, <1>22, <1>23 DEF HttpInv

\* The server closes its end: nothing it wrote is taken back, unless the
\* connection is reset, and a body that only the end delimits is complete.
LEMMA CloseStep ==
  ASSUME HttpInv, srv \in Serving, srv' = Idle, net' \in Nets, net'.sfin = TRUE, net'.cfin = net.cfin, Scopes',
         \/ srv.kind = "library" /\ net'.down \in {net.down, <<>>}
         \/ srv.kind = "foreign" /\ net'.down = net.down /\ (srv.out = <<>> \/ srv.early \/ net.cfin),
         UNCHANGED <<cli, asked, handled, answered, got, now, stopping>>
  PROVE  HttpInv'
<1>1. srv # Idle
  BY NotIdle
<1>2. Types' /\ Ends'
  BY <1>1 DEF HttpInv, Types, Ends
<1>3. Numbered' /\ Refused' /\ Served' /\ Up'
  BY DEF HttpInv, Numbered, Refused, Served, Up
<1>4. Closing'
  BY DEF Closing
<1>5. Down'
  <2> SUFFICES ASSUME cli # Idle PROVE Down'
    BY DEF Down
  <2>1. PICK b \in Seq(Tokens), d \in Seq(Tokens), o \in Seq(Tokens) : b = cli.buf /\ d = net.down /\ o = srv.out
    BY DEF HttpInv, Types, Calling, Nets, Serving
  <2>2. PICK x \in Seq(Tokens) : x = b \o d
    BY SeqCat
  <2>3. net'.down = d \/ net'.down = <<>>
    BY <2>1
  <2>4. InSync => InSync'
    <3> SUFFICES ASSUME InSync PROVE InSync'
      OBVIOUS
    <3>1. PICK s \in Seq(Tokens), one \in Seq(Tokens), two \in Seq(Tokens), f \in Int :
            Carries(s, one, two, f) /\ s = x \o o /\ Begins(x, s)
      BY <1>1, <2>1, <2>2 DEF InSync
    <3>2. Begins(cli'.buf \o net'.down, s)
      <4>1. CASE net'.down = d
        BY <2>1, <2>2, <3>1, <4>1
      <4>2. CASE net'.down = <<>>
        <5>1. b \o <<>> = b
          OBVIOUS
        <5>2. Begins(b, s)
          BY <2>2, <3>1, BeginsPart
        <5> QED BY <2>1, <4>2, <5>1, <5>2
      <4> QED BY <2>3, <4>1, <4>2
    <3>3. Len(answered) # Len(got) /\ f = NoLength => s = cli'.buf \o net'.down
      <4> SUFFICES ASSUME Len(answered) # Len(got), f = NoLength PROVE s = cli'.buf \o net'.down
        OBVIOUS
      <4>1. srv.kind = "foreign" /\ ~ srv.early
        BY <1>1, <3>1 DEF Carries
      <4>2. ~ net.cfin
        BY DEF HttpInv, Ends
      <4>3. o = <<>> /\ net'.down = d
        BY <2>1, <4>1, <4>2
      <4>4. x \o <<>> = x
        OBVIOUS
      <4> QED BY <2>1, <2>2, <3>1, <4>3, <4>4
    <3>4. Carries(s, one, two, f)'
      BY <1>1, <1>4, <3>1, <3>3 DEF Carries
    <3> QED BY <3>1, <3>2, <3>4 DEF InSync
  <2>5. Lost => Lost'
    <3> SUFFICES ASSUME Lost PROVE Lost'
      OBVIOUS
    <3>1. Left = o /\ Left' = <<>>
      BY <1>1, <2>1 DEF Left
    <3>2. Newlines(b) /\ Newlines(d) /\ Newlines(<<>>)
      BY <2>1 DEF Lost, Newlines
    <3>3. Newlines(cli'.buf) /\ Newlines(net'.down) /\ Newlines(Left')
      BY <2>1, <2>3, <3>1, <3>2
    <3>4. PICK i \in Nat, j \in Nat, k \in Nat : i = Len(b) /\ j = Len(d) /\ k = Len(o)
      BY LenProperties
    <3>5. i + j + k <= 2
      BY <2>1, <3>1, <3>4, Zenon DEF Lost
    <3>6. Len(cli'.buf) = i /\ (Len(net'.down) = j \/ Len(net'.down) = 0) /\ Len(Left') = 0
      BY <2>1, <2>3, <3>1, <3>4
    <3>7. Len(cli'.buf) + Len(net'.down) + Len(Left') <= 2
      BY <3>5, <3>6
    <3> QED BY <1>4, <3>3, <3>7 DEF Lost
  <2> QED BY <1>4, <2>4, <2>5 DEF HttpInv, Down, Library
<1> QED BY <1>2, <1>3, <1>5 DEF HttpInv

\* The library's server closes,
LEMMA CloseConnStep ==
  ASSUME HttpInv, NEW reset \in BOOLEAN, CloseConn(reset)
  PROVE  HttpInv'
<1>1. srv \in Serving /\ srv # Idle /\ srv.kind = "library" /\ srv.pc = "close" /\ net \in Nets
  BY DEF HttpInv, Types, CloseConn, Server
<1>2. UNCHANGED <<cli, asked, handled, answered, got, now, stopping>> /\ srv' = Idle
  BY DEF CloseConn, ServerOnly
<1>3. net' \in Nets /\ net'.sfin = TRUE /\ net'.cfin = net.cfin /\ net'.down \in {net.down, <<>>}
  <2>1. <<>> \in Seq(Tokens)
    OBVIOUS
  <2>2. PICK e \in Seq(Tokens) : e = <<>>
    BY <2>1, Zenon
  <2>3. PICK d \in Seq(Tokens), t \in BOOLEAN : d = (IF reset THEN e ELSE net.down) /\ t = (net.rst \/ reset)
    BY <1>1 DEF Nets
  <2>4. net' = [net EXCEPT !.up = e, !.sfin = TRUE, !.rst = t, !.down = d]
    BY <2>2, <2>3 DEF CloseConn
  <2> QED BY <1>1, <2>2, <2>3, <2>4 DEF Nets
<1>4. Nested(amb) /\ Len(amb.limits) <= 1
  BY <1>1 DEF HttpInv, Scopes
<1>5. PICK n \in Nat : n = Len(amb.limits) /\ n = Len(amb.saved) /\ (n = 0 <=> amb.saved = <<>>)
  <2>1. amb.saved \in Seq(Int) /\ amb.limits \in Seq(Nat) /\ Len(amb.saved) = Len(amb.limits)
    BY <1>4 DEF Nested
  <2> QED BY <2>1, SeqEmpty
<1>6. n <= 1
  BY <1>4, <1>5, Zenon
<1>7. Nested(amb') /\ Len(amb'.limits) = 0
  <2>1. CASE n = 0
    <3>1. amb' = amb
      BY <1>5, <2>1 DEF CloseConn
    <3> QED BY <1>4, <1>5, <2>1, <3>1
  <2>2. CASE n = 1
    <3>1. amb.saved # <<>> /\ Len(amb.limits) = 1 /\ 1 > 0 /\ 1 - 1 = 0
      BY <1>5, <2>2
    <3>2. amb' = ExitTimeout(amb)
      BY <3>1 DEF CloseConn
    <3> QED BY <1>4, <3>1, <3>2, ExitNests
  <2>3. n = 0 \/ n = 1
    BY <1>6
  <2> QED BY <2>1, <2>2, <2>3
<1>8. Scopes'
  BY <1>2, <1>7 DEF Scopes
<1> QED BY <1>1, <1>2, <1>3, <1>8, CloseStep

\* and the foreign one.
LEMMA ForeignClosesStep ==
  ASSUME HttpInv, ForeignCloses
  PROVE  HttpInv'
<1>1. srv \in Serving /\ srv # Idle /\ srv.kind = "foreign" /\ net \in Nets
  BY DEF HttpInv, Types, ForeignCloses
<1>2. UNCHANGED <<cli, asked, handled, answered, got, now, stopping, amb>> /\ srv' = Idle
  BY DEF ForeignCloses, ServerOnly
<1>3. net' \in Nets /\ net'.sfin = TRUE /\ net'.cfin = net.cfin /\ net'.down = net.down
  <2>1. <<>> \in Seq(Tokens)
    OBVIOUS
  <2>2. PICK e \in Seq(Tokens) : e = <<>>
    BY <2>1, Zenon
  <2>3. net' = [net EXCEPT !.up = e, !.sfin = TRUE]
    BY <2>2 DEF ForeignCloses
  <2> QED BY <1>1, <2>2, <2>3 DEF Nets
<1>4. Scopes'
  BY <1>1, <1>2 DEF HttpInv, Scopes
<1>5. srv.out = <<>> \/ srv.early \/ net.cfin
  BY DEF ForeignCloses
<1> QED BY <1>1, <1>2, <1>3, <1>4, <1>5, CloseStep

-----------------------------------------------------------------------------
(* The steps of the client.                                                 *)

\* What such a step leaves alone.
LEMMA ClientFrame ==
  ASSUME HttpInv, Types', Ends', Up', Down', Begins(got', answered'), net.cfin => net'.cfin,
         UNCHANGED <<srv, handled, answered, asked, now, amb, stopping>>
  PROVE  HttpInv'
<1>1. Scopes' /\ Served'
  BY DEF HttpInv, Scopes, Served
<1>2. Numbered' /\ Refused'
  BY DEF HttpInv, Numbered, Refused
<1> QED BY <1>1, <1>2 DEF HttpInv

\* A step that leaves the server alone.
LEMMA SameServerFrame == ASSUME srv' = srv PROVE SameServer
  BY DEF SameServer

\* The client makes one more request.
LEMMA AskStep ==
  ASSUME HttpInv, cli \in Calling, cli' \in Calling, cli'.pc = "busy", cli'.kind = cli.kind, cli'.buf = cli.buf,
         NEW x \in Seq(Tokens), cli'.out = cli.out \o x,
         NEW m \in Messages, Asks(x, 0, Len(x), m), m[1] \in {Len(asked) + 1, BadRequest},
         asked' = Append(asked, m), Library => cli.pc = "ready", cli.pc # "recv",
         UNCHANGED <<net, srv, handled, answered, got, now, amb, stopping>>
  PROVE  HttpInv'
<1>1. cli # Idle /\ cli' # Idle
  BY NotIdle
<1>2. PICK k \in Nat : k = Len(asked) /\ asked \in Seq(Messages) /\ DOMAIN asked = 1..k
  BY DEF HttpInv, Types
<1>3. /\ asked' \in Seq(Messages) /\ Len(asked') = k + 1 /\ DOMAIN asked' = 1..(k + 1)
      /\ asked'[k + 1] = m /\ \A i \in 1..k : asked'[i] = asked[i]
  BY <1>2
<1>4. Types' /\ Ends'
  BY <1>1, <1>3 DEF HttpInv, Types, Ends
<1>5. Scopes'
  BY DEF HttpInv, Scopes
<1>6. Numbered'
  <2>1. \A i \in DOMAIN asked' : asked'[i][1] \in {i, BadRequest}
    <3> SUFFICES ASSUME NEW i \in 1..(k + 1) PROVE asked'[i][1] \in {i, BadRequest}
      BY <1>3
    <3>1. i \in 1..k \/ i = k + 1
      BY <1>2
    <3> QED BY <1>2, <1>3, <3>1 DEF HttpInv, Numbered
  <2>2. Begins(handled', asked')
    BY <1>2, BeginsAppend DEF HttpInv, Types, Numbered
  <2> QED BY <2>1, <2>2 DEF HttpInv, Numbered
<1>7. Served'
  <2>1. PICK a \in Nat : a = Len(answered)
    BY DEF HttpInv, Types
  <2>2. a <= k => a <= k + 1
    BY <1>2
  <2>3. Len(answered) <= Len(asked) => Len(answered') <= Len(asked')
    BY <1>2, <1>3, <2>1, <2>2
  <2> QED BY <2>3 DEF HttpInv, Served
<1>8. Refused'
  <2>1. (\E j \in DOMAIN asked : asked[j][1] = BadRequest) => \E j \in DOMAIN asked' : asked'[j][1] = BadRequest
    <3>1. \A j \in 1..k : j \in 1..(k + 1)
      BY <1>2
    <3> QED BY <1>2, <1>3, <3>1
  <2> QED BY <2>1 DEF HttpInv, Refused
<1>9. Up'
  <2> SUFFICES ASSUME srv # Idle
               PROVE  \E s \in Seq(Tokens) : /\ Framing(s, Taken', asked')
                                             /\ Begins(srv'.buf \o net'.up, s)
                                             /\ cli' # Idle => s = (srv'.buf \o net'.up) \o cli'.out
    BY DEF Up
  <2>1. srv \in Serving
    BY DEF HttpInv, Types
  <2>2. PICK b \in Seq(Tokens), u \in Seq(Tokens), o \in Seq(Tokens) : b = srv.buf /\ u = net.up /\ o = cli.out
    BY <2>1 DEF HttpInv, Types, Nets, Serving, Calling
  <2>3. PICK y \in Seq(Tokens) : y = b \o u
    BY SeqCat
  <2>4. PICK s \in Seq(Tokens) : Framing(s, Taken, asked) /\ s = y \o o
    BY <1>1, <2>2, <2>3 DEF HttpInv, Up
  <2>5. PICK t \in Seq(Tokens) : t = s \o x
    BY SeqCat
  <2>6. Taken' = Taken /\ Taken \in 0..Len(asked)
    BY <2>1, TakenInAsked DEF Taken
  <2>7. Framing(t, Taken', asked')
    BY <1>2, <2>4, <2>5, <2>6, FramingAppend
  <2>8. t = y \o (o \o x)
    <3>1. (y \o o) \o x = y \o (o \o x)
      BY CatCat, ZenonT(60)
    <3> QED BY <2>4, <2>5, <3>1
  <2>9. Begins(y, t)
    <3>1. o \o x \in Seq(Tokens)
      BY SeqCat
    <3> QED BY <2>8, <3>1, BeginsCat
  <2> QED BY <2>2, <2>3, <2>7, <2>8, <2>9
<1>10. Down'
  <2>1. SameServer
    BY SameServerFrame
  <2>2. InSync => InSync'
    BY <2>1, InSyncFrame
  <2>3. Lost => Lost'
    BY <2>1, LostFrame
  <2>4. Library => Len(asked') = Len(got') + 1
    BY <1>1, <1>2, <1>3 DEF HttpInv, Down
  <2> QED BY <1>1, <2>2, <2>3, <2>4 DEF HttpInv, Down, Library
<1> QED BY <1>4, <1>5, <1>6, <1>7, <1>8, <1>9, <1>10 DEF HttpInv

\* A request,
LEMMA MakeRequestStep ==
  ASSUME HttpInv, NEW kind, NEW close \in BOOLEAN, MakeRequest(kind, close)
  PROVE  HttpInv'
<1>1. cli \in Calling /\ (Library => cli.pc = "ready") /\ cli.pc # "recv"
  BY DEF HttpInv, Types, MakeRequest, Client
<1>2. UNCHANGED <<net, srv, handled, answered, got, now, amb, stopping>>
  BY DEF MakeRequest, ClientOnly
<1>3. PICK id \in Nat \ {0} : id = Len(asked) + 1
  BY DEF HttpInv, Types
<1>4. PICK m \in Messages, x \in Seq(Tokens) :
        m = <<id, Body(kind)>> /\ x = Request(id, kind, close) /\ Asks(x, 0, Len(x), m) /\ m[1] = id
  <2>1. /\ <<id, Body(kind)>> \in Messages /\ Request(id, kind, close) \in Seq(Tokens)
        /\ Asks(Request(id, kind, close), 0, Len(Request(id, kind, close)), <<id, Body(kind)>>)
    BY RequestAsks
  <2> QED BY <2>1
<1>5. asked' = Append(asked, m)
  BY <1>3, <1>4 DEF MakeRequest
<1>6. /\ cli' \in Calling /\ cli'.pc = "busy" /\ cli'.kind = cli.kind /\ cli'.buf = cli.buf
      /\ cli'.out = cli.out \o x
  <2>1. cli.out \o x \in Seq(Tokens)
    BY <1>1, SeqCat DEF Calling
  <2>2. cli' = [cli EXCEPT !.pc = "busy", !.out = cli.out \o x]
    BY <1>3, <1>4 DEF MakeRequest
  <2> QED BY <1>1, <2>1, <2>2 DEF Calling
<1> QED BY <1>1, <1>2, <1>3, <1>4, <1>5, <1>6, AskStep

\* and junk.
LEMMA SendJunkStep ==
  ASSUME HttpInv, SendJunk
  PROVE  HttpInv'
<1>1. cli \in Calling /\ ~ Library /\ cli.pc # "recv"
  BY DEF HttpInv, Types, SendJunk, Down
<1>2. UNCHANGED <<net, srv, handled, answered, got, now, amb, stopping>>
  BY DEF SendJunk, ClientOnly
<1>3. PICK m \in Messages, x \in Seq(Tokens) :
        m = <<BadRequest, <<>>>> /\ x = Junk /\ Asks(x, 0, Len(x), m) /\ m[1] = BadRequest
  BY JunkAsks
<1>4. asked' = Append(asked, m)
  BY <1>3 DEF SendJunk
<1>5. /\ cli' \in Calling /\ cli'.pc = "busy" /\ cli'.kind = cli.kind /\ cli'.buf = cli.buf
      /\ cli'.out = cli.out \o x
  <2>1. cli.out \o x \in Seq(Tokens)
    BY <1>1, SeqCat DEF Calling
  <2>2. cli' = [cli EXCEPT !.pc = "busy", !.out = cli.out \o x]
    BY <1>3 DEF SendJunk
  <2> QED BY <1>1, <2>1, <2>2 DEF Calling
<1> QED BY <1>1, <1>2, <1>3, <1>4, <1>5, AskStep

\* The client gives tokens to the network; to a server that has gone, they are
\* lost.
LEMMA ClientSendsStep ==
  ASSUME HttpInv, NEW n \in Sizes, ClientSends(n)
  PROVE  HttpInv'
<1>1. cli \in Calling /\ cli # Idle /\ net \in Nets /\ cli.out \in Seq(Tokens) /\ net.up \in Seq(Tokens)
  BY DEF HttpInv, Types, ClientSends, Client, Calling, Nets
<1>2. UNCHANGED <<srv, asked, handled, answered, got, now, amb, stopping>>
  BY DEF ClientSends, ClientOnly
<1>3. n \in 0..Len(cli.out)
  BY <1>1, HttpAssumption DEF ClientSends, Sizes
<1>4. PICK u \in Seq(Tokens), v \in Seq(Tokens) :
        u = SubSeq(cli.out, 1, n) /\ v = SubSeq(cli.out, n + 1, Len(cli.out))
  <2>1. SubSeq(cli.out, 1, n) \in Seq(Tokens) /\ SubSeq(cli.out, n + 1, Len(cli.out)) \in Seq(Tokens)
    BY <1>1, <1>3, SeqCut
  <2> QED BY <2>1
<1>5. PICK w \in Seq(Tokens) : w = net.up \o u
  BY <1>1, SeqCat
<1>6. cli' \in Calling /\ cli'.pc = cli.pc /\ cli'.kind = cli.kind /\ cli'.buf = cli.buf /\ cli'.out = v
  <2>1. cli' = [cli EXCEPT !.out = v]
    BY <1>4 DEF ClientSends
  <2> QED BY <1>1, <2>1 DEF Calling
<1>7. /\ net' \in Nets /\ net'.down = net.down /\ net'.cfin = net.cfin /\ net'.sfin = net.sfin
      /\ srv # Idle => net'.up = w
  <2>1. net' = net \/ net' = [net EXCEPT !.up = w]
    BY <1>4, <1>5 DEF ClientSends
  <2>2. srv # Idle => net' = [net EXCEPT !.up = w]
    BY <1>4, <1>5 DEF ClientSends, HttpInv, Ends
  <2> QED BY <1>1, <2>1, <2>2 DEF Nets
<1>8. cli' # Idle
  BY <1>6, NotIdle
<1>9. Types' /\ Ends'
  BY <1>1, <1>2, <1>6, <1>7, <1>8 DEF HttpInv, Types, Ends
<1>10. Up'
  <2> SUFFICES ASSUME srv # Idle
               PROVE  \E s \in Seq(Tokens) : /\ Framing(s, Taken', asked')
                                             /\ Begins(srv'.buf \o net'.up, s)
                                             /\ cli' # Idle => s = (srv'.buf \o net'.up) \o cli'.out
    BY <1>2 DEF Up
  <2>1. srv \in Serving
    BY DEF HttpInv, Types
  <2>2. PICK b \in Seq(Tokens), c \in Seq(Tokens), o \in Seq(Tokens) : b = srv.buf /\ c = net.up /\ o = cli.out
    BY <1>1, <2>1 DEF Serving
  <2>3. PICK s \in Seq(Tokens) : Framing(s, Taken, asked) /\ s = (b \o c) \o o
    BY <1>1, <2>2 DEF HttpInv, Up
  <2>4. (b \o w) \o v = (b \o c) \o o /\ Begins(b \o w, (b \o c) \o o)
    <3>1. n \in 0..Len(o)
      BY <1>3, <2>2
    <3>2. /\ (b \o (c \o SubSeq(o, 1, n))) \o SubSeq(o, n + 1, Len(o)) = (b \o c) \o o
          /\ Begins(b \o (c \o SubSeq(o, 1, n)), (b \o c) \o o)
      BY <3>1, CatSent
    <3> QED BY <1>4, <1>5, <2>2, <3>2
  <2>5. Taken' = Taken
    BY <1>2 DEF Taken
  <2> QED BY <1>2, <1>6, <1>7, <2>2, <2>3, <2>4, <2>5
<1>11. Down'
  <2>1. SameServer
    BY <1>2, SameServerFrame
  <2> QED BY <1>1, <1>2, <1>6, <1>7, <2>1, DownFrame DEF HttpInv
<1>12. Begins(got', answered')
  BY <1>2 DEF HttpInv, Numbered
<1> QED BY <1>2, <1>7, <1>9, <1>10, <1>11, <1>12, ClientFrame

\* A send fails because the server has closed.
LEMMA ClientSendFailsStep ==
  ASSUME HttpInv, ClientSendFails
  PROVE  HttpInv'
<1>1. cli \in Calling /\ cli # Idle /\ cli.pc = "busy"
  BY DEF HttpInv, Types, ClientSendFails, Client
<1>2. UNCHANGED <<net, srv, asked, handled, answered, got, now, amb, stopping>>
  BY DEF ClientSendFails, ClientOnly
<1>3. cli' \in Calling /\ cli'.pc = "failed" /\ cli'.kind = cli.kind /\ cli'.buf = cli.buf /\ cli'.out = cli.out
  <2>1. cli' = [cli EXCEPT !.pc = "failed"]
    BY DEF ClientSendFails
  <2> QED BY <1>1, <2>1 DEF Calling
<1>4. cli' # Idle
  BY <1>3, NotIdle
<1>5. Types' /\ Ends'
  BY <1>1, <1>2, <1>3, <1>4 DEF HttpInv, Types, Ends
<1>6. Up'
  <2>1. Taken' = Taken
    BY <1>2 DEF Taken
  <2> QED BY <1>1, <1>2, <1>3, <2>1, UpFrame DEF HttpInv
<1>7. Down'
  <2>1. Closing'
    BY <1>2 DEF HttpInv, Ends, ClientSendFails, Closing
  <2>2. cli'.buf = <<>>
    BY <1>1, <1>3 DEF HttpInv, Down
  <2> QED BY <1>3, <2>1, <2>2 DEF Down
<1>8. Begins(got', answered')
  BY <1>2 DEF HttpInv, Numbered
<1> QED BY <1>2, <1>5, <1>6, <1>7, <1>8, ClientFrame

\* getresponse begins; no earlier buffer is kept.
LEMMA CallGetresponseStep ==
  ASSUME HttpInv, CallGetresponse
  PROVE  HttpInv'
<1>1. cli \in Calling /\ cli # Idle /\ cli.pc = "busy" /\ Library
  BY DEF HttpInv, Types, CallGetresponse, Client
<1>2. UNCHANGED <<net, srv, asked, handled, answered, got, now, amb, stopping>>
  BY DEF CallGetresponse, ClientOnly
<1>3. cli.buf = <<>>
  BY <1>1 DEF HttpInv, Down
<1>4. cli' \in Calling /\ cli'.pc = "recv" /\ cli'.kind = cli.kind /\ cli'.buf = cli.buf /\ cli'.out = cli.out
  <2>1. cli' = [cli EXCEPT !.pc = "recv", !.buf = cli.buf]
    BY <1>3 DEF CallGetresponse
  <2> QED BY <1>1, <2>1 DEF Calling
<1>5. cli' # Idle
  BY <1>4, NotIdle
<1>6. Types' /\ Ends'
  BY <1>1, <1>2, <1>4, <1>5 DEF HttpInv, Types, Ends
<1>7. Up'
  <2>1. Taken' = Taken
    BY <1>2 DEF Taken
  <2> QED BY <1>1, <1>2, <1>4, <2>1, UpFrame DEF HttpInv
<1>8. Down'
  <2>1. SameServer
    BY <1>2, SameServerFrame
  <2>2. InSync => InSync'
    BY <1>2, <1>4, <2>1, InSyncFrame
  <2>3. Lost => Lost'
    BY <1>2, <1>4, <2>1, LostFrame
  <2> QED BY <1>1, <1>2, <1>4, <2>2, <2>3 DEF HttpInv, Down, Library
<1>9. Begins(got', answered')
  BY <1>2 DEF HttpInv, Numbered
<1> QED BY <1>2, <1>6, <1>7, <1>8, <1>9, ClientFrame

\* The client takes tokens from the network, Connection as many as it reads at a
\* time, a peer that pipelines all.
LEMMA ClientReceivesStep ==
  ASSUME HttpInv, NEW n \in Sizes, ClientReceives(n)
  PROVE  HttpInv'
<1>1. cli \in Calling /\ cli # Idle /\ net \in Nets /\ cli.buf \in Seq(Tokens) /\ net.down \in Seq(Tokens)
  BY DEF HttpInv, Types, ClientReceives, Calling, Nets
<1>2. UNCHANGED <<srv, asked, handled, answered, got, now, amb, stopping>>
  BY DEF ClientReceives, ClientOnly
<1>3. n \in 0..Len(net.down)
  BY <1>1, HttpAssumption DEF ClientReceives, Sizes
<1>4. PICK b \in Seq(Tokens), d \in Seq(Tokens) : b = cli.buf /\ d = net.down
  BY <1>1
<1>5. PICK u \in Seq(Tokens), v \in Seq(Tokens) : u = SubSeq(d, 1, n) /\ v = SubSeq(d, n + 1, Len(d))
  <2>1. SubSeq(d, 1, n) \in Seq(Tokens) /\ SubSeq(d, n + 1, Len(d)) \in Seq(Tokens)
    BY <1>3, <1>4, SeqCut
  <2> QED BY <2>1
<1>6. PICK w \in Seq(Tokens) : w = b \o u
  BY SeqCat
<1>7. /\ cli' \in Calling /\ cli'.pc = cli.pc /\ cli'.kind = cli.kind /\ cli'.out = cli.out
      /\ cli'.buf = IF Library THEN w ELSE b
  <2>1. cli' = [cli EXCEPT !.buf = IF Library THEN w ELSE b]
    BY <1>4, <1>5, <1>6 DEF ClientReceives
  <2>2. PICK z \in Seq(Tokens) : z = IF Library THEN w ELSE b
    OBVIOUS
  <2> QED BY <1>1, <2>1, <2>2 DEF Calling
<1>8. net' \in Nets /\ net'.up = net.up /\ net'.cfin = net.cfin /\ net'.sfin = net.sfin /\ net'.down = v
  <2>1. net' = [net EXCEPT !.down = v]
    BY <1>4, <1>5 DEF ClientReceives
  <2> QED BY <1>1, <2>1 DEF Nets
<1>9. cli' # Idle
  BY <1>7, NotIdle
<1>10. Types' /\ Ends'
  BY <1>1, <1>2, <1>7, <1>8, <1>9 DEF HttpInv, Types, Ends
<1>11. Up'
  <2>1. Taken' = Taken
    BY <1>2 DEF Taken
  <2> QED BY <1>1, <1>2, <1>7, <1>8, <2>1, UpFrame DEF HttpInv
<1>12. Down'
  <2>1. CASE ~ Library
    <3>1. cli'.buf = cli.buf
      BY <1>4, <1>7, <2>1
    <3>2. Closing => Closing'
      BY <1>2 DEF Closing
    <3> QED BY <1>1, <1>7, <2>1, <3>1, <3>2 DEF HttpInv, Down, Library
  <2>2. CASE Library
    <3>1. cli.pc = "recv"
      BY <2>2 DEF ClientReceives, Client
    <3>2. cli'.buf = w
      BY <1>7, <2>2
    <3>3. w \o v = b \o d
      <4>1. n \in 0..Len(d)
        BY <1>3, <1>4
      <4>2. (b \o SubSeq(d, 1, n)) \o SubSeq(d, n + 1, Len(d)) = b \o d
        BY <4>1, CatMoves
      <4> QED BY <1>5, <1>6, <4>2
    <3>4. cli'.buf \o net'.down = cli.buf \o net.down
      BY <1>4, <1>8, <3>2, <3>3
    <3>5. InSync => InSync'
      <4> SUFFICES ASSUME InSync PROVE InSync'
        OBVIOUS
      <4>1. PICK s \in Seq(Tokens), one \in Seq(Tokens), two \in Seq(Tokens), f \in Int :
              /\ Carries(s, one, two, f)
              /\ Begins(cli.buf \o net.down, s)
              /\ srv # Idle => s = (cli.buf \o net.down) \o srv.out
        BY DEF InSync
      <4>2. Carries(s, one, two, f)'
        BY <1>2, <3>4, <4>1 DEF Carries, Closing
      <4>3. Begins(cli'.buf \o net'.down, s) /\ (srv' # Idle => s = (cli'.buf \o net'.down) \o srv'.out)
        BY <1>2, <3>4, <4>1
      <4> QED BY <4>2, <4>3 DEF InSync
    <3>6. Lost => Lost'
      <4> SUFFICES ASSUME Lost PROVE Lost'
        OBVIOUS
      <4>1. n \in 0..Len(d) /\ Newlines(b) /\ Newlines(d)
        BY <1>3, <1>4 DEF Lost
      <4>2. /\ Newlines(b \o SubSeq(d, 1, n)) /\ Newlines(SubSeq(d, n + 1, Len(d)))
            /\ Len(b \o SubSeq(d, 1, n)) = Len(b) + n /\ Len(SubSeq(d, n + 1, Len(d))) = Len(d) - n
        BY <4>1, NewlinesMove
      <4>3. Newlines(w) /\ Newlines(v) /\ Len(w) = Len(b) + n /\ Len(v) = Len(d) - n
        BY <1>5, <1>6, <4>2
      <4>4. Left' = Left /\ Closing' /\ Left \in Seq(Tokens)
        BY <1>2 DEF Left, Lost, Closing, HttpInv, Types, Serving
      <4>5. PICK i \in Nat, j \in Nat, k \in Nat : i = Len(b) /\ j = Len(d) /\ k = Len(Left)
        BY <4>4, LenProperties
      <4>6. i + j + k <= 2
        BY <1>4, <4>5, Zenon DEF Lost
      <4>7. n \in Nat /\ Len(w) = i + n /\ Len(v) = j - n
        BY <4>1, <4>3, <4>5
      <4>8. (i + n) + (j - n) + k <= 2
        BY <4>6, <4>7
      <4>9. Len(cli'.buf) + Len(net'.down) + Len(Left') <= 2
        BY <1>8, <3>2, <4>4, <4>5, <4>7, <4>8
      <4>10. Newlines(Left')
        BY <4>4 DEF Lost
      <4> QED BY <1>8, <3>2, <4>3, <4>4, <4>9, <4>10 DEF Lost
    <3> QED BY <1>1, <1>2, <1>7, <2>2, <3>1, <3>5, <3>6 DEF HttpInv, Down, Library
  <2> QED BY <2>1, <2>2
<1>13. Begins(got', answered')
  BY <1>2 DEF HttpInv, Numbered
<1> QED BY <1>2, <1>8, <1>10, <1>11, <1>12, <1>13, ClientFrame

\* The client closes its end.
LEMMA ClientClosesStep ==
  ASSUME HttpInv, NEW reset \in BOOLEAN, ClientCloses(reset)
  PROVE  HttpInv'
<1>1. net \in Nets /\ cli' = Idle
  BY DEF HttpInv, Types, ClientCloses
<1>2. UNCHANGED <<srv, asked, handled, answered, got, now, amb, stopping>>
  BY DEF ClientCloses, ClientOnly
<1>3. PICK e \in Seq(Tokens) : e = <<>>
  <2>1. <<>> \in Seq(Tokens)
    OBVIOUS
  <2> QED BY <2>1, Zenon
<1>4. net' \in Nets /\ net'.cfin = TRUE /\ net'.sfin = net.sfin /\ (net'.up = net.up \/ net'.up = e)
  <2>1. PICK u \in Seq(Tokens), t \in BOOLEAN : u = (IF reset THEN e ELSE net.up) /\ t = (net.rst \/ reset)
    BY <1>1 DEF Nets
  <2>2. net' = [net EXCEPT !.cfin = TRUE, !.down = e, !.up = u, !.rst = t]
    BY <1>3, <2>1 DEF ClientCloses
  <2> QED BY <1>1, <2>1, <2>2 DEF Nets
<1>5. Types' /\ Ends'
  BY <1>1, <1>2, <1>4 DEF HttpInv, Types, Ends
<1>6. Up'
  <2> SUFFICES ASSUME srv # Idle
               PROVE  \E s \in Seq(Tokens) : Framing(s, Taken', asked') /\ Begins(srv'.buf \o net'.up, s)
    BY <1>1, <1>2 DEF Up
  <2>1. PICK b \in Seq(Tokens), u \in Seq(Tokens) : b = srv.buf /\ u = net.up
    BY DEF HttpInv, Types, Serving, Nets
  <2>2. PICK s \in Seq(Tokens) : Framing(s, Taken, asked) /\ Begins(b \o u, s)
    BY <2>1 DEF HttpInv, Up
  <2>3. Begins(b, s)
    BY <2>2, BeginsPart
  <2>4. b \o e = b
    BY <1>3
  <2>5. Taken' = Taken
    BY <1>2 DEF Taken
  <2> QED BY <1>2, <1>4, <2>1, <2>2, <2>3, <2>4, <2>5
<1>7. Down'
  BY <1>1 DEF Down
<1>8. Begins(got', answered')
  BY <1>2 DEF HttpInv, Numbered
<1> QED BY <1>2, <1>4, <1>5, <1>6, <1>7, <1>8, ClientFrame

\* t is what is left of the stream s when the buffer b is dropped; d is next.
Rest(t, b, d, s) ==
  /\ t \in Seq(Tokens) /\ Len(b) <= Len(s) /\ Len(t) = Len(s) - Len(b)
  /\ \A i \in 1..(Len(s) - Len(b)) : t[i] = s[Len(b) + i]
  /\ Begins(d, t)
  /\ \A o \in Seq(Tokens) : s = (b \o d) \o o => t = d \o o

\* What is behind the buffer of a call is the rest of the stream.
LEMMA RestOf ==
  ASSUME NEW b \in Seq(Tokens), NEW d \in Seq(Tokens), NEW s \in Seq(Tokens), Begins(b \o d, s)
  PROVE  Rest(SubSeq(s, Len(b) + 1, Len(s)), b, d, s)
<1>1. Begins(b, s)
  BY BeginsPart
<1>2. PICK n \in Nat, k \in Nat : n = Len(b) /\ k = Len(s) /\ n <= k
  BY <1>1, LenProperties DEF Begins
<1>3. n \in 0..Len(s) /\ n \in 0..Len(b)
  BY <1>2
<1>4. /\ SubSeq(s, n + 1, Len(s)) \in Seq(Tokens) /\ Len(SubSeq(s, n + 1, Len(s))) = Len(s) - n
      /\ \A i \in 1..(Len(s) - n) : SubSeq(s, n + 1, Len(s))[i] = s[n + i]
  BY <1>3, SeqCut
<1>5. PICK x \in Seq(Tokens) : x = b \o d /\ Len(x) = n + Len(d)
  BY <1>2, SeqCat
<1>6. n \in 0..Len(x)
  <2>1. PICK e \in Nat : e = Len(d)
    BY LenProperties
  <2> QED BY <1>2, <1>5, <2>1
<1>7. SubSeq(x, n + 1, Len(x)) = d
  <2>1. SubSeq(b \o d, n + 1, Len(b \o d)) = SubSeq(b, n + 1, Len(b)) \o d
    BY <1>3, DropCat
  <2>2. SubSeq(b, n + 1, Len(b)) = <<>>
    <3>1. SubSeq(b, n + 1, Len(b)) \in Seq(Tokens) /\ Len(SubSeq(b, n + 1, Len(b))) = Len(b) - n
      BY <1>3, SeqCut
    <3> QED BY <1>2, <3>1, SeqEmpty
  <2>3. <<>> \o d = d
    OBVIOUS
  <2> QED BY <1>5, <2>1, <2>2, <2>3
<1>8. Begins(d, SubSeq(s, n + 1, Len(s)))
  <2>1. Begins(SubSeq(x, n + 1, Len(x)), SubSeq(s, n + 1, Len(s)))
    BY <1>5, <1>6, DropBegins
  <2> QED BY <1>7, <2>1
<1>9. ASSUME NEW o \in Seq(Tokens), s = (b \o d) \o o PROVE SubSeq(s, n + 1, Len(s)) = d \o o
  <2>1. SubSeq(x \o o, n + 1, Len(x \o o)) = SubSeq(x, n + 1, Len(x)) \o o
    BY <1>6, DropCat
  <2> QED BY <1>5, <1>7, <1>9, <2>1
<1> QED BY <1>2, <1>4, <1>8, <1>9 DEF Rest

\* Nothing is found in an empty buffer.
LEMMA GetsNothing == ASSUME NEW eof PROVE GetResponse(<<>>, eof) = More
<1>1. PICK buf \in Seq(Tokens) : buf = <<>> /\ Len(buf) = 0
  <2>1. <<>> \in Seq(Tokens)
    BY EmptySeq
  <2>2. Len(<<>>) = 0
    OBVIOUS
  <2> QED BY <2>1, <2>2
<1>2. find_double_crlf(buf) = 0
  <2>1. Len(buf) < 3 /\ ~(Len(buf) > 0)
    BY <1>1
  <2> QED BY <2>1, FindNone
<1> QED BY <1>1, <1>2 DEF GetResponse

\* What is left may be newlines only, and then no call returns from it.
LEMMA RestLost ==
  ASSUME NEW t \in Seq(Tokens), Newlines(t), Len(t) <= 2, Closing, UNCHANGED <<srv, net>>, cli'.buf = <<>>,
         NEW d \in Seq(Tokens), d = net.down, Begins(d, t),
         srv # Idle => srv.out \in Seq(Tokens) /\ t = d \o srv.out
  PROVE  Lost'
<1>1. PICK n \in Nat, e \in Nat : n = Len(t) /\ e = Len(d) /\ DOMAIN t = 1..n /\ DOMAIN d = 1..e
  BY LenProperties
<1>2. n <= 2 /\ e <= n /\ (\A i \in 1..e : d[i] = t[i]) /\ (\A i \in 1..n : t[i] = NL)
  <2>1. n <= 2
    BY <1>1, Zenon
  <2>2. e <= n /\ (\A i \in 1..e : d[i] = t[i])
    BY <1>1 DEF Begins
  <2> QED BY <1>1, <2>1, <2>2 DEF Newlines
<1>3. Newlines(d)
  BY <1>1, <1>2 DEF Newlines
<1>4. Newlines(Left) /\ Len(Left) \in Nat /\ e + Len(Left) <= 2
  <2>1. CASE srv = Idle
    <3>1. Left = <<>> /\ Newlines(<<>>) /\ Len(<<>>) = 0
      BY <2>1 DEF Left, Newlines
    <3>2. e + 0 <= 2
      BY <1>2
    <3> QED BY <3>1, <3>2
  <2>2. CASE srv # Idle
    <3>1. PICK o \in Seq(Tokens) : o = srv.out /\ t = d \o o
      BY <2>2
    <3>2. PICK k \in Nat : k = Len(o) /\ DOMAIN o = 1..k
      BY LenProperties
    <3>3. Len(d \o o) = Len(d) + Len(o) /\ \A i \in 1..Len(o) : (d \o o)[Len(d) + i] = o[i]
      BY SeqCat
    <3>4. n = e + k /\ \A i \in 1..k : t[e + i] = o[i]
      BY <1>1, <3>1, <3>2, <3>3
    <3>5. \A i \in 1..k : o[i] = NL
      <4> SUFFICES ASSUME NEW i \in 1..k PROVE o[i] = NL
        OBVIOUS
      <4>1. e + i \in 1..n
        BY <3>4
      <4> QED BY <1>2, <3>4, <4>1
    <3>6. Newlines(o) /\ e + k <= 2
      BY <1>2, <3>2, <3>4, <3>5 DEF Newlines
    <3>7. Left = o
      BY <2>2, <3>1 DEF Left
    <3> QED BY <3>2, <3>6, <3>7
  <2> QED BY <2>1, <2>2
<1>5. Left' = Left /\ Closing' /\ Newlines(<<>>) /\ Len(<<>>) = 0
  BY DEF Left, Closing, Newlines
<1>6. Len(cli'.buf) + Len(net'.down) + Len(Left') <= 2
  <2>1. PICK k \in Nat : k = Len(Left) /\ e + k <= 2
    BY <1>4
  <2>2. 0 + e + k <= 2
    BY <2>1
  <2> QED BY <1>1, <1>5, <2>1, <2>2
<1> QED BY <1>3, <1>4, <1>5, <1>6 DEF Lost

\* What is left when a call has returned a response from its buffer: nothing, a
\* 400 behind it, or newlines.
LEMMA RestInSync ==
  ASSUME HttpInv, cli # Idle, UNCHANGED <<srv, net, answered>>, cli'.buf = <<>>,
         NEW s \in Seq(Tokens), NEW one \in Seq(Tokens), NEW two \in Seq(Tokens), NEW f \in Int,
         Carries(s, one, two, f), Begins(cli.buf \o net.down, s),
         srv # Idle => s = (cli.buf \o net.down) \o srv.out,
         NEW m \in Messages, m = answered[Len(got) + 1], got' = Append(got, m), Len(answered) # Len(got),
         \/ f = Len(m[2]) /\ Len(one) <= Len(cli.buf)
         \/ f = Chunked /\ Len(one) <= Len(cli.buf) + 1
  PROVE  InSync' \/ Lost'
<1>1. PICK b \in Seq(Tokens), d \in Seq(Tokens) : b = cli.buf /\ d = net.down
  BY DEF HttpInv, Types, Calling, Nets
<1>2. PICK a \in Nat, g \in Nat : a = Len(answered) /\ g = Len(got) /\ answered \in Seq(Messages) /\ got \in Seq(Messages)
  BY DEF HttpInv, Types
<1>3. Len(got') = g + 1 /\ Len(answered') = a /\ answered' = answered /\ srv' = srv
  BY <1>2
<1>4. srv # Idle => srv.out \in Seq(Tokens)
  BY DEF HttpInv, Types, Serving
<1>5. PICK t \in Seq(Tokens) :
        /\ Len(b) <= Len(s) /\ Len(t) = Len(s) - Len(b)
        /\ \A i \in 1..(Len(s) - Len(b)) : t[i] = s[Len(b) + i]
        /\ Begins(d, t)
        /\ srv # Idle => t = d \o srv.out
  <2>1. Begins(b \o d, s)
    BY <1>1
  <2>2. PICK t : Rest(t, b, d, s)
    BY <2>1, RestOf
  <2>3. srv # Idle => t = d \o srv.out
    BY <1>1, <1>4, <2>2 DEF Rest
  <2> QED BY <2>2, <2>3 DEF Rest
<1>6. PICK n \in Nat, k \in Nat, j \in Nat : n = Len(b) /\ k = Len(s) /\ j = Len(one)
  BY LenProperties
<1>7. n <= k /\ Len(t) = k - n /\ \A i \in 1..(k - n) : t[i] = s[n + i]
  BY <1>5, <1>6
<1>8. <<>> \in Seq(Tokens) /\ <<>> \o d = d
  OBVIOUS
<1>8a. PICK e \in Seq(Tokens) : e = <<>>
  BY <1>8, Zenon
<1>8b. PICK z \in Int : z = 0
  OBVIOUS
<1>9. ASSUME Newlines(t), Len(t) <= 2, Closing PROVE Lost'
  BY <1>1, <1>4, <1>5, <1>9, RestLost
<1>10. a = g + 1 => two = <<>>
  BY <1>2 DEF Carries
<1>11. s = one \o two /\ \E close \in BOOLEAN : one = Reply(m, f, close)
  BY <1>2 DEF Carries
<1>12. f # Len(m[2]) => a = g + 1 /\ Closing
  BY <1>2 DEF Carries
<1>13. a = g + 1 \/ a = g + 2
  BY <1>2 DEF Carries
<1>14. a = g + 2 => two = Reply(answered[a], 0, FALSE) /\ answered[a][2] = <<>> /\ Closing
  BY <1>2 DEF Carries
<1>15. CASE f = Len(m[2]) /\ a = g + 1
  <2>1. s = one
    <3>1. one \o <<>> = one
      OBVIOUS
    <3> QED BY <1>10, <1>11, <1>15, <3>1
  <2>2. j <= n /\ k = j
    <3>1. j <= n
      <4>1. Len(m[2]) # Chunked
        <5>1. m[2] \in Payloads
          BY DEF Messages
        <5> QED BY <5>1, PayloadTypes DEF Chunked
      <4> QED BY <1>1, <1>6, <1>15, <4>1
    <3> QED BY <1>6, <2>1, <3>1
  <2>3. Len(t) = 0
    BY <1>7, <2>2
  <2>4. t = <<>>
    BY <2>3, SeqEmpty
  <2>5. d = <<>>
    <3>1. PICK l \in Nat : l = Len(d)
      BY LenProperties
    <3>2. l <= 0
      BY <1>5, <2>3, <3>1 DEF Begins
    <3>3. Len(d) = 0
      BY <3>1, <3>2
    <3> QED BY <3>3, SeqEmpty
  <2>6. Carries(<<>>, <<>>, <<>>, 0)'
    <3>1. <<>> = <<>> \o <<>>
      OBVIOUS
    <3>2. a # (g + 1) + 1 /\ a # (g + 1) + 2 /\ a = g + 1
      BY <1>15
    <3> QED BY <1>2, <1>3, <3>1, <3>2 DEF Carries
  <2>7. Begins(cli'.buf \o net'.down, <<>>)
    BY <1>1, <1>8, <2>5, BeginsCat
  <2>8. srv' # Idle => <<>> = (cli'.buf \o net'.down) \o srv'.out
    BY <1>1, <1>3, <1>5, <1>8, <2>4, <2>5
  <2>10. /\ Carries(e, e, e, z)' /\ Begins(cli'.buf \o net'.down, e)
         /\ srv' # Idle => e = (cli'.buf \o net'.down) \o srv'.out
    BY <1>8a, <1>8b, <2>6, <2>7, <2>8
  <2>11. InSync'
    BY <2>10 DEF InSync
  <2> QED BY <2>11
<1>16. CASE f = Len(m[2]) /\ a = g + 2
  <2>1. PICK q \in Messages : q = answered[a] /\ q[2] = <<>> /\ Len(q[2]) = 0
    <3>1. a \in 1..Len(answered)
      BY <1>2, <1>16
    <3>2. answered[a] \in Messages
      BY <1>2, <3>1
    <3> QED BY <1>14, <1>16, <3>2
  <2>2. 0 \in Framings(q)
    BY <2>1 DEF Framings
  <2>3. two = Reply(q, 0, FALSE) /\ Len(two) = 3 /\ two[2] = NL /\ two[3] = NL
    <3>1. two = Reply(q, 0, FALSE)
      BY <1>14, <1>16, <2>1
    <3>2. /\ Len(Reply(q, 0, FALSE)) = 3 + Len(Content(q, 0))
          /\ Reply(q, 0, FALSE)[2] = NL /\ Reply(q, 0, FALSE)[3] = NL
      BY <2>2, ReplyTypes
    <3>3. Len(Content(q, 0)) = 0
      BY <2>1 DEF Content, Chunked
    <3>4. 3 + 0 = 3
      OBVIOUS
    <3> QED BY <3>1, <3>2, <3>3, <3>4
  <2>4. k = j + 3 /\ \A i \in 1..3 : s[j + i] = two[i]
    <3>1. Len(one \o two) = Len(one) + Len(two) /\ \A i \in 1..Len(two) : (one \o two)[Len(one) + i] = two[i]
      BY SeqCat
    <3> QED BY <1>6, <1>11, <2>3, <3>1
  <2>5. j <= n /\ Closing
    <3>1. Len(m[2]) # Chunked
      <4>1. m[2] \in Payloads
        BY DEF Messages
      <4> QED BY <4>1, PayloadTypes DEF Chunked
    <3> QED BY <1>1, <1>6, <1>14, <1>16, <3>1
  <2>6. CASE n = j
    <3>1. t = two
      <4>0. k - n = 3
        BY <2>4, <2>6
      <4>1. Len(t) = 3 /\ \A i \in 1..3 : t[i] = two[i]
        BY <1>7, <2>4, <2>6, <4>0
      <4> QED BY <2>3, <4>1, SeqEqual
    <3>2. Carries(two, two, <<>>, 0)'
      <4>1. two = two \o <<>>
        OBVIOUS
      <4>2. a = (g + 1) + 1 /\ a # g + 1 /\ a # (g + 1) + 2
        BY <1>16
      <4>3. answered'[(g + 1) + 1] = q
        BY <1>3, <2>1, <4>2
      <4>4. \E close \in BOOLEAN : two = Reply(q, 0, close)
        BY <2>3
      <4>5. 0 # NoLength /\ 0 = Len(answered'[(g + 1) + 1][2])
        BY <2>1, <4>3 DEF NoLength
      <4> QED BY <1>2, <1>3, <4>1, <4>2, <4>3, <4>4, <4>5 DEF Carries
    <3>3. Begins(cli'.buf \o net'.down, two)
      BY <1>1, <1>5, <1>8, <3>1
    <3>4. srv' # Idle => two = (cli'.buf \o net'.down) \o srv'.out
      BY <1>1, <1>3, <1>5, <1>8, <3>1
    <3>5. Carries(two, two, e, z)'
      BY <1>8a, <1>8b, <3>2
    <3>6. InSync'
      BY <3>3, <3>4, <3>5 DEF InSync
    <3> QED BY <3>6
  <2>7. CASE n # j
    <3>0. k = j + 3 /\ j <= n
      BY <2>4, <2>5, Zenon
    <3>1. k - n <= 2
      BY <2>7, <3>0
    <3>2. Newlines(t)
      <4> SUFFICES ASSUME NEW i \in 1..(k - n) PROVE t[i] = NL
        BY <1>7, LenProperties DEF Newlines
      <4>1. PICK p \in {2, 3} : n + i = j + p
        <5>1. (n + i) - j \in {2, 3} /\ n + i = j + ((n + i) - j)
          BY <1>7, <2>4, <2>5, <2>7
        <5> QED BY <5>1
      <4>2. p \in 1..3 /\ two[p] = NL
        <5>1. p = 2 \/ p = 3
          OBVIOUS
        <5>2. two[p] = NL
          BY <2>3, <5>1, Zenon
        <5> QED BY <5>1, <5>2
      <4>3. t[i] = s[j + p]
        BY <1>7, <4>1
      <4> QED BY <2>4, <4>2, <4>3
    <3> QED BY <1>7, <1>9, <2>5, <3>1, <3>2
  <2> QED BY <2>6, <2>7
<1>17. CASE f = Chunked /\ f # Len(m[2])
  <2>1. PICK close \in BOOLEAN : one = Reply(m, f, close)
    BY <1>11
  <2>2. f \in Framings(m) /\ m[2] \in Payloads
    BY <1>17 DEF Framings, Messages
  <2>3. /\ Chunks(m[2]) \in Seq(Tokens) /\ Len(Chunks(m[2])) \in Nat /\ Len(Chunks(m[2])) >= 3
        /\ Chunks(m[2])[Len(Chunks(m[2]))] = NL
    BY <2>2, ChunksTypes
  <2>4. Content(m, f) = Chunks(m[2])
    BY <1>17 DEF Content
  <2>5. PICK c \in Nat : c = Len(Chunks(m[2])) /\ c >= 3
    BY <2>3
  <2>6. /\ Len(Reply(m, f, close)) = 3 + Len(Content(m, f))
        /\ \A i \in 1..Len(Content(m, f)) : Reply(m, f, close)[3 + i] = Content(m, f)[i]
    BY <2>2, ReplyTypes
  <2>7. j = 3 + c /\ one[j] = NL
    <3>1. j = 3 + c
      BY <1>6, <2>1, <2>4, <2>5, <2>6
    <3>2. c \in 1..c
      BY <2>5
    <3>3. one[3 + c] = Chunks(m[2])[c]
      BY <2>1, <2>4, <2>5, <2>6, <3>2
    <3> QED BY <2>3, <2>5, <3>1, <3>3
  <2>8. s = one
    <3>1. one \o <<>> = one
      OBVIOUS
    <3> QED BY <1>10, <1>11, <1>12, <1>17, <3>1
  <2>9. k = j /\ j <= n + 1
    BY <1>1, <1>6, <1>17, <2>8
  <2>10. k - n <= 1
    BY <1>7, <2>9
  <2>11. Newlines(t)
    <3> SUFFICES ASSUME NEW i \in 1..(k - n) PROVE t[i] = NL
      BY <1>7, LenProperties DEF Newlines
    <3>1. n + i = j
      BY <1>7, <2>9
    <3> QED BY <1>7, <2>7, <2>8, <3>1
  <2>12. k - n <= 2
    BY <1>7, <2>10
  <2> QED BY <1>7, <1>9, <1>12, <1>17, <2>11, <2>12
<1> QED BY <1>13, <1>15, <1>16, <1>17

\* A call in getresponse finds more to read, the response that the server sent
\* next, or nothing on a connection that the server closes.
Returned(r) ==
  \/ r = Bad /\ Closing
  \/ /\ r.st = "ok" /\ <<r.id, r.body>> \in Messages /\ Begins(got', answered)
     /\ InSync' \/ Lost'

\* A call that returns has the response, or found the connection closing.
LEMMA CallReturns ==
  ASSUME HttpInv, cli \in Calling, cli.pc = "recv",
         NEW eof \in BOOLEAN, eof => srv = Idle /\ net.down = <<>>,
         NEW r, r = GetResponse(cli.buf, eof), r # More, Return(r)
  PROVE  Returned(r)
<1>0. /\ UNCHANGED <<srv, net, answered>> /\ cli'.buf = <<>>
      /\ r.st = "ok" => got' = Append(got, <<r.id, r.body>>)
  <2>1. UNCHANGED <<srv, net, answered>>
    BY DEF Return, ClientOnly
  <2>2. cli'.buf = <<>>
    BY DEF Return, Calling
  <2> QED BY <2>1, <2>2 DEF Return
<1> USE <1>0
<1> SUFFICES \/ r = Bad /\ Closing
             \/ /\ r.st = "ok" /\ <<r.id, r.body>> \in Messages /\ Begins(got', answered)
                /\ InSync' \/ Lost'
  BY DEF Returned
<1>1. cli # Idle
  BY NotIdle
<1>2. InSync \/ Lost
  BY <1>1 DEF HttpInv, Down
<1>3. PICK b \in Seq(Tokens), d \in Seq(Tokens) : b = cli.buf /\ d = net.down
  BY DEF HttpInv, Types, Calling, Nets
<1>4. CASE Lost
  <2>1. PICK n \in Nat, k \in Nat, j \in Nat : n = Len(b) /\ k = Len(d) /\ j = Len(Left)
    <3>1. Left \in Seq(Tokens)
      BY DEF Left, HttpInv, Types, Serving
    <3> QED BY <3>1, LenProperties
  <2>2. n + k + j <= 2
    BY <1>3, <1>4, <2>1, Zenon DEF Lost
  <2>3. n <= 2
    BY <2>2
  <2>4. Newlines(b) /\ Len(b) <= 2 /\ Closing
    BY <1>3, <1>4, <2>1, <2>3 DEF Lost
  <2>5. GetResponse(b, eof) \in {More, Bad}
    BY <2>4, GetsNewlines
  <2> QED BY <1>3, <2>4, <2>5
<1>5. CASE InSync
  <2>1. PICK s \in Seq(Tokens), one \in Seq(Tokens), two \in Seq(Tokens), f \in Int :
          /\ Carries(s, one, two, f)
          /\ Begins(cli.buf \o net.down, s)
          /\ srv # Idle => s = (cli.buf \o net.down) \o srv.out
    BY <1>5 DEF InSync
  <2>2. PICK a \in Nat, g \in Nat :
          a = Len(answered) /\ g = Len(got) /\ answered \in Seq(Messages) /\ got \in Seq(Messages)
    BY DEF HttpInv, Types
  <2>3. Begins(b, s)
    BY <1>3, <2>1, BeginsPart
  <2>4. CASE a = g
    <3>1. Len(s) = 0
      BY <2>1, <2>2, <2>4 DEF Carries
    <3>2. PICK n \in Nat : n = Len(b)
      BY LenProperties
    <3>3. n <= 0
      BY <2>3, <3>1, <3>2 DEF Begins
    <3>4. Len(b) = 0
      BY <3>2, <3>3
    <3>5. b = <<>>
      BY <3>4, SeqEmpty
    <3> QED BY <1>3, <3>5, GetsNothing
  <2>5. CASE a # g
    <3>1. g + 1 \in 1..Len(answered)
      <4>1. g <= a
        BY <2>2 DEF HttpInv, Numbered, Begins
      <4> QED BY <2>2, <2>5, <4>1
    <3>2. PICK m \in Messages : m = answered[g + 1]
      BY <2>2, <3>1
    <3>3. PICK close \in BOOLEAN : one = Reply(m, f, close)
      BY <2>1, <2>2, <2>5, <3>2 DEF Carries
    <3>4. f \in Framings(m)
      BY <2>1, <2>2, <2>5, <3>2 DEF Carries, Framings
    <3>5. s = one \o two
      BY <2>1 DEF Carries
    <3>6. f # Len(m[2]) => two = <<>>
      BY <2>1, <2>2, <2>5, <3>2 DEF Carries
    <3>7. eof /\ f = NoLength => b = s
      <4> SUFFICES ASSUME eof, f = NoLength PROVE b = s
        OBVIOUS
      <4>1. s = cli.buf \o net.down
        BY <2>1, <2>2, <2>5 DEF Carries
      <4>2. b \o <<>> = b
        OBVIOUS
      <4> QED BY <1>3, <4>1, <4>2
    <3>8. /\ r.st = "ok" /\ r.id = m[1] /\ r.body = m[2]
          /\ f = Len(m[2]) => Len(one) <= Len(b)
          /\ f = Chunked => Len(one) <= Len(b) + 1
          /\ f = NoLength => eof
      <4>1. Gets(GetResponse(b, eof), m, f, one, b, eof)
        <5>1. Arriving(m, f, close, one, two, s, b, eof)
          BY <2>3, <3>3, <3>4, <3>5, <3>6, <3>7 DEF Arriving
        <5> QED BY <5>1, GetsReply
      <4> QED BY <1>3, <4>1 DEF Gets
    <3>9. <<r.id, r.body>> = m
      BY <3>8 DEF Messages
    <3>10. got' = Append(got, m) /\ Len(got') = g + 1
      <4>1. got' = Append(got, <<r.id, r.body>>)
        BY <3>8
      <4>2. got' = Append(got, m)
        BY <3>9, <4>1
      <4> QED BY <2>2, <4>2
    <3>11. Begins(got', answered)
      <4>1. g <= a /\ (\A i \in 1..g : got[i] = answered[i]) /\ g + 1 <= a
        <5>1. \A i \in 1..g : got[i] = answered[i]
          BY <2>2 DEF HttpInv, Numbered, Begins
        <5>2. g <= a /\ g + 1 <= a
          BY <2>2, <3>1
        <5> QED BY <5>1, <5>2
      <4>2. ASSUME NEW i \in 1..(g + 1) PROVE got'[i] = answered[i]
        <5>1. i \in 1..g \/ i = g + 1
          BY <2>2
        <5>2. got'[g + 1] = m /\ \A l \in 1..g : got'[l] = got[l]
          BY <2>2, <3>10
        <5> QED BY <3>2, <4>1, <5>1, <5>2
      <4> QED BY <2>2, <3>10, <4>1, <4>2 DEF Begins
    <3>12. InSync' \/ Lost'
      <4>1. CASE eof
        <5>1. Left = <<>> /\ Newlines(<<>>) /\ Closing /\ Left' = <<>> /\ Closing'
          BY <4>1 DEF Left, Newlines, Closing
        <5>2. cli'.buf = <<>> /\ net'.down = <<>> /\ Len(<<>>) = 0 /\ 0 + 0 + 0 <= 2
          BY <4>1
        <5> QED BY <5>1, <5>2 DEF Lost
      <4>2. CASE ~ eof
        <5>1. \/ f = Len(m[2]) /\ Len(one) <= Len(cli.buf)
              \/ f = Chunked /\ Len(one) <= Len(cli.buf) + 1
          BY <1>3, <3>4, <3>8, <4>2 DEF Framings
        <5>2. m = answered[Len(got) + 1] /\ Len(answered) # Len(got)
          BY <2>2, <2>5, <3>2
        <5> QED BY <1>1, <2>1, <3>10, <5>1, <5>2, RestInSync
      <4> QED BY <4>1, <4>2
    <3> QED BY <3>8, <3>9, <3>11, <3>12
  <2> QED BY <2>4, <2>5
<1> QED BY <1>2, <1>4, <1>5

\* getresponse returns.
LEMMA ReturnStep ==
  ASSUME HttpInv, cli \in Calling, cli.pc = "recv", NEW r, Return(r),
         \/ r.st # "ok" /\ Closing
         \/ /\ r.st = "ok" /\ <<r.id, r.body>> \in Messages /\ Begins(got', answered)
            /\ InSync' \/ Lost'
  PROVE  HttpInv'
<1>1. cli # Idle /\ Library /\ Len(asked) = Len(got) + 1
  BY NotIdle DEF HttpInv, Down
<1>2. UNCHANGED <<net, srv, asked, handled, answered, now, amb, stopping>>
  BY DEF Return, ClientOnly
<1>3. PICK e \in Seq(Tokens) : e = <<>>
  <2>1. <<>> \in Seq(Tokens)
    OBVIOUS
  <2> QED BY <2>1, Zenon
<1>4. PICK p \in {"ready", "failed"} : p = IF r.st = "ok" THEN "ready" ELSE "failed"
  OBVIOUS
<1>5. /\ cli' \in Calling /\ cli'.pc = p /\ cli'.kind = cli.kind /\ cli'.buf = <<>> /\ cli'.out = cli.out
  <2>1. cli' = [cli EXCEPT !.pc = p, !.buf = e]
    BY <1>3, <1>4 DEF Return
  <2> QED BY <1>3, <2>1 DEF Calling
<1>6. cli' # Idle
  BY <1>5, NotIdle
<1>7. got \in Seq(Messages) /\ (r.st = "ok" => got' = Append(got, <<r.id, r.body>>)) /\ (r.st # "ok" => got' = got)
  BY DEF Return, HttpInv, Types
<1>8. got' \in Seq(Messages) /\ (r.st = "ok" => Len(got') = Len(got) + 1)
  <2>1. CASE r.st = "ok"
    <3>1. PICK m \in Messages : m = <<r.id, r.body>>
      BY <2>1
    <3>2. got' = Append(got, m)
      BY <1>7, <2>1, <3>1
    <3>3. Append(got, m) \in Seq(Messages) /\ Len(Append(got, m)) = Len(got) + 1
      BY <1>7
    <3> QED BY <3>2, <3>3
  <2>2. CASE r.st # "ok"
    BY <1>7, <2>2
  <2> QED BY <2>1, <2>2
<1>9. Types' /\ Ends'
  BY <1>1, <1>2, <1>5, <1>6, <1>8 DEF HttpInv, Types, Ends
<1>10. Up'
  <2>1. Taken' = Taken
    BY <1>2 DEF Taken
  <2> QED BY <1>1, <1>2, <1>5, <2>1, UpFrame DEF HttpInv
<1>11. Down'
  <2>1. CASE r.st = "ok"
    <3>1. cli'.pc = "ready" /\ Len(asked') = Len(got') /\ (InSync' \/ Lost')
      BY <1>1, <1>2, <1>4, <1>5, <1>8, <2>1
    <3> QED BY <1>5, <3>1 DEF Down
  <2>2. CASE r.st # "ok"
    <3>1. cli'.pc = "failed" /\ Closing'
      BY <1>2, <1>4, <1>5, <2>2 DEF Closing
    <3> QED BY <1>5, <3>1 DEF Down
  <2> QED BY <2>1, <2>2
<1>12. Begins(got', answered')
  BY <1>2, <1>7 DEF HttpInv, Numbered
<1> QED BY <1>2, <1>9, <1>10, <1>11, <1>12, ClientFrame

\* Both ways for getresponse to return.
LEMMA GetresponseStep ==
  ASSUME HttpInv, GetresponseReturns \/ GetresponseAtEof
  PROVE  HttpInv'
<1>1. cli \in Calling /\ cli.pc = "recv"
  BY DEF HttpInv, Types, GetresponseReturns, GetresponseAtEof, Client
<1>2. Bad.st # "ok" /\ More.st # "ok"
  BY DEF Bad, More
<1>3. ASSUME NEW r, Return(r), Returned(r) PROVE HttpInv'
  BY <1>1, <1>2, <1>3, ReturnStep DEF Returned
<1>4. CASE GetresponseReturns
  <2>0. PICK eof \in BOOLEAN : eof = FALSE
    OBVIOUS
  <2>1. PICK r : r = GetResponse(cli.buf, eof)
    OBVIOUS
  <2>2. r # More /\ Return(r)
    BY <1>4, <2>0, <2>1 DEF GetresponseReturns
  <2>3. Returned(r)
    BY <1>1, <2>0, <2>1, <2>2, CallReturns
  <2> QED BY <1>3, <2>2, <2>3
<1>5. CASE GetresponseAtEof
  <2>0. PICK eof \in BOOLEAN : eof = TRUE
    OBVIOUS
  <2>1. PICK r : r = GetResponse(cli.buf, eof)
    OBVIOUS
  <2>2. srv = Idle /\ net.down = <<>> /\ Closing
    BY <1>5 DEF GetresponseAtEof, HttpInv, Ends, Closing
  <2>3. CASE net.rst
    <3>1. Return(Bad)
      BY <1>5, <2>3 DEF GetresponseAtEof
    <3> QED BY <1>1, <1>2, <2>2, <3>1, ReturnStep
  <2>4. CASE ~ net.rst
    <3>1. Return(r)
      BY <1>5, <2>0, <2>1, <2>4 DEF GetresponseAtEof
    <3>2. CASE r = More
      BY <1>1, <1>2, <2>2, <3>1, <3>2, ReturnStep
    <3>3. CASE r # More
      <4>1. Returned(r)
        BY <1>1, <2>1, <2>2, <3>1, <3>3, CallReturns
      <4> QED BY <1>3, <3>1, <4>1
    <3> QED BY <3>2, <3>3
  <2> QED BY <2>3, <2>4
<1> QED BY <1>4, <1>5

-----------------------------------------------------------------------------
(* The other steps.                                                         *)

\* A new connection.
LEMMA ServeStep ==
  ASSUME HttpInv, NEW client \in Clients, NEW server \in {"library", "foreign"}, NEW limit \in Nat,
         server = "foreign" => limit = 0, Serve(client, server, limit)
  PROVE  HttpInv'
<1>1. PICK e \in Seq(Tokens) : e = <<>>
  <2>1. <<>> \in Seq(Tokens)
    OBVIOUS
  <2> QED BY <2>1, Zenon
<1>2. PICK none \in Seq(Messages) : none = <<>> /\ Len(none) = 0 /\ DOMAIN none = {}
  <2>1. <<>> \in Seq(Messages) /\ Len(<<>>) = 0 /\ DOMAIN <<>> = {}
    OBVIOUS
  <2> QED BY <2>1, Zenon
<1>3. /\ net' \in Nets /\ net'.up = e /\ net'.down = e /\ net'.cfin = FALSE /\ net'.sfin = FALSE
  <2>1. net' = [up |-> e, down |-> e, cfin |-> FALSE, sfin |-> FALSE, rst |-> FALSE]
    BY <1>1 DEF Serve
  <2> QED BY <2>1 DEF Nets
<1>4. cli' \in Calling /\ cli'.pc = "ready" /\ cli'.out = e /\ cli'.buf = e
  <2>1. cli' = [pc |-> "ready", kind |-> client, out |-> e, buf |-> e]
    BY <1>1 DEF Serve
  <2> QED BY <2>1 DEF Calling
<1>5. /\ srv' \in Serving /\ srv'.pc = "read" /\ srv'.kind = server /\ srv'.buf = e /\ srv'.out = e
      /\ srv'.close = FALSE
  <2>1. srv' = [pc |-> "read", kind |-> server, buf |-> e, out |-> e, req |-> More,
                first |-> TRUE, close |-> FALSE, early |-> FALSE, slept |-> "no"]
    BY <1>1 DEF Serve
  <2> QED BY <2>1 DEF Serving
<1>6. /\ asked' = none /\ handled' = none /\ answered' = none /\ got' = none
      /\ now' = now /\ stopping' = stopping
  BY <1>2 DEF Serve
<1>7. cli' # Idle /\ srv' # Idle
  BY <1>4, <1>5, NotIdle
<1>8. Types' /\ Ends'
  BY <1>2, <1>3, <1>4, <1>5, <1>6, <1>7 DEF HttpInv, Types, Ends
<1>9. Scopes'
  <2>1. Nested(amb) /\ Len(amb.limits) = 0 /\ now \in Nat
    BY DEF HttpInv, Scopes, Serve, Types
  <2>2. CASE limit = 0
    <3>1. amb' = amb
      BY <2>2 DEF Serve
    <3>2. 0 <= 1
      OBVIOUS
    <3> QED BY <1>5, <1>7, <2>1, <3>1, <3>2 DEF Scopes
  <2>3. CASE limit # 0
    <3>1. amb' = EnterTimeout(amb, now, limit) /\ server = "library"
      BY <2>3 DEF Serve
    <3>2. Nested(EnterTimeout(amb, now, limit)) /\ Len(EnterTimeout(amb, now, limit).limits) = Len(amb.limits) + 1
      BY <2>1, EnterNests
    <3>3. Nested(amb') /\ Len(amb'.limits) = 0 + 1
      BY <2>1, <3>1, <3>2, Zenon
    <3>4. 0 + 1 <= 1
      OBVIOUS
    <3>5. Len(amb'.limits) <= 1
      BY <3>3, <3>4
    <3> QED BY <1>5, <1>7, <3>1, <3>3, <3>5 DEF Scopes
  <2> QED BY <2>2, <2>3
<1>10. Begins(none, none) /\ Framing(e, 0, none)
  BY <1>1, <1>2, BeginsCat, FramingEmpty
<1>11. Numbered' /\ Refused'
  BY <1>2, <1>6, <1>10 DEF Numbered, Refused
<1>12. Served'
  BY <1>1, <1>2, <1>5, <1>6 DEF Served
<1>13. e \o e = e /\ Begins(e, e)
  <2>1. <<>> \o <<>> = <<>>
    OBVIOUS
  <2>2. Begins(e, e)
    BY BeginsCat
  <2> QED BY <1>1, <2>1, <2>2, Zenon
<1>14. Up'
  <2>1. Taken' = 0
    BY <1>2, <1>6 DEF Taken
  <2> QED BY <1>3, <1>4, <1>5, <1>6, <1>10, <1>13, <2>1 DEF Up
<1>15. InSync'
  <2>1. PICK z \in Int : z = 0
    OBVIOUS
  <2>2. 0 # 0 + 1 /\ 0 # 0 + 2
    OBVIOUS
  <2>3. Carries(e, e, e, z)'
    BY <1>1, <1>2, <1>6, <1>13, <2>2 DEF Carries
  <2>4. Begins(cli'.buf \o net'.down, e) /\ e = (cli'.buf \o net'.down) \o srv'.out
    BY <1>3, <1>4, <1>5, <1>13
  <2> QED BY <2>3, <2>4 DEF InSync
<1>16. Down'
  BY <1>1, <1>4, <1>6, <1>15 DEF Down
<1> QED BY <1>8, <1>9, <1>11, <1>12, <1>14, <1>16 DEF HttpInv

\* Time passes, and the reactor is told to stop.
LEMMA ClockStep ==
  ASSUME HttpInv, UNCHANGED <<net, srv, cli, asked, handled, answered, got, amb>>,
         now' \in Nat, now <= now', stopping' \in BOOLEAN, stopping => stopping'
  PROVE  HttpInv'
<1>1. Types' /\ Ends' /\ Scopes' /\ Numbered' /\ Served'
  BY DEF HttpInv, Types, Ends, Scopes, Numbered, Served
<1>2. Refused'
  <2>1. amb.limits # <<>> /\ amb.limits[1] <= now => amb.limits[1] <= now'
    <3> SUFFICES ASSUME amb.limits # <<>>, amb.limits[1] <= now PROVE amb.limits[1] <= now'
      OBVIOUS
    <3>1. amb.limits \in Seq(Nat) /\ now \in Nat
      BY DEF HttpInv, Scopes, Nested, Types
    <3>2. amb.limits[1] \in Nat
      BY <3>1
    <3> QED BY <3>1, <3>2
  <2> QED BY <2>1 DEF HttpInv, Refused
<1>3. Up'
  <2>1. Taken' = Taken
    BY DEF Taken
  <2> QED BY <2>1, UpFrame DEF HttpInv
<1>4. Down'
  BY SameServerFrame, DownFrame DEF HttpInv
<1> QED BY <1>1, <1>2, <1>3, <1>4 DEF HttpInv

-----------------------------------------------------------------------------

\* The invariant holds at the start,
LEMMA InvInit == ASSUME Init PROVE HttpInv
<1>1. PICK e \in Seq(Tokens) : e = <<>>
  <2>1. <<>> \in Seq(Tokens)
    OBVIOUS
  <2> QED BY <2>1, Zenon
<1>2. PICK none \in Seq(Messages) : none = <<>> /\ Len(none) = 0 /\ DOMAIN none = {}
  <2>1. <<>> \in Seq(Messages) /\ Len(<<>>) = 0 /\ DOMAIN <<>> = {}
    OBVIOUS
  <2> QED BY <2>1, Zenon
<1>3. net \in Nets /\ net.cfin = TRUE /\ net.sfin = TRUE
  <2>1. net = [up |-> e, down |-> e, cfin |-> TRUE, sfin |-> TRUE, rst |-> FALSE]
    BY <1>1 DEF Init
  <2> QED BY <2>1 DEF Nets
<1>4. /\ asked = none /\ handled = none /\ answered = none /\ got = none
      /\ srv = Idle /\ cli = Idle /\ now = 0 /\ amb = NoScope /\ stopping = FALSE
  BY <1>2 DEF Init
<1>5. Types /\ Ends
  BY <1>3, <1>4 DEF Types, Ends
<1>6. Scopes
  BY <1>4, NoScopeNests DEF Scopes
<1>7. Numbered /\ Refused
  <2>1. Begins(none, none)
    BY BeginsCat
  <2> QED BY <1>2, <1>4, <2>1 DEF Numbered, Refused
<1>8. Served /\ Up /\ Down
  BY <1>4 DEF Served, Up, Down
<1> QED BY <1>5, <1>6, <1>7, <1>8 DEF HttpInv

\* is kept by every step,
LEMMA InvStep == ASSUME HttpInv, [Next]_vars PROVE HttpInv'
<1>1. now \in Nat /\ stopping \in BOOLEAN /\ Limits \subseteq Nat
  BY HttpAssumption DEF HttpInv, Types
<1>2. ASSUME NEW client \in Clients, Serve(client, "library", 0) PROVE HttpInv'
  BY <1>2, ServeStep
<1>3. ASSUME NEW client \in Clients, NEW limit \in Limits, Serve(client, "library", limit) PROVE HttpInv'
  <2>1. limit \in Nat
    BY <1>1
  <2> QED BY <1>3, <2>1, ServeStep
<1>4. CASE "library" \in Clients /\ Serve("library", "foreign", 0)
  BY <1>4, ServeStep
<1>5. CASE ServerStep
  <2>1. ASSUME NEW n \in Sizes, ServerReads(n) \/ ServerWrites(n) PROVE HttpInv'
    BY <2>1, ServerReadsStep, WriteSteps
  <2>2. CASE ServerReadsEnd
    BY <2>2, StageSteps, RefuseSteps
  <2>3. CASE ServerReadBlocks \/ ReadReady \/ ServerWriteBlocks \/ WriteReady \/ WriteFails \/ Written
    BY <2>3, StageSteps
  <2>4. CASE ReadWaitFails \/ BadHead
    BY <2>4, RefuseSteps
  <2>5. CASE CallHandler \/ SleepEnds
    BY <2>5, CallHandlerStep, SleepEndsStep
  <2>6. ASSUME NEW kind \in Replies, NEW close \in BOOLEAN, HandlerReturns(kind, close) PROVE HttpInv'
    BY <2>6, HandlerReturnsStep
  <2>7. ASSUME NEW reset \in BOOLEAN, CloseConn(reset) PROVE HttpInv'
    BY <2>7, CloseConnStep
  <2> QED BY <1>5, <2>1, <2>2, <2>3, <2>4, <2>5, <2>6, <2>7 DEF ServerStep
<1>6. CASE ForeignStep
  <2>1. CASE ForeignReads \/ ForeignCloses
    BY <2>1, ForeignReadsStep, ForeignClosesStep
  <2>2. ASSUME NEW kind \in Replies, NEW f \in {Length(kind), Chunked, NoLength}, ForeignAnswers(kind, f)
        PROVE  HttpInv'
    BY <2>2, ForeignAnswersStep
  <2>3. ASSUME NEW n \in Sizes, ForeignWrites(n) PROVE HttpInv'
    BY <2>3, WriteSteps
  <2> QED BY <1>6, <2>1, <2>2, <2>3 DEF ForeignStep
<1>7. CASE ClientStep
  <2>1. ASSUME NEW n \in Sizes, ClientSends(n) \/ ClientReceives(n) PROVE HttpInv'
    BY <2>1, ClientSendsStep, ClientReceivesStep
  <2>2. CASE ClientSendFails \/ CallGetresponse
    BY <2>2, ClientSendFailsStep, CallGetresponseStep
  <2>3. CASE GetresponseReturns \/ GetresponseAtEof
    BY <2>3, GetresponseStep
  <2> QED BY <1>7, <2>1, <2>2, <2>3 DEF ClientStep
<1>8. ASSUME NEW kind \in Bodies, NEW close \in BOOLEAN, MakeRequest(kind, close) PROVE HttpInv'
  BY <1>8, MakeRequestStep
<1>9. CASE SendJunk
  BY <1>9, SendJunkStep
<1>10. ASSUME NEW reset \in BOOLEAN, ClientCloses(reset) PROVE HttpInv'
  BY <1>10, ClientClosesStep
<1>11. ASSUME NEW limit \in Limits \cup {0}, NEW delta \in Limits, HandlerSleeps(limit, delta) PROVE HttpInv'
  BY <1>11, HandlerSleepsStep
<1>12. CASE Tick \/ RequestShutdown \/ UNCHANGED vars
  <2>1. /\ UNCHANGED <<net, srv, cli, asked, handled, answered, got, amb>>
        /\ now' \in Nat /\ now <= now' /\ stopping' \in BOOLEAN /\ (stopping => stopping')
    <3>1. CASE Tick
      BY <1>1, <3>1 DEF Tick
    <3>2. CASE RequestShutdown
      BY <1>1, <3>2 DEF RequestShutdown
    <3>3. CASE UNCHANGED vars
      BY <1>1, <3>3 DEF vars
    <3> QED BY <1>12, <3>1, <3>2, <3>3
  <2> QED BY <2>1, ClockStep
<1> QED BY <1>2, <1>3, <1>4, <1>5, <1>6, <1>7, <1>8, <1>9, <1>10, <1>11, <1>12 DEF Next

\* and so always holds.
LEMMA Invariant == Spec => []HttpInv
  BY InvInit, InvStep, PTL DEF Spec

\* Timeout scopes nest on a serving fiber, whatever its handler and its waits
\* do: the deadline in force is the soonest of the open scopes', and a fiber
\* that has closed its connection is left with none.
THEOREM HttpDeadlinesNest == Spec => []DeadlinesNest
<1>1. HttpInv => DeadlinesNest
  BY ScopesSoonest DEF HttpInv
<1> QED BY <1>1, Invariant, PTL

\* However TCP cuts the stream and however the client pipelines, the handler of
\* handle_connection is called with the requests that were sent, whole and in
\* order, and 400 answers junk, a peer that closed, a deadline or a shutdown.
THEOREM HttpHandledAsSent == Spec => []HandledAsSent
<1>1. HttpInv => HandledAsSent
  BY BeginsIsPrefix DEF HttpInv, Types, Numbered, Refused, HandledAsSent
<1> QED BY <1>1, Invariant, PTL

\* What Connection.getresponse returns is the response the server sent to that
\* request, whole, in each of the three framings; it fails only on a connection
\* that the server has closed or is closing.
THEOREM HttpResultsJustified == Spec => []ResultsJustified
<1>1. HttpInv => ResultsJustified
  <2> SUFFICES ASSUME HttpInv PROVE ResultsJustified
    OBVIOUS
  <2>1. IsPrefix(got, answered)
    BY BeginsIsPrefix DEF HttpInv, Types, Numbered
  <2>2. \A i \in DOMAIN got : got[i][1] \in {i, BadRequest}
    <3>1. DOMAIN got = 1..Len(got) /\ DOMAIN answered = 1..Len(answered) /\ Len(got) <= Len(answered)
      BY DEF HttpInv, Types, Numbered, Begins
    <3>2. Len(got) \in Nat /\ Len(answered) \in Nat
      BY LenProperties DEF HttpInv, Types
    <3>3. ASSUME NEW i \in DOMAIN got PROVE i \in DOMAIN answered /\ got[i] = answered[i]
      <4>1. i \in 1..Len(got)
        BY <3>1
      <4>2. got[i] = answered[i]
        BY <4>1 DEF HttpInv, Numbered, Begins
      <4>3. i \in 1..Len(answered)
        BY <3>1, <3>2, <4>1
      <4> QED BY <3>1, <4>2, <4>3
    <3> QED BY <3>3 DEF HttpInv, Numbered
  <2>3. cli # Idle /\ cli.pc = "failed" => net.sfin \/ (srv # Idle /\ srv.close)
    BY DEF HttpInv, Down, Closing, Ends
  <2> QED BY <2>1, <2>2, <2>3 DEF ResultsJustified
<1> QED BY <1>1, Invariant, PTL
=============================================================================
