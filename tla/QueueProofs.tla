------------------------------ MODULE QueueProofs -----------------------------
(***************************************************************************)
(* Queue.tla's safety for every number of threads, every depth limit and    *)
(* every maximum of the semaphore.  TypeOK is inductive on its own;         *)
(* NoLostWakeup is inductive relative to it; FifoExactlyOnce needs only     *)
(* that concatenation is associative; DepthRespected needs put()'s guard;   *)
(* and the steps of Queue map to steps of BatchQueue under all of them.     *)
(*                                                                          *)
(* Then a user of a queue: ThreadedStream, for any number of writing        *)
(* threads, writes and polls.  The writer's output is the beginning of what *)
(* was put, up to the sentinel, and all of it once the writer is joined.    *)
(* The inductive invariant says where the rest of the log is while the      *)
(* writer runs, and that the sentinel comes next once it has stopped.       *)
(***************************************************************************)
EXTENDS Queue, ThreadedStream, SequenceTheorems, WellFoundedInduction, TLAPS

\* Every step of put(), drain() and the semaphore keeps the types.
LEMMA TypeStep == TypeOK /\ [Next]_vars => TypeOK'
<1> SUFFICES ASSUME TypeOK, [Next]_vars PROVE TypeOK'
  OBVIOUS
<1> USE QueueAssumption DEF TypeOK, Msg
<1>1. ASSUME NEW p \in Producers, PutAppend(p) PROVE TypeOK'
  <2>1. NextItem(p) \in Msg
    BY <1>1 DEF PutAppend, MayPut, NextItem
  <2>2. items' \in Seq(Msg) /\ accepted' \in Seq(Msg)
    BY <1>1, <2>1 DEF PutAppend
  <2>3. puts' \in [Producers -> 0..MaxPuts]
    BY <1>1 DEF PutAppend, MayPut
  <2> QED BY <1>1, <2>2, <2>3 DEF PutAppend
<1>2. ASSUME NEW p \in Producers, PutFull(p) PROVE TypeOK'
  BY <1>2 DEF PutFull, MayPut
<1>3. ASSUME NEW p \in Producers, PutPost(p) PROVE TypeOK'
  BY <1>3 DEF PutPost, SemPost
<1>4. ASSUME NEW c \in Consumers, DrainCall(c) PROVE TypeOK'
  BY <1>4 DEF DrainCall
<1>5. ASSUME NEW c \in Consumers, DrainTake(c) PROVE TypeOK'
  <2>1. items' \in Seq(Msg) /\ taken' \in Seq(Msg)
    BY <1>5 DEF DrainTake
  <2> QED BY <1>5, <2>1 DEF DrainTake
<1>6. ASSUME NEW c \in Consumers, DrainEmpty(c) PROVE TypeOK'
  BY <1>6 DEF DrainEmpty
<1>7. ASSUME NEW c \in Consumers, SemWait(c) PROVE TypeOK'
  BY <1>7 DEF SemWait
<1>8. ASSUME NEW c \in Consumers, SemInterrupted(c) PROVE TypeOK'
  BY <1>8 DEF SemInterrupted
<1>9. CASE UNCHANGED vars
  BY <1>9 DEF vars
<1> QED BY <1>1, <1>2, <1>3, <1>4, <1>5, <1>6, <1>7, <1>8, <1>9 DEF Next

\* Queue[T]'s state stays well typed: in particular the semaphore's count never
\* leaves its range, whatever put(), drain() and post() interleave.
THEOREM QueueTypes == Spec => []TypeOK
<1>1. Init => TypeOK
  BY QueueAssumption DEF Init, TypeOK, Msg
<1> QED BY <1>1, TypeStep, PTL DEF Spec

\* A token or a looking consumer goes away only with the item, or leaves a
\* looking consumer behind; a post lost at the maximum leaves tokens.
LEMMA WakeupStep == TypeOK /\ NoLostWakeup /\ [Next]_vars => NoLostWakeup'
<1> SUFFICES ASSUME TypeOK, NoLostWakeup, [Next]_vars PROVE NoLostWakeup'
  OBVIOUS
<1> USE QueueAssumption DEF TypeOK, NoLostWakeup
<1>1. ASSUME NEW p \in Producers, PutAppend(p) PROVE NoLostWakeup'
  BY <1>1 DEF PutAppend
<1>2. ASSUME NEW p \in Producers, PutFull(p) PROVE NoLostWakeup'
  BY <1>2 DEF PutFull
\* The token itself is the witness: even at the maximum the count is positive.
<1>3. ASSUME NEW p \in Producers, PutPost(p) PROVE NoLostWakeup'
  <2>1. sem' > 0
    BY <1>3 DEF PutPost, SemPost
  <2> QED BY <2>1
<1>4. ASSUME NEW c \in Consumers, DrainCall(c) PROVE NoLostWakeup'
  BY <1>4 DEF DrainCall
<1>5. ASSUME NEW c \in Consumers, DrainTake(c) PROVE NoLostWakeup'
  BY <1>5 DEF DrainTake
\* A consumer leaves "check" for "wait" only with nothing pending.
<1>6. ASSUME NEW c \in Consumers, DrainEmpty(c) PROVE NoLostWakeup'
  <2>1. items' = <<>>
    BY <1>6 DEF DrainEmpty
  <2> QED BY <2>1
\* Whoever consumes a token, or wakes without one, is about to look.
<1>7. ASSUME NEW c \in Consumers, SemWait(c) PROVE NoLostWakeup'
  BY <1>7 DEF SemWait
<1>8. ASSUME NEW c \in Consumers, SemInterrupted(c) PROVE NoLostWakeup'
  BY <1>8 DEF SemInterrupted
<1>9. CASE UNCHANGED vars
  BY <1>9 DEF vars
<1> QED BY <1>1, <1>2, <1>3, <1>4, <1>5, <1>6, <1>7, <1>8, <1>9 DEF Next

\* No thread sleeps in drain() on a non-empty queue with nobody due to wake it,
\* for any number of threads and any maximum of the semaphore.
THEOREM QueueNoLostWakeup == Spec => []NoLostWakeup
<1>1. Init => NoLostWakeup
  BY DEF Init, NoLostWakeup
<1> QED BY <1>1, WakeupStep, QueueTypes, PTL DEF Spec

-------------------------------------------------------------------------------

\* Appending to the pending items is appending to everything seen so far.
LEMMA AppendAfterConcat ==
  items \in Seq(Msg) /\ taken \in Seq(Msg) =>
    \A m \in Msg : Append(taken \o items, m) = taken \o Append(items, m)
OBVIOUS

\* Only the append under the lock and the swap of drain() move items.
LEMMA FifoStep ==
  TypeOK /\ FifoExactlyOnce /\ [Next]_vars => FifoExactlyOnce'
<1> SUFFICES ASSUME TypeOK, FifoExactlyOnce, [Next]_vars
             PROVE  FifoExactlyOnce'
  OBVIOUS
<1> USE DEF FifoExactlyOnce
<1>t. items \in Seq(Msg) /\ taken \in Seq(Msg) /\ accepted \in Seq(Msg)
  BY DEF TypeOK
<1>1. ASSUME NEW p \in Producers, PutAppend(p) PROVE FifoExactlyOnce'
  <2>1. NextItem(p) \in Msg
    BY <1>1, QueueAssumption DEF PutAppend, MayPut, NextItem, TypeOK, Msg
  <2>2. \A m \in Msg : Append(taken \o items, m) = taken \o Append(items, m)
    BY <1>t, AppendAfterConcat, Zenon
  <2> HIDE DEF FifoExactlyOnce
  <2>3. accepted = taken \o items
    BY DEF FifoExactlyOnce
  <2>4. accepted' = Append(accepted, NextItem(p))
    BY <1>1 DEF PutAppend
  <2>5. items' = Append(items, NextItem(p)) /\ taken' = taken
    BY <1>1 DEF PutAppend
  <2>6. accepted' = taken' \o items'
    BY <2>1, <2>2, <2>3, <2>4, <2>5, Zenon
  <2> QED BY <2>6 DEF FifoExactlyOnce
<1>2. ASSUME NEW c \in Consumers, DrainTake(c) PROVE FifoExactlyOnce'
  BY <1>2, <1>t DEF DrainTake
<1>3. CASE UNCHANGED <<items, accepted, taken>>
  BY <1>3
<1> QED
  BY <1>1, <1>2, <1>3
  DEF Next, vars, PutFull, PutPost, DrainCall, DrainEmpty, SemWait,
      SemInterrupted

\* Every item put() accepts comes out of drain() exactly once and in the order
\* of the appends, or is still pending.
THEOREM QueueFifo == Spec => []FifoExactlyOnce
<1>1. Init => FifoExactlyOnce
  BY DEF Init, FifoExactlyOnce
<1> QED BY <1>1, FifoStep, QueueTypes, PTL DEF Spec

\* put() checks the limit and appends under one lock.
LEMMA DepthStep == TypeOK /\ DepthRespected /\ [Next]_vars => DepthRespected'
<1> SUFFICES ASSUME TypeOK, DepthRespected, [Next]_vars PROVE DepthRespected'
  OBVIOUS
<1> USE QueueAssumption DEF DepthRespected
<1>1. ASSUME NEW p \in Producers, PutAppend(p) PROVE DepthRespected'
  <2>1. Len(items') = Len(items) + 1 /\ Len(items) \in Nat
    BY <1>1 DEF PutAppend, TypeOK
  <2> QED BY <1>1, <2>1 DEF PutAppend, HasRoom
<1>2. ASSUME NEW c \in Consumers, DrainTake(c) PROVE DepthRespected'
  BY <1>2 DEF DrainTake
<1>3. CASE UNCHANGED items
  BY <1>3
<1> QED
  BY <1>1, <1>2, <1>3
  DEF Next, vars, PutFull, PutPost, DrainCall, DrainEmpty, SemWait,
      SemInterrupted

\* max_depth is never exceeded, however many producers race for the last slot.
THEOREM QueueDepth == Spec => []DepthRespected
<1>1. Init => DepthRespected
  BY QueueAssumption DEF Init, DepthRespected
<1> QED BY <1>1, DepthStep, QueueTypes, PTL DEF Spec

-------------------------------------------------------------------------------

LEMMA RefinementStep == TypeOK /\ [Next]_vars => [Abstract!Next]_(Abstract!vars)
<1> DEFINE InDrain == {c \in Consumers : cpc[c] # "idle"}
<1> SUFFICES ASSUME TypeOK, [Next]_vars
             PROVE  [Abstract!Next]_(Abstract!vars)
  OBVIOUS
<1> USE DEF Abstract!Next, Abstract!vars
<1>1. ASSUME NEW p \in Producers, PutAppend(p) PROVE Abstract!Next
  <2>1. NextItem(p) \in Msg
    BY <1>1, QueueAssumption DEF PutAppend, MayPut, NextItem, TypeOK, Msg
  <2>2. Abstract!Put(NextItem(p))
    BY <1>1 DEF PutAppend, Abstract!Put, HasRoom, Abstract!HasRoom
  <2> QED BY <2>1, <2>2
<1>2. ASSUME NEW c \in Consumers, DrainCall(c) PROVE Abstract!Call(c)
  <2>1. InDrain' = InDrain \cup {c} /\ c \notin InDrain
    BY <1>2 DEF DrainCall, TypeOK
  <2> QED BY <1>2, <2>1 DEF DrainCall, Abstract!Call
<1>3. ASSUME NEW c \in Consumers, DrainTake(c) PROVE Abstract!Take(c)
  <2>1. InDrain' = InDrain \ {c} /\ c \in InDrain
    BY <1>3 DEF DrainTake, TypeOK
  <2>2. items # <<>>
    BY <1>3 DEF DrainTake
  <2> QED BY <1>3, <2>1, <2>2 DEF DrainTake, Abstract!Take
<1>4. ASSUME NEW c \in Consumers,
             DrainEmpty(c) \/ SemWait(c) \/ SemInterrupted(c)
      PROVE  UNCHANGED Abstract!vars
  <2>1. InDrain' = InDrain
    BY <1>4 DEF DrainEmpty, SemWait, SemInterrupted, TypeOK
  <2> QED BY <1>4, <2>1 DEF DrainEmpty, SemWait, SemInterrupted
<1>5. ASSUME NEW p \in Producers, PutFull(p) \/ PutPost(p)
      PROVE  UNCHANGED Abstract!vars
  BY <1>5 DEF PutFull, PutPost
<1>6. CASE UNCHANGED vars
  BY <1>6 DEF vars
<1> QED BY <1>1, <1>2, <1>3, <1>4, <1>5, <1>6 DEF Next

\* put() and drain(), with their lock released before the semaphore is touched,
\* behave as the atomic put and drain of BatchQueue (its safety part; that a
\* buffered item is eventually handed out is checked by TLC).
THEOREM QueueImplementsBatchQueue == Spec => Abstract!SafeSpec
<1>1. Init => Abstract!Init
  BY DEF Init, Abstract!Init
<1> QED BY <1>1, RefinementStep, QueueTypes, PTL DEF Spec, Abstract!SafeSpec

-------------------------------------------------------------------------------
(* ThreadedStream.                                                           *)

StreamItems == (Writers \X Nat) \cup {None}

\* The variables the argument is about have their types; a string is not None.
StreamTypes ==
  /\ count \in [Writers -> Nat]
  /\ queue \in Seq(StreamItems)
  /\ batch \in Seq(StreamItems)
  /\ log \in Seq(StreamItems)
  /\ out \in Seq(StreamItems)
  /\ wpc \in {"drain", "write", "stop", "returned"}
  /\ joins \in Nat

\* The output is a sentinel-free beginning of the log.
Beginning ==
  /\ Len(out) <= Len(log)
  /\ \A i \in 1..Len(out) : out[i] = log[i] /\ log[i] # None

\* While the writer runs the rest is in its batch and the queue; when it has
\* stopped the next item of the log is the sentinel; it is joined after that.
Rest ==
  /\ wpc \in {"drain", "write"} => log = out \o batch \o queue
  /\ wpc = "drain" => batch = <<>>
  /\ wpc \in {"stop", "returned"} => Len(out) < Len(log) /\ log[Len(out) + 1] = None
  /\ joins > 0 => wpc = "returned"

StreamInv == StreamTypes /\ Beginning /\ Rest

-------------------------------------------------------------------------------

\* The first of a set of positions.
LEMMA LeastPosition == \A T \in SUBSET Nat : T # {} => \E x \in T : \A y \in T : x <= y
<1> SUFFICES ASSUME NEW T \in SUBSET Nat, T # {} PROVE \E x \in T : \A y \in T : x <= y
  OBVIOUS
<1> DEFINE R == {p \in Nat \X Nat : p[1] < p[2]}
<1>1. IsWellFoundedOn(R, Nat)
  BY NatLessThanWellFounded DEF OpToRel
<1> HIDE DEF R
<1>2. PICK x \in T : \A y \in T : <<y, x>> \notin R
  BY <1>1, WFMin
<1>3. x \in Nat /\ \A y \in T : y \in Nat
  OBVIOUS
<1>4. \A y, z \in Nat : y < z => <<y, z>> \in R
  BY DEF R
<1>5. ASSUME NEW y \in T PROVE x <= y
  <2>1. y \in Nat /\ ~(y < x)
    BY <1>2, <1>3, <1>4
  <2> QED BY <1>3, <2>1
<1> QED BY <1>5

\* The loop over a batch stops at its first sentinel: what it collects is the
\* strings in front of it, all of the batch if there is none.
LEMMA PartsAreFirst ==
  ASSUME NEW s \in Seq(StreamItems)
  PROVE  /\ Parts(s) \in Seq(StreamItems)
         /\ Len(Parts(s)) <= Len(s)
         /\ \A i \in 1..Len(Parts(s)) : Parts(s)[i] = s[i] /\ s[i] # None
         /\ Stops(s) => Len(Parts(s)) < Len(s) /\ s[Len(Parts(s)) + 1] = None
         /\ ~Stops(s) => Parts(s) = s
<1>1. CASE ~Stops(s)
  BY <1>1 DEF Parts, Stops
<1>2. CASE Stops(s)
  <2> DEFINE T == {i \in DOMAIN s : s[i] = None}
             First(i) == s[i] = None /\ \A k \in 1..(i - 1) : s[k] # None
             first == CHOOSE i \in DOMAIN s : First(i)
  <2>1. T # {} /\ T \in SUBSET Nat
    BY <1>2 DEF Stops
  <2>2. PICK x \in T : \A y \in T : x <= y
    BY <2>1, LeastPosition, Zenon
  <2>3. x \in DOMAIN s /\ First(x)
    BY <2>2
  <2>4. first \in DOMAIN s /\ First(first)
    <3> HIDE DEF First
    <3> QED BY <2>3, Zenon
  <2>5. Parts(s) = SubSeq(s, 1, first - 1)
    BY <1>2 DEF Parts
  <2> HIDE DEF first, T
  <2>6. first \in 1..Len(s) /\ s[first] = None /\ \A k \in 1..(first - 1) : s[k] # None
    BY <2>4
  <2> QED BY <1>2, <2>5, <2>6
<1> QED BY <1>1, <1>2

-------------------------------------------------------------------------------

\* A string is put behind everything, wherever the writer is.
LEMMA PutKeeps ==
  ASSUME StreamInv, NEW x \in StreamItems, Put(x), UNCHANGED <<batch, wpc, joins, out>>, count' \in [Writers -> Nat]
  PROVE  StreamInv'
<1>1. /\ queue \in Seq(StreamItems) /\ batch \in Seq(StreamItems) /\ log \in Seq(StreamItems) /\ out \in Seq(StreamItems)
      /\ queue' = Append(queue, x) /\ log' = Append(log, x)
  BY DEF StreamInv, StreamTypes, Put
<1>2. StreamTypes'
  BY <1>1 DEF StreamInv, StreamTypes
<1>3. /\ Len(log') = Len(log) + 1 /\ Len(log) \in Nat /\ Len(out) \in Nat
      /\ \A i \in 1..Len(log) : log'[i] = log[i]
  BY <1>1
<1>4. Beginning'
  BY <1>3 DEF StreamInv, Beginning
<1>5. wpc \in {"drain", "write"} => log' = out \o batch \o queue'
  <2>1. \A ob, q \in Seq(StreamItems) : Append(ob \o q, x) = ob \o Append(q, x)
    <3> SUFFICES ASSUME NEW ob \in Seq(StreamItems), NEW q \in Seq(StreamItems)
                 PROVE  Append(ob \o q, x) = ob \o Append(q, x)
      OBVIOUS
    <3>1. ob \o q \in Seq(StreamItems) /\ <<x>> \in Seq(StreamItems)
      OBVIOUS
    <3>2. Append(ob \o q, x) = (ob \o q) \o <<x>> /\ Append(q, x) = q \o <<x>>
      BY <3>1, AppendIsConcat
    <3>3. (ob \o q) \o <<x>> = ob \o (q \o <<x>>)
      BY <3>1, ConcatAssociative
    <3> QED BY <3>2, <3>3
  <2>2. out \o batch \in Seq(StreamItems)
    BY <1>1
  <2>3. Append(out \o batch \o queue, x) = out \o batch \o Append(queue, x)
    BY <1>1, <2>1, <2>2, Zenon
  <2> QED BY <1>1, <2>3, Zenon DEF StreamInv, Rest
<1>6. Rest'
  BY <1>3, <1>5 DEF StreamInv, Rest
<1> QED BY <1>2, <1>4, <1>6 DEF StreamInv

\* write_all() of what stands in front of the sentinel.
LEMMA WriteKeeps == ASSUME StreamInv, WriteBatch PROVE StreamInv'
<1>1. /\ queue \in Seq(StreamItems) /\ batch \in Seq(StreamItems) /\ log \in Seq(StreamItems) /\ out \in Seq(StreamItems)
      /\ log = out \o batch \o queue
      /\ UNCHANGED <<queue, log, joins, count>> /\ batch' = <<>> /\ joins = 0 /\ wpc = "write"
  BY DEF StreamInv, StreamTypes, Rest, WriteBatch
<1>2. PICK p \in Seq(StreamItems) :
        /\ p = Parts(batch) /\ Len(p) <= Len(batch)
        /\ \A i \in 1..Len(p) : p[i] = batch[i] /\ batch[i] # None
        /\ Stops(batch) => Len(p) < Len(batch) /\ batch[Len(p) + 1] = None
        /\ ~Stops(batch) => p = batch
  BY <1>1, PartsAreFirst
<1>3. out' = out \o p /\ wpc' = IF Stops(batch) THEN "stop" ELSE "drain"
  BY <1>2 DEF WriteBatch
<1>4. StreamTypes'
  BY <1>1, <1>3 DEF StreamInv, StreamTypes
<1>5. /\ Len(out') = Len(out) + Len(p) /\ Len(out) \in Nat /\ Len(p) \in Nat /\ Len(batch) \in Nat
      /\ \A i \in 1..Len(out') : out'[i] = IF i <= Len(out) THEN out[i] ELSE p[i - Len(out)]
  BY <1>1, <1>3
<1>6. /\ Len(log) = Len(out) + Len(batch) + Len(queue) /\ Len(queue) \in Nat
      /\ \A i \in 1..Len(batch) : log[Len(out) + i] = batch[i]
  BY <1>1
<1>7. Beginning'
  <2>1. Len(out') <= Len(log')
    BY <1>1, <1>2, <1>5, <1>6
  <2>2. ASSUME NEW i \in 1..Len(out') PROVE out'[i] = log[i] /\ log[i] # None
    <3>1. CASE i <= Len(out)
      BY <1>5, <3>1 DEF StreamInv, Beginning
    <3>2. CASE i > Len(out)
      <4>1. PICK k \in 1..Len(p) : i = Len(out) + k
        <5>1. i \in Nat /\ i <= Len(out) + Len(p)
          BY <1>5
        <5> DEFINE d == i - Len(out)
        <5>2. d \in 1..Len(p) /\ i = Len(out) + d
          BY <1>5, <3>2, <5>1
        <5> HIDE DEF d
        <5> QED BY <5>2
      <4>2. k \in 1..Len(batch) /\ out'[i] = p[k] /\ log[i] = batch[k]
        <5>1. k \in 1..Len(batch)
          BY <1>2, <1>5, <4>1
        <5>2. i \in 1..Len(out') /\ ~(i <= Len(out)) /\ i - Len(out) = k
          BY <1>5, <3>2, <4>1
        <5> QED BY <1>2, <1>5, <1>6, <4>1, <5>1, <5>2
      <4> QED BY <1>2, <4>1, <4>2
    <3> QED BY <1>5, <3>1, <3>2
  <2> QED BY <1>1, <2>1, <2>2 DEF Beginning
<1>8. CASE Stops(batch)
  <2>1. Len(out') < Len(log) /\ log[Len(out') + 1] = None
    <3>1. PICK k \in 1..Len(batch) : k = Len(p) + 1 /\ batch[k] = None
      BY <1>2, <1>5, <1>8
    <3>2. log[Len(out) + k] = None /\ Len(out) + k = Len(out') + 1 /\ Len(out) + k <= Len(log)
      BY <1>5, <1>6, <3>1
    <3>3. Len(out') \in Nat /\ Len(out') + 1 <= Len(log)
      BY <1>5, <1>6, <3>2
    <3> QED BY <1>6, <3>2, <3>3
  <2>2. wpc' = "stop"
    BY <1>3, <1>8
  <2>3. Rest'
    BY <1>1, <2>1, <2>2 DEF Rest
  <2> QED BY <1>4, <1>7, <2>3 DEF StreamInv
<1>9. CASE ~Stops(batch)
  <2>1. wpc' = "drain" /\ out' = out \o batch
    BY <1>2, <1>3, <1>9
  <2>2. log = out' \o <<>> \o queue
    BY <1>1, <2>1
  <2>3. Rest'
    BY <1>1, <2>1, <2>2 DEF Rest
  <2> QED BY <1>4, <1>7, <2>3 DEF StreamInv
<1> QED BY <1>8, <1>9

\* Every step of a writing thread, of the writer and of __del__.
LEMMA StreamStep == StreamInv /\ [StreamNext]_streamVars => StreamInv'
<1> SUFFICES ASSUME StreamInv, [StreamNext]_streamVars PROVE StreamInv'
  OBVIOUS
<1>1. ASSUME NEW t \in Writers, Write(t) PROVE StreamInv'
  <2>2. count[t] + 1 \in Nat
    BY DEF StreamInv, StreamTypes
  <2>3. <<t, count[t] + 1>> \in StreamItems
    BY <2>2 DEF StreamItems
  <2>4. count' \in [Writers -> Nat]
    BY <1>1, <2>2 DEF Write, StreamInv, StreamTypes
  <2> QED BY <1>1, <2>3, <2>4, PutKeeps DEF Write
<1>2. CASE Drain
  <2>1. /\ batch = <<>> /\ batch' = queue /\ queue' = <<>> /\ wpc = "drain" /\ wpc' = "write"
        /\ UNCHANGED <<count, joins, log, out>> /\ log = out \o batch \o queue
        /\ queue \in Seq(StreamItems) /\ out \in Seq(StreamItems) /\ ~(joins > 0)
    BY <1>2 DEF Drain, StreamInv, StreamTypes, Rest
  <2>2. log = out \o queue \o <<>>
    BY <2>1
  <2>3. StreamTypes' /\ Beginning'
    BY <2>1 DEF StreamInv, StreamTypes, Beginning
  <2>4. Rest'
    BY <2>1, <2>2 DEF Rest
  <2> QED BY <2>3, <2>4 DEF StreamInv
<1>3. CASE WriteBatch
  BY <1>3, WriteKeeps
<1>4. CASE StoreDone
  BY <1>4 DEF StoreDone, StreamInv, StreamTypes, Beginning, Rest
<1>5. CASE PutSentinel
  <2>1. count' \in [Writers -> Nat] /\ None \in StreamItems
    BY <1>5 DEF PutSentinel, StreamInv, StreamTypes, StreamItems
  <2> QED BY <1>5, <2>1, PutKeeps DEF PutSentinel
<1>6. CASE Join
  BY <1>6 DEF Join, StreamInv, StreamTypes, Beginning, Rest
<1>7. CASE UNCHANGED <<count, queue, batch, wpc, joins, log, out>>
  BY <1>7 DEF StreamInv, StreamTypes, Beginning, Rest
<1> QED
  BY <1>1, <1>2, <1>3, <1>4, <1>5, <1>6, <1>7 DEF StreamNext, streamVars, WriterStep, DelStep, Del, Poll

\* The stream writes a beginning of what was put, in order and without a hole,
\* and everything in front of the sentinel before _shutdown() has joined it.
THEOREM StreamOutputInOrder == StreamSpec => []OutputInOrder
<1>1. StreamInit => StreamInv
  BY DEF StreamInit, StreamInv, StreamTypes, Beginning, Rest
<1>2. StreamInv => OutputInOrder
  <2> SUFFICES ASSUME StreamInv PROVE OutputInOrder
    OBVIOUS
  <2>1. DOMAIN out = 1..Len(out) /\ DOMAIN log = 1..Len(log) /\ Len(out) \in Nat /\ Len(log) \in Nat
    BY DEF StreamInv, StreamTypes
  <2>2. joins > 0 => \A i \in DOMAIN log : (\A k \in 1..i : log[k] # None) => i \in DOMAIN out
    <3> SUFFICES ASSUME joins > 0, NEW i \in DOMAIN log, \A k \in 1..i : log[k] # None PROVE i <= Len(out)
      BY <2>1
    <3>1. log[Len(out) + 1] = None
      BY DEF StreamInv, Rest
    <3> QED BY <2>1, <3>1
  <2> QED BY <2>1, <2>2 DEF OutputInOrder, StreamInv, Beginning
<1> QED BY <1>1, <1>2, StreamStep, PTL DEF StreamSpec
===============================================================================
