---------------------------- MODULE ThreadedStream ----------------------------
(***************************************************************************)
(* lib/sys.py: _ThreadedStream, the stdout/stderr that hands every write()  *)
(* to a writer thread through a Queue.  The writer coalesces a batch into   *)
(* one write_all(), whose failure nobody hears of, and stops at the None    *)
(* that _shutdown() puts.  _shutdown() polls __writer_done a bounded number *)
(* of times and joins only a writer that has said it is done.  The queue is *)
(* at the level of BatchQueue.                                              *)
(***************************************************************************)
EXTENDS Integers, Sequences

CONSTANTS Writers,      \* threads that call write()
          MaxWrites,    \* bound of the model: write() calls per thread
          MaxAttempts,  \* polls of __writer_done before giving up (200)
          MaxDels,      \* bound of the model: calls of __del__
          None          \* the sentinel

ASSUME StreamAssumption ==
  /\ MaxWrites \in Nat
  /\ MaxAttempts \in Nat
  /\ MaxDels \in Nat
  /\ None \notin Writers \X Nat

\* The k-th string a thread writes.
Strings == Writers \X (1..MaxWrites)

VARIABLES
  count,     \* thread -> write() calls made
  queue,     \* __queue
  batch,     \* what the writer drained
  wpc,       \* writer: "drain", "write", "stop" or "returned"
  done,      \* __writer_done
  dpc,       \* __del__: "idle", "put", "poll" or "join"
  attempts,  \* attempts
  shutDown,  \* __shut_down
  dels,      \* calls of __del__
  joins,     \* history: joins of the writer
  log,       \* history: everything put on the queue
  out        \* history: the strings write_all() was given, in order

streamVars == <<count, queue, batch, wpc, done, dpc, attempts, shutDown, dels, joins, log, out>>

StreamInit ==
  /\ count = [t \in Writers |-> 0]
  /\ queue = <<>>
  /\ batch = <<>>
  /\ wpc = "drain"
  /\ done = FALSE
  /\ dpc = "idle"
  /\ attempts = 0
  /\ shutDown = FALSE
  /\ dels = 0
  /\ joins = 0
  /\ log = <<>>
  /\ out = <<>>

Put(item) ==
  /\ queue' = Append(queue, item)
  /\ log' = Append(log, item)

Write(t) ==
  /\ count[t] < MaxWrites
  /\ count' = [count EXCEPT ![t] = @ + 1]
  /\ Put(<<t, count[t] + 1>>)
  /\ UNCHANGED <<batch, wpc, done, dpc, attempts, shutDown, dels, joins, out>>

-------------------------------------------------------------------------------
(* _writer_loop()                                                            *)

Drain ==
  /\ wpc = "drain"
  /\ queue # <<>>
  /\ batch' = queue
  /\ queue' = <<>>
  /\ wpc' = "write"
  /\ UNCHANGED <<count, done, dpc, attempts, shutDown, dels, joins, log, out>>

Stops(s) == \E i \in DOMAIN s : s[i] = None

\* Mutant: the sentinel is skipped and the strings behind it are written too.
Parts_Skips(s) == SelectSeq(s, LAMBDA x : x # None)

\* The strings in front of the sentinel.
Parts(s) ==
  IF Stops(s)
  THEN LET first == CHOOSE i \in DOMAIN s :
                      s[i] = None /\ \A k \in 1..(i - 1) : s[k] # None
       IN  SubSeq(s, 1, first - 1)
  ELSE s

\* write_all() of the joined parts, whatever becomes of it.
WriteBatch ==
  /\ wpc = "write"
  /\ out' = out \o Parts(batch)
  /\ batch' = <<>>
  /\ wpc' = IF Stops(batch) THEN "stop" ELSE "drain"
  /\ UNCHANGED <<count, queue, done, dpc, attempts, shutDown, dels, joins, log>>

StoreDone ==
  /\ wpc = "stop"
  /\ done' = TRUE
  /\ wpc' = "returned"
  /\ UNCHANGED <<count, queue, batch, dpc, attempts, shutDown, dels, joins, log, out>>

-------------------------------------------------------------------------------
(* __del__() and _shutdown(), on one thread                                  *)

NeedsShutdown == ~shutDown

\* A __del__ after the first does nothing.
Del ==
  /\ dpc = "idle"
  /\ dels < MaxDels
  /\ dels' = dels + 1
  /\ dpc' = IF NeedsShutdown THEN "put" ELSE dpc
  /\ UNCHANGED <<count, queue, batch, wpc, done, attempts, shutDown, joins, log, out>>

PutSentinel ==
  /\ dpc = "put"
  /\ Put(None)
  /\ attempts' = 0
  /\ dpc' = "poll"
  /\ UNCHANGED <<count, batch, wpc, done, shutDown, dels, joins, out>>

\* Mutant: the last attempt is followed by a join.
GiveUp_Joins == "join"

GiveUp == "idle"

MoreAttempts == attempts < MaxAttempts

\* One turn of the loop: join a writer that is done, else sleep and count.
Poll ==
  /\ dpc = "poll"
  /\ \/ /\ MoreAttempts
        /\ done
        /\ dpc' = "join"
        /\ UNCHANGED <<attempts, shutDown>>
     \/ /\ MoreAttempts
        /\ ~done
        /\ attempts' = attempts + 1
        /\ UNCHANGED <<dpc, shutDown>>
     \/ /\ ~MoreAttempts
        /\ dpc' = GiveUp
        /\ shutDown' = TRUE
        /\ UNCHANGED attempts
  /\ UNCHANGED <<count, queue, batch, wpc, done, dels, joins, log, out>>

Join ==
  /\ dpc = "join"
  /\ wpc = "returned"
  /\ dpc' = "idle"
  /\ shutDown' = TRUE
  /\ joins' = joins + 1
  /\ UNCHANGED <<count, queue, batch, wpc, done, attempts, dels, log, out>>

-------------------------------------------------------------------------------

WriterStep == Drain \/ WriteBatch \/ StoreDone

DelStep == PutSentinel \/ Poll \/ Join

StreamNext == (\E t \in Writers : Write(t)) \/ WriterStep \/ Del \/ DelStep

StreamSpec == StreamInit /\ [][StreamNext]_streamVars

\* The exiting thread runs on; the writer may be stuck for ever in write_all().
FairStreamSpec == StreamSpec /\ WF_streamVars(DelStep)

-------------------------------------------------------------------------------
(* Properties                                                                *)

\* Output is never reordered, repeated or holed by the coalescing: what the
\* writer has handed to write_all() is what was put, from the first string on.
\* And when the first _shutdown() has joined the writer, all that was put before
\* the None has been handed over.
OutputInOrder ==
  /\ Len(out) <= Len(log)
  /\ \A i \in DOMAIN out : out[i] = log[i]
  /\ joins > 0 => \A i \in DOMAIN log :
                    (\A k \in 1..i : log[k] # None) => i \in DOMAIN out

\* _shutdown() "waits with a BOUNDED timeout": __del__ ends even when the writer
\* is stuck.
DelEnds == dpc # "idle" ~> dpc = "idle"
===============================================================================
