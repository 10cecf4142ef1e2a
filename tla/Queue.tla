-------------------------------- MODULE Queue ---------------------------------
(***************************************************************************)
(* lib/queue.py: Queue[T], and the Semaphore of lib/threading.py it blocks  *)
(* on.  put() appends under __lock, releases it, and only THEN posts the    *)
(* semaphore; drain() looks at the list under __lock and, when it is empty, *)
(* releases the lock before it waits.  A thread can therefore be stopped    *)
(* between append and post, or between the empty look and the wait: those   *)
(* gaps are where a wakeup could get lost, and they are separate steps      *)
(* here.  A block under __lock is one step, because every access to __items *)
(* is made under that lock.                                                 *)
(***************************************************************************)
EXTENDS Naturals, Sequences

CONSTANTS Producers,  \* threads that call put()
          Consumers,  \* threads that call drain()
          MaxDepth,   \* max_depth: a natural number, or NoLimit
          NoLimit,    \* max_depth = None
          SemMax,     \* the semaphore's maximum count (2147483647 in the code)
          MaxPuts     \* bound of the model: put() calls per producer

ASSUME QueueAssumption ==
  /\ NoLimit \notin Nat
  /\ MaxDepth \in Nat \cup {NoLimit}
  /\ SemMax \in Nat \ {0}
  /\ MaxPuts \in Nat

VARIABLES items,      \* __items
          sem,        \* count of __sem
          ppc,        \* producer: "idle", or "post" between append and post()
          puts,       \* put() calls made so far by each producer
          cpc,        \* consumer: "idle" (outside drain), "check" or "wait"
          accepted,   \* history: the items put() appended, in lock order
          taken       \* history: the items drain() returned, in lock order

vars == <<items, sem, ppc, puts, cpc, accepted, taken>>

\* The k-th item producer p offers; every offered item is distinct.
Msg == Producers \X (1..MaxPuts)

Init ==
  /\ items = <<>>
  /\ sem = 0
  /\ ppc = [p \in Producers |-> "idle"]
  /\ puts = [p \in Producers |-> 0]
  /\ cpc = [c \in Consumers |-> "idle"]
  /\ accepted = <<>>
  /\ taken = <<>>

-------------------------------------------------------------------------------
(* put()                                                                     *)

HasRoom == MaxDepth # NoLimit => Len(items) < MaxDepth

NextItem(p) == <<p, puts[p] + 1>>

MayPut(p) == ppc[p] = "idle" /\ puts[p] < MaxPuts

PutAppend(p) ==
  /\ MayPut(p)
  /\ HasRoom
  /\ items' = Append(items, NextItem(p))
  /\ accepted' = Append(accepted, NextItem(p))
  /\ puts' = [puts EXCEPT ![p] = @ + 1]
  /\ ppc' = [ppc EXCEPT ![p] = "post"]
  /\ UNCHANGED <<sem, cpc, taken>>

\* Err(QueueFullError): returned from inside the lock, the semaphore untouched.
PutFull(p) ==
  /\ MayPut(p)
  /\ ~HasRoom
  /\ puts' = [puts EXCEPT ![p] = @ + 1]
  /\ UNCHANGED <<items, sem, ppc, cpc, accepted, taken>>

\* Mutant: a post skipped unless the list holds exactly one item (the "only on
\* the empty-to-non-empty transition" rule, decided after the lock is released).
SemPost_OnTransition ==
  sem' = IF sem < SemMax /\ Len(items) = 1 THEN sem + 1 ELSE sem

\* Mutant: the count wraps to zero at the maximum.
SemPost_Wraps == sem' = (sem + 1) % (SemMax + 1)

\* post() ignores the OS call's result: at the maximum the count stays.
SemPost == sem' = IF sem < SemMax THEN sem + 1 ELSE sem

PutPost(p) ==
  /\ ppc[p] = "post"
  /\ SemPost
  /\ ppc' = [ppc EXCEPT ![p] = "idle"]
  /\ UNCHANGED <<items, puts, cpc, accepted, taken>>

-------------------------------------------------------------------------------
(* drain()                                                                   *)

DrainCall(c) ==
  /\ cpc[c] = "idle"
  /\ cpc' = [cpc EXCEPT ![c] = "check"]
  /\ UNCHANGED <<items, sem, ppc, puts, accepted, taken>>

\* Mutant: the fresh list is not installed.
DrainTake_KeepsList(c) ==
  /\ cpc[c] = "check"
  /\ Len(items) > 0
  /\ taken' = taken \o items
  /\ cpc' = [cpc EXCEPT ![c] = "idle"]
  /\ UNCHANGED <<items, sem, ppc, puts, accepted>>

DrainTake(c) ==
  /\ cpc[c] = "check"
  /\ Len(items) > 0
  /\ taken' = taken \o items
  /\ items' = <<>>
  /\ cpc' = [cpc EXCEPT ![c] = "idle"]
  /\ UNCHANGED <<sem, ppc, puts, accepted>>

DrainEmpty(c) ==
  /\ cpc[c] = "check"
  /\ Len(items) = 0
  /\ cpc' = [cpc EXCEPT ![c] = "wait"]
  /\ UNCHANGED <<items, sem, ppc, puts, accepted, taken>>

\* Mutant: the count may go below zero.
SemWait_Underflow(c) ==
  /\ cpc[c] = "wait"
  /\ sem >= 0
  /\ sem' = sem - 1
  /\ cpc' = [cpc EXCEPT ![c] = "check"]
  /\ UNCHANGED <<items, ppc, puts, accepted, taken>>

SemWait(c) ==
  /\ cpc[c] = "wait"
  /\ sem > 0
  /\ sem' = sem - 1
  /\ cpc' = [cpc EXCEPT ![c] = "check"]
  /\ UNCHANGED <<items, ppc, puts, accepted, taken>>

\* sem_wait() may return EINTR without a token; wait() ignores the result.
SemInterrupted(c) ==
  /\ cpc[c] = "wait"
  /\ cpc' = [cpc EXCEPT ![c] = "check"]
  /\ UNCHANGED <<items, sem, ppc, puts, accepted, taken>>

-------------------------------------------------------------------------------

Next ==
  \/ \E p \in Producers : PutAppend(p) \/ PutFull(p) \/ PutPost(p)
  \/ \E c \in Consumers : \/ DrainCall(c) \/ DrainTake(c) \/ DrainEmpty(c)
                          \/ SemWait(c) \/ SemInterrupted(c)

Spec == Init /\ [][Next]_vars

\* Every thread the OS runs keeps running, except that a caller need not call
\* put() or drain() again and a signal need never interrupt a wait.
Fairness ==
  /\ \A p \in Producers : WF_vars(PutPost(p))
  /\ \A c \in Consumers :
       WF_vars(DrainTake(c) \/ DrainEmpty(c) \/ SemWait(c))

FairSpec == Spec /\ Fairness

-------------------------------------------------------------------------------
(* Properties                                                                *)

\* Types: the buffer holds offered items, the count stays within the
\* semaphore's range, and every thread is at a point of put() or drain().
TypeOK ==
  /\ items \in Seq(Msg)
  /\ sem \in 0..SemMax
  /\ ppc \in [Producers -> {"idle", "post"}]
  /\ puts \in [Producers -> 0..MaxPuts]
  /\ cpc \in [Consumers -> {"idle", "check", "wait"}]
  /\ accepted \in Seq(Msg)
  /\ taken \in Seq(Msg)

\* drain() never sleeps on a pending item: whenever __items is non-empty there
\* is a token to take, a producer about to post one, or a consumer about to
\* look.  It must survive tokens left over from earlier batches, tokens lost at
\* the semaphore's maximum, and waits that end without a token.
NoLostWakeup ==
  items # <<>> => \/ sem > 0
                  \/ \E p \in Producers : ppc[p] = "post"
                  \/ \E c \in Consumers : cpc[c] = "check"

\* The storage swap of drain() neither loses, repeats nor reorders an item:
\* what came out followed by what is pending is what put() accepted, in order.
FifoExactlyOnce == accepted = taken \o items

\* max_depth caps what is pending however producers and drains interleave.
DepthRespected == MaxDepth # NoLimit => Len(items) <= MaxDepth

\* put() and drain() implement the atomic batch queue, its progress included:
\* an item is not left buffered while a thread is inside drain().
Abstract == INSTANCE BatchQueue WITH
  q <- items,
  inDrain <- {c \in Consumers : cpc[c] # "idle"},
  got <- taken

ImplementsBatchQueue == Abstract!Spec
===============================================================================
