------------------------------ MODULE BatchQueue ------------------------------
(***************************************************************************)
(* What queue.Queue[T] promises its callers, with no lock and no semaphore: *)
(* a FIFO buffer whose put() is one atomic step, refused when max_depth     *)
(* items are pending, and whose drain() is one atomic step that hands the   *)
(* whole buffer to one of the callers inside drain().  Its fairness is the  *)
(* promise that matters: an item may not stay buffered for ever while some  *)
(* thread is blocked in drain().  ThreadPool, ThreadedStream and AsyncFile  *)
(* use the queue at this level; Queue.tla shows the code implements it.     *)
(***************************************************************************)
EXTENDS Naturals, Sequences

CONSTANTS Msg,        \* the values a caller may put
          Consumers,  \* the threads that call drain()
          MaxDepth,   \* max_depth: a natural number, or NoLimit
          NoLimit     \* max_depth = None

VARIABLES q,          \* __items
          inDrain,    \* the consumers that called drain() and have no batch yet
          got         \* history: every item handed out, in hand-out order

vars == <<q, inDrain, got>>

\* put()'s guard: rejected once max_depth items are already pending.
HasRoom(s) == MaxDepth # NoLimit => Len(s) < MaxDepth

Init ==
  /\ q = <<>>
  /\ inDrain = {}
  /\ got = <<>>

Put(m) ==
  /\ HasRoom(q)
  /\ q' = Append(q, m)
  /\ UNCHANGED <<inDrain, got>>

Call(c) ==
  /\ c \notin inDrain
  /\ inDrain' = inDrain \cup {c}
  /\ UNCHANGED <<q, got>>

Take(c) ==
  /\ c \in inDrain
  /\ q # <<>>
  /\ got' = got \o q
  /\ q' = <<>>
  /\ inDrain' = inDrain \ {c}

Next ==
  \/ \E m \in Msg : Put(m)
  \/ \E c \in Consumers : Call(c) \/ Take(c)

SafeSpec == Init /\ [][Next]_vars

Spec == SafeSpec /\ WF_vars(\E c \in Consumers : Take(c))
===============================================================================
