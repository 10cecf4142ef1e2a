------------------------------ MODULE Timeout ------------------------------
(***************************************************************************)
(* with timeout( delta ) of lib/reactor.py: the ambient deadline of a      *)
(* fiber.  A scope keeps the deadline it found (__previous) and puts it    *)
(* back when it is left, whichever way.  Times are readings of one         *)
(* monotonic clock.                                                        *)
(***************************************************************************)
EXTENDS Integers, Sequences

NO_DEADLINE == -1

Expired(deadline, now) == deadline # NO_DEADLINE /\ deadline <= now

\* An ambient deadline is [at, saved, limits]: the deadline in force, the
\* __previous of every open scope, and (only to state what holds) the time
\* each scope asked for.
NoScope == [at |-> NO_DEADLINE, saved |-> <<>>, limits |-> <<>>]

\* Mutant: the inner scope's deadline wins even when it is the later one.
EnterTimeout_Widens(amb, now, delta) ==
  [at |-> now + delta, saved |-> Append(amb.saved, amb.at), limits |-> Append(amb.limits, now + delta)]

\* timeout.__enter__: an inner scope narrows, it never widens
EnterTimeout(amb, now, delta) ==
  LET candidate == now + delta
  IN [at |-> IF amb.at # NO_DEADLINE /\ amb.at < candidate THEN amb.at ELSE candidate,
      saved |-> Append(amb.saved, amb.at), limits |-> Append(amb.limits, candidate)]

\* timeout.__exit__
ExitTimeout(amb) ==
  [at |-> amb.saved[Len(amb.saved)],
   saved |-> SubSeq(amb.saved, 1, Len(amb.saved) - 1),
   limits |-> SubSeq(amb.limits, 1, Len(amb.limits) - 1)]
=============================================================================
