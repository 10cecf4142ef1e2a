-------------------------------- MODULE Dict --------------------------------
(***************************************************************************)
(* dict[K,V] of lib/builtins: a FastLock around UnsafeDict, which owns     *)
(* references to keys and values, around RawDict: a log of entries and an  *)
(* index sorted by hash, both in RawList's growing slot arrays.            *)
(*                                                                         *)
(* An operation takes the lock, does its work and drops the lock.  Only    *)
(* the holder touches the inner state, so the work is one step.  Between   *)
(* the two questions an iterator asks the lock is free.                    *)
(***************************************************************************)
EXTENDS Integers, Sequences, FiniteSets

CONSTANTS
  Threads, Keys, Vals,
  Hash,        \* Hash[k]: the hash of a key; different keys may share one
  InitCap,     \* the capacity a RawList starts with
  MaxPuts      \* bound on the insertions of a behaviour

ASSUME DictAssumption ==
  /\ InitCap \in Nat \ {0} /\ \A k \in Keys : Hash[k] \in Nat
  /\ IsFiniteSet(Threads)

VARIABLES
  entries,     \* RawList of [h, k, v]
  indices,     \* RawList of [h, e], sorted by h; e is a position in entries
  lock,        \* the thread that holds the FastLock, or "free"
  op,          \* op[t]: the operation t is in
  answer,      \* answer[t]: the answer t was given
  refs,        \* refs[x]: references to the key or value x
  puts

vars == <<entries, indices, lock, op, answer, refs, puts>>

Free == "free"
Idle == <<"idle">>
None == <<"none">>
NotFound == -1

-----------------------------------------------------------------------------
(* RawList: slots[1..len] are the elements, the rest of the array is stale. *)

RawList == [slots |-> [i \in 1..InitCap |-> None], len |-> 0, cap |-> InitCap]

grow(l) ==
  IF l.len < l.cap THEN l
  ELSE [slots |-> [i \in 1..2 * l.cap |-> IF i <= l.len THEN l.slots[i] ELSE None],
        len |-> l.len, cap |-> 2 * l.cap]

\* _insert_at: everything from idx (0-based) on moves up one slot
insert_at(l, idx, x) ==
  LET at == IF idx > l.len THEN l.len ELSE idx
      g == grow(l)
  IN [slots |-> [i \in 1..g.cap |->
                   CASE i = at + 1 -> x
                     [] i > at + 1 /\ i <= l.len + 1 -> g.slots[i - 1]
                     [] OTHER -> g.slots[i]],
      len |-> l.len + 1, cap |-> g.cap]

remove_at(l, idx) ==
  [slots |-> [i \in 1..l.cap |-> IF i > idx /\ i < l.len THEN l.slots[i + 1] ELSE l.slots[i]],
   len |-> l.len - 1, cap |-> l.cap]

append(l, x) == insert_at(l, l.len, x)

-----------------------------------------------------------------------------
(* RawDict.  Positions are 0-based, as in the code.                         *)

At(l, i) == l.slots[i + 1]

\* bisect_left_by_key on the hashes: halve [lo, hi) until it is empty
bisect_left_by_key(l, h) ==
  LET From[w \in (0..l.len) \X (0..l.len)] ==
        LET mid == (w[1] + w[2]) \div 2
        IN IF w[1] >= w[2] THEN w[1]
           ELSE IF At(l, mid).h < h THEN From[<<mid + 1, w[2]>>]
           ELSE From[<<w[1], mid>>]
  IN From[<<0, l.len>>]

lower_bound(h) == bisect_left_by_key(indices, h)

\* the positions of the index a search for h visits, and the first that matches
Scan(h) ==
  LET first == lower_bound(h)
  IN {p \in first..indices.len - 1 : \A q \in first..p : At(indices, q).h = h}
Matches(k) == {p \in Scan(Hash[k]) : At(entries, At(indices, p).e).k = k}
find_indices_pos(k) ==
  IF Matches(k) = {} THEN NotFound ELSE CHOOSE p \in Matches(k) : \A q \in Matches(k) : p <= q
find_entry_idx(k) ==
  IF find_indices_pos(k) = NotFound THEN NotFound ELSE At(indices, find_indices_pos(k)).e

\* Mutant: the entries behind the removed one keep their old positions.
fixup_indices_after_removal_Forgotten(l, gone) == l

fixup_indices_after_removal(l, gone) ==
  [slots |-> [i \in 1..l.cap |-> IF i <= l.len /\ l.slots[i].e > gone
                                 THEN [h |-> l.slots[i].h, e |-> l.slots[i].e - 1]
                                 ELSE l.slots[i]],
   len |-> l.len, cap |-> l.cap]

remove_entry(k) ==
  LET pos == find_indices_pos(k)
      gone == At(indices, pos).e
  IN /\ indices' = fixup_indices_after_removal(remove_at(indices, pos), gone)
     /\ entries' = remove_at(entries, gone)

insert_new(k, v) ==
  /\ entries' = append(entries, [h |-> Hash[k], k |-> k, v |-> v])
  /\ indices' = insert_at(indices, lower_bound(Hash[k]), [h |-> Hash[k], e |-> entries.len])

overwrite_value_at(i, v) ==
  /\ entries' = [entries EXCEPT !.slots[i + 1].v = v]
  /\ UNCHANGED indices

-----------------------------------------------------------------------------
(* UnsafeDict under dict's lock.                                            *)

Keep(r, x) == [r EXCEPT ![x] = @ + 1]
Drop(r, x) == [r EXCEPT ![x] = @ - 1]

\* Mutant: the value that was there is not released.
Replaced_KeepsOld(r, old, new) == Keep(r, new)

\* __setitem__ on a key that is there: the new value is kept, the old dropped
Replaced(r, old, new) == Drop(Keep(r, new), old)

\* with self.__lock: the call waits for the lock, and leaves it when it returns
Enter(t, what) ==
  /\ op[t] = Idle /\ answer[t] = None
  /\ lock = Free
  /\ lock' = t /\ op' = [op EXCEPT ![t] = what]
  /\ UNCHANGED <<entries, indices, answer, refs, puts>>

Inside(t, what) == lock = t /\ op[t][1] = what
Leave(t, a, next) ==
  /\ lock' = Free
  /\ op' = [op EXCEPT ![t] = next] /\ answer' = [answer EXCEPT ![t] = a]

Setitem(t) ==
  LET k == op[t][2]
      v == op[t][3]
      i == find_entry_idx(k)
  IN /\ Inside(t, "set")
     /\ IF i # NotFound
        THEN overwrite_value_at(i, v) /\ refs' = Replaced(refs, At(entries, i).v, v)
        ELSE insert_new(k, v) /\ refs' = Keep(Keep(refs, k), v)
     /\ puts' = puts + 1
     /\ Leave(t, None, Idle)

Delitem(t) ==
  LET k == op[t][2]
      i == find_entry_idx(k)
  IN /\ Inside(t, "del")
     /\ IF i = NotFound
        THEN UNCHANGED <<entries, indices, refs>> /\ Leave(t, <<"KeyError">>, Idle)
        ELSE /\ remove_entry(k)
             /\ refs' = Drop(Drop(refs, k), At(entries, i).v)
             /\ Leave(t, None, Idle)
     /\ UNCHANGED puts

\* with_lock( body ): the body works on the UnsafeDict itself; here it inserts
\* a key that is missing
WithLock(t) ==
  LET k == op[t][2]
      v == op[t][3]
  IN /\ Inside(t, "with_lock")
     /\ IF find_entry_idx(k) # NotFound THEN UNCHANGED <<entries, indices, refs>>
        ELSE insert_new(k, v) /\ refs' = Keep(Keep(refs, k), v)
     /\ puts' = puts + 1
     /\ Leave(t, None, Idle)

\* _owned_value: the answer carries a reference of its own
Getitem(t) ==
  LET i == find_entry_idx(op[t][2])
  IN /\ Inside(t, "get")
     /\ IF i = NotFound
        THEN UNCHANGED refs /\ Leave(t, <<"KeyError">>, Idle)
        ELSE refs' = Keep(refs, At(entries, i).v) /\ Leave(t, <<"value", At(entries, i).v>>, Idle)
     /\ UNCHANGED <<entries, indices, puts>>

ContainsItem(t) ==
  /\ Inside(t, "in")
  /\ Leave(t, <<"bool", find_entry_idx(op[t][2]) # NotFound>>, Idle)
  /\ UNCHANGED <<entries, indices, refs, puts>>

Length(t) ==
  /\ Inside(t, "len") /\ Leave(t, <<"size", entries.len>>, Idle)
  /\ UNCHANGED <<entries, indices, refs, puts>>

ValueAt(t) ==
  LET i == op[t][2]
  IN /\ Inside(t, "value_at")
     /\ IF i >= entries.len
        THEN UNCHANGED refs /\ Leave(t, <<"IndexError">>, Idle)
        ELSE refs' = Keep(refs, At(entries, i).v) /\ Leave(t, <<"value", At(entries, i).v>>, Idle)
     /\ UNCHANGED <<entries, indices, puts>>

\* _dict_key_iter: key_at( i ).is_err(), and then key_at( i ).unwrap().  The
\* first answer's reference is dropped with the temporary.
key_at(i) == IF i >= entries.len THEN <<"IndexError">> ELSE <<"key", At(entries, i).k>>

IterCheck(t) ==
  LET i == op[t][2]
  IN /\ Inside(t, "check")
     /\ Leave(t, IF i >= entries.len THEN <<"IndexError">> ELSE None,
              IF i >= entries.len THEN Idle ELSE <<"between", i>>)
     /\ UNCHANGED <<entries, indices, refs, puts>>

IterAgain(t) ==
  /\ op[t][1] = "between" /\ lock = Free
  /\ lock' = t /\ op' = [op EXCEPT ![t] = <<"read", op[t][2]>>]
  /\ UNCHANGED <<entries, indices, answer, refs, puts>>

\* an IndexError here is unwrap()'s panic
IterRead(t) ==
  LET a == key_at(op[t][2])
  IN /\ Inside(t, "read")
     /\ refs' = IF a[1] = "key" THEN Keep(refs, a[2]) ELSE refs
     /\ Leave(t, a, Idle)
     /\ UNCHANGED <<entries, indices, puts>>

\* the caller is done with an answer and drops the reference it was given
Done(t) ==
  /\ answer[t] # None
  /\ refs' = IF answer[t][1] \in {"value", "key"} THEN Drop(refs, answer[t][2]) ELSE refs
  /\ answer' = [answer EXCEPT ![t] = None]
  /\ UNCHANGED <<entries, indices, lock, op, puts>>

\* UnsafeDict.__del__ releases what is stored, entry by entry
Released(l, r) ==
  LET After[n \in 0..l.len] ==
        IF n = 0 THEN r ELSE Drop(Drop(After[n - 1], l.slots[n].k), l.slots[n].v)
  IN After[l.len]

\* The last handle goes.  (A new dict takes its place.)
Del ==
  /\ entries.len > 0 /\ \A t \in Threads : op[t] = Idle
  /\ refs' = Released(entries, refs)
  /\ entries' = RawList /\ indices' = RawList
  /\ UNCHANGED <<lock, op, answer, puts>>

Init ==
  /\ entries = RawList /\ indices = RawList
  /\ lock = Free /\ op = [t \in Threads |-> Idle] /\ answer = [t \in Threads |-> None]
  /\ refs = [x \in Keys \cup Vals |-> 1] /\ puts = 0

Next == Del \/ \E t \in Threads :
  \/ \E k \in Keys, v \in Vals, what \in {"set", "with_lock"} : puts < MaxPuts /\ Enter(t, <<what, k, v>>)
  \/ \E k \in Keys : Enter(t, <<"del", k>>) \/ Enter(t, <<"get", k>>) \/ Enter(t, <<"in", k>>)
  \/ \E i \in 0..Cardinality(Keys) : Enter(t, <<"check", i>>) \/ Enter(t, <<"value_at", i>>)
  \/ Enter(t, <<"len">>)
  \/ Setitem(t) \/ WithLock(t) \/ Delitem(t) \/ Getitem(t) \/ ValueAt(t) \/ ContainsItem(t) \/ Length(t)
  \/ IterCheck(t) \/ IterAgain(t) \/ IterRead(t)
  \/ Done(t)

Spec == Init /\ [][Next]_vars

-----------------------------------------------------------------------------
Abstract == INSTANCE OrderedMap WITH
  items <- [i \in 1..entries.len |-> <<entries.slots[i].k, entries.slots[i].v>>]

\* The hash index, the entry log and the growing arrays together are one map
\* in insertion order: no key is lost behind a colliding hash, none is stored
\* twice, and a removal leaves every other key where a search finds it.
ImplementsOrderedMap == Abstract!Spec

\* Every key and value is referenced by its program, once per entry that
\* stores it and once per answer not yet dropped: nothing leaks when a value
\* is overwritten or a key removed, and nothing is released while stored.
RefsExact ==
  \A x \in Keys \cup Vals :
    refs[x] = 1 + Cardinality({i \in 1..entries.len : entries.slots[i].k = x})
                + Cardinality({i \in 1..entries.len : entries.slots[i].v = x})
                + Cardinality({t \in Threads : answer[t][1] \in {"value", "key"} /\ answer[t][2] = x})
=============================================================================
