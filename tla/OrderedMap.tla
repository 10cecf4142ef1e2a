----------------------------- MODULE OrderedMap -----------------------------
(***************************************************************************)
(* What dict[K,V] promises its callers: a map whose keys stay in the order *)
(* of their first insertion, every operation atomic, each answer the one   *)
(* the map gives at that moment.                                           *)
(***************************************************************************)
EXTENDS Naturals, Sequences, SequencesExt

CONSTANTS Threads, Keys, Vals

VARIABLES
  items,     \* the <<key, value>> pairs, oldest first, no key twice
  answer     \* answer[t]: the answer of t's last operation

vars == <<items, answer>>

Held == {items[i][1] : i \in DOMAIN items}
Place(k) == CHOOSE i \in DOMAIN items : items[i][1] = k
Reply(t, a) == answer' = [answer EXCEPT ![t] = a]

Init == items = <<>> /\ answer = [t \in Threads |-> <<"none">>]

Put(t, k, v) ==
  /\ items' = IF k \in Held THEN [items EXCEPT ![Place(k)] = <<k, v>>] ELSE Append(items, <<k, v>>)
  /\ Reply(t, <<"none">>)

PutIfMissing(t, k, v) ==
  /\ items' = IF k \in Held THEN items ELSE Append(items, <<k, v>>)
  /\ Reply(t, <<"none">>)

RemoveKey(t, k) ==
  /\ items' = IF k \in Held THEN RemoveAt(items, Place(k)) ELSE items
  /\ Reply(t, IF k \in Held THEN <<"none">> ELSE <<"KeyError">>)

Lookup(t, k) ==
  /\ Reply(t, IF k \in Held THEN <<"value", items[Place(k)][2]>> ELSE <<"KeyError">>)
  /\ UNCHANGED items

HasKey(t, k) == Reply(t, <<"bool", k \in Held>>) /\ UNCHANGED items

Size(t) == Reply(t, <<"size", Len(items)>>) /\ UNCHANGED items

\* the i-th key: an iterator's step asks twice, once whether it is there
KeyAt(t, i) ==
  /\ Reply(t, IF i \in DOMAIN items THEN <<"key", items[i][1]>> ELSE <<"IndexError">>)
  /\ UNCHANGED items

ValueAt(t, i) ==
  /\ Reply(t, IF i \in DOMAIN items THEN <<"value", items[i][2]>> ELSE <<"IndexError">>)
  /\ UNCHANGED items

Forget(t) == Reply(t, <<"none">>) /\ UNCHANGED items

Discard == items' = <<>> /\ UNCHANGED answer

Next == Discard \/ \E t \in Threads :
  \/ \E k \in Keys, v \in Vals : Put(t, k, v) \/ PutIfMissing(t, k, v)
  \/ \E k \in Keys : RemoveKey(t, k) \/ Lookup(t, k) \/ HasKey(t, k)
  \/ \E i \in 1..Len(items) + 1 : KeyAt(t, i) \/ ValueAt(t, i)
  \/ Size(t) \/ Forget(t)

Spec == Init /\ [][Next]_vars
=============================================================================
