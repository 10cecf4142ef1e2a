------------------------------ MODULE DictProofs ------------------------------
(***************************************************************************)
(* Proofs about Dict, for any threads, keys, values, hash function and      *)
(* initial capacity.                                                        *)
(*                                                                          *)
(* Both results rest on one invariant of the two arrays, Structured: the    *)
(* index is sorted by hash and points at every entry exactly once, with the *)
(* entry's hash, and no key is stored twice.  With it the search finds a    *)
(* key if and only if an entry holds it, so an insertion never stores a key *)
(* again, and what an operation does to the arrays is what OrderedMap does  *)
(* to its list of pairs.                                                    *)
(***************************************************************************)
EXTENDS Dict, FiniteSetTheorems, SequenceTheorems, WellFoundedInduction, TLAPS

Entry == [h : Nat, k : Keys, v : Vals]
Node == [h : Nat, e : Nat]

\* A RawList whose elements are in S.
IsList(l, S) ==
  /\ l = [slots |-> l.slots, len |-> l.len, cap |-> l.cap]
  /\ l.cap \in Nat \ {0} /\ l.len \in 0..l.cap
  /\ DOMAIN l.slots = 1..l.cap
  /\ \A i \in 1..l.len : l.slots[i] \in S

\* The index points at every entry, once, and carries its hash.
PointsInside(E, I) == \A i \in 1..I.len : I.slots[i].e < E.len
PointsOnce(I) == \A i, j \in 1..I.len : I.slots[i].e = I.slots[j].e => i = j
PointsEverywhere(E, I) == \A n \in 1..E.len : \E i \in 1..I.len : I.slots[i].e + 1 = n
SameHash(E, I) == \A i \in 1..I.len : I.slots[i].h = E.slots[I.slots[i].e + 1].h

Sorted(I) == \A i, j \in 1..I.len : i <= j => I.slots[i].h <= I.slots[j].h

\* No key is stored twice, and every entry has the hash of its key.
KeysOnce(E) == \A i, j \in 1..E.len : E.slots[i].k = E.slots[j].k => i = j
KeyHash(E) == \A i \in 1..E.len : E.slots[i].h = Hash[E.slots[i].k]

Structured(E, I) ==
  /\ IsList(E, Entry) /\ IsList(I, Node) /\ I.len = E.len
  /\ PointsInside(E, I) /\ PointsOnce(I) /\ PointsEverywhere(E, I) /\ SameHash(E, I)
  /\ Sorted(I) /\ KeysOnce(E) /\ KeyHash(E)

\* The arguments an operation has.
CallOf(o) ==
  /\ o[1] \in {"set", "with_lock"} => o[2] \in Keys /\ o[3] \in Vals
  /\ o[1] \in {"del", "get", "in"} => o[2] \in Keys
  /\ o[1] \in {"check", "between", "read", "value_at"} => o[2] \in Nat
Calls == op = [t \in Threads |-> op[t]] /\ \A t \in Threads : CallOf(op[t])

\* A thread in an operation has no answer yet, so it has no reference to lose.
Answers ==
  /\ answer = [t \in Threads |-> answer[t]]
  /\ \A t \in Threads : op[t] # Idle => answer[t] = None

\* The inductive invariant.
DictInv == Structured(entries, indices) /\ Calls /\ Answers

\* The counts are numbers, and right.
RefsInv == refs \in [Keys \cup Vals -> Int] /\ RefsExact

-------------------------------------------------------------------------------
(* RawList                                                                   *)

\* An empty RawList.
LEMMA EmptyFacts == ASSUME NEW S PROVE IsList(RawList, S) /\ RawList.len = 0
BY DictAssumption DEF IsList, RawList

\* Growing an array keeps its elements and makes room for one more.
LEMMA GrowFacts ==
  ASSUME NEW S, NEW l, IsList(l, S)
  PROVE  /\ IsList(grow(l), S) /\ grow(l).len = l.len /\ l.len < grow(l).cap
         /\ \A i \in 1..l.len : grow(l).slots[i] = l.slots[i]
<1>1. CASE l.len < l.cap
  BY <1>1 DEF IsList, grow
<1>2. CASE ~ (l.len < l.cap)
  <2> DEFINE new == [i \in 1..2 * l.cap |-> IF i <= l.len THEN l.slots[i] ELSE None]
  <2>1. grow(l) = [slots |-> new, len |-> l.len, cap |-> 2 * l.cap]
    BY <1>2 DEF grow
  <2>2. 2 * l.cap \in Nat \ {0} /\ l.len \in 0..2 * l.cap /\ l.len < 2 * l.cap /\ l.len \in Nat
    BY DEF IsList
  <2>3. DOMAIN new = 1..2 * l.cap /\ \A i \in 1..l.len : new[i] = l.slots[i]
    BY <2>2
  <2> HIDE DEF new
  <2> QED BY <2>1, <2>2, <2>3 DEF IsList
<1> QED BY <1>1, <1>2

\* Inserting moves the elements from the position on up by one.
LEMMA InsertFacts ==
  ASSUME NEW S, NEW l, IsList(l, S), NEW idx \in 0..l.len, NEW x \in S
  PROVE  /\ IsList(insert_at(l, idx, x), S)
         /\ insert_at(l, idx, x).len = l.len + 1
         /\ \A j \in 1..l.len + 1 : insert_at(l, idx, x).slots[j] =
              IF j <= idx THEN l.slots[j] ELSE IF j = idx + 1 THEN x ELSE l.slots[j - 1]
<1> DEFINE g == grow(l)
           at == IF idx > l.len THEN l.len ELSE idx
           new == [i \in 1..g.cap |-> CASE i = at + 1 -> x
                                        [] i > at + 1 /\ i <= l.len + 1 -> g.slots[i - 1]
                                        [] OTHER -> g.slots[i]]
<1>1. IsList(g, S) /\ g.len = l.len /\ l.len < g.cap /\ \A i \in 1..l.len : g.slots[i] = l.slots[i]
  BY GrowFacts
<1>2. l.len \in Nat /\ idx \in Nat /\ idx <= l.len /\ g.cap \in Nat /\ l.len + 1 <= g.cap
  BY <1>1 DEF IsList
<1>0. at = idx
  BY <1>2
<1> HIDE DEF g, at
<1>3. insert_at(l, idx, x) = [slots |-> new, len |-> l.len + 1, cap |-> g.cap]
  BY DEF insert_at, g, at
<1>4. DOMAIN new = 1..g.cap
  OBVIOUS
<1>5. ASSUME NEW j \in 1..l.len + 1
      PROVE  new[j] = IF j <= idx THEN l.slots[j] ELSE IF j = idx + 1 THEN x ELSE l.slots[j - 1]
  <2>1. j \in 1..g.cap
    BY <1>2
  <2>2. CASE j <= idx
    <3>1. j \in 1..l.len /\ ~ (j = idx + 1) /\ ~ (j > idx + 1)
      BY <1>2, <2>2
    <3>2. new[j] = g.slots[j]
      BY <1>0, <2>1, <3>1
    <3> QED BY <1>1, <2>2, <3>1, <3>2
  <2>3. CASE j = idx + 1
    <3>1. new[j] = x
      BY <1>0, <2>1, <2>3
    <3> QED BY <1>2, <2>3, <3>1
  <2>4. CASE j > idx + 1
    <3>1. j - 1 \in 1..l.len /\ ~ (j = idx + 1) /\ j <= l.len + 1 /\ ~ (j <= idx)
      BY <1>2, <2>4
    <3>2. new[j] = g.slots[j - 1]
      BY <1>0, <2>1, <2>4, <3>1
    <3> QED BY <1>1, <2>4, <3>1, <3>2
  <2> QED BY <1>2, <2>2, <2>3, <2>4
<1> HIDE DEF new
<1>6. ASSUME NEW j \in 1..l.len + 1 PROVE new[j] \in S
  <2>1. \A i \in 1..l.len : l.slots[i] \in S
    BY DEF IsList
  <2>2. CASE j <= idx
    <3>1. j \in 1..l.len
      BY <1>2, <2>2
    <3> QED BY <1>5, <2>1, <2>2, <3>1
  <2>3. CASE j = idx + 1
    BY <1>2, <1>5, <2>3
  <2>4. CASE j > idx + 1
    <3>1. j - 1 \in 1..l.len /\ ~ (j <= idx) /\ ~ (j = idx + 1)
      BY <1>2, <2>4
    <3> QED BY <1>5, <2>1, <3>1
  <2> QED BY <1>2, <2>2, <2>3, <2>4
<1>7. IsList(insert_at(l, idx, x), S)
  <2>1. g.cap \in Nat \ {0} /\ l.len + 1 \in 0..g.cap
    BY <1>2
  <2> QED BY <1>3, <1>4, <1>6, <2>1 DEF IsList
<1> QED BY <1>3, <1>5, <1>7

\* Removing moves the elements behind the position down by one.
LEMMA RemoveFacts ==
  ASSUME NEW S, NEW l, IsList(l, S), NEW idx \in 0..l.len - 1
  PROVE  /\ IsList(remove_at(l, idx), S)
         /\ remove_at(l, idx).len = l.len - 1
         /\ \A j \in 1..l.len - 1 : remove_at(l, idx).slots[j] =
              IF j <= idx THEN l.slots[j] ELSE l.slots[j + 1]
<1> DEFINE new == [i \in 1..l.cap |-> IF i > idx /\ i < l.len THEN l.slots[i + 1] ELSE l.slots[i]]
<1>1. remove_at(l, idx) = [slots |-> new, len |-> l.len - 1, cap |-> l.cap]
  BY DEF remove_at
<1>2. l.len \in Nat /\ l.cap \in Nat \ {0} /\ l.len <= l.cap /\ idx \in Nat /\ idx < l.len
  BY DEF IsList
<1>3. DOMAIN new = 1..l.cap
  OBVIOUS
<1>4. \A j \in 1..l.len - 1 : new[j] = IF j <= idx THEN l.slots[j] ELSE l.slots[j + 1]
  BY <1>2
<1>5. \A j \in 1..l.len - 1 : new[j] \in S
  BY <1>2, <1>4 DEF IsList
<1> HIDE DEF new
<1>6. IsList(remove_at(l, idx), S)
  <2>1. l.len - 1 \in 0..l.cap
    BY <1>2
  <2> QED BY <1>1, <1>2, <1>3, <1>5, <2>1 DEF IsList
<1> QED BY <1>1, <1>4, <1>6

-------------------------------------------------------------------------------
(* The binary search                                                         *)

\* A set of naturals that is not empty has a least member.
LEMMA LeastOf ==
  ASSUME NEW X \in SUBSET Nat, X # {}
  PROVE  \E m \in X : \A n \in X : m <= n
<1> DEFINE R == {p \in Nat \X Nat : p[1] < p[2]}
<1>1. IsWellFoundedOn(R, Nat)
  BY NatLessThanWellFounded DEF OpToRel
<1>2. \A m, n \in Nat : n < m => <<n, m>> \in R
  OBVIOUS
<1> HIDE DEF R
<1>3. PICK m \in X : \A n \in X : <<n, m>> \notin R
  BY <1>1, WFMin
<1>4. \A n \in X : m \in Nat /\ n \in Nat /\ ~ (n < m)
  BY <1>2, <1>3
<1> QED BY <1>4

\* The windows of an array of n elements, and those of size at most m.
Windows(n) == (0..n) \X (0..n)
Small(n, m) == {w \in Windows(n) : w[2] - w[1] <= m}
Mid(w) == (w[1] + w[2]) \div 2

\* One round of the search on window w, where g answers for smaller windows.
Round(l, h, g, w) ==
  IF w[1] >= w[2] THEN w[1]
  ELSE IF At(l, Mid(w)).h < h THEN g[<<Mid(w) + 1, w[2]>>] ELSE g[<<w[1], Mid(w)>>]

\* A window that is not empty is cut into two smaller ones.
LEMMA Halves ==
  ASSUME NEW n \in Nat, NEW w \in Windows(n), w[1] < w[2]
  PROVE  /\ Mid(w) \in Nat /\ w[1] <= Mid(w) /\ Mid(w) < w[2]
         /\ <<Mid(w) + 1, w[2]>> \in Windows(n) /\ <<w[1], Mid(w)>> \in Windows(n)
         /\ w[2] - (Mid(w) + 1) < w[2] - w[1] /\ Mid(w) - w[1] < w[2] - w[1]
<1>1. w[1] \in 0..n /\ w[2] \in 0..n
  BY DEF Windows
<1>2. Mid(w) \in Nat /\ w[1] <= Mid(w) /\ Mid(w) < w[2]
  BY <1>1 DEF Mid
<1>3. Mid(w) + 1 \in 0..n /\ Mid(w) \in 0..n
  BY <1>1, <1>2
<1> QED BY <1>1, <1>2, <1>3 DEF Windows

\* The search is defined for all windows.
LEMMA SearchDefined ==
  ASSUME NEW l, l.len \in Nat, NEW h
  PROVE  \E g : g = [w \in Windows(l.len) |-> Round(l, h, g, w)]
<1> DEFINE N == l.len
           P(m) == \E g : g = [w \in Small(N, m) |-> Round(l, h, g, w)]
           X == {m \in Nat : ~ P(m)}
<1>1. P(0)
  <2> DEFINE g == [w \in Small(N, 0) |-> w[1]]
  <2>1. \A w \in Small(N, 0) : Round(l, h, g, w) = w[1]
    BY DEF Small, Windows, Round
  <2>2. g = [w \in Small(N, 0) |-> Round(l, h, g, w)]
    BY <2>1
  <2> QED BY <2>2
<1>2. ASSUME NEW m \in Nat, P(m) PROVE P(m + 1)
  <2>1. PICK g : g = [w \in Small(N, m) |-> Round(l, h, g, w)]
    BY <1>2
  <2> DEFINE f == [w \in Small(N, m + 1) |-> Round(l, h, g, w)]
  <2>2. ASSUME NEW w \in Small(N, m) PROVE f[w] = g[w]
    <3>1. w \in Small(N, m + 1)
      BY DEF Small, Windows
    <3>2. f[w] = Round(l, h, g, w)
      BY <3>1
    <3>3. g[w] = Round(l, h, g, w)
      BY <2>1
    <3> QED BY <3>2, <3>3
  <2> HIDE DEF f
  <2>3. ASSUME NEW w \in Small(N, m + 1) PROVE Round(l, h, f, w) = Round(l, h, g, w)
    <3>0. w[1] \in Int /\ w[2] \in Int /\ w \in Windows(N) /\ w[2] - w[1] <= m + 1
      BY DEF Small, Windows
    <3>1. CASE w[1] >= w[2]
      BY <3>1 DEF Round
    <3>2. CASE ~ (w[1] >= w[2])
      <4>1. w[1] < w[2]
        BY <3>0, <3>2
      <4>2. /\ Mid(w) \in Nat /\ w[1] <= Mid(w) /\ Mid(w) < w[2]
            /\ <<Mid(w) + 1, w[2]>> \in Windows(N) /\ <<w[1], Mid(w)>> \in Windows(N)
            /\ w[2] - (Mid(w) + 1) < w[2] - w[1] /\ Mid(w) - w[1] < w[2] - w[1]
        BY <3>0, <4>1, Halves
      <4>3. <<Mid(w) + 1, w[2]>> \in Small(N, m) /\ <<w[1], Mid(w)>> \in Small(N, m)
        BY <3>0, <4>2 DEF Small
      <4>4. f[<<Mid(w) + 1, w[2]>>] = g[<<Mid(w) + 1, w[2]>>] /\ f[<<w[1], Mid(w)>>] = g[<<w[1], Mid(w)>>]
        BY <2>2, <4>3
      <4> QED BY <4>4 DEF Round
    <3> QED BY <3>1, <3>2
  <2>4. f = [w \in Small(N, m + 1) |-> Round(l, h, f, w)]
    BY <2>3 DEF f
  <2> QED BY <2>4
<1>3. X = {}
  <2> SUFFICES ASSUME X # {} PROVE FALSE
    OBVIOUS
  <2>1. PICK m \in X : \A n \in X : m <= n
    <3> HIDE DEF P
    <3>1. X \in SUBSET Nat
      OBVIOUS
    <3> HIDE DEF X
    <3> QED BY <3>1, LeastOf
  <2> HIDE DEF P
  <2>2. m \in Nat /\ ~ P(m) /\ m # 0
    BY <2>1, <1>1
  <2>3. m - 1 \in Nat /\ (m - 1) + 1 = m /\ P(m - 1)
    BY <2>1, <2>2
  <2> QED BY <1>2, <2>2, <2>3
<1>4. Small(N, N) = Windows(N)
  BY DEF Small, Windows
<1>5. P(N)
  BY <1>3
<1> QED BY <1>4, <1>5

\* What a search of a sorted array returns: the elements before it have smaller
\* hashes, the others do not.
LEMMA SearchFacts ==
  ASSUME NEW l, IsList(l, Node), Sorted(l), NEW h \in Nat
  PROVE  /\ bisect_left_by_key(l, h) \in 0..l.len
         /\ \A i \in 1..l.len : i <= bisect_left_by_key(l, h) <=> l.slots[i].h < h
<1> DEFINE N == l.len
           g == CHOOSE g : g = [w \in Windows(N) |-> Round(l, h, g, w)]
<1>0. N \in Nat /\ \A i \in 1..N : l.slots[i].h \in Nat
  BY DEF IsList, Node
<1>1. g = [w \in Windows(N) |-> Round(l, h, g, w)]
  BY <1>0, SearchDefined, Zenon
<1>2. bisect_left_by_key(l, h) = g[<<0, N>>]
  BY DEF bisect_left_by_key, Windows, Round, Mid
<1> HIDE DEF g
<1> DEFINE Before(w) == \A i \in 1..N : i <= w[1] => l.slots[i].h < h
           Behind(w) == \A i \in 1..N : i > w[2] => ~ (l.slots[i].h < h)
           Good(w) == g[w] \in 0..N /\ \A i \in 1..N : i <= g[w] <=> l.slots[i].h < h
           X == {n \in Nat : \E w \in Windows(N) : /\ w[1] <= w[2] /\ w[2] - w[1] = n
                                                   /\ Before(w) /\ Behind(w) /\ ~ Good(w)}
<1>3. ASSUME NEW w \in Windows(N), w[1] <= w[2], Before(w), Behind(w),
             \A u \in Windows(N) : u[1] <= u[2] /\ u[2] - u[1] < w[2] - w[1] /\ Before(u) /\ Behind(u)
                                   => Good(u)
      PROVE  Good(w)
  <2>0. w[1] \in 0..N /\ w[2] \in 0..N /\ g[w] = Round(l, h, g, w)
    BY <1>1 DEF Windows
  <2>1. CASE w[1] >= w[2]
    <3>1. g[w] = w[1] /\ w[1] = w[2]
      BY <1>3, <2>0, <2>1 DEF Round
    <3> QED BY <1>0, <1>3, <2>0, <3>1
  <2>2. CASE ~ (w[1] >= w[2])
    <3>1. w[1] < w[2]
      BY <2>0, <2>2
    <3>2. /\ Mid(w) \in Nat /\ w[1] <= Mid(w) /\ Mid(w) < w[2]
          /\ <<Mid(w) + 1, w[2]>> \in Windows(N) /\ <<w[1], Mid(w)>> \in Windows(N)
          /\ w[2] - (Mid(w) + 1) < w[2] - w[1] /\ Mid(w) - w[1] < w[2] - w[1]
      BY <1>0, <3>1, Halves
    <3>3. Mid(w) + 1 \in 1..N
      BY <1>0, <2>0, <3>2
    <3>4. CASE At(l, Mid(w)).h < h
      <4> DEFINE u == <<Mid(w) + 1, w[2]>>
      <4>1. g[w] = g[u]
        BY <2>0, <2>2, <3>4 DEF Round
      <4>2. u[1] = Mid(w) + 1 /\ u[2] = w[2]
        OBVIOUS
      <4>3. Before(u)
        <5> SUFFICES ASSUME NEW i \in 1..N, i <= Mid(w) + 1 PROVE l.slots[i].h < h
          BY <4>2
        <5>1. l.slots[i].h <= l.slots[Mid(w) + 1].h
          BY <3>3 DEF Sorted
        <5> QED BY <1>0, <3>3, <3>4, <5>1 DEF At
      <4>4. Behind(u)
        BY <1>3, <4>2
      <4>5. u \in Windows(N) /\ u[1] <= u[2] /\ u[2] - u[1] < w[2] - w[1]
        BY <2>0, <3>2, <4>2
      <4> HIDE DEF u, Before, Behind
      <4>6. Good(u)
        BY <1>3, <4>3, <4>4, <4>5
      <4> QED BY <4>1, <4>6
    <3>5. CASE ~ (At(l, Mid(w)).h < h)
      <4> DEFINE u == <<w[1], Mid(w)>>
      <4>1. g[w] = g[u]
        BY <2>0, <2>2, <3>5 DEF Round
      <4>2. u[1] = w[1] /\ u[2] = Mid(w)
        OBVIOUS
      <4>3. Behind(u)
        <5> SUFFICES ASSUME NEW i \in 1..N, i > Mid(w) PROVE ~ (l.slots[i].h < h)
          BY <4>2
        <5>1. Mid(w) + 1 <= i
          BY <3>2
        <5>2. l.slots[Mid(w) + 1].h <= l.slots[i].h
          BY <3>3, <5>1 DEF Sorted
        <5> QED BY <1>0, <3>3, <3>5, <5>2 DEF At
      <4>4. Before(u)
        BY <1>3, <4>2
      <4>5. u \in Windows(N) /\ u[1] <= u[2] /\ u[2] - u[1] < w[2] - w[1]
        BY <2>0, <3>2, <4>2
      <4> HIDE DEF u, Before, Behind
      <4>6. Good(u)
        BY <1>3, <4>3, <4>4, <4>5
      <4> QED BY <4>1, <4>6
    <3> QED BY <3>4, <3>5
  <2> QED BY <2>1, <2>2
<1>4. X = {}
  <2> SUFFICES ASSUME X # {} PROVE FALSE
    OBVIOUS
  <2> HIDE DEF Before, Behind, Good
  <2>1. PICK n \in X : \A m \in X : n <= m
    <3>1. X \in SUBSET Nat
      OBVIOUS
    <3> HIDE DEF X
    <3> QED BY <3>1, LeastOf
  <2>2. PICK w \in Windows(N) : w[1] <= w[2] /\ w[2] - w[1] = n /\ Before(w) /\ Behind(w) /\ ~ Good(w)
    BY <2>1
  <2>3. ASSUME NEW u \in Windows(N), u[1] <= u[2], u[2] - u[1] < w[2] - w[1], Before(u), Behind(u)
        PROVE  Good(u)
    <3>1. u[2] - u[1] \in Nat /\ u[2] - u[1] < n /\ n \in Nat
      BY <1>0, <2>1, <2>2, <2>3 DEF Windows
    <3>2. u[2] - u[1] \notin X
      BY <2>1, <3>1
    <3> QED BY <2>3, <3>1, <3>2
  <2> QED BY <1>3, <2>2, <2>3
<1>5. <<0, N>> \in Windows(N) /\ <<0, N>>[1] = 0 /\ <<0, N>>[2] = N
  BY <1>0 DEF Windows
<1>6. Before(<<0, N>>) /\ Behind(<<0, N>>)
  BY <1>0, <1>5
<1>7. Good(<<0, N>>)
  <2>1. N \notin X
    BY <1>4
  <2> HIDE DEF Before, Behind, Good
  <2> QED BY <1>0, <1>5, <1>6, <2>1
<1> QED BY <1>2, <1>7

\* The search finds a key if and only if an entry holds it, and then answers
\* with the position of that entry.
LEMMA FindFacts ==
  ASSUME Structured(entries, indices), NEW k \in Keys
  PROVE  \/ /\ find_entry_idx(k) = NotFound
            /\ \A n \in 1..entries.len : entries.slots[n].k # k
         \/ /\ find_indices_pos(k) \in 0..indices.len - 1
            /\ find_entry_idx(k) = At(indices, find_indices_pos(k)).e
            /\ find_entry_idx(k) \in 0..entries.len - 1
            /\ find_entry_idx(k) # NotFound
            /\ At(entries, find_entry_idx(k)).k = k
<1> DEFINE h == Hash[k]
           b == lower_bound(h)
<1>0. /\ entries.len \in Nat /\ indices.len = entries.len /\ h \in Nat
      /\ \A i \in 1..indices.len : indices.slots[i].h \in Nat /\ indices.slots[i].e \in Nat
  BY DictAssumption DEF Structured, IsList, Node
<1>1. b \in 0..indices.len /\ \A i \in 1..indices.len : i <= b <=> indices.slots[i].h < h
  BY <1>0, SearchFacts DEF Structured, lower_bound
<1> HIDE DEF b
<1>2. Scan(h) = {p \in b..indices.len - 1 : \A q \in b..p : At(indices, q).h = h}
  BY DEF Scan, b
<1>3. CASE Matches(k) = {}
  <2>1. find_entry_idx(k) = NotFound
    BY <1>3 DEF find_entry_idx, find_indices_pos
  <2>2. ASSUME NEW n \in 1..entries.len, entries.slots[n].k = k PROVE FALSE
    <3>1. PICK i \in 1..indices.len : indices.slots[i].e + 1 = n
      BY DEF Structured, PointsEverywhere
    <3>2. indices.slots[i].h = h
      BY <2>2, <3>1 DEF Structured, SameHash, KeyHash
    <3>3. i > b /\ i - 1 \in b..indices.len - 1
      BY <1>0, <1>1, <3>2
    <3>4. ASSUME NEW q \in b..i - 1 PROVE At(indices, q).h = h
      <4>1. q + 1 \in 1..indices.len /\ q + 1 <= i /\ q + 1 > b
        BY <1>0, <1>1
      <4>2. indices.slots[q + 1].h <= indices.slots[i].h
        BY <4>1 DEF Structured, Sorted
      <4>3. ~ (indices.slots[q + 1].h < h)
        BY <1>1, <4>1
      <4> QED BY <1>0, <3>2, <4>1, <4>2, <4>3 DEF At
    <3>5. i - 1 \in Scan(h)
      BY <1>2, <3>3, <3>4
    <3>6. At(indices, i - 1) = indices.slots[i]
      BY DEF At
    <3>7. At(entries, At(indices, i - 1).e).k = k
      BY <2>2, <3>1, <3>6 DEF At
    <3> QED BY <1>3, <3>5, <3>7 DEF Matches
  <2> QED BY <2>1, <2>2
<1>4. CASE Matches(k) # {}
  <2>1. Matches(k) \in SUBSET Nat
    BY <1>0, <1>1, <1>2 DEF Matches
  <2>2. \E p \in Matches(k) : \A q \in Matches(k) : p <= q
    BY <1>4, <2>1, LeastOf
  <2>3. find_indices_pos(k) = CHOOSE p \in Matches(k) : \A q \in Matches(k) : p <= q
    BY <1>4 DEF find_indices_pos
  <2>4. find_indices_pos(k) \in Matches(k)
    BY <2>2, <2>3
  <2> DEFINE p == find_indices_pos(k)
  <2> HIDE DEF p
  <2>5. p \in b..indices.len - 1 /\ At(entries, At(indices, p).e).k = k
    BY <1>2, <2>4 DEF Matches, p
  <2>6. p \in 0..indices.len - 1 /\ p + 1 \in 1..indices.len /\ p # NotFound
    BY <1>0, <1>1, <2>5 DEF NotFound
  <2>7. find_entry_idx(k) = At(indices, p).e
    BY <2>6 DEF find_entry_idx, p
  <2>8. At(indices, p).e \in 0..entries.len - 1
    BY <1>0, <2>6 DEF Structured, PointsInside, At
  <2>9. At(indices, p).e # NotFound
    BY <1>0, <2>8 DEF NotFound
  <2> QED BY <2>5, <2>6, <2>7, <2>8, <2>9 DEF p
<1> QED BY <1>3, <1>4

-------------------------------------------------------------------------------
(* The arrays stay one structure                                             *)

\* Two empty arrays.
LEMMA EmptyStructured == Structured(RawList, RawList)
BY EmptyFacts DEF Structured, PointsInside, PointsOnce, PointsEverywhere, SameHash, Sorted, KeysOnce, KeyHash

\* A key that no entry holds is appended, and its index node goes where the
\* search says.
LEMMA InsertStructured ==
  ASSUME NEW E, NEW I, Structured(E, I), NEW k \in Keys, NEW v \in Vals,
         \A n \in 1..E.len : E.slots[n].k # k
  PROVE  Structured(append(E, [h |-> Hash[k], k |-> k, v |-> v]),
                    insert_at(I, bisect_left_by_key(I, Hash[k]), [h |-> Hash[k], e |-> E.len]))
<1> DEFINE x == [h |-> Hash[k], k |-> k, v |-> v]
           y == [h |-> Hash[k], e |-> E.len]
           b == bisect_left_by_key(I, Hash[k])
           F == append(E, x)
           J == insert_at(I, b, y)
           N == E.len
<1>0. /\ N \in Nat /\ I.len = N /\ Hash[k] \in Nat /\ IsList(E, Entry) /\ IsList(I, Node)
      /\ \A i \in 1..N : I.slots[i].h \in Nat /\ I.slots[i].e \in Nat /\ I.slots[i].e + 1 \in 1..N
  BY DictAssumption DEF Structured, IsList, Node, PointsInside
<1>1. b \in 0..N /\ \A i \in 1..N : i <= b <=> I.slots[i].h < Hash[k]
  BY <1>0, SearchFacts DEF Structured
<1> HIDE DEF b
<1>2. x \in Entry /\ y \in Node /\ x.k = k /\ x.h = Hash[k] /\ y.h = Hash[k] /\ y.e = N
  BY <1>0 DEF Entry, Node
<1> HIDE DEF x, y
<1>3. /\ IsList(F, Entry) /\ F.len = N + 1
      /\ \A j \in 1..N + 1 : F.slots[j] =
           IF j <= N THEN E.slots[j] ELSE IF j = N + 1 THEN x ELSE E.slots[j - 1]
  <2>1. N \in 0..E.len
    BY <1>0
  <2> QED BY <1>0, <1>2, <2>1, InsertFacts DEF append
<1>4. /\ IsList(J, Node) /\ J.len = N + 1
      /\ \A j \in 1..N + 1 : J.slots[j] =
           IF j <= b THEN I.slots[j] ELSE IF j = b + 1 THEN y ELSE I.slots[j - 1]
  <2>1. b \in 0..I.len
    BY <1>0, <1>1
  <2> QED BY <1>0, <1>2, <2>1, InsertFacts
<1> HIDE DEF F, J
<1>5. /\ F.slots[N + 1] = x /\ \A j \in 1..N : F.slots[j] = E.slots[j]
  BY <1>0, <1>3
\* where an element of the new index comes from
<1> DEFINE From(j) == IF j <= b THEN j ELSE j - 1
<1>6. /\ \A j \in 1..N + 1 : j # b + 1 => From(j) \in 1..N /\ J.slots[j] = I.slots[From(j)]
      /\ J.slots[b + 1] = y /\ b + 1 \in 1..N + 1
  BY <1>0, <1>1, <1>4
<1>7. \A i, j \in 1..N + 1 : i # b + 1 /\ j # b + 1 => /\ i <= j => From(i) <= From(j)
                                                       /\ From(i) = From(j) => i = j
  <2>1. \A i \in 1..N + 1 : i \in Int /\ b \in Int
    BY <1>0, <1>1
  <2>2. \A i, j, c \in Int :
          LET f == IF i <= c THEN i ELSE i - 1
              g == IF j <= c THEN j ELSE j - 1
          IN i # c + 1 /\ j # c + 1 => (i <= j => f <= g) /\ (f = g => i = j)
    OBVIOUS
  <2> QED BY <2>1, <2>2
<1>8. \A j \in 1..N + 1 : j # b + 1 => /\ j < b + 1 <=> From(j) <= b
                                       /\ j > b + 1 => From(j) > b
  BY <1>0, <1>1
<1>9. \A i \in 1..N : \E j \in 1..N + 1 : j # b + 1 /\ From(j) = i
  <2> TAKE i \in 1..N
  <2>1. CASE i <= b
    <3>1. i \in 1..N + 1 /\ i # b + 1 /\ From(i) = i
      BY <1>0, <1>1, <2>1
    <3> QED BY <3>1
  <2>2. CASE ~ (i <= b)
    <3>1. i + 1 \in 1..N + 1 /\ i + 1 # b + 1 /\ From(i + 1) = i
      BY <1>0, <1>1, <2>2
    <3> QED BY <3>1
  <2> QED BY <2>1, <2>2
<1> HIDE DEF From
<1>10. PointsInside(F, J)
  <2> SUFFICES ASSUME NEW j \in 1..N + 1 PROVE J.slots[j].e < N + 1
    BY <1>3, <1>4 DEF PointsInside
  <2>1. CASE j = b + 1
    BY <1>0, <1>2, <1>6, <2>1
  <2>2. CASE j # b + 1
    <3>1. I.slots[From(j)].e + 1 \in 1..N /\ I.slots[From(j)].e \in Nat
      BY <1>0, <1>6, <2>2
    <3> QED BY <1>0, <1>6, <2>2, <3>1
  <2> QED BY <2>1, <2>2
<1>11. PointsOnce(J)
  <2> SUFFICES ASSUME NEW i \in 1..N + 1, NEW j \in 1..N + 1, J.slots[i].e = J.slots[j].e
               PROVE  i = j
    BY <1>4 DEF PointsOnce
  <2>1. ASSUME NEW n \in 1..N + 1, n # b + 1 PROVE J.slots[n].e # N
    <3>1. I.slots[From(n)].e + 1 \in 1..N /\ I.slots[From(n)].e \in Nat
      BY <1>0, <1>6, <2>1
    <3> QED BY <1>0, <1>6, <2>1, <3>1
  <2>2. CASE i # b + 1 /\ j # b + 1
    <3>1. From(i) = From(j)
      BY <1>0, <1>6, <2>2 DEF Structured, PointsOnce
    <3> QED BY <1>7, <2>2, <3>1
  <2> QED BY <1>2, <1>6, <2>1, <2>2
<1>12. PointsEverywhere(F, J)
  <2> SUFFICES ASSUME NEW n \in 1..N + 1 PROVE \E j \in 1..N + 1 : J.slots[j].e + 1 = n
    BY <1>3, <1>4 DEF PointsEverywhere
  <2>1. CASE n = N + 1
    BY <1>0, <1>2, <1>6, <2>1
  <2>2. CASE n # N + 1
    <3>1. n \in 1..N
      BY <1>0, <2>2
    <3>2. PICK i \in 1..N : I.slots[i].e + 1 = n
      BY <1>0, <3>1 DEF Structured, PointsEverywhere
    <3>3. PICK j \in 1..N + 1 : j # b + 1 /\ From(j) = i
      BY <1>9
    <3> QED BY <1>6, <3>2, <3>3
  <2> QED BY <2>1, <2>2
<1>13. SameHash(F, J)
  <2> SUFFICES ASSUME NEW j \in 1..N + 1 PROVE J.slots[j].h = F.slots[J.slots[j].e + 1].h
    BY <1>4 DEF SameHash
  <2>1. CASE j = b + 1
    BY <1>2, <1>5, <1>6, <2>1
  <2>2. CASE j # b + 1
    <3>1. I.slots[From(j)].e + 1 \in 1..N /\ From(j) \in 1..N /\ J.slots[j] = I.slots[From(j)]
      BY <1>0, <1>6, <2>2
    <3>2. I.slots[From(j)].h = E.slots[I.slots[From(j)].e + 1].h
      BY <1>0, <3>1 DEF Structured, SameHash
    <3> QED BY <1>5, <3>1, <3>2
  <2> QED BY <2>1, <2>2
<1>14. Sorted(J)
  <2> SUFFICES ASSUME NEW i \in 1..N + 1, NEW j \in 1..N + 1, i <= j
               PROVE  J.slots[i].h <= J.slots[j].h
    BY <1>4 DEF Sorted
  <2>1. CASE i = b + 1 /\ j = b + 1
    BY <1>0, <1>2, <1>6, <2>1
  <2>2. CASE i = b + 1 /\ j # b + 1
    <3>1. From(j) \in 1..N /\ J.slots[j] = I.slots[From(j)] /\ From(j) > b
      BY <1>1, <1>6, <1>8, <2>2
    <3>2. ~ (I.slots[From(j)].h < Hash[k]) /\ I.slots[From(j)].h \in Nat
      BY <1>0, <1>1, <3>1
    <3> QED BY <1>0, <1>2, <1>6, <2>2, <3>1, <3>2
  <2>3. CASE i # b + 1 /\ j = b + 1
    <3>1. From(i) \in 1..N /\ J.slots[i] = I.slots[From(i)] /\ From(i) <= b
      BY <1>1, <1>6, <1>8, <2>3
    <3>2. I.slots[From(i)].h < Hash[k] /\ I.slots[From(i)].h \in Nat
      BY <1>0, <1>1, <3>1
    <3> QED BY <1>0, <1>2, <1>6, <2>3, <3>1, <3>2
  <2>4. CASE i # b + 1 /\ j # b + 1
    <3>1. From(i) <= From(j) /\ From(i) \in 1..N /\ From(j) \in 1..N
      BY <1>6, <1>7, <2>4
    <3> QED BY <1>0, <1>6, <2>4, <3>1 DEF Structured, Sorted
  <2> QED BY <2>1, <2>2, <2>3, <2>4
<1>15. KeysOnce(F)
  <2> SUFFICES ASSUME NEW i \in 1..N + 1, NEW j \in 1..N + 1, F.slots[i].k = F.slots[j].k
               PROVE  i = j
    BY <1>3 DEF KeysOnce
  <2>1. \A n \in 1..N + 1 : n # N + 1 => n \in 1..N
    BY <1>0
  <2> QED BY <1>2, <1>5, <2>1 DEF Structured, KeysOnce
<1>16. KeyHash(F)
  <2>1. \A n \in 1..N + 1 : n # N + 1 => n \in 1..N
    BY <1>0
  <2> QED BY <1>2, <1>3, <1>5, <2>1 DEF Structured, KeyHash
<1>17. Structured(F, J)
  BY <1>3, <1>4, <1>10, <1>11, <1>12, <1>13, <1>14, <1>15, <1>16 DEF Structured
<1> QED BY <1>17 DEF F, J, x, y, b

\* An entry and its index node are removed, and the nodes that point behind the
\* entry are moved with the entries they point at.
LEMMA RemoveStructured ==
  ASSUME NEW E, NEW I, Structured(E, I), NEW pos \in 0..I.len - 1
  PROVE  Structured(remove_at(E, At(I, pos).e),
                    fixup_indices_after_removal(remove_at(I, pos), At(I, pos).e))
<1> DEFINE N == E.len
           gone == At(I, pos).e
           F == remove_at(E, gone)
           K == remove_at(I, pos)
           J == fixup_indices_after_removal(K, gone)
<1>0. /\ N \in Nat /\ I.len = N /\ IsList(E, Entry) /\ IsList(I, Node)
      /\ \A i \in 1..N : /\ I.slots[i].h \in Nat /\ I.slots[i].e \in Nat
                         /\ I.slots[i].e + 1 \in 1..N
  BY DEF Structured, IsList, Node, PointsInside
<1>1. pos \in Nat /\ pos + 1 \in 1..N /\ I.slots[pos + 1].e = gone
  BY <1>0 DEF At
<1>2. gone \in Nat /\ gone \in 0..N - 1
  BY <1>0, <1>1
<1> HIDE DEF gone
<1>3. /\ IsList(F, Entry) /\ F.len = N - 1
      /\ \A j \in 1..N - 1 : F.slots[j] = IF j <= gone THEN E.slots[j] ELSE E.slots[j + 1]
  BY <1>0, <1>2, RemoveFacts
<1>4. /\ IsList(K, Node) /\ K.len = N - 1
      /\ \A j \in 1..N - 1 : K.slots[j] = IF j <= pos THEN I.slots[j] ELSE I.slots[j + 1]
  BY <1>0, RemoveFacts
<1> HIDE DEF F, K
\* where an element of the new index comes from, and where its entry has gone
<1> DEFINE From(j) == IF j <= pos THEN j ELSE j + 1
           Down(e) == IF e > gone THEN e - 1 ELSE e
<1>5. \A j \in 1..N - 1 : From(j) \in 1..N /\ From(j) # pos + 1 /\ K.slots[j] = I.slots[From(j)]
  BY <1>0, <1>1, <1>4
<1>6. \A i, j \in 1..N - 1 : (i <= j => From(i) <= From(j)) /\ (From(i) = From(j) => i = j)
  <2>1. \A i \in 1..N - 1 : i \in Int /\ pos \in Int
    BY <1>0, <1>1
  <2>2. \A i, j, c \in Int :
          LET f == IF i <= c THEN i ELSE i + 1
              g == IF j <= c THEN j ELSE j + 1
          IN (i <= j => f <= g) /\ (f = g => i = j)
    OBVIOUS
  <2> QED BY <2>1, <2>2
<1>7. \A i \in 1..N : i # pos + 1 => \E j \in 1..N - 1 : From(j) = i
  <2> SUFFICES ASSUME NEW i \in 1..N, i # pos + 1 PROVE \E j \in 1..N - 1 : From(j) = i
    OBVIOUS
  <2>1. CASE i <= pos
    <3>1. i \in 1..N - 1 /\ From(i) = i
      BY <1>0, <1>1, <2>1
    <3> QED BY <3>1
  <2>2. CASE ~ (i <= pos)
    <3>1. i - 1 \in 1..N - 1 /\ From(i - 1) = i
      BY <1>0, <1>1, <2>2
    <3> QED BY <3>1
  <2> QED BY <2>1, <2>2
<1> HIDE DEF From
<1>8. \A i \in 1..N : i # pos + 1 => I.slots[i].e # gone
  BY <1>0, <1>1 DEF Structured, PointsOnce
<1>9. /\ IsList(J, Node) /\ J.len = N - 1
      /\ \A j \in 1..N - 1 : /\ J.slots[j].h = I.slots[From(j)].h
                             /\ J.slots[j].e = Down(I.slots[From(j)].e)
  <2> DEFINE new == [i \in 1..K.cap |-> IF i <= K.len /\ K.slots[i].e > gone
                                         THEN [h |-> K.slots[i].h, e |-> K.slots[i].e - 1]
                                         ELSE K.slots[i]]
  <2>1. J = [slots |-> new, len |-> K.len, cap |-> K.cap]
    BY DEF fixup_indices_after_removal
  <2>2. K.cap \in Nat \ {0} /\ K.len \in 0..K.cap /\ \A j \in 1..N - 1 : K.slots[j] \in Node
    BY <1>4 DEF IsList
  <2>3. DOMAIN new = 1..K.cap
    OBVIOUS
  <2>4. ASSUME NEW j \in 1..N - 1
        PROVE  /\ new[j] \in Node /\ new[j].h = K.slots[j].h /\ new[j].e = Down(K.slots[j].e)
    <3>1. j \in 1..K.cap /\ j <= K.len
      BY <1>0, <1>4, <2>2
    <3>2. K.slots[j] \in Node /\ K.slots[j].e \in Nat /\ K.slots[j].h \in Nat
      BY <2>2 DEF Node
    <3>3. CASE K.slots[j].e > gone
      <4>1. new[j] = [h |-> K.slots[j].h, e |-> K.slots[j].e - 1]
        BY <3>1, <3>3
      <4>2. K.slots[j].e - 1 \in Nat
        BY <1>2, <3>2, <3>3
      <4> QED BY <3>2, <3>3, <4>1, <4>2 DEF Node
    <3>4. CASE ~ (K.slots[j].e > gone)
      <4>1. new[j] = K.slots[j]
        BY <3>1, <3>4
      <4> QED BY <3>2, <3>4, <4>1
    <3> QED BY <3>3, <3>4
  <2> HIDE DEF new
  <2>5. IsList(J, Node)
    BY <1>4, <2>1, <2>2, <2>3, <2>4 DEF IsList
  <2> QED BY <1>4, <1>5, <2>1, <2>4, <2>5
<1> HIDE DEF J
<1>10. \A d, e \in 0..N - 1 : d # gone /\ e # gone => /\ Down(d) = Down(e) => d = e
                                                     /\ Down(d) \in 0..N - 2
  <2>1. \A d \in 0..N - 1 : /\ d \in Int /\ gone \in Int /\ N \in Int
                            /\ gone <= N - 1 /\ gone >= 0 /\ d >= 0 /\ d <= N - 1
    BY <1>0, <1>2
  <2>2. \A d, e, g, n \in Int : d # g /\ e # g =>
          ((IF d > g THEN d - 1 ELSE d) = (IF e > g THEN e - 1 ELSE e) => d = e)
    OBVIOUS
  <2>3. \A d, g, n \in Int : d # g /\ g <= n - 1 /\ g >= 0 /\ d >= 0 /\ d <= n - 1 =>
          (IF d > g THEN d - 1 ELSE d) \in 0..n - 2
    OBVIOUS
  <2> QED BY <2>1, <2>2, <2>3
<1>11. \A j \in 1..N - 1 : /\ From(j) \in 1..N /\ From(j) # pos + 1
                           /\ I.slots[From(j)].e \in 0..N - 1 /\ I.slots[From(j)].e # gone
  <2>1. \A i \in 1..N : I.slots[i].e \in 0..N - 1
    BY <1>0
  <2> QED BY <1>5, <1>8, <2>1
\* an entry that stays is where Down says
<1>12. \A e \in 0..N - 1 : e # gone => F.slots[Down(e) + 1] = E.slots[e + 1]
  <2> SUFFICES ASSUME NEW e \in 0..N - 1, e # gone PROVE F.slots[Down(e) + 1] = E.slots[e + 1]
    OBVIOUS
  <2>1. CASE e > gone
    <3>1. Down(e) + 1 = e /\ e \in 1..N - 1 /\ ~ (e <= gone)
      BY <1>0, <1>2, <2>1
    <3> QED BY <1>3, <3>1
  <2>2. CASE ~ (e > gone)
    <3>1. Down(e) + 1 = e + 1 /\ e + 1 \in 1..N - 1 /\ e + 1 <= gone
      BY <1>0, <1>2, <2>2
    <3> QED BY <1>3, <3>1
  <2> QED BY <2>1, <2>2
<1>13. \A n \in 1..N - 1 : \E e \in 0..N - 1 : e # gone /\ Down(e) + 1 = n
  <2> TAKE n \in 1..N - 1
  <2>1. CASE n <= gone
    <3>1. n - 1 \in 0..N - 1 /\ n - 1 # gone /\ Down(n - 1) + 1 = n
      BY <1>0, <1>2, <2>1
    <3> QED BY <3>1
  <2>2. CASE ~ (n <= gone)
    <3>1. n \in 0..N - 1 /\ n # gone /\ Down(n) + 1 = n
      BY <1>0, <1>2, <2>2
    <3> QED BY <3>1
  <2> QED BY <2>1, <2>2
<1> HIDE DEF Down
<1>14. PointsInside(F, J)
  <2> SUFFICES ASSUME NEW j \in 1..N - 1 PROVE J.slots[j].e < N - 1
    BY <1>3, <1>9 DEF PointsInside
  <2>1. J.slots[j].e \in 0..N - 2
    BY <1>9, <1>10, <1>11
  <2> QED BY <1>0, <2>1
<1>15. PointsOnce(J)
  <2> SUFFICES ASSUME NEW i \in 1..N - 1, NEW j \in 1..N - 1, J.slots[i].e = J.slots[j].e
               PROVE  i = j
    BY <1>9 DEF PointsOnce
  <2>1. I.slots[From(i)].e = I.slots[From(j)].e
    BY <1>9, <1>10, <1>11
  <2>2. From(i) = From(j)
    BY <1>0, <1>11, <2>1 DEF Structured, PointsOnce
  <2> QED BY <1>6, <2>2
<1>16. PointsEverywhere(F, J)
  <2> SUFFICES ASSUME NEW n \in 1..N - 1 PROVE \E j \in 1..N - 1 : J.slots[j].e + 1 = n
    BY <1>3, <1>9 DEF PointsEverywhere
  <2>1. PICK e \in 0..N - 1 : e # gone /\ Down(e) + 1 = n
    BY <1>13
  <2>2. e + 1 \in 1..N
    BY <1>0
  <2>3. PICK i \in 1..N : I.slots[i].e + 1 = e + 1
    BY <1>0, <2>2 DEF Structured, PointsEverywhere
  <2>4. I.slots[i].e = e /\ i # pos + 1
    BY <1>0, <1>1, <2>1, <2>3
  <2>5. PICK j \in 1..N - 1 : From(j) = i
    BY <1>7, <2>4
  <2> QED BY <1>9, <2>1, <2>4, <2>5
<1>17. SameHash(F, J)
  <2> SUFFICES ASSUME NEW j \in 1..N - 1 PROVE J.slots[j].h = F.slots[J.slots[j].e + 1].h
    BY <1>9 DEF SameHash
  <2>1. I.slots[From(j)].h = E.slots[I.slots[From(j)].e + 1].h
    BY <1>0, <1>11 DEF Structured, SameHash
  <2> QED BY <1>9, <1>11, <1>12, <2>1
<1>18. Sorted(J)
  <2> SUFFICES ASSUME NEW i \in 1..N - 1, NEW j \in 1..N - 1, i <= j
               PROVE  J.slots[i].h <= J.slots[j].h
    BY <1>9 DEF Sorted
  <2>1. From(i) <= From(j) /\ From(i) \in 1..N /\ From(j) \in 1..N
    BY <1>6, <1>11
  <2> QED BY <1>0, <1>9, <2>1 DEF Structured, Sorted
<1>19. KeysOnce(F) /\ KeyHash(F)
  <2> DEFINE Old(j) == IF j <= gone THEN j ELSE j + 1
  <2>1. \A j \in 1..N - 1 : Old(j) \in 1..N /\ F.slots[j] = E.slots[Old(j)]
    BY <1>0, <1>2, <1>3
  <2>2. \A i, j \in 1..N - 1 : Old(i) = Old(j) => i = j
    <3>1. \A i \in 1..N - 1 : i \in Int /\ gone \in Int
      BY <1>0, <1>2
    <3>2. \A i, j, c \in Int : (IF i <= c THEN i ELSE i + 1) = (IF j <= c THEN j ELSE j + 1) => i = j
      OBVIOUS
    <3> QED BY <3>1, <3>2
  <2> HIDE DEF Old
  <2>3. KeysOnce(F)
    BY <1>3, <2>1, <2>2 DEF Structured, KeysOnce
  <2>4. KeyHash(F)
    BY <1>3, <2>1 DEF Structured, KeyHash
  <2> QED BY <2>3, <2>4
<1>20. Structured(F, J)
  BY <1>3, <1>9, <1>14, <1>15, <1>16, <1>17, <1>18, <1>19 DEF Structured
<1> QED BY <1>20 DEF F, J, K, gone

\* Overwriting a value changes nothing the index knows of.
LEMMA OverwriteStructured ==
  ASSUME NEW E, NEW I, Structured(E, I), NEW i \in 0..E.len - 1, NEW v \in Vals
  PROVE  LET F == [E EXCEPT !.slots[i + 1].v = v]
         IN /\ Structured(F, I) /\ F.len = E.len
            /\ \A n \in 1..E.len : /\ F.slots[n].k = E.slots[n].k
                                   /\ F.slots[n].v = IF n = i + 1 THEN v ELSE E.slots[n].v
<1> DEFINE F == [E EXCEPT !.slots[i + 1].v = v]
           new == [E.slots EXCEPT ![i + 1].v = v]
<1>0. E.len \in Nat /\ i + 1 \in 1..E.len /\ E.len <= E.cap /\ E.cap \in Nat \ {0} /\ IsList(E, Entry)
  BY DEF Structured, IsList
<1>1. F = [slots |-> new, len |-> E.len, cap |-> E.cap]
  <2>1. E = [slots |-> E.slots, len |-> E.len, cap |-> E.cap]
    BY <1>0 DEF IsList
  <2> QED BY <2>1
<1>2. /\ DOMAIN new = 1..E.cap
      /\ \A n \in 1..E.len : new[n] = IF n = i + 1 THEN [E.slots[n] EXCEPT !.v = v] ELSE E.slots[n]
  BY <1>0 DEF IsList
<1> HIDE DEF new
<1>3. \A n \in 1..E.len : /\ new[n] \in Entry /\ new[n].h = E.slots[n].h /\ new[n].k = E.slots[n].k
                          /\ new[n].v = IF n = i + 1 THEN v ELSE E.slots[n].v
  <2> TAKE n \in 1..E.len
  <2>1. E.slots[n] \in Entry
    BY <1>0 DEF IsList
  <2>2. /\ [E.slots[n] EXCEPT !.v = v] \in Entry
        /\ [E.slots[n] EXCEPT !.v = v].h = E.slots[n].h
        /\ [E.slots[n] EXCEPT !.v = v].k = E.slots[n].k
        /\ [E.slots[n] EXCEPT !.v = v].v = v
    BY <2>1 DEF Entry
  <2> QED BY <1>2, <2>1, <2>2
<1>4. IsList(F, Entry) /\ F.len = E.len /\ F.slots = new
  BY <1>0, <1>1, <1>2, <1>3 DEF IsList
<1> HIDE DEF F
<1>5. \A j \in 1..I.len : I.slots[j].e + 1 \in 1..E.len
  BY DEF Structured, IsList, Node, PointsInside
<1>6. SameHash(F, I)
  BY <1>3, <1>4, <1>5 DEF Structured, SameHash
<1>7. PointsInside(F, I) /\ PointsEverywhere(F, I)
  BY <1>4 DEF Structured, PointsInside, PointsEverywhere
<1>8. KeysOnce(F) /\ KeyHash(F)
  BY <1>3, <1>4 DEF Structured, KeysOnce, KeyHash
<1>9. Structured(F, I)
  BY <1>4, <1>6, <1>7, <1>8 DEF Structured
<1> QED BY <1>3, <1>4, <1>9 DEF F

-------------------------------------------------------------------------------
(* Counting references                                                       *)

Objects == Keys \cup Vals
One(b) == IF b THEN 1 ELSE 0
KeySlots(E, x) == {i \in 1..E.len : E.slots[i].k = x}
ValSlots(E, x) == {i \in 1..E.len : E.slots[i].v = x}
Carries(a, x) == a[1] \in {"value", "key"} /\ a[2] = x
Holders(a, x) == {t \in Threads : Carries(a[t], x)}

\* RefsExact of any counts, entries and answers.
RefsOK(r, E, a) ==
  \A x \in Objects : r[x] = 1 + Cardinality(KeySlots(E, x)) + Cardinality(ValSlots(E, x))
                              + Cardinality(Holders(a, x))

\* The property is RefsOK of the state.
LEMMA RefsExactIs == RefsExact <=> RefsOK(refs, entries, answer)
BY DEF RefsExact, RefsOK, Objects, KeySlots, ValSlots, Holders, Carries

\* Two sets that differ in one element at most.
LEMMA Differ ==
  ASSUME NEW A, NEW B, NEW g, IsFiniteSet(A), A \ {g} = B \ {g}
  PROVE  /\ IsFiniteSet(B) /\ Cardinality(A) \in Nat /\ Cardinality(B) \in Nat
         /\ Cardinality(B) = Cardinality(A) - One(g \in A) + One(g \in B)
<1> DEFINE C == A \ {g}
<1>1. /\ IsFiniteSet(C) /\ Cardinality(A) \in Nat
      /\ Cardinality(C) = IF g \in A THEN Cardinality(A) - 1 ELSE Cardinality(A)
  BY FS_RemoveElement, FS_CardinalityType
<1>2. IsFiniteSet(C \cup {g}) /\ Cardinality(C \cup {g}) = Cardinality(C) + 1 /\ Cardinality(C) \in Nat
  BY <1>1, FS_AddElement, FS_CardinalityType
<1>3. B = C \/ B = C \cup {g}
  OBVIOUS
<1>4. CASE g \in B
  <2>1. B = C \cup {g}
    BY <1>4
  <2> QED BY <1>1, <1>2, <1>4, <2>1 DEF One
<1>5. CASE g \notin B
  <2>1. B = C
    BY <1>5
  <2> QED BY <1>1, <1>2, <1>5, <2>1 DEF One
<1> QED BY <1>4, <1>5

\* A set of positions after the position g has been taken out of the list.
LEMMA Shifted ==
  ASSUME NEW n \in Nat, NEW g \in 1..n, NEW A \in SUBSET (1..n), NEW B \in SUBSET (1..n - 1),
         \A j \in 1..n - 1 : j \in B <=> (IF j < g THEN j ELSE j + 1) \in A
  PROVE  Cardinality(B) = Cardinality(A) - One(g \in A)
<1> DEFINE C == A \ {g}
           f == [j \in B |-> IF j < g THEN j ELSE j + 1]
<1>1. IsFiniteSet(A) /\ IsFiniteSet(B)
  <2>1. IsFiniteSet(1..n) /\ IsFiniteSet(1..n - 1)
    BY FS_Interval
  <2> QED BY <2>1, FS_Subset
<1>2. \A j \in B : f[j] \in C
  <2> TAKE j \in B
  <2>1. j \in 1..n - 1 /\ f[j] = IF j < g THEN j ELSE j + 1
    OBVIOUS
  <2>2. f[j] \in A
    BY <2>1
  <2>3. f[j] # g
    BY <2>1
  <2> QED BY <2>2, <2>3
<1>3. \A i, j \in B : f[i] = f[j] => i = j
  <2>1. \A i, j, c \in Int : (IF i < c THEN i ELSE i + 1) = (IF j < c THEN j ELSE j + 1) => i = j
    OBVIOUS
  <2>2. \A j \in B : j \in Int /\ g \in Int
    OBVIOUS
  <2> QED BY <2>1, <2>2
<1>4. \A c \in C : \E j \in B : f[j] = c
  <2> TAKE c \in C
  <2>1. c \in A /\ c \in 1..n /\ c # g
    OBVIOUS
  <2>2. CASE c < g
    <3>1. c \in 1..n - 1 /\ (IF c < g THEN c ELSE c + 1) = c
      BY <2>1, <2>2
    <3>2. c \in B
      BY <2>1, <3>1
    <3> QED BY <3>1, <3>2
  <2>3. CASE ~ (c < g)
    <3>1. c - 1 \in 1..n - 1 /\ (IF c - 1 < g THEN c - 1 ELSE (c - 1) + 1) = c
      BY <2>1, <2>3
    <3>2. c - 1 \in B
      BY <2>1, <3>1
    <3> QED BY <3>1, <3>2
  <2> QED BY <2>2, <2>3
<1>5. DOMAIN f = B
  OBVIOUS
<1> HIDE DEF f
<1>6. f \in Bijection(B, C)
  <2>1. f \in [B -> C]
    <3>1. f = [j \in B |-> f[j]]
      BY <1>5 DEF f
    <3> QED BY <1>2, <3>1
  <2>2. f \in Injection(B, C)
    BY <1>3, <2>1 DEF Injection, IsInjective
  <2>3. f \in Surjection(B, C)
    BY <1>4, <2>1 DEF Surjection
  <2> QED BY <2>2, <2>3 DEF Bijection
<1>7. Cardinality(C) = Cardinality(B)
  BY <1>1, <1>6, FS_Bijection DEF ExistsBijection
<1>8. Cardinality(C) = IF g \in A THEN Cardinality(A) - 1 ELSE Cardinality(A)
  BY <1>1, FS_RemoveElement
<1>9. Cardinality(A) \in Nat
  BY <1>1, FS_CardinalityType
<1> QED BY <1>7, <1>8, <1>9 DEF One

\* The positions of a list are a finite set.
LEMMA SlotsFinite ==
  ASSUME NEW E, E.len \in Nat, NEW x
  PROVE  /\ IsFiniteSet(KeySlots(E, x)) /\ Cardinality(KeySlots(E, x)) \in Nat
         /\ IsFiniteSet(ValSlots(E, x)) /\ Cardinality(ValSlots(E, x)) \in Nat
<1>1. IsFiniteSet(1..E.len)
  BY FS_Interval
<1>2. KeySlots(E, x) \in SUBSET (1..E.len) /\ ValSlots(E, x) \in SUBSET (1..E.len)
  BY DEF KeySlots, ValSlots
<1> QED BY <1>1, <1>2, FS_Subset, FS_CardinalityType

\* So are the threads that hold an answer.
LEMMA HoldersFinite ==
  ASSUME NEW a, NEW x
  PROVE  IsFiniteSet(Holders(a, x)) /\ Cardinality(Holders(a, x)) \in Nat
<1>1. Holders(a, x) \in SUBSET Threads
  BY DEF Holders
<1> QED BY <1>1, DictAssumption, FS_Subset, FS_CardinalityType

\* One slot of a list changes, or is added behind the others.
LEMMA OneSlotCounts ==
  ASSUME NEW E, NEW F, E.len \in Nat, NEW g \in 1..F.len, NEW x,
         F.len = E.len \/ (F.len = E.len + 1 /\ g = F.len),
         \A i \in 1..F.len : i # g => F.slots[i].k = E.slots[i].k /\ F.slots[i].v = E.slots[i].v
  PROVE  /\ Cardinality(KeySlots(F, x)) =
              Cardinality(KeySlots(E, x)) - One(g <= E.len /\ E.slots[g].k = x) + One(F.slots[g].k = x)
         /\ Cardinality(ValSlots(F, x)) =
              Cardinality(ValSlots(E, x)) - One(g <= E.len /\ E.slots[g].v = x) + One(F.slots[g].v = x)
<1>1. \A i : i \in (1..E.len) \ {g} <=> i \in (1..F.len) \ {g}
  OBVIOUS
<1>2. KeySlots(E, x) \ {g} = KeySlots(F, x) \ {g} /\ ValSlots(E, x) \ {g} = ValSlots(F, x) \ {g}
  <2>1. \A i : i \in (1..F.len) \ {g} => F.slots[i].k = E.slots[i].k /\ F.slots[i].v = E.slots[i].v
    OBVIOUS
  <2> QED BY ONLY <1>1, <2>1, Zenon DEF KeySlots, ValSlots
<1>3. /\ g \in KeySlots(E, x) <=> g <= E.len /\ E.slots[g].k = x
      /\ g \in KeySlots(F, x) <=> F.slots[g].k = x
      /\ g \in ValSlots(E, x) <=> g <= E.len /\ E.slots[g].v = x
      /\ g \in ValSlots(F, x) <=> F.slots[g].v = x
  <2>1. g \in 1..E.len <=> g <= E.len
    OBVIOUS
  <2> QED BY <2>1 DEF KeySlots, ValSlots
<1>4. /\ One(g \in KeySlots(E, x)) = One(g <= E.len /\ E.slots[g].k = x)
      /\ One(g \in KeySlots(F, x)) = One(F.slots[g].k = x)
      /\ One(g \in ValSlots(E, x)) = One(g <= E.len /\ E.slots[g].v = x)
      /\ One(g \in ValSlots(F, x)) = One(F.slots[g].v = x)
  BY <1>3 DEF One
<1>5. Cardinality(KeySlots(F, x)) =
        Cardinality(KeySlots(E, x)) - One(g \in KeySlots(E, x)) + One(g \in KeySlots(F, x))
  BY <1>2, SlotsFinite, Differ
<1>6. Cardinality(ValSlots(F, x)) =
        Cardinality(ValSlots(E, x)) - One(g \in ValSlots(E, x)) + One(g \in ValSlots(F, x))
  BY <1>2, SlotsFinite, Differ
<1> QED BY <1>4, <1>5, <1>6

\* One slot of a list is taken out.
LEMMA RemovedCounts ==
  ASSUME NEW E, NEW F, E.len \in Nat, F.len = E.len - 1, NEW gone \in 0..E.len - 1, NEW x,
         \A j \in 1..E.len - 1 : F.slots[j] = IF j <= gone THEN E.slots[j] ELSE E.slots[j + 1]
  PROVE  /\ Cardinality(KeySlots(F, x)) = Cardinality(KeySlots(E, x)) - One(E.slots[gone + 1].k = x)
         /\ Cardinality(ValSlots(F, x)) = Cardinality(ValSlots(E, x)) - One(E.slots[gone + 1].v = x)
<1> DEFINE n == E.len
           g == gone + 1
           Old(j) == IF j < g THEN j ELSE j + 1
<1>1. n \in Nat /\ g \in 1..n /\ \A j \in 1..n - 1 : j < g <=> j <= gone
  OBVIOUS
<1>2. \A j \in 1..n - 1 : F.slots[j] = E.slots[Old(j)] /\ Old(j) \in 1..n
  BY <1>1
<1>3. /\ KeySlots(E, x) \in SUBSET (1..n) /\ ValSlots(E, x) \in SUBSET (1..n)
      /\ KeySlots(F, x) \in SUBSET (1..n - 1) /\ ValSlots(F, x) \in SUBSET (1..n - 1)
  BY DEF KeySlots, ValSlots
<1> HIDE DEF g
<1>4. \A j \in 1..n - 1 : /\ j \in KeySlots(F, x) <=> Old(j) \in KeySlots(E, x)
                          /\ j \in ValSlots(F, x) <=> Old(j) \in ValSlots(E, x)
  <2> HIDE DEF Old
  <2> QED BY <1>2 DEF KeySlots, ValSlots
<1>5. Cardinality(KeySlots(F, x)) = Cardinality(KeySlots(E, x)) - One(g \in KeySlots(E, x))
  <2>1. \A j \in 1..n - 1 : j \in KeySlots(F, x) <=> (IF j < g THEN j ELSE j + 1) \in KeySlots(E, x)
    BY <1>4
  <2> HIDE DEF n
  <2> QED BY ONLY <1>1, <1>3, <2>1, Shifted
<1>6. Cardinality(ValSlots(F, x)) = Cardinality(ValSlots(E, x)) - One(g \in ValSlots(E, x))
  <2>1. \A j \in 1..n - 1 : j \in ValSlots(F, x) <=> (IF j < g THEN j ELSE j + 1) \in ValSlots(E, x)
    BY <1>4
  <2> HIDE DEF n
  <2> QED BY ONLY <1>1, <1>3, <2>1, Shifted
<1>7. /\ One(g \in KeySlots(E, x)) = One(E.slots[g].k = x)
      /\ One(g \in ValSlots(E, x)) = One(E.slots[g].v = x)
  BY <1>1 DEF KeySlots, ValSlots, One
<1> QED BY <1>5, <1>6, <1>7 DEF g

\* One thread's answer changes.
LEMMA AnswerCounts ==
  ASSUME NEW a, NEW b, NEW t \in Threads, a = [s \in Threads |-> a[s]], NEW c, b = [a EXCEPT ![t] = c], NEW x
  PROVE  Cardinality(Holders(b, x)) = Cardinality(Holders(a, x)) - One(Carries(a[t], x)) + One(Carries(c, x))
<1>1. b[t] = c /\ \A s \in Threads : s # t => b[s] = a[s]
  OBVIOUS
<1>2. Holders(a, x) \ {t} = Holders(b, x) \ {t}
  BY <1>1 DEF Holders
<1>3. One(t \in Holders(a, x)) = One(Carries(a[t], x)) /\ One(t \in Holders(b, x)) = One(Carries(c, x))
  BY <1>1 DEF Holders, One
<1>4. Cardinality(Holders(b, x)) =
        Cardinality(Holders(a, x)) - One(t \in Holders(a, x)) + One(t \in Holders(b, x))
  BY <1>2, HoldersFinite, Differ
<1> QED BY <1>3, <1>4

\* Taking and dropping a reference.
LEMMA KeepDrop ==
  ASSUME NEW r \in [Objects -> Int], NEW x \in Objects
  PROVE  /\ Keep(r, x) \in [Objects -> Int] /\ Drop(r, x) \in [Objects -> Int]
         /\ \A y \in Objects : Keep(r, x)[y] = r[y] + One(x = y) /\ Drop(r, x)[y] = r[y] - One(x = y)
BY DEF Keep, Drop, One

\* Releasing a whole list drops one reference for every slot that holds it.
LEMMA ReleasedFacts ==
  ASSUME NEW E, IsList(E, Entry), NEW r \in [Objects -> Int]
  PROVE  /\ Released(E, r) \in [Objects -> Int]
         /\ \A x \in Objects : Released(E, r)[x] =
              r[x] - Cardinality(KeySlots(E, x)) - Cardinality(ValSlots(E, x))
<1> DEFINE N == E.len
           Turn(g, n) == IF n = 0 THEN r ELSE Drop(Drop(g[n - 1], E.slots[n].k), E.slots[n].v)
           P(m) == \E g : g = [n \in 0..m |-> Turn(g, n)]
<1>0. N \in Nat /\ \A n \in 1..N : E.slots[n].k \in Objects /\ E.slots[n].v \in Objects
  BY DEF IsList, Entry, Objects
<1>1. P(0)
  <2> DEFINE g == [n \in 0..0 |-> r]
  <2>1. g = [n \in 0..0 |-> Turn(g, n)]
    OBVIOUS
  <2> QED BY <2>1
<1>2. ASSUME NEW m \in Nat, P(m) PROVE P(m + 1)
  <2>1. PICK g : g = [n \in 0..m |-> Turn(g, n)]
    BY <1>2
  <2> DEFINE f == [n \in 0..m + 1 |-> Turn(g, n)]
  <2>2. \A n \in 0..m : f[n] = g[n]
    <3> TAKE n \in 0..m
    <3>1. n \in 0..m + 1
      OBVIOUS
    <3>2. f[n] = Turn(g, n)
      BY <3>1
    <3>3. g[n] = Turn(g, n)
      BY <2>1
    <3> QED BY <3>2, <3>3
  <2> HIDE DEF f
  <2>3. \A n \in 0..m + 1 : Turn(f, n) = Turn(g, n)
    <3> TAKE n \in 0..m + 1
    <3>1. CASE n = 0
      BY <3>1
    <3>2. CASE n # 0
      <4>1. n - 1 \in 0..m
        BY <3>2
      <4>2. f[n - 1] = g[n - 1]
        BY <2>2, <4>1
      <4> QED BY <4>2
    <3> QED BY <3>1, <3>2
  <2> HIDE DEF Turn
  <2>4. f = [n \in 0..m + 1 |-> Turn(f, n)]
    BY <2>3 DEF f
  <2> QED BY <2>4
<1>3. P(N)
  <2> DEFINE X == {m \in Nat : ~ P(m)}
  <2> HIDE DEF P
  <2> SUFFICES ASSUME X # {} PROVE FALSE
    BY <1>0
  <2>1. PICK m \in X : \A n \in X : m <= n
    <3>1. X \in SUBSET Nat
      OBVIOUS
    <3> HIDE DEF X
    <3> QED BY <3>1, LeastOf
  <2>2. m \in Nat /\ ~ P(m) /\ m # 0
    BY <2>1, <1>1
  <2>3. m - 1 \in Nat /\ (m - 1) + 1 = m /\ P(m - 1)
    BY <2>1, <2>2
  <2> QED BY <1>2, <2>2, <2>3
<1> DEFINE g == CHOOSE g : g = [n \in 0..N |-> Turn(g, n)]
<1>4. g = [n \in 0..N |-> Turn(g, n)]
  BY <1>3, Zenon
<1>5. Released(E, r) = g[N]
  BY DEF Released
<1> HIDE DEF g
\* the slots before n have been released
<1> DEFINE Cut(n) == [slots |-> E.slots, len |-> n, cap |-> E.cap]
           Good(n) == /\ g[n] \in [Objects -> Int]
                      /\ \A x \in Objects : g[n][x] =
                           r[x] - Cardinality(KeySlots(Cut(n), x)) - Cardinality(ValSlots(Cut(n), x))
<1>6. Good(0)
  <2>1. g[0] = r
    BY <1>0, <1>4
  <2>2. ASSUME NEW x \in Objects PROVE KeySlots(Cut(0), x) = {} /\ ValSlots(Cut(0), x) = {}
    BY DEF KeySlots, ValSlots
  <2>3. \A x \in Objects : Cardinality(KeySlots(Cut(0), x)) = 0 /\ Cardinality(ValSlots(Cut(0), x)) = 0
    BY <2>2, FS_EmptySet
  <2> HIDE DEF Cut
  <2> QED BY <2>1, <2>3
<1>7. ASSUME NEW n \in 1..N, Good(n - 1) PROVE Good(n)
  <2> DEFINE p == g[n - 1]
             k == E.slots[n].k
             v == E.slots[n].v
  <2>1. g[n] = Drop(Drop(p, k), v)
    <3>1. n \in 0..N /\ n # 0
      BY <1>0
    <3>2. g[n] = Turn(g, n)
      BY <1>4, <3>1
    <3> QED BY <3>1, <3>2
  <2>2. k \in Objects /\ v \in Objects /\ p \in [Objects -> Int]
    BY <1>0, <1>7
  <2> HIDE DEF p, k, v
  <2>3. Drop(p, k) \in [Objects -> Int] /\ \A y \in Objects : Drop(p, k)[y] = p[y] - One(k = y)
    BY <2>2, KeepDrop
  <2>4. g[n] \in [Objects -> Int] /\ \A y \in Objects : g[n][y] = Drop(p, k)[y] - One(v = y)
    BY <2>1, <2>2, <2>3, KeepDrop
  <2>5. ASSUME NEW x \in Objects
        PROVE  /\ Cardinality(KeySlots(Cut(n), x)) = Cardinality(KeySlots(Cut(n - 1), x)) + One(k = x)
               /\ Cardinality(ValSlots(Cut(n), x)) = Cardinality(ValSlots(Cut(n - 1), x)) + One(v = x)
    <3> DEFINE D == Cut(n - 1)
               F == Cut(n)
    <3>1. D.len = n - 1 /\ F.len = n /\ F.slots = E.slots /\ D.slots = E.slots
      OBVIOUS
    <3> HIDE DEF D, F
    <3>2. D.len \in Nat /\ n \in 1..F.len /\ F.len = D.len + 1 /\ ~ (n <= D.len) /\ n \in Nat
      BY <1>0, <3>1
    <3>3. One(n <= D.len /\ D.slots[n].k = x) = 0 /\ One(n <= D.len /\ D.slots[n].v = x) = 0
      BY <3>2 DEF One
    <3>4. /\ Cardinality(KeySlots(F, x)) =
               Cardinality(KeySlots(D, x)) - One(n <= D.len /\ D.slots[n].k = x) + One(F.slots[n].k = x)
          /\ Cardinality(ValSlots(F, x)) =
               Cardinality(ValSlots(D, x)) - One(n <= D.len /\ D.slots[n].v = x) + One(F.slots[n].v = x)
      <4>1. \A i \in 1..F.len : i # n => F.slots[i].k = D.slots[i].k /\ F.slots[i].v = D.slots[i].v
        BY <3>1
      <4>2. F.len = D.len \/ (F.len = D.len + 1 /\ n = F.len)
        BY <3>1, <3>2
      <4> QED BY <3>2, <4>1, <4>2, OneSlotCounts
    <3>5. Cardinality(KeySlots(D, x)) \in Nat /\ Cardinality(ValSlots(D, x)) \in Nat
      BY <3>2, SlotsFinite
    <3>6. F.slots[n].k = k /\ F.slots[n].v = v
      BY <3>1 DEF k, v
    <3>7. One(k = x) \in Int /\ One(v = x) \in Int
      BY DEF One
    <3>8. /\ Cardinality(KeySlots(F, x)) = Cardinality(KeySlots(D, x)) + One(k = x)
          /\ Cardinality(ValSlots(F, x)) = Cardinality(ValSlots(D, x)) + One(v = x)
      BY <3>3, <3>4, <3>5, <3>6, <3>7
    <3> QED BY <3>8 DEF D, F
  <2>6. ASSUME NEW x \in Objects
        PROVE  g[n][x] = r[x] - Cardinality(KeySlots(Cut(n), x)) - Cardinality(ValSlots(Cut(n), x))
    <3>1. p[x] = r[x] - Cardinality(KeySlots(Cut(n - 1), x)) - Cardinality(ValSlots(Cut(n - 1), x))
      BY <1>7 DEF p
    <3>2. g[n][x] = p[x] - One(k = x) - One(v = x)
      BY <2>3, <2>4
    <3>3. Cardinality(KeySlots(Cut(n - 1), x)) \in Nat /\ Cardinality(ValSlots(Cut(n - 1), x)) \in Nat
      <4>1. Cut(n - 1).len \in Nat
        BY <1>0
      <4> HIDE DEF Cut
      <4> QED BY <4>1, SlotsFinite
    <3>4. One(k = x) \in Int /\ One(v = x) \in Int /\ r[x] \in Int
      BY DEF One
    <3> HIDE DEF Cut
    <3> QED BY <2>5, <3>1, <3>2, <3>3, <3>4
  <2> HIDE DEF Cut
  <2> QED BY <2>4, <2>6
<1>8. Good(N)
  <2> DEFINE X == {m \in 0..N : ~ Good(m)}
  <2> HIDE DEF Good
  <2> SUFFICES ASSUME X # {} PROVE FALSE
    BY <1>0
  <2>1. PICK m \in X : \A n \in X : m <= n
    <3>1. X \in SUBSET Nat
      BY <1>0
    <3> HIDE DEF X
    <3> QED BY <3>1, LeastOf
  <2>2. m \in 1..N /\ ~ Good(m)
    BY <1>0, <1>6, <2>1
  <2>3. m - 1 \in 0..N /\ ~ (m <= m - 1)
    BY <1>0, <2>2
  <2>4. Good(m - 1)
    BY <2>1, <2>3
  <2> QED BY <1>7, <2>2, <2>4
<1>9. \A x : KeySlots(Cut(N), x) = KeySlots(E, x) /\ ValSlots(Cut(N), x) = ValSlots(E, x)
  BY DEF KeySlots, ValSlots
<1> HIDE DEF Cut
<1> QED BY <1>5, <1>8, <1>9

-------------------------------------------------------------------------------
(* What the operations do                                                    *)

\* One thread's operation and answer change.
LEMMA CallChange ==
  ASSUME Calls, Answers, NEW t \in Threads, NEW o, NEW a, CallOf(o), o = Idle \/ a = None,
         op' = [op EXCEPT ![t] = o], answer' = [answer EXCEPT ![t] = a]
  PROVE  Calls' /\ Answers'
<1>1. op' = [s \in Threads |-> op'[s]] /\ op'[t] = o /\ \A s \in Threads : s # t => op'[s] = op[s]
  BY DEF Calls
<1>2. /\ answer' = [s \in Threads |-> answer'[s]] /\ answer'[t] = a
      /\ \A s \in Threads : s # t => answer'[s] = answer[s]
  BY DEF Answers
<1>3. \A s \in Threads : CallOf(op'[s])
  BY <1>1 DEF Calls
<1>4. \A s \in Threads : op'[s] # Idle => answer'[s] = None
  BY <1>1, <1>2 DEF Answers
<1> QED BY <1>1, <1>2, <1>3, <1>4, Zenon DEF Calls, Answers

\* An operation that is under way has its arguments, and no answer.
LEMMA InsideFacts ==
  ASSUME Calls, Answers, NEW t \in Threads, NEW what, op[t][1] = what, what # "idle"
  PROVE  answer[t] = None /\ CallOf(op[t])
<1>1. op[t] # Idle
  BY DEF Idle
<1> QED BY <1>1 DEF Calls, Answers

\* __setitem__ and with_lock insert, if the search does not find the key.
LEMMA InsertEffect ==
  ASSUME DictInv, NEW k \in Keys, NEW v \in Vals, find_entry_idx(k) = NotFound, insert_new(k, v)
  PROVE  /\ Structured(entries', indices')
         /\ \A n \in 1..entries.len : entries.slots[n].k # k
         /\ entries.len \in Nat /\ entries'.len = entries.len + 1
         /\ entries'.slots[entries.len + 1] = [h |-> Hash[k], k |-> k, v |-> v]
         /\ \A n \in 1..entries.len : entries'.slots[n] = entries.slots[n]
<1> DEFINE x == [h |-> Hash[k], k |-> k, v |-> v]
<1>1. \A n \in 1..entries.len : entries.slots[n].k # k
  BY FindFacts DEF DictInv
<1>2. Structured(entries', indices')
  BY <1>1, InsertStructured DEF DictInv, insert_new, lower_bound
<1>3. IsList(entries, Entry) /\ entries.len \in Nat /\ entries.len \in 0..entries.len /\ x \in Entry
  BY DictAssumption DEF DictInv, Structured, IsList, Entry
<1>4. entries' = insert_at(entries, entries.len, x)
  BY DEF insert_new, append
<1> HIDE DEF x
<1>5. /\ entries'.len = entries.len + 1
      /\ \A j \in 1..entries.len + 1 : entries'.slots[j] =
           IF j <= entries.len THEN entries.slots[j]
           ELSE IF j = entries.len + 1 THEN x ELSE entries.slots[j - 1]
  BY <1>3, <1>4, InsertFacts
<1>6. entries'.slots[entries.len + 1] = x /\ \A n \in 1..entries.len : entries'.slots[n] = entries.slots[n]
  BY <1>3, <1>5
<1> QED BY <1>1, <1>2, <1>3, <1>5, <1>6 DEF x

\* __setitem__ overwrites the value of the entry that holds the key.
LEMMA OverwriteEffect ==
  ASSUME DictInv, NEW k \in Keys, NEW v \in Vals, find_entry_idx(k) # NotFound,
         overwrite_value_at(find_entry_idx(k), v)
  PROVE  LET i == find_entry_idx(k)
         IN /\ Structured(entries', indices')
            /\ entries.len \in Nat /\ i + 1 \in 1..entries.len /\ entries'.len = entries.len
            /\ entries.slots[i + 1].k = k /\ entries.slots[i + 1].v \in Vals
            /\ \A n \in 1..entries.len :
                 /\ entries'.slots[n].k = entries.slots[n].k
                 /\ entries'.slots[n].v = IF n = i + 1 THEN v ELSE entries.slots[n].v
<1> DEFINE i == find_entry_idx(k)
<1>1. i \in 0..entries.len - 1 /\ At(entries, i).k = k
  BY FindFacts DEF DictInv
<1>2. entries.len \in Nat /\ \A n \in 1..entries.len : entries.slots[n].v \in Vals
  BY DEF DictInv, Structured, IsList, Entry
<1> HIDE DEF i
<1>3. i + 1 \in 1..entries.len /\ entries.slots[i + 1].k = k
  BY <1>1, <1>2 DEF At
<1>4. entries' = [entries EXCEPT !.slots[i + 1].v = v] /\ indices' = indices
  BY DEF overwrite_value_at, i
<1>5. /\ Structured(entries', indices') /\ entries'.len = entries.len
      /\ \A n \in 1..entries.len : /\ entries'.slots[n].k = entries.slots[n].k
                                   /\ entries'.slots[n].v = IF n = i + 1 THEN v ELSE entries.slots[n].v
  BY <1>1, <1>4, OverwriteStructured DEF DictInv
<1> QED BY <1>2, <1>3, <1>5 DEF i

\* __delitem__ takes out the entry that holds the key.
LEMMA RemoveEffect ==
  ASSUME DictInv, NEW k \in Keys, find_entry_idx(k) # NotFound, remove_entry(k)
  PROVE  LET i == find_entry_idx(k)
         IN /\ Structured(entries', indices')
            /\ entries.len \in Nat /\ i \in 0..entries.len - 1 /\ entries'.len = entries.len - 1
            /\ entries.slots[i + 1].k = k /\ entries.slots[i + 1].v \in Vals
            /\ \A j \in 1..entries.len - 1 :
                 entries'.slots[j] = IF j <= i THEN entries.slots[j] ELSE entries.slots[j + 1]
<1> DEFINE i == find_entry_idx(k)
           pos == find_indices_pos(k)
<1>1. pos \in 0..indices.len - 1 /\ i = At(indices, pos).e /\ i \in 0..entries.len - 1 /\ At(entries, i).k = k
  BY FindFacts DEF DictInv
<1>2. /\ entries.len \in Nat /\ \A n \in 1..entries.len : entries.slots[n].v \in Vals
      /\ IsList(entries, Entry) /\ Structured(entries, indices)
  BY DEF DictInv, Structured, IsList, Entry
<1> HIDE DEF i, pos
<1>3. i + 1 \in 1..entries.len /\ entries.slots[i + 1].k = k
  BY <1>1, <1>2 DEF At
<1>4. /\ entries' = remove_at(entries, i)
      /\ entries' = remove_at(entries, At(indices, pos).e)
      /\ indices' = fixup_indices_after_removal(remove_at(indices, pos), At(indices, pos).e)
  BY <1>1 DEF remove_entry, pos
<1>5. Structured(entries', indices')
  BY <1>1, <1>2, <1>4, RemoveStructured
<1>6. /\ entries'.len = entries.len - 1
      /\ \A j \in 1..entries.len - 1 :
           entries'.slots[j] = IF j <= i THEN entries.slots[j] ELSE entries.slots[j + 1]
  BY <1>1, <1>2, <1>4, RemoveFacts
<1> QED BY <1>1, <1>2, <1>3, <1>5, <1>6 DEF i

\* Every step keeps the arrays one structure.
LEMMA StructureStep == DictInv /\ [Next]_vars => Structured(entries', indices')
<1> SUFFICES ASSUME DictInv, [Next]_vars PROVE Structured(entries', indices')
  OBVIOUS
<1> USE DEF DictInv
<1>0. ASSUME UNCHANGED <<entries, indices>> PROVE Structured(entries', indices')
  BY <1>0
<1>1. CASE UNCHANGED vars
  BY <1>0, <1>1 DEF vars
<1>2. CASE Del
  BY <1>2, EmptyStructured DEF Del
<1>3. ASSUME NEW t \in Threads, Setitem(t) PROVE Structured(entries', indices')
  <2> DEFINE k == op[t][2]
             v == op[t][3]
  <2>1. op[t][1] = "set"
    BY <1>3 DEF Setitem, Inside
  <2>2. k \in Keys /\ v \in Vals
    BY <2>1, InsideFacts DEF CallOf
  <2>3. CASE find_entry_idx(k) # NotFound
    <3>1. overwrite_value_at(find_entry_idx(k), v)
      BY <1>3, <2>3 DEF Setitem
    <3> HIDE DEF k, v
    <3> QED BY <2>2, <2>3, <3>1, OverwriteEffect
  <2>4. CASE find_entry_idx(k) = NotFound
    <3>1. insert_new(k, v)
      BY <1>3, <2>4 DEF Setitem
    <3> HIDE DEF k, v
    <3> QED BY <2>2, <2>4, <3>1, InsertEffect
  <2> QED BY <2>3, <2>4
<1>4. ASSUME NEW t \in Threads, WithLock(t) PROVE Structured(entries', indices')
  <2> DEFINE k == op[t][2]
             v == op[t][3]
  <2>1. op[t][1] = "with_lock"
    BY <1>4 DEF WithLock, Inside
  <2>2. k \in Keys /\ v \in Vals
    BY <2>1, InsideFacts DEF CallOf
  <2>3. CASE find_entry_idx(k) # NotFound
    BY <1>0, <1>4, <2>3 DEF WithLock
  <2>4. CASE find_entry_idx(k) = NotFound
    <3>1. insert_new(k, v)
      BY <1>4, <2>4 DEF WithLock
    <3> HIDE DEF k, v
    <3> QED BY <2>2, <2>4, <3>1, InsertEffect
  <2> QED BY <2>3, <2>4
<1>5. ASSUME NEW t \in Threads, Delitem(t) PROVE Structured(entries', indices')
  <2> DEFINE k == op[t][2]
  <2>1. op[t][1] = "del"
    BY <1>5 DEF Delitem, Inside
  <2>2. k \in Keys
    BY <2>1, InsideFacts DEF CallOf
  <2>3. CASE find_entry_idx(k) # NotFound
    <3>1. remove_entry(k)
      BY <1>5, <2>3 DEF Delitem
    <3> HIDE DEF k
    <3> QED BY <2>2, <2>3, <3>1, RemoveEffect
  <2>4. CASE find_entry_idx(k) = NotFound
    BY <1>0, <1>5, <2>4 DEF Delitem
  <2> QED BY <2>3, <2>4
<1>6. ASSUME NEW t \in Threads, NEW what, Enter(t, what) PROVE Structured(entries', indices')
  BY <1>0, <1>6 DEF Enter
<1>7. ASSUME NEW t \in Threads, Getitem(t) \/ ValueAt(t) \/ ContainsItem(t) \/ Length(t)
                                \/ IterCheck(t) \/ IterAgain(t) \/ IterRead(t) \/ Done(t)
      PROVE  Structured(entries', indices')
  BY <1>0, <1>7 DEF Getitem, ValueAt, ContainsItem, Length, IterCheck, IterAgain, IterRead, Done
<1> QED BY <1>1, <1>2, <1>3, <1>4, <1>5, <1>6, <1>7 DEF Next

\* Every step leaves calls with their arguments and no answer before the end.
LEMMA CallsStep == DictInv /\ [Next]_vars => Calls' /\ Answers'
<1> SUFFICES ASSUME DictInv, [Next]_vars PROVE Calls' /\ Answers'
  OBVIOUS
<1> USE DEF DictInv
<1>0. CallOf(Idle)
  BY DEF CallOf, Idle
<1>1. CASE UNCHANGED vars
  BY <1>1 DEF vars, Calls, Answers
<1>2. CASE Del
  BY <1>2 DEF Del, Calls, Answers
<1>3. ASSUME NEW t \in Threads, NEW what, CallOf(what), Enter(t, what) PROVE Calls' /\ Answers'
  <2>1. answer' = [answer EXCEPT ![t] = None] /\ op' = [op EXCEPT ![t] = what]
    BY <1>3 DEF Enter, Answers
  <2> QED BY <1>3, <2>1, CallChange
<1>4. ASSUME NEW t \in Threads, NEW a, Leave(t, a, Idle) PROVE Calls' /\ Answers'
  BY <1>0, <1>4, CallChange DEF Leave
<1>5. ASSUME NEW t \in Threads, IterCheck(t) PROVE Calls' /\ Answers'
  <2> DEFINE i == op[t][2]
  <2>1. op[t][1] = "check"
    BY <1>5 DEF IterCheck, Inside
  <2>2. i \in Nat
    BY <2>1, InsideFacts DEF CallOf
  <2>3. CASE i >= entries.len
    BY <1>4, <1>5, <2>3 DEF IterCheck
  <2>4. CASE ~ (i >= entries.len)
    <3>1. Leave(t, None, <<"between", i>>)
      BY <1>5, <2>4 DEF IterCheck
    <3>2. CallOf(<<"between", i>>)
      BY <2>2 DEF CallOf
    <3> QED BY <3>1, <3>2, CallChange DEF Leave
  <2> QED BY <2>3, <2>4
<1>6. ASSUME NEW t \in Threads, IterAgain(t) PROVE Calls' /\ Answers'
  <2>1. op[t][1] = "between"
    BY <1>6 DEF IterAgain
  <2>2. answer[t] = None /\ op[t][2] \in Nat
    BY <2>1, InsideFacts DEF CallOf
  <2>3. CallOf(<<"read", op[t][2]>>)
    BY <2>2 DEF CallOf
  <2>4. answer' = [answer EXCEPT ![t] = None] /\ op' = [op EXCEPT ![t] = <<"read", op[t][2]>>]
    BY <1>6, <2>2 DEF IterAgain, Answers
  <2> QED BY <2>3, <2>4, CallChange
<1>7. ASSUME NEW t \in Threads, Done(t) PROVE Calls' /\ Answers'
  <2>1. op[t] = Idle
    BY <1>7 DEF Done, Answers
  <2>2. op' = [op EXCEPT ![t] = Idle] /\ answer' = [answer EXCEPT ![t] = None]
    BY <1>7, <2>1 DEF Done, Calls
  <2> QED BY <1>0, <2>2, CallChange
<1>8. ASSUME NEW t \in Threads, Setitem(t) \/ WithLock(t) \/ Delitem(t) \/ Getitem(t) \/ ValueAt(t)
                                \/ ContainsItem(t) \/ Length(t) \/ IterRead(t)
      PROVE  Calls' /\ Answers'
  <2>1. \E a : Leave(t, a, Idle)
    BY <1>8 DEF Setitem, WithLock, Delitem, Getitem, ValueAt, ContainsItem, Length, IterRead
  <2> QED BY <1>4, <2>1
<1>9. /\ \A k \in Keys, v \in Vals, what \in {"set", "with_lock"} : CallOf(<<what, k, v>>)
      /\ \A k \in Keys, what \in {"del", "get", "in"} : CallOf(<<what, k>>)
      /\ \A i \in Nat, what \in {"check", "value_at"} : CallOf(<<what, i>>)
      /\ CallOf(<<"len">>)
  BY DEF CallOf
<1>10. \A i \in 0..Cardinality(Keys) : i \in Nat
  OBVIOUS
<1> QED BY <1>1, <1>2, <1>3, <1>5, <1>6, <1>7, <1>8, <1>9, <1>10 DEF Next

\* The structure is an invariant.
THEOREM DictStructured == Spec => []DictInv
<1>1. Init => DictInv
  <2> SUFFICES ASSUME Init PROVE DictInv
    OBVIOUS
  <2>1. Structured(entries, indices)
    BY EmptyStructured DEF Init
  <2>2. Calls /\ Answers
    BY DEF Init, Calls, Answers, CallOf, Idle
  <2> QED BY <2>1, <2>2 DEF DictInv
<1>2. DictInv /\ [Next]_vars => DictInv'
  BY StructureStep, CallsStep DEF DictInv
<1> QED BY <1>1, <1>2, PTL DEF Spec

-------------------------------------------------------------------------------
(* References                                                                *)

\* What an answer carries.
LEMMA CarriesFacts ==
  /\ \A x : ~ Carries(None, x) /\ ~ Carries(<<"KeyError">>, x) /\ ~ Carries(<<"IndexError">>, x)
  /\ \A x, b : ~ Carries(<<"bool", b>>, x) /\ ~ Carries(<<"size", b>>, x)
  /\ \A x, y : (Carries(<<"value", y>>, x) <=> y = x) /\ (Carries(<<"key", y>>, x) <=> y = x)
BY DEF Carries, None

\* The terms of the sum are numbers.
LEMMA Numbers ==
  ASSUME NEW E, E.len \in Nat, NEW a, NEW x
  PROVE  /\ Cardinality(KeySlots(E, x)) \in Int /\ Cardinality(ValSlots(E, x)) \in Int
         /\ Cardinality(Holders(a, x)) \in Int
BY SlotsFinite, HoldersFinite

\* Both counts of the entries stay, and one thread is given an answer with the
\* reference that is taken for it, or drops it.
LEMMA AnswerRefs ==
  ASSUME DictInv, refs \in [Objects -> Int], RefsOK(refs, entries, answer), NEW t \in Threads, NEW c,
         answer' = [answer EXCEPT ![t] = c], entries' = entries, refs' \in [Objects -> Int],
         \A x \in Objects : refs'[x] = refs[x] - One(Carries(answer[t], x)) + One(Carries(c, x))
  PROVE  RefsOK(refs', entries', answer')
<1> SUFFICES ASSUME NEW x \in Objects
             PROVE  refs'[x] = 1 + Cardinality(KeySlots(entries', x)) + Cardinality(ValSlots(entries', x))
                                 + Cardinality(Holders(answer', x))
  BY DEF RefsOK
<1>1. entries.len \in Nat
  BY DEF DictInv, Structured, IsList
<1>2. Cardinality(Holders(answer', x)) =
        Cardinality(Holders(answer, x)) - One(Carries(answer[t], x)) + One(Carries(c, x))
  BY AnswerCounts DEF DictInv, Answers
<1>3. One(Carries(answer[t], x)) \in Int /\ One(Carries(c, x)) \in Int
  BY DEF One
<1>4. refs[x] = 1 + Cardinality(KeySlots(entries, x)) + Cardinality(ValSlots(entries, x))
                  + Cardinality(Holders(answer, x))
  BY DEF RefsOK
<1>5. /\ Cardinality(KeySlots(entries, x)) \in Int /\ Cardinality(ValSlots(entries, x)) \in Int
      /\ Cardinality(Holders(answer, x)) \in Int
  BY <1>1, Numbers
<1>6. refs'[x] = refs[x] - One(Carries(answer[t], x)) + One(Carries(c, x))
  OBVIOUS
<1> QED BY <1>2, <1>3, <1>4, <1>5, <1>6

\* An insertion takes a reference to the key and one to the value.
LEMMA InsertRefs ==
  ASSUME DictInv, refs \in [Objects -> Int], RefsOK(refs, entries, answer),
         NEW k \in Keys, NEW v \in Vals, find_entry_idx(k) = NotFound, insert_new(k, v),
         answer' = answer, refs' = Keep(Keep(refs, k), v)
  PROVE  refs' \in [Objects -> Int] /\ RefsOK(refs', entries', answer')
<1>1. k \in Objects /\ v \in Objects
  BY DEF Objects
<1>2. Keep(refs, k) \in [Objects -> Int] /\ \A x \in Objects : Keep(refs, k)[x] = refs[x] + One(k = x)
  BY <1>1, KeepDrop
<1>3. refs' \in [Objects -> Int] /\ \A x \in Objects : refs'[x] = Keep(refs, k)[x] + One(v = x)
  BY <1>1, <1>2, KeepDrop
<1>4. ASSUME NEW x \in Objects
      PROVE  refs'[x] = 1 + Cardinality(KeySlots(entries', x)) + Cardinality(ValSlots(entries', x))
                          + Cardinality(Holders(answer', x))
  <2> DEFINE n == entries.len + 1
  <2>1. /\ entries.len \in Nat /\ entries'.len = n
        /\ entries'.slots[n].k = k /\ entries'.slots[n].v = v
        /\ \A i \in 1..entries.len : entries'.slots[i] = entries.slots[i]
    <3>1. /\ entries.len \in Nat /\ entries'.len = n
          /\ entries'.slots[n] = [h |-> Hash[k], k |-> k, v |-> v]
          /\ \A i \in 1..entries.len : entries'.slots[i] = entries.slots[i]
      BY InsertEffect
    <3>2. [h |-> Hash[k], k |-> k, v |-> v].k = k /\ [h |-> Hash[k], k |-> k, v |-> v].v = v
      OBVIOUS
    <3> QED BY <3>1, <3>2
  <2>2. n \in 1..entries'.len /\ ~ (n <= entries.len)
    BY <2>1
  <2>3. \A i \in 1..entries'.len : i # n => /\ entries'.slots[i].k = entries.slots[i].k
                                           /\ entries'.slots[i].v = entries.slots[i].v
    <3>1. \A i \in 1..n : i # n => i \in 1..entries.len
      BY <2>1
    <3> QED BY <2>1, <3>1
  <2>4. /\ Cardinality(KeySlots(entries', x)) = Cardinality(KeySlots(entries, x))
             - One(n <= entries.len /\ entries.slots[n].k = x) + One(entries'.slots[n].k = x)
        /\ Cardinality(ValSlots(entries', x)) = Cardinality(ValSlots(entries, x))
             - One(n <= entries.len /\ entries.slots[n].v = x) + One(entries'.slots[n].v = x)
    <3>1. entries'.len = entries.len \/ (entries'.len = entries.len + 1 /\ n = entries'.len)
      BY <2>1
    <3> HIDE DEF n
    <3> QED BY <2>1, <2>2, <2>3, <3>1, OneSlotCounts
  <2>5. /\ One(n <= entries.len /\ entries.slots[n].k = x) = 0
        /\ One(n <= entries.len /\ entries.slots[n].v = x) = 0
    BY <2>2 DEF One
  <2>6. One(k = x) \in Int /\ One(v = x) \in Int
    BY DEF One
  <2>7. refs[x] = 1 + Cardinality(KeySlots(entries, x)) + Cardinality(ValSlots(entries, x))
                    + Cardinality(Holders(answer, x))
    BY DEF RefsOK
  <2>8. /\ Cardinality(KeySlots(entries, x)) \in Int /\ Cardinality(ValSlots(entries, x)) \in Int
        /\ Cardinality(Holders(answer, x)) \in Int
    BY <2>1, Numbers
  <2>9. /\ Cardinality(KeySlots(entries', x)) = Cardinality(KeySlots(entries, x)) + One(k = x)
        /\ Cardinality(ValSlots(entries', x)) = Cardinality(ValSlots(entries, x)) + One(v = x)
    BY <2>1, <2>4, <2>5, <2>6, <2>8
  <2>10. refs'[x] = refs[x] + One(k = x) + One(v = x)
    BY <1>2, <1>3
  <2> QED BY <2>6, <2>7, <2>8, <2>9, <2>10
<1> QED BY <1>3, <1>4 DEF RefsOK

\* Overwriting takes a reference to the new value and drops the old one's.
LEMMA OverwriteRefs ==
  ASSUME DictInv, refs \in [Objects -> Int], RefsOK(refs, entries, answer),
         NEW k \in Keys, NEW v \in Vals, find_entry_idx(k) # NotFound,
         overwrite_value_at(find_entry_idx(k), v), answer' = answer,
         refs' = Replaced(refs, At(entries, find_entry_idx(k)).v, v)
  PROVE  refs' \in [Objects -> Int] /\ RefsOK(refs', entries', answer')
<1> DEFINE i == find_entry_idx(k)
           u == entries.slots[i + 1].v
<1>0. /\ entries.len \in Nat /\ i + 1 \in 1..entries.len /\ entries'.len = entries.len
      /\ u \in Vals
      /\ \A n \in 1..entries.len :
           /\ entries'.slots[n].k = entries.slots[n].k
           /\ entries'.slots[n].v = IF n = i + 1 THEN v ELSE entries.slots[n].v
  BY OverwriteEffect
<1>1. u \in Objects /\ v \in Objects /\ refs' = Drop(Keep(refs, v), u)
  BY <1>0 DEF Objects, Replaced, At
<1> HIDE DEF i, u
<1>2. Keep(refs, v) \in [Objects -> Int] /\ \A x \in Objects : Keep(refs, v)[x] = refs[x] + One(v = x)
  BY <1>1, KeepDrop
<1>3. refs' \in [Objects -> Int] /\ \A x \in Objects : refs'[x] = Keep(refs, v)[x] - One(u = x)
  BY <1>1, <1>2, KeepDrop
<1>4. ASSUME NEW x \in Objects
      PROVE  refs'[x] = 1 + Cardinality(KeySlots(entries', x)) + Cardinality(ValSlots(entries', x))
                          + Cardinality(Holders(answer', x))
  <2>1. KeySlots(entries', x) = KeySlots(entries, x)
    BY <1>0 DEF KeySlots
  <2>2. \A n \in 1..entries'.len : n # i + 1 => /\ entries'.slots[n].k = entries.slots[n].k
                                               /\ entries'.slots[n].v = entries.slots[n].v
    BY <1>0
  <2>3. Cardinality(ValSlots(entries', x)) = Cardinality(ValSlots(entries, x))
             - One(i + 1 <= entries.len /\ entries.slots[i + 1].v = x) + One(entries'.slots[i + 1].v = x)
    <3> DEFINE g == i + 1
    <3>1. g \in 1..entries'.len
      BY <1>0
    <3> HIDE DEF g
    <3>2. Cardinality(ValSlots(entries', x)) = Cardinality(ValSlots(entries, x))
               - One(g <= entries.len /\ entries.slots[g].v = x) + One(entries'.slots[g].v = x)
      <4>1. \A n \in 1..entries'.len : n # g => /\ entries'.slots[n].k = entries.slots[n].k
                                               /\ entries'.slots[n].v = entries.slots[n].v
        BY <2>2 DEF g
      <4> QED BY <1>0, <3>1, <4>1, OneSlotCounts
    <3> QED BY <3>2 DEF g
  <2>4. /\ One(i + 1 <= entries.len /\ entries.slots[i + 1].v = x) = One(u = x)
        /\ One(entries'.slots[i + 1].v = x) = One(v = x)
    BY <1>0 DEF One, u
  <2>5. One(u = x) \in Int /\ One(v = x) \in Int
    BY DEF One
  <2>6. refs[x] = 1 + Cardinality(KeySlots(entries, x)) + Cardinality(ValSlots(entries, x))
                    + Cardinality(Holders(answer, x))
    BY DEF RefsOK
  <2>7. /\ Cardinality(KeySlots(entries, x)) \in Int /\ Cardinality(ValSlots(entries, x)) \in Int
        /\ Cardinality(Holders(answer, x)) \in Int
    BY <1>0, Numbers
  <2>8. refs'[x] = refs[x] + One(v = x) - One(u = x)
    <3>1. refs'[x] = Keep(refs, v)[x] - One(u = x) /\ Keep(refs, v)[x] = refs[x] + One(v = x)
      BY <1>2, <1>3
    <3>2. refs[x] \in Int
      OBVIOUS
    <3> QED BY <2>5, <3>1, <3>2
  <2> QED BY <2>1, <2>3, <2>4, <2>5, <2>6, <2>7, <2>8
<1> QED BY <1>3, <1>4 DEF RefsOK

\* A removal drops the key's reference and the value's.
LEMMA RemoveRefs ==
  ASSUME DictInv, refs \in [Objects -> Int], RefsOK(refs, entries, answer),
         NEW k \in Keys, find_entry_idx(k) # NotFound, remove_entry(k), answer' = answer,
         refs' = Drop(Drop(refs, k), At(entries, find_entry_idx(k)).v)
  PROVE  refs' \in [Objects -> Int] /\ RefsOK(refs', entries', answer')
<1> DEFINE i == find_entry_idx(k)
           u == entries.slots[i + 1].v
<1>0. /\ entries.len \in Nat /\ i \in 0..entries.len - 1 /\ entries'.len = entries.len - 1
      /\ entries.slots[i + 1].k = k /\ u \in Vals
      /\ \A j \in 1..entries.len - 1 :
           entries'.slots[j] = IF j <= i THEN entries.slots[j] ELSE entries.slots[j + 1]
  BY RemoveEffect
<1>1. u \in Objects /\ k \in Objects /\ refs' = Drop(Drop(refs, k), u)
  BY <1>0 DEF Objects, At
<1> HIDE DEF i
<1>2. Drop(refs, k) \in [Objects -> Int] /\ \A x \in Objects : Drop(refs, k)[x] = refs[x] - One(k = x)
  BY <1>1, KeepDrop
<1>3. refs' \in [Objects -> Int] /\ \A x \in Objects : refs'[x] = Drop(refs, k)[x] - One(u = x)
  BY <1>1, <1>2, KeepDrop
<1>4. ASSUME NEW x \in Objects
      PROVE  refs'[x] = 1 + Cardinality(KeySlots(entries', x)) + Cardinality(ValSlots(entries', x))
                          + Cardinality(Holders(answer', x))
  <2>1. /\ Cardinality(KeySlots(entries', x)) = Cardinality(KeySlots(entries, x)) - One(k = x)
        /\ Cardinality(ValSlots(entries', x)) = Cardinality(ValSlots(entries, x)) - One(u = x)
    BY <1>0, RemovedCounts
  <2>2. One(u = x) \in Int /\ One(k = x) \in Int
    BY DEF One
  <2>3. refs[x] = 1 + Cardinality(KeySlots(entries, x)) + Cardinality(ValSlots(entries, x))
                    + Cardinality(Holders(answer, x))
    BY DEF RefsOK
  <2>4. /\ Cardinality(KeySlots(entries, x)) \in Int /\ Cardinality(ValSlots(entries, x)) \in Int
        /\ Cardinality(Holders(answer, x)) \in Int
    BY <1>0, Numbers
  <2>5. refs'[x] = refs[x] - One(k = x) - One(u = x)
    BY <1>2, <1>3
  <2> QED BY <2>1, <2>2, <2>3, <2>4, <2>5
<1> QED BY <1>3, <1>4 DEF RefsOK

\* The end of the dict drops what is stored, and nothing else.
LEMMA DelRefs ==
  ASSUME DictInv, refs \in [Objects -> Int], RefsOK(refs, entries, answer), Del
  PROVE  refs' \in [Objects -> Int] /\ RefsOK(refs', entries', answer')
<1>1. IsList(entries, Entry) /\ entries.len \in Nat
  BY DEF DictInv, Structured, IsList
<1>2. /\ refs' \in [Objects -> Int]
      /\ \A x \in Objects : refs'[x] =
           refs[x] - Cardinality(KeySlots(entries, x)) - Cardinality(ValSlots(entries, x))
  BY <1>1, ReleasedFacts DEF Del
<1>3. \A x : KeySlots(entries', x) = {} /\ ValSlots(entries', x) = {}
  <2>1. entries'.len = 0
    BY EmptyFacts DEF Del
  <2> QED BY <2>1 DEF KeySlots, ValSlots
<1>4. ASSUME NEW x \in Objects
      PROVE  refs'[x] = 1 + Cardinality(KeySlots(entries', x)) + Cardinality(ValSlots(entries', x))
                          + Cardinality(Holders(answer', x))
  <2>1. Cardinality(KeySlots(entries', x)) = 0 /\ Cardinality(ValSlots(entries', x)) = 0
    BY <1>3, FS_EmptySet
  <2>2. refs[x] = 1 + Cardinality(KeySlots(entries, x)) + Cardinality(ValSlots(entries, x))
                    + Cardinality(Holders(answer, x))
    BY DEF RefsOK
  <2>3. /\ Cardinality(KeySlots(entries, x)) \in Int /\ Cardinality(ValSlots(entries, x)) \in Int
        /\ Cardinality(Holders(answer, x)) \in Int
    BY <1>1, Numbers
  <2>4. answer' = answer
    BY DEF Del
  <2> QED BY <1>2, <2>1, <2>2, <2>3, <2>4
<1> QED BY <1>2, <1>4 DEF RefsOK

\* Every step keeps the counts right.
LEMMA RefsStep == DictInv /\ RefsInv /\ [Next]_vars => RefsInv'
<1> DEFINE R == refs' \in [Objects -> Int] /\ RefsOK(refs', entries', answer')
<1> SUFFICES ASSUME DictInv, refs \in [Objects -> Int], RefsOK(refs, entries, answer), [Next]_vars
             PROVE  R
  <2>1. RefsExact' <=> RefsOK(refs', entries', answer')
    BY DEF RefsExact, RefsOK, Objects, KeySlots, ValSlots, Holders, Carries
  <2> QED BY <2>1, RefsExactIs DEF RefsInv, Objects
\* the answer of a thread that had none
<1>0. ASSUME NEW t \in Threads, answer[t] = None PROVE answer = [answer EXCEPT ![t] = None]
  BY <1>0 DEF DictInv, Answers
<1>1. ASSUME UNCHANGED <<entries, answer, refs>> PROVE R
  BY <1>1
\* an answer that carries nothing, to a thread that had none
<1>2. ASSUME NEW t \in Threads, NEW c, NEW next, answer[t] = None, Leave(t, c, next), entries' = entries,
             refs' = refs, \A x : ~ Carries(c, x)
      PROVE  R
  <2>1. \A x \in Objects : refs'[x] = refs[x] - One(Carries(answer[t], x)) + One(Carries(c, x))
    BY <1>2, CarriesFacts DEF One
  <2> QED BY <1>2, <2>1, AnswerRefs DEF Leave
\* an answer that carries an object, for which a reference is taken
<1>3. ASSUME NEW t \in Threads, NEW c, NEW next, NEW y \in Objects, answer[t] = None, Leave(t, c, next),
             entries' = entries, refs' = Keep(refs, y), \A x : Carries(c, x) <=> y = x
      PROVE  R
  <2>1. Keep(refs, y) \in [Objects -> Int] /\ \A x \in Objects : Keep(refs, y)[x] = refs[x] + One(y = x)
    BY KeepDrop
  <2>2. \A x \in Objects : /\ One(Carries(answer[t], x)) = 0 /\ One(Carries(c, x)) = One(y = x)
                           /\ One(y = x) \in Int
    BY <1>3, CarriesFacts DEF One
  <2>3. /\ refs' \in [Objects -> Int]
        /\ \A x \in Objects : refs'[x] = refs[x] - One(Carries(answer[t], x)) + One(Carries(c, x))
    BY <1>3, <2>1, <2>2
  <2> QED BY <1>3, <2>3, AnswerRefs DEF Leave
<1>4. ASSUME NEW t \in Threads, Setitem(t) PROVE R
  <2> DEFINE k == op[t][2]
             v == op[t][3]
  <2>1. op[t][1] = "set" /\ Leave(t, None, Idle)
    BY <1>4 DEF Setitem, Inside
  <2>2. k \in Keys /\ v \in Vals /\ answer[t] = None
    BY <2>1, InsideFacts DEF CallOf, DictInv
  <2>3. answer' = answer
    BY <1>0, <2>1, <2>2 DEF Leave
  <2>4. CASE find_entry_idx(k) # NotFound
    <3>1. /\ overwrite_value_at(find_entry_idx(k), v)
          /\ refs' = Replaced(refs, At(entries, find_entry_idx(k)).v, v)
      BY <1>4, <2>4 DEF Setitem
    <3> HIDE DEF k, v
    <3> QED BY <2>2, <2>3, <2>4, <3>1, OverwriteRefs
  <2>5. CASE find_entry_idx(k) = NotFound
    <3>1. insert_new(k, v) /\ refs' = Keep(Keep(refs, k), v)
      BY <1>4, <2>5 DEF Setitem
    <3> HIDE DEF k, v
    <3> QED BY <2>2, <2>3, <2>5, <3>1, InsertRefs
  <2> QED BY <2>4, <2>5
<1>5. ASSUME NEW t \in Threads, WithLock(t) PROVE R
  <2> DEFINE k == op[t][2]
             v == op[t][3]
  <2>1. op[t][1] = "with_lock" /\ Leave(t, None, Idle)
    BY <1>5 DEF WithLock, Inside
  <2>2. k \in Keys /\ v \in Vals /\ answer[t] = None
    BY <2>1, InsideFacts DEF CallOf, DictInv
  <2>3. answer' = answer
    BY <1>0, <2>1, <2>2 DEF Leave
  <2>4. CASE find_entry_idx(k) # NotFound
    BY <1>1, <1>5, <2>3, <2>4 DEF WithLock
  <2>5. CASE find_entry_idx(k) = NotFound
    <3>1. insert_new(k, v) /\ refs' = Keep(Keep(refs, k), v)
      BY <1>5, <2>5 DEF WithLock
    <3> HIDE DEF k, v
    <3> QED BY <2>2, <2>3, <2>5, <3>1, InsertRefs
  <2> QED BY <2>4, <2>5
<1>6. ASSUME NEW t \in Threads, Delitem(t) PROVE R
  <2> DEFINE k == op[t][2]
  <2>1. op[t][1] = "del"
    BY <1>6 DEF Delitem, Inside
  <2>2. k \in Keys /\ answer[t] = None
    BY <2>1, InsideFacts DEF CallOf, DictInv
  <2>3. CASE find_entry_idx(k) # NotFound
    <3>1. /\ remove_entry(k) /\ refs' = Drop(Drop(refs, k), At(entries, find_entry_idx(k)).v)
          /\ Leave(t, None, Idle)
      BY <1>6, <2>3 DEF Delitem
    <3>2. answer' = answer
      BY <1>0, <2>2, <3>1 DEF Leave
    <3> HIDE DEF k
    <3> QED BY <2>2, <2>3, <3>1, <3>2, RemoveRefs
  <2>4. CASE find_entry_idx(k) = NotFound
    <3>1. entries' = entries /\ refs' = refs /\ Leave(t, <<"KeyError">>, Idle)
      BY <1>6, <2>4 DEF Delitem
    <3> HIDE DEF R
    <3> QED BY <1>2, <2>2, <3>1, CarriesFacts
  <2> QED BY <2>3, <2>4
\* what is stored are objects
<1>7. \A n \in 1..entries.len : entries.slots[n].k \in Objects /\ entries.slots[n].v \in Objects
  BY DEF DictInv, Structured, IsList, Entry, Objects
<1>8. ASSUME NEW t \in Threads, Getitem(t) PROVE R
  <2> DEFINE k == op[t][2]
             i == find_entry_idx(k)
  <2>1. op[t][1] = "get"
    BY <1>8 DEF Getitem, Inside
  <2>2. k \in Keys /\ answer[t] = None
    BY <2>1, InsideFacts DEF CallOf, DictInv
  <2>3. CASE i # NotFound
    <3>1. /\ refs' = Keep(refs, At(entries, i).v) /\ Leave(t, <<"value", At(entries, i).v>>, Idle)
          /\ entries' = entries
      BY <1>8, <2>3 DEF Getitem
    <3>2. i \in 0..entries.len - 1 /\ entries.len \in Nat
      <4> HIDE DEF k
      <4> QED BY <2>2, <2>3, FindFacts DEF DictInv, Structured, IsList
    <3> HIDE DEF i
    <3>3. At(entries, i).v \in Objects
      BY <1>7, <3>2 DEF At
    <3> DEFINE y == At(entries, i).v
    <3>4. \A x : Carries(<<"value", y>>, x) <=> y = x
      BY CarriesFacts
    <3> HIDE DEF R, y
    <3>5. y \in Objects /\ refs' = Keep(refs, y) /\ Leave(t, <<"value", y>>, Idle)
      BY <3>1, <3>3 DEF y
    <3> QED BY <1>3, <2>2, <3>1, <3>4, <3>5
  <2>4. CASE i = NotFound
    <3>1. entries' = entries /\ refs' = refs /\ Leave(t, <<"KeyError">>, Idle)
      BY <1>8, <2>4 DEF Getitem
    <3> HIDE DEF R
    <3> QED BY <1>2, <2>2, <3>1, CarriesFacts
  <2> QED BY <2>3, <2>4
<1>9. ASSUME NEW t \in Threads, ValueAt(t) PROVE R
  <2> DEFINE i == op[t][2]
  <2>1. op[t][1] = "value_at"
    BY <1>9 DEF ValueAt, Inside
  <2>2. i \in Nat /\ answer[t] = None /\ entries.len \in Nat
    BY <2>1, InsideFacts DEF CallOf, DictInv, Structured, IsList
  <2>3. CASE ~ (i >= entries.len)
    <3>1. /\ refs' = Keep(refs, At(entries, i).v) /\ Leave(t, <<"value", At(entries, i).v>>, Idle)
          /\ entries' = entries
      BY <1>9, <2>3 DEF ValueAt
    <3> HIDE DEF i
    <3>2. i + 1 \in 1..entries.len
      BY <2>2, <2>3
    <3>3. At(entries, i).v \in Objects
      BY <1>7, <3>2 DEF At
    <3> DEFINE y == At(entries, i).v
    <3>4. \A x : Carries(<<"value", y>>, x) <=> y = x
      BY CarriesFacts
    <3> HIDE DEF R, y
    <3>5. y \in Objects /\ refs' = Keep(refs, y) /\ Leave(t, <<"value", y>>, Idle)
      BY <3>1, <3>3 DEF y
    <3> QED BY <1>3, <2>2, <3>1, <3>4, <3>5
  <2>4. CASE i >= entries.len
    <3>1. entries' = entries /\ refs' = refs /\ Leave(t, <<"IndexError">>, Idle)
      BY <1>9, <2>4 DEF ValueAt
    <3> HIDE DEF R
    <3> QED BY <1>2, <2>2, <3>1, CarriesFacts
  <2> QED BY <2>3, <2>4
<1>10. ASSUME NEW t \in Threads, IterRead(t) PROVE R
  <2> DEFINE i == op[t][2]
  <2>1. op[t][1] = "read" /\ entries' = entries
    BY <1>10 DEF IterRead, Inside
  <2>2. i \in Nat /\ answer[t] = None /\ entries.len \in Nat
    BY <2>1, InsideFacts DEF CallOf, DictInv, Structured, IsList
  <2>3. CASE ~ (i >= entries.len)
    <3>1. key_at(i) = <<"key", At(entries, i).k>>
      BY <2>3 DEF key_at
    <3>2. refs' = Keep(refs, At(entries, i).k) /\ Leave(t, <<"key", At(entries, i).k>>, Idle)
      BY <1>10, <3>1 DEF IterRead
    <3> HIDE DEF i
    <3>3. i + 1 \in 1..entries.len
      BY <2>2, <2>3
    <3>4. At(entries, i).k \in Objects
      BY <1>7, <3>3 DEF At
    <3> DEFINE y == At(entries, i).k
    <3>5. \A x : Carries(<<"key", y>>, x) <=> y = x
      BY CarriesFacts
    <3> HIDE DEF R, y
    <3>6. y \in Objects /\ refs' = Keep(refs, y) /\ Leave(t, <<"key", y>>, Idle)
      BY <3>2, <3>4 DEF y
    <3> QED BY <1>3, <2>1, <2>2, <3>5, <3>6
  <2>4. CASE i >= entries.len
    <3>1. key_at(i) = <<"IndexError">>
      BY <2>4 DEF key_at
    <3>2. refs' = refs /\ Leave(t, <<"IndexError">>, Idle)
      BY <1>10, <3>1 DEF IterRead
    <3> HIDE DEF R
    <3> QED BY <1>2, <2>1, <2>2, <3>2, CarriesFacts
  <2> QED BY <2>3, <2>4
<1>11. ASSUME NEW t \in Threads, ContainsItem(t) \/ Length(t) PROVE R
  <2>1. /\ entries' = entries /\ refs' = refs
        /\ \E b : Leave(t, <<"bool", b>>, Idle) \/ Leave(t, <<"size", b>>, Idle)
    BY <1>11 DEF ContainsItem, Length
  <2>2. op[t][1] = "in" \/ op[t][1] = "len"
    BY <1>11 DEF ContainsItem, Length, Inside
  <2>3. answer[t] = None
    BY <2>2, InsideFacts DEF DictInv
  <2> HIDE DEF R
  <2> QED BY <1>2, <2>1, <2>3, CarriesFacts
<1>12. ASSUME NEW t \in Threads, IterCheck(t) PROVE R
  <2>1. op[t][1] = "check" /\ entries' = entries /\ refs' = refs
    BY <1>12 DEF IterCheck, Inside
  <2>2. answer[t] = None
    BY <2>1, InsideFacts DEF DictInv
  <2>3. \E next : Leave(t, None, next) \/ Leave(t, <<"IndexError">>, next)
    BY <1>12 DEF IterCheck
  <2> HIDE DEF R
  <2> QED BY <1>2, <2>1, <2>2, <2>3, CarriesFacts
<1>13. ASSUME NEW t \in Threads, Done(t) PROVE R
  <2>1. entries' = entries /\ answer' = [answer EXCEPT ![t] = None]
    BY <1>13 DEF Done
  <2>2. CASE answer[t][1] \in {"value", "key"}
    <3> DEFINE y == answer[t][2]
    <3>1. refs' = Drop(refs, y)
      BY <1>13, <2>2 DEF Done
    <3>2. \A x : (Carries(answer[t], x) <=> y = x) /\ ~ Carries(None, x)
      BY <2>2, CarriesFacts DEF Carries
    <3> HIDE DEF y
    <3>3. refs' \in [Objects -> Int] /\ \A x \in Objects : refs'[x] = refs[x] - One(y = x)
      <4>1. CASE y \in Objects
        BY <3>1, <4>1, KeepDrop
      <4>2. CASE y \notin Objects
        <5>1. refs' = refs
          BY <3>1, <4>2 DEF Drop
        <5>2. \A x \in Objects : One(y = x) = 0 /\ refs[x] \in Int
          BY <4>2 DEF One
        <5> QED BY <5>1, <5>2
      <4> QED BY <4>1, <4>2
    <3>4. \A x \in Objects : /\ One(Carries(answer[t], x)) = One(y = x) /\ One(Carries(None, x)) = 0
                             /\ One(y = x) \in Int
      BY <3>2 DEF One
    <3>5. \A x \in Objects : refs'[x] = refs[x] - One(Carries(answer[t], x)) + One(Carries(None, x))
      BY <3>3, <3>4
    <3>6. refs' \in [Objects -> Int]
      BY <3>3
    <3> QED BY <2>1, <3>5, <3>6, AnswerRefs
  <2>3. CASE answer[t][1] \notin {"value", "key"}
    <3>1. refs' = refs
      BY <1>13, <2>3 DEF Done
    <3>2. \A x : ~ Carries(answer[t], x) /\ ~ Carries(None, x)
      BY <2>3, CarriesFacts DEF Carries
    <3>3. \A x \in Objects : refs'[x] = refs[x] - One(Carries(answer[t], x)) + One(Carries(None, x))
      BY <3>1, <3>2 DEF One
    <3> QED BY <2>1, <3>1, <3>3, AnswerRefs
  <2> QED BY <2>2, <2>3
<1>14. ASSUME NEW t \in Threads, (\E what : Enter(t, what)) \/ IterAgain(t) PROVE R
  BY <1>1, <1>14 DEF Enter, IterAgain
<1>15. CASE Del
  BY <1>15, DelRefs
<1>16. CASE UNCHANGED vars
  BY <1>1, <1>16 DEF vars
<1> HIDE DEF R
<1> QED BY <1>4, <1>5, <1>6, <1>8, <1>9, <1>10, <1>11, <1>12, <1>13, <1>14, <1>15, <1>16 DEF Next

\* At the start every object has its program's reference, and nothing is stored.
LEMMA RefsStart == Init => RefsInv
<1> SUFFICES ASSUME Init PROVE refs \in [Objects -> Int] /\ RefsOK(refs, entries, answer)
  BY RefsExactIs DEF RefsInv, Objects
<1>1. refs \in [Objects -> Int] /\ \A x \in Objects : refs[x] = 1
  BY DEF Init, Objects
<1>2. \A x : KeySlots(entries, x) = {} /\ ValSlots(entries, x) = {}
  <2>1. entries.len = 0
    BY EmptyFacts DEF Init
  <2> QED BY <2>1 DEF KeySlots, ValSlots
<1>3. \A x : Holders(answer, x) = {}
  BY CarriesFacts DEF Init, Holders
<1>4. Cardinality({}) = 0
  BY FS_EmptySet
<1> QED BY <1>1, <1>2, <1>3, <1>4 DEF RefsOK

\* Every key and value is referenced exactly once for every place that holds it,
\* whatever the operations of the threads and however the hashes collide.
THEOREM DictRefsExact == Spec => []RefsExact
<1>1. DictInv /\ RefsInv /\ [Next]_vars => RefsInv'
  BY RefsStep
<1>2. RefsInv => RefsExact
  BY DEF RefsInv
<1> QED BY <1>1, <1>2, RefsStart, DictStructured, PTL DEF Spec

-------------------------------------------------------------------------------
(* The ordered map                                                           *)

Pairs(E) == [i \in 1..E.len |-> <<E.slots[i].k, E.slots[i].v>>]
Pair == Keys \X Vals

\* The list of pairs that the entries stand for.
LEMMA PairsFacts ==
  ASSUME NEW E, NEW I, Structured(E, I)
  PROVE  /\ E.len \in Nat /\ Pairs(E) \in Seq(Pair) /\ Len(Pairs(E)) = E.len /\ DOMAIN Pairs(E) = 1..E.len
         /\ \A i \in 1..E.len : Pairs(E)[i] = <<E.slots[i].k, E.slots[i].v>>
<1>1. E.len \in Nat /\ \A i \in 1..E.len : E.slots[i].k \in Keys /\ E.slots[i].v \in Vals
  BY DEF Structured, IsList, Entry
<1>2. \A i \in 1..E.len : <<E.slots[i].k, E.slots[i].v>> \in Pair
  BY <1>1 DEF Pair
<1>3. Pairs(E) \in [1..E.len -> Pair]
  BY <1>2 DEF Pairs
<1>4. Pairs(E) \in Seq(Pair)
  BY <1>1, <1>3
<1>5. Len(Pairs(E)) = E.len /\ DOMAIN Pairs(E) = 1..E.len
  BY <1>1, <1>3, <1>4
<1> QED BY <1>1, <1>4, <1>5 DEF Pairs

\* Where a key that is stored has its place, and what a search answers.
LEMMA PlaceFacts ==
  ASSUME DictInv, NEW k \in Keys
  PROVE  /\ find_entry_idx(k) = NotFound => k \notin Abstract!Held
         /\ find_entry_idx(k) # NotFound =>
              /\ k \in Abstract!Held /\ find_entry_idx(k) + 1 \in 1..entries.len
              /\ Abstract!Place(k) = find_entry_idx(k) + 1
              /\ entries.slots[find_entry_idx(k) + 1].k = k
<1> DEFINE i == find_entry_idx(k)
<1>0. Structured(entries, indices)
  BY DEF DictInv
<1>1. /\ entries.len \in Nat /\ DOMAIN Pairs(entries) = 1..entries.len
      /\ \A n \in 1..entries.len : Pairs(entries)[n][1] = entries.slots[n].k
  BY <1>0, PairsFacts
<1>2. Abstract!Held = {Pairs(entries)[n][1] : n \in DOMAIN Pairs(entries)}
  BY DEF Abstract!Held, Pairs
<1>3. Abstract!Place(k) = CHOOSE n \in DOMAIN Pairs(entries) : Pairs(entries)[n][1] = k
  BY DEF Abstract!Place, Pairs
<1>4. CASE i = NotFound
  <2>1. \A n \in 1..entries.len : entries.slots[n].k # k
    BY <1>0, <1>4, FindFacts
  <2> QED BY <1>1, <1>2, <1>4, <2>1
<1>5. CASE i # NotFound
  <2>1. i \in 0..entries.len - 1 /\ At(entries, i).k = k
    BY <1>0, <1>5, FindFacts
  <2> HIDE DEF i
  <2>2. i + 1 \in 1..entries.len /\ entries.slots[i + 1].k = k
    BY <1>1, <2>1 DEF At
  <2>3. \A n \in 1..entries.len : entries.slots[n].k = k => n = i + 1
    BY <1>0, <2>2 DEF Structured, KeysOnce
  <2>4. Abstract!Place(k) = i + 1
    BY <1>1, <1>3, <2>2, <2>3
  <2>5. k \in Abstract!Held
    BY <1>1, <1>2, <2>2
  <2> QED BY <1>5, <2>2, <2>4, <2>5 DEF i
<1> QED BY <1>4, <1>5

\* Taking one element out of a list.
LEMMA RemoveAtFacts ==
  ASSUME NEW S, NEW s \in Seq(S), NEW g \in 1..Len(s)
  PROVE  Abstract!RemoveAt(s, g) = [j \in 1..Len(s) - 1 |-> IF j < g THEN s[j] ELSE s[j + 1]]
<1> DEFINE a == SubSeq(s, 1, g - 1)
           b == SubSeq(s, g + 1, Len(s))
<1>1. /\ a \in Seq(S) /\ Len(a) = g - 1 /\ \A j \in 1..g - 1 : a[j] = s[j]
      /\ b \in Seq(S) /\ Len(b) = Len(s) - g /\ \A j \in 1..Len(s) - g : b[j] = s[g + j]
  OBVIOUS
<1>2. Abstract!RemoveAt(s, g) = a \o b
  BY DEF Abstract!RemoveAt
<1> HIDE DEF a, b
<1> DEFINE c == a \o b
<1>3. c \in Seq(S) /\ Len(c) = Len(s) - 1 /\ DOMAIN c = 1..Len(s) - 1
  <2>1. c \in Seq(S) /\ Len(c) = Len(a) + Len(b)
    BY <1>1, ConcatProperties
  <2>2. Len(a) + Len(b) = Len(s) - 1
    BY <1>1
  <2> QED BY <2>1, <2>2
<1>4. \A j \in 1..Len(s) - 1 : c[j] = IF j <= Len(a) THEN a[j] ELSE b[j - Len(a)]
  <2>1. \A j \in 1..Len(a) + Len(b) : c[j] = IF j <= Len(a) THEN a[j] ELSE b[j - Len(a)]
    BY ONLY <1>1, ConcatProperties
  <2>2. Len(a) + Len(b) = Len(s) - 1
    BY <1>1
  <2> QED BY ONLY <2>1, <2>2, Zenon
<1>5. ASSUME NEW j \in 1..Len(s) - 1 PROVE c[j] = IF j < g THEN s[j] ELSE s[j + 1]
  <2>1. CASE j < g
    <3>1. j <= Len(a) /\ j \in 1..g - 1
      BY <1>1, <2>1
    <3> QED BY <1>1, <1>4, <2>1, <3>1
  <2>2. CASE ~ (j < g)
    <3>1. ~ (j <= Len(a)) /\ j - Len(a) \in 1..Len(s) - g /\ g + (j - Len(a)) = j + 1
      BY <1>1, <2>2
    <3> QED BY <1>1, <1>4, <2>2, <3>1
  <2> QED BY <2>1, <2>2
<1> HIDE DEF c
<1>6. c = [j \in 1..Len(s) - 1 |-> c[j]]
  BY <1>3
<1> QED BY <1>2, <1>5, <1>6 DEF c

\* An insertion appends a pair.
LEMMA InsertPairs ==
  ASSUME DictInv, NEW k \in Keys, NEW v \in Vals, find_entry_idx(k) = NotFound, insert_new(k, v)
  PROVE  Pairs(entries') = Append(Pairs(entries), <<k, v>>)
<1> DEFINE n == entries.len
           s == Pairs(entries)
           p == Pairs(entries')
<1>1. /\ Structured(entries', indices') /\ n \in Nat /\ entries'.len = n + 1
      /\ entries'.slots[n + 1] = [h |-> Hash[k], k |-> k, v |-> v]
      /\ \A i \in 1..n : entries'.slots[i] = entries.slots[i]
  BY InsertEffect
<1>2. s \in Seq(Pair) /\ Len(s) = n /\ \A i \in 1..n : s[i] = <<entries.slots[i].k, entries.slots[i].v>>
  BY PairsFacts DEF DictInv
<1>3. /\ p \in Seq(Pair) /\ Len(p) = n + 1
      /\ \A i \in 1..n + 1 : p[i] = <<entries'.slots[i].k, entries'.slots[i].v>>
  BY <1>1, PairsFacts
<1>4. p[n + 1] = <<k, v>>
  <2>1. n + 1 \in 1..n + 1
    BY <1>1
  <2>2. [h |-> Hash[k], k |-> k, v |-> v].k = k /\ [h |-> Hash[k], k |-> k, v |-> v].v = v
    OBVIOUS
  <2> QED BY <1>1, <1>3, <2>1, <2>2
<1>5. \A i \in 1..n : p[i] = s[i]
  <2>1. \A i \in 1..n : i \in 1..n + 1
    BY <1>1
  <2> QED BY <1>1, <1>2, <1>3, <2>1
<1>6. <<k, v>> \in Pair
  BY DEF Pair
<1> HIDE DEF s, p, n
<1>7. p = Append(s, <<k, v>>)
  BY <1>1, <1>2, <1>3, <1>4, <1>5, <1>6
<1> QED BY <1>7 DEF s, p

\* Overwriting changes one pair.
LEMMA OverwritePairs ==
  ASSUME DictInv, NEW k \in Keys, NEW v \in Vals, find_entry_idx(k) # NotFound,
         overwrite_value_at(find_entry_idx(k), v)
  PROVE  Pairs(entries') = [Pairs(entries) EXCEPT ![find_entry_idx(k) + 1] = <<k, v>>]
<1> DEFINE g == find_entry_idx(k) + 1
           n == entries.len
<1>1. /\ Structured(entries', indices') /\ n \in Nat /\ g \in 1..n /\ entries'.len = n
      /\ entries.slots[g].k = k
      /\ \A i \in 1..n : /\ entries'.slots[i].k = entries.slots[i].k
                         /\ entries'.slots[i].v = IF i = g THEN v ELSE entries.slots[i].v
  BY OverwriteEffect
<1> HIDE DEF g
<1>2. \A i \in 1..n : <<entries'.slots[i].k, entries'.slots[i].v>> =
                        IF i = g THEN <<k, v>> ELSE <<entries.slots[i].k, entries.slots[i].v>>
  BY <1>1
<1>3. Pairs(entries') = [Pairs(entries) EXCEPT ![g] = <<k, v>>]
  BY <1>1, <1>2 DEF Pairs
<1> QED BY <1>3 DEF g

\* A removal takes out one pair.
LEMMA RemovePairs ==
  ASSUME DictInv, NEW k \in Keys, find_entry_idx(k) # NotFound, remove_entry(k)
  PROVE  Pairs(entries') = Abstract!RemoveAt(Pairs(entries), find_entry_idx(k) + 1)
<1> DEFINE i == find_entry_idx(k)
           n == entries.len
           s == Pairs(entries)
<1>1. /\ Structured(entries', indices') /\ n \in Nat /\ i \in 0..n - 1 /\ entries'.len = n - 1
      /\ \A j \in 1..n - 1 : entries'.slots[j] = IF j <= i THEN entries.slots[j] ELSE entries.slots[j + 1]
  BY RemoveEffect
<1> HIDE DEF i
<1>2. s \in Seq(Pair) /\ Len(s) = n /\ \A j \in 1..n : s[j] = <<entries.slots[j].k, entries.slots[j].v>>
  BY PairsFacts DEF DictInv
<1>3. i + 1 \in 1..Len(s)
  BY <1>1, <1>2
<1>4. Abstract!RemoveAt(s, i + 1) = [j \in 1..n - 1 |-> IF j < i + 1 THEN s[j] ELSE s[j + 1]]
  <2> DEFINE g == i + 1
  <2> HIDE DEF g, s
  <2>1. g \in 1..Len(s)
    BY <1>3 DEF g
  <2>2. Abstract!RemoveAt(s, g) = [j \in 1..Len(s) - 1 |-> IF j < g THEN s[j] ELSE s[j + 1]]
    BY <1>2, <2>1, RemoveAtFacts
  <2> QED BY <1>2, <2>2 DEF g
<1>5. \A j \in 1..n - 1 : <<entries'.slots[j].k, entries'.slots[j].v>> = IF j < i + 1 THEN s[j] ELSE s[j + 1]
  <2> TAKE j \in 1..n - 1
  <2>1. j \in 1..n /\ j + 1 \in 1..n /\ (j < i + 1 <=> j <= i)
    BY <1>1
  <2> HIDE DEF s
  <2> QED BY <1>1, <1>2, <2>1
<1> HIDE DEF s
<1>6. Pairs(entries') = Abstract!RemoveAt(s, i + 1)
  BY <1>1, <1>4, <1>5 DEF Pairs
<1> QED BY <1>6 DEF s, i

\* The map's operations, said of the entries.
LEMMA MapOps ==
  ASSUME NEW t, NEW k, NEW v, NEW i
  PROVE  LET s == Pairs(entries)
             r == Pairs(entries')
             Held == Abstract!Held
             Said(a) == answer' = [answer EXCEPT ![t] = a]
         IN /\ Abstract!Put(t, k, v) <=>
                 /\ r = IF k \in Held THEN [s EXCEPT ![Abstract!Place(k)] = <<k, v>>] ELSE Append(s, <<k, v>>)
                 /\ Said(None)
            /\ Abstract!PutIfMissing(t, k, v) <=>
                 r = (IF k \in Held THEN s ELSE Append(s, <<k, v>>)) /\ Said(None)
            /\ Abstract!RemoveKey(t, k) <=>
                 /\ r = IF k \in Held THEN Abstract!RemoveAt(s, Abstract!Place(k)) ELSE s
                 /\ Said(IF k \in Held THEN None ELSE <<"KeyError">>)
            /\ Abstract!Lookup(t, k) <=>
                 Said(IF k \in Held THEN <<"value", s[Abstract!Place(k)][2]>> ELSE <<"KeyError">>) /\ r = s
            /\ Abstract!HasKey(t, k) <=> Said(<<"bool", k \in Held>>) /\ r = s
            /\ Abstract!Size(t) <=> Said(<<"size", Len(s)>>) /\ r = s
            /\ Abstract!KeyAt(t, i) <=>
                 Said(IF i \in DOMAIN s THEN <<"key", s[i][1]>> ELSE <<"IndexError">>) /\ r = s
            /\ Abstract!ValueAt(t, i) <=>
                 Said(IF i \in DOMAIN s THEN <<"value", s[i][2]>> ELSE <<"IndexError">>) /\ r = s
            /\ Abstract!Forget(t) <=> Said(None) /\ r = s
            /\ Abstract!Discard <=> r = <<>> /\ answer' = answer
            /\ (UNCHANGED Abstract!vars) <=> r = s /\ answer' = answer
BY ONLY Zenon DEF Abstract!Put, Abstract!PutIfMissing, Abstract!RemoveKey, Abstract!Lookup, Abstract!HasKey,
          Abstract!Size, Abstract!KeyAt, Abstract!ValueAt, Abstract!Forget, Abstract!Discard, Abstract!Reply,
          Abstract!vars, Pairs, None

\* Every step of the code is a step of the map, or leaves the pairs and the
\* answers alone.
LEMMA MapStep == DictInv /\ [Next]_vars => [Abstract!Next]_(Abstract!vars)
<1> SUFFICES ASSUME DictInv, [Next]_vars PROVE [Abstract!Next]_(Abstract!vars)
  OBVIOUS
<1> DEFINE s == Pairs(entries)
<1>0. /\ entries.len \in Nat /\ Len(s) = entries.len /\ DOMAIN s = 1..entries.len
      /\ \A i \in 1..entries.len : s[i] = <<entries.slots[i].k, entries.slots[i].v>>
  BY PairsFacts DEF DictInv
<1> HIDE DEF s
<1>1. /\ \A i \in 1..entries.len : s[i][1] = entries.slots[i].k /\ s[i][2] = entries.slots[i].v
  BY <1>0
<1>2. entries' = entries => Pairs(entries') = s
  BY DEF s
<1>3. ASSUME NEW t \in Threads, Setitem(t) PROVE \E k \in Keys, v \in Vals : Abstract!Put(t, k, v)
  <2>1. op[t][1] = "set" /\ answer' = [answer EXCEPT ![t] = None]
    BY <1>3 DEF Setitem, Inside, Leave
  <2>2. PICK k \in Keys, v \in Vals : k = op[t][2] /\ v = op[t][3]
    BY <2>1, InsideFacts DEF CallOf, DictInv
  <2>3. CASE find_entry_idx(k) # NotFound
    <3>1. overwrite_value_at(find_entry_idx(k), v)
      BY <1>3, <2>2, <2>3 DEF Setitem
    <3>2. k \in Abstract!Held /\ Abstract!Place(k) = find_entry_idx(k) + 1
      BY <2>2, <2>3, PlaceFacts
    <3>3. Pairs(entries') = [s EXCEPT ![Abstract!Place(k)] = <<k, v>>]
      BY <2>2, <2>3, <3>1, <3>2, OverwritePairs DEF s
    <3>4. Abstract!Put(t, k, v)
      <4>1. Abstract!Put(t, k, v) <=>
              /\ Pairs(entries') = IF k \in Abstract!Held
                                   THEN [Pairs(entries) EXCEPT ![Abstract!Place(k)] = <<k, v>>]
                                   ELSE Append(Pairs(entries), <<k, v>>)
              /\ answer' = [answer EXCEPT ![t] = None]
        BY MapOps
      <4> DEFINE new == [Pairs(entries) EXCEPT ![Abstract!Place(k)] = <<k, v>>]
      <4>2. Pairs(entries') = new
        BY <3>3 DEF s
      <4> HIDE DEF new
      <4>3. Pairs(entries') = IF k \in Abstract!Held THEN new ELSE Append(Pairs(entries), <<k, v>>)
        BY <3>2, <4>2
      <4> QED BY <2>1, <4>1, <4>3, Zenon DEF new
    <3> QED BY <2>2, <3>4
  <2>4. CASE find_entry_idx(k) = NotFound
    <3>1. insert_new(k, v)
      BY <1>3, <2>2, <2>4 DEF Setitem
    <3>2. k \notin Abstract!Held
      BY <2>2, <2>4, PlaceFacts
    <3>3. Pairs(entries') = Append(s, <<k, v>>)
      BY <2>2, <2>4, <3>1, InsertPairs DEF s
    <3>4. Abstract!Put(t, k, v)
      BY <2>1, <3>2, <3>3, MapOps DEF s
    <3> QED BY <2>2, <3>4
  <2> QED BY <2>3, <2>4
<1>4. ASSUME NEW t \in Threads, WithLock(t) PROVE \E k \in Keys, v \in Vals : Abstract!PutIfMissing(t, k, v)
  <2>1. op[t][1] = "with_lock" /\ answer' = [answer EXCEPT ![t] = None]
    BY <1>4 DEF WithLock, Inside, Leave
  <2>2. PICK k \in Keys, v \in Vals : k = op[t][2] /\ v = op[t][3]
    BY <2>1, InsideFacts DEF CallOf, DictInv
  <2>3. CASE find_entry_idx(k) # NotFound
    <3>1. entries' = entries
      BY <1>4, <2>2, <2>3 DEF WithLock
    <3>2. k \in Abstract!Held
      BY <2>2, <2>3, PlaceFacts
    <3>3. Abstract!PutIfMissing(t, k, v)
      BY <1>2, <2>1, <3>1, <3>2, MapOps DEF s
    <3> QED BY <2>2, <3>3
  <2>4. CASE find_entry_idx(k) = NotFound
    <3>1. insert_new(k, v)
      BY <1>4, <2>2, <2>4 DEF WithLock
    <3>2. k \notin Abstract!Held
      BY <2>2, <2>4, PlaceFacts
    <3>3. Pairs(entries') = Append(s, <<k, v>>)
      BY <2>2, <2>4, <3>1, InsertPairs DEF s
    <3>4. Abstract!PutIfMissing(t, k, v)
      BY <2>1, <3>2, <3>3, MapOps DEF s
    <3> QED BY <2>2, <3>4
  <2> QED BY <2>3, <2>4
<1>5. ASSUME NEW t \in Threads, Delitem(t) PROVE \E k \in Keys : Abstract!RemoveKey(t, k)
  <2>1. op[t][1] = "del"
    BY <1>5 DEF Delitem, Inside
  <2>2. PICK k \in Keys : k = op[t][2]
    BY <2>1, InsideFacts DEF CallOf, DictInv
  <2>3. CASE find_entry_idx(k) # NotFound
    <3>1. remove_entry(k) /\ answer' = [answer EXCEPT ![t] = None]
      BY <1>5, <2>2, <2>3 DEF Delitem, Leave
    <3>2. k \in Abstract!Held /\ Abstract!Place(k) = find_entry_idx(k) + 1
      BY <2>2, <2>3, PlaceFacts
    <3>3. Pairs(entries') = Abstract!RemoveAt(s, Abstract!Place(k))
      BY <2>2, <2>3, <3>1, <3>2, RemovePairs DEF s
    <3>4. Abstract!RemoveKey(t, k)
      BY <3>1, <3>2, <3>3, MapOps DEF s
    <3> QED BY <2>2, <3>4
  <2>4. CASE find_entry_idx(k) = NotFound
    <3>1. entries' = entries /\ answer' = [answer EXCEPT ![t] = <<"KeyError">>]
      BY <1>5, <2>2, <2>4 DEF Delitem, Leave
    <3>2. k \notin Abstract!Held
      BY <2>2, <2>4, PlaceFacts
    <3>3. Abstract!RemoveKey(t, k)
      BY <1>2, <3>1, <3>2, MapOps DEF s
    <3> QED BY <2>2, <3>3
  <2> QED BY <2>3, <2>4
<1>6. ASSUME NEW t \in Threads, Getitem(t) PROVE \E k \in Keys : Abstract!Lookup(t, k)
  <2>1. op[t][1] = "get" /\ entries' = entries
    BY <1>6 DEF Getitem, Inside
  <2>2. PICK k \in Keys : k = op[t][2]
    BY <2>1, InsideFacts DEF CallOf, DictInv
  <2> DEFINE i == find_entry_idx(k)
  <2>3. CASE i # NotFound
    <3>1. answer' = [answer EXCEPT ![t] = <<"value", At(entries, i).v>>]
      BY <1>6, <2>2, <2>3 DEF Getitem, Leave
    <3>2. k \in Abstract!Held /\ Abstract!Place(k) = i + 1 /\ i + 1 \in 1..entries.len
      BY <2>2, <2>3, PlaceFacts
    <3>3. At(entries, i).v = s[Abstract!Place(k)][2]
      BY <1>1, <3>2 DEF At
    <3>4. Abstract!Lookup(t, k)
      BY <1>2, <2>1, <3>1, <3>2, <3>3, MapOps DEF s
    <3> QED BY <2>2, <3>4
  <2>4. CASE i = NotFound
    <3>1. answer' = [answer EXCEPT ![t] = <<"KeyError">>]
      BY <1>6, <2>2, <2>4 DEF Getitem, Leave
    <3>2. k \notin Abstract!Held
      BY <2>2, <2>4, PlaceFacts
    <3>3. Abstract!Lookup(t, k)
      BY <1>2, <2>1, <3>1, <3>2, MapOps DEF s
    <3> QED BY <2>2, <3>3
  <2> QED BY <2>3, <2>4
<1>7. ASSUME NEW t \in Threads, ContainsItem(t) PROVE \E k \in Keys : Abstract!HasKey(t, k)
  <2>1. op[t][1] = "in" /\ entries' = entries
    BY <1>7 DEF ContainsItem, Inside
  <2>2. PICK k \in Keys : k = op[t][2]
    BY <2>1, InsideFacts DEF CallOf, DictInv
  <2>3. (find_entry_idx(k) # NotFound) = (k \in Abstract!Held)
    BY PlaceFacts
  <2>4. answer' = [answer EXCEPT ![t] = <<"bool", k \in Abstract!Held>>]
    BY <1>7, <2>2, <2>3 DEF ContainsItem, Leave
  <2>5. Abstract!HasKey(t, k)
    BY <1>2, <2>1, <2>4, MapOps DEF s
  <2> QED BY <2>5
<1>8. ASSUME NEW t \in Threads, Length(t) PROVE Abstract!Size(t)
  <2>1. entries' = entries /\ answer' = [answer EXCEPT ![t] = <<"size", entries.len>>]
    BY <1>8 DEF Length, Leave
  <2> QED BY <1>0, <1>2, <2>1, MapOps DEF s
\* a position behind the last answers as the first free one does
<1>9. ASSUME NEW i \in Nat
      PROVE  \E n \in 1..Len(s) + 1 : /\ n \in DOMAIN s <=> ~ (i >= entries.len)
                                      /\ n \in DOMAIN s => n = i + 1
  <2>1. CASE i >= entries.len
    <3>1. Len(s) + 1 \in 1..Len(s) + 1 /\ Len(s) + 1 \notin DOMAIN s
      BY <1>0
    <3> QED BY <2>1, <3>1
  <2>2. CASE ~ (i >= entries.len)
    <3>1. i + 1 \in 1..Len(s) + 1 /\ i + 1 \in DOMAIN s
      BY <1>0, <2>2
    <3> QED BY <2>2, <3>1
  <2> QED BY <2>1, <2>2
<1>10. ASSUME NEW t \in Threads, ValueAt(t) PROVE \E n \in 1..Len(s) + 1 : Abstract!ValueAt(t, n)
  <2> DEFINE i == op[t][2]
  <2>1. op[t][1] = "value_at" /\ entries' = entries
    BY <1>10 DEF ValueAt, Inside
  <2>2. i \in Nat
    BY <2>1, InsideFacts DEF CallOf, DictInv
  <2>3. PICK n \in 1..Len(s) + 1 : (n \in DOMAIN s <=> ~ (i >= entries.len)) /\ (n \in DOMAIN s => n = i + 1)
    BY <1>9, <2>2
  <2>4. CASE i >= entries.len
    <3>1. answer' = [answer EXCEPT ![t] = <<"IndexError">>] /\ n \notin DOMAIN s
      BY <1>10, <2>3, <2>4 DEF ValueAt, Leave
    <3>2. Abstract!ValueAt(t, n)
      BY <1>2, <2>1, <3>1, MapOps DEF s
    <3> QED BY <3>2
  <2>5. CASE ~ (i >= entries.len)
    <3>1. answer' = [answer EXCEPT ![t] = <<"value", At(entries, i).v>>] /\ n \in DOMAIN s /\ n = i + 1
      BY <1>10, <2>3, <2>5 DEF ValueAt, Leave
    <3>2. At(entries, i).v = s[n][2]
      BY <1>0, <1>1, <3>1 DEF At
    <3>3. Abstract!ValueAt(t, n)
      BY <1>2, <2>1, <3>1, <3>2, MapOps DEF s
    <3> QED BY <3>3
  <2> QED BY <2>4, <2>5
<1>11. ASSUME NEW t \in Threads, IterRead(t) PROVE \E n \in 1..Len(s) + 1 : Abstract!KeyAt(t, n)
  <2> DEFINE i == op[t][2]
  <2>1. op[t][1] = "read" /\ entries' = entries /\ answer' = [answer EXCEPT ![t] = key_at(i)]
    BY <1>11 DEF IterRead, Inside, Leave
  <2>2. i \in Nat
    BY <2>1, InsideFacts DEF CallOf, DictInv
  <2>3. PICK n \in 1..Len(s) + 1 : (n \in DOMAIN s <=> ~ (i >= entries.len)) /\ (n \in DOMAIN s => n = i + 1)
    BY <1>9, <2>2
  <2> HIDE DEF i
  <2>4. CASE i >= entries.len
    <3>1. answer' = [answer EXCEPT ![t] = <<"IndexError">>] /\ n \notin DOMAIN s
      BY <2>1, <2>3, <2>4 DEF key_at
    <3>2. Abstract!KeyAt(t, n)
      BY <1>2, <2>1, <3>1, MapOps DEF s
    <3> QED BY <3>2
  <2>5. CASE ~ (i >= entries.len)
    <3>1. answer' = [answer EXCEPT ![t] = <<"key", At(entries, i).k>>] /\ n \in DOMAIN s /\ n = i + 1
      BY <2>1, <2>3, <2>5 DEF key_at
    <3>2. At(entries, i).k = s[n][1]
      BY <1>0, <1>1, <3>1 DEF At
    <3>3. Abstract!KeyAt(t, n)
      BY <1>2, <2>1, <3>1, <3>2, MapOps DEF s
    <3> QED BY <3>3
  <2> QED BY <2>4, <2>5
\* the first of an iterator's questions is answered only at the end
<1>12. ASSUME NEW t \in Threads, IterCheck(t)
       PROVE  Abstract!Forget(t) \/ \E n \in 1..Len(s) + 1 : Abstract!KeyAt(t, n)
  <2> DEFINE i == op[t][2]
  <2>1. op[t][1] = "check" /\ entries' = entries
    BY <1>12 DEF IterCheck, Inside
  <2>2. i \in Nat
    BY <2>1, InsideFacts DEF CallOf, DictInv
  <2>3. CASE i >= entries.len
    <3>1. answer' = [answer EXCEPT ![t] = <<"IndexError">>]
      BY <1>12, <2>3 DEF IterCheck, Leave
    <3>2. PICK n \in 1..Len(s) + 1 : n \notin DOMAIN s
      BY <1>9, <2>2, <2>3
    <3>3. Abstract!KeyAt(t, n)
      BY <1>2, <2>1, <3>1, <3>2, MapOps DEF s
    <3> QED BY <3>3
  <2>4. CASE ~ (i >= entries.len)
    <3>1. answer' = [answer EXCEPT ![t] = None]
      BY <1>12, <2>4 DEF IterCheck, Leave
    <3> QED BY <1>2, <2>1, <3>1, MapOps DEF s
  <2> QED BY <2>3, <2>4
<1>13. ASSUME NEW t \in Threads, Done(t) PROVE Abstract!Forget(t)
  <2>1. entries' = entries /\ answer' = [answer EXCEPT ![t] = None]
    BY <1>13 DEF Done
  <2> QED BY <1>2, <2>1, MapOps DEF s
<1>14. ASSUME Del PROVE Abstract!Discard
  <2>1. entries'.len = 0 /\ answer' = answer
    BY <1>14, EmptyFacts DEF Del
  <2>2. Pairs(entries') = <<>>
    BY <2>1 DEF Pairs
  <2> QED BY <2>1, <2>2, MapOps
<1>15. ASSUME NEW t \in Threads, (\E what : Enter(t, what)) \/ IterAgain(t) PROVE UNCHANGED Abstract!vars
  <2>1. entries' = entries /\ answer' = answer
    BY <1>15 DEF Enter, IterAgain
  <2> QED BY <1>2, <2>1, MapOps DEF s
<1>16. ASSUME UNCHANGED vars PROVE UNCHANGED Abstract!vars
  <2>1. entries' = entries /\ answer' = answer
    BY <1>16 DEF vars
  <2> QED BY <1>2, <2>1, MapOps DEF s
\* the disjuncts of the map's next-state relation
<1>17. /\ Abstract!Discard => Abstract!Next
       /\ \A t \in Threads :
            /\ (\E k \in Keys, v \in Vals : Abstract!Put(t, k, v)) => Abstract!Next
            /\ (\E k \in Keys, v \in Vals : Abstract!PutIfMissing(t, k, v)) => Abstract!Next
            /\ (\E k \in Keys : Abstract!RemoveKey(t, k)) => Abstract!Next
            /\ (\E k \in Keys : Abstract!Lookup(t, k)) => Abstract!Next
            /\ (\E k \in Keys : Abstract!HasKey(t, k)) => Abstract!Next
            /\ (\E n \in 1..Len(s) + 1 : Abstract!KeyAt(t, n)) => Abstract!Next
            /\ (\E n \in 1..Len(s) + 1 : Abstract!ValueAt(t, n)) => Abstract!Next
            /\ (Abstract!Size(t) => Abstract!Next) /\ (Abstract!Forget(t) => Abstract!Next)
  BY ONLY Zenon DEF Abstract!Next, s, Pairs
<1> QED
  BY <1>3, <1>4, <1>5, <1>6, <1>7, <1>8, <1>10, <1>11, <1>12, <1>13, <1>14, <1>15, <1>16, <1>17, Zenon DEF Next

\* The dict of the code implements the ordered map.
THEOREM DictImplementsOrderedMap == Spec => ImplementsOrderedMap
<1>1. Init => Abstract!Init
  <2> SUFFICES ASSUME Init PROVE Abstract!Init
    OBVIOUS
  <2>1. entries.len = 0
    BY EmptyFacts DEF Init
  <2>2. Pairs(entries) = <<>>
    BY <2>1 DEF Pairs
  <2> QED BY <2>2 DEF Init, Abstract!Init, Pairs, None
<1> QED BY <1>1, MapStep, DictStructured, PTL DEF Spec, ImplementsOrderedMap, Abstract!Spec
=============================================================================
