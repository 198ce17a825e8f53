---------------------------- MODULE AdminProofs ----------------------------
(***************************************************************************)
(* Theorems about Admin.  Under SerialSpec, that is as long as no goroutine*)
(* records or saves results of probes while a call is under way: a crash   *)
(* at any step of any call leaves a settings.json that can be loaded; what *)
(* a call that returned 200 did is in memory, and after a crash in memory  *)
(* again; the rotator has the configured workers; and each of them is      *)
(* bound to a proxy that is in the pool and in the settings, or to one     *)
(* that a call named without the pool having it.  Under AdminSpec, that is *)
(* whatever overlaps: the types.                                           *)
(***************************************************************************)
EXTENDS Admin, FiniteSetTheorems, WellFoundedInduction, TLAPS

----------------------------------------------------------------------------
(* The operators on slices. *)

\* A non-empty set of naturals has a least element, and Min returns it.
LEMMA MinOfNats ==
    ASSUME NEW S \in SUBSET Nat, S # {}
    PROVE  Min(S) \in S /\ \A x \in S : Min(S) <= x
<1> DEFINE R == OpToRel(<, Nat)
<1>1. \A x, y \in Nat : x < y => <<x, y>> \in R
  BY Zenon DEF OpToRel
<1>2. PICK m \in S : \A y \in S : ~(<<y, m>> \in R)
  BY NatLessThanWellFounded, WFMin, Zenon
<1> HIDE DEF R
<1>3. ASSUME NEW y \in S PROVE m <= y
  <2>1. m \in Nat /\ y \in Nat
    OBVIOUS
  <2>2. ~(y < m)
    BY <1>1, <1>2, <2>1, Zenon
  <2> QED
    BY <2>1, <2>2
<1> QED
  BY <1>3, Zenon DEF Min

\* A part of a finite set is finite; when it has as many elements it is the set.
LEMMA PartOf ==
    ASSUME NEW S, IsFiniteSet(S), NEW T, T \subseteq S
    PROVE  /\ IsFiniteSet(T) /\ Cardinality(T) \in Nat /\ Cardinality(S) \in Nat
           /\ Cardinality(T) <= Cardinality(S)
           /\ Cardinality(T) = Cardinality(S) => T = S
<1>1. T \in SUBSET S
  OBVIOUS
<1>2. /\ IsFiniteSet(T) /\ Cardinality(T) <= Cardinality(S)
      /\ Cardinality(S) = Cardinality(T) => S = T
  BY <1>1, FS_Subset, Zenon
<1>3. Cardinality(T) \in Nat /\ Cardinality(S) \in Nat
  BY <1>2, FS_CardinalityType, Zenon
<1> QED
  BY <1>2, <1>3

\* Positions of a slice are finite in number.
LEMMA PositionsOf ==
    ASSUME NEW n \in Nat, NEW S, \A x \in S : x \in 1..n
    PROVE  /\ IsFiniteSet(S) /\ Cardinality(S) \in 0..n
           /\ IsFiniteSet(1..n) /\ Cardinality(1..n) = n
<1>1. IsFiniteSet(1..n) /\ Cardinality(1..n) = n
  BY FS_Interval
<1>2. IsFiniteSet(S) /\ Cardinality(S) \in Nat /\ Cardinality(S) <= Cardinality(1..n)
  BY <1>1, PartOf, Zenon
<1> QED
  BY <1>1, <1>2

\* The positions up to i of a set of positions.
UpTo(S, i) == {j \in S : j <= i}

\* Counting up to the next position adds it when it is in the set.
LEMMA CountNext ==
    ASSUME NEW S, \A x \in S : x \in Nat, IsFiniteSet(S), NEW i \in Nat
    PROVE  /\ IsFiniteSet(UpTo(S, i)) /\ Cardinality(UpTo(S, i)) \in Nat
           /\ Cardinality(UpTo(S, i + 1)) =
                Cardinality(UpTo(S, i)) + (IF i + 1 \in S THEN 1 ELSE 0)
<1>1. IsFiniteSet(UpTo(S, i)) /\ Cardinality(UpTo(S, i)) \in Nat
  <2>1. UpTo(S, i) \subseteq S
    BY DEF UpTo
  <2> QED
    BY <2>1, PartOf, Zenon
<1>2. CASE i + 1 \in S
  <2>1. UpTo(S, i + 1) = UpTo(S, i) \cup {i + 1} /\ i + 1 \notin UpTo(S, i)
    BY <1>2 DEF UpTo
  <2> QED
    BY <1>1, <1>2, <2>1, FS_AddElement
<1>3. CASE i + 1 \notin S
  <2>1. UpTo(S, i + 1) = UpTo(S, i)
    BY <1>3 DEF UpTo
  <2> QED
    BY <1>1, <1>3, <2>1
<1> QED
  BY <1>2, <1>3

\* The k-th of a finite set of positions is one of them, with k up to it.
LEMMA NthResult ==
    ASSUME NEW n \in Nat, NEW S, \A x \in S : x \in 1..n, NEW k \in 1..Cardinality(S)
    PROVE  Nth(S, k) \in S /\ Cardinality(UpTo(S, Nth(S, k))) = k
<1>1. (\A x \in S : x \in Nat) /\ IsFiniteSet(S) /\ Cardinality(S) \in Nat
  BY PositionsOf
<1> DEFINE T == {i \in Nat : Cardinality(UpTo(S, i)) >= k}
<1>2. UpTo(S, n) = S /\ UpTo(S, 0) = {}
  BY DEF UpTo
<1>3. n \in T /\ 0 \notin T
  BY <1>1, <1>2, FS_EmptySet
<1> DEFINE m == Min(T)
<1>4. m \in T /\ \A x \in T : m <= x
  <2>1. T \in SUBSET Nat /\ T # {}
    BY <1>3
  <2> HIDE DEF T
  <2> QED
    BY <2>1, MinOfNats
<1> HIDE DEF m
<1>5. m \in Nat /\ m - 1 \in Nat /\ m - 1 \notin T
  BY <1>3, <1>4
<1>6. /\ Cardinality(UpTo(S, m - 1)) \in Nat
      /\ Cardinality(UpTo(S, m - 1 + 1)) =
           Cardinality(UpTo(S, m - 1)) + (IF m - 1 + 1 \in S THEN 1 ELSE 0)
  BY <1>1, <1>5, CountNext
<1>7. m - 1 + 1 = m
  BY <1>5
<1>8. m \in S /\ Cardinality(UpTo(S, m)) = k
  BY <1>4, <1>5, <1>6, <1>7
<1> HIDE DEF T
<1>9. \E i \in S : Cardinality({j \in S : j <= i}) = k
  BY <1>8 DEF UpTo
<1> QED
  BY <1>9, Zenon DEF Nth, UpTo

\* The positions are numbered in their order and all of them are.
LEMMA NthOrder ==
    ASSUME NEW n \in Nat, NEW S, \A x \in S : x \in 1..n
    PROVE  /\ \A k, l \in 1..Cardinality(S) : Nth(S, k) = Nth(S, l) => k = l
           /\ \A i \in S : \E k \in 1..Cardinality(S) : Nth(S, k) = i
<1>1. (\A x \in S : x \in Nat) /\ IsFiniteSet(S) /\ Cardinality(S) \in Nat
  BY PositionsOf
<1>2. ASSUME NEW k \in 1..Cardinality(S), NEW l \in 1..Cardinality(S), Nth(S, k) = Nth(S, l)
      PROVE  k = l
  <2>1. Cardinality(UpTo(S, Nth(S, k))) = k /\ Cardinality(UpTo(S, Nth(S, l))) = l
    BY NthResult
  <2> QED
    BY <1>2, <2>1
<1>3. ASSUME NEW i \in S PROVE \E k \in 1..Cardinality(S) : Nth(S, k) = i
  <2> DEFINE U == UpTo(S, i)
             k == Cardinality(U)
  <2>1. U \subseteq S /\ i \in U
    BY <1>1 DEF UpTo
  <2>2. IsFiniteSet(U) /\ k \in Nat /\ k <= Cardinality(S)
    BY <1>1, <2>1, PartOf, Zenon
  <2>10. k # 0
    BY <2>1, <2>2, FS_EmptySet, Zenon
  <2>3. k \in 1..Cardinality(S)
    BY <1>1, <2>2, <2>10
  <2> DEFINE m == Nth(S, k)
             V == UpTo(S, m)
  <2>4. m \in S /\ Cardinality(V) = k
    BY <2>3, NthResult
  <2> HIDE DEF m
  <2>5. m \in Nat /\ i \in Nat
    BY <1>1, <2>4
  <2>6. V \subseteq S /\ m \in V
    BY <1>1, <2>4 DEF UpTo
  <2>7. IsFiniteSet(V)
    BY <1>1, <2>6, PartOf, Zenon
  <2>8. CASE m <= i
    <3>1. V \subseteq U
      <4>1. \A x \in S : x <= m => x <= i
        BY <1>1, <2>5, <2>8
      <4> QED
        BY <4>1 DEF UpTo
    <3>2. U = V
      BY <2>2, <2>4, <3>1, PartOf, Zenon
    <3>3. i <= m
      BY <2>1, <3>2 DEF UpTo
    <3> QED
      BY <2>3, <2>5, <2>8, <3>3 DEF m
  <2>9. CASE i <= m
    <3>1. U \subseteq V
      <4>1. \A x \in S : x <= i => x <= m
        BY <1>1, <2>5, <2>9
      <4> QED
        BY <4>1 DEF UpTo
    <3>2. U = V
      BY <2>4, <2>7, <3>1, PartOf, Zenon
    <3>3. m <= i
      BY <2>6, <3>2 DEF UpTo
    <3> QED
      BY <2>3, <2>5, <2>9, <3>3 DEF m
  <2> QED
    BY <2>5, <2>8, <2>9
<1> QED
  BY <1>2, <1>3

\* Every element that is taken comes from one of the positions, from different
\* ones, and none is left out; there are no more than in the slice.
LEMMA ElementsAtResult ==
    ASSUME NEW T, NEW s \in Seq(T), NEW S, \A i \in S : i \in 1..Len(s)
    PROVE  /\ ElementsAt(s, S) \in Seq(T)
           /\ Len(ElementsAt(s, S)) \in 0..Len(s)
           /\ \A k \in 1..Len(ElementsAt(s, S)) : \E i \in S : ElementsAt(s, S)[k] = s[i]
           /\ \A i \in S : \E k \in 1..Len(ElementsAt(s, S)) : ElementsAt(s, S)[k] = s[i]
           /\ (\A i, j \in 1..Len(s) : s[i] = s[j] => i = j) =>
                \A k, l \in 1..Len(ElementsAt(s, S)) :
                    ElementsAt(s, S)[k] = ElementsAt(s, S)[l] => k = l
<1> DEFINE c == Cardinality(S)
           r == ElementsAt(s, S)
<1>1. Len(s) \in Nat /\ IsFiniteSet(S) /\ c \in 0..Len(s)
  BY PositionsOf
<1>2. r = [k \in 1..c |-> s[Nth(S, k)]]
  BY DEF ElementsAt
<1>3. \A k \in 1..c : Nth(S, k) \in S
  BY <1>1, NthResult
<1>4. \A k, l \in 1..c : Nth(S, k) = Nth(S, l) => k = l
  BY <1>1, NthOrder
<1>5. \A i \in S : \E k \in 1..c : Nth(S, k) = i
  BY <1>1, NthOrder
<1> HIDE DEF r, c
<1>6. r \in Seq(T) /\ Len(r) = c
  <2>1. \A k \in 1..c : s[Nth(S, k)] \in T
    BY <1>3
  <2> QED
    BY <1>1, <1>2, <2>1
<1>7. \A k \in 1..c : r[k] = s[Nth(S, k)]
  BY <1>2
<1> HIDE <1>2
<1>8. \A i \in S : \E k \in 1..c : r[k] = s[i]
  BY <1>5, <1>7
<1>9. \A k \in 1..c : \E i \in S : r[k] = s[i]
  BY <1>3, <1>7
<1>10. (\A i, j \in 1..Len(s) : s[i] = s[j] => i = j) => \A k, l \in 1..c : r[k] = r[l] => k = l
  BY <1>3, <1>4, <1>7
<1> QED
  BY <1>1, <1>6, <1>8, <1>9, <1>10 DEF r

\* Taking all positions takes the slice itself.
LEMMA ElementsAtAll ==
    ASSUME NEW T, NEW s \in Seq(T)
    PROVE  ElementsAt(s, 1..Len(s)) = s
<1>1. Len(s) \in Nat /\ Cardinality(1..Len(s)) = Len(s)
  BY PositionsOf
<1>2. ASSUME NEW k \in 1..Len(s) PROVE Nth(1..Len(s), k) = k
  <2> DEFINE m == Nth(1..Len(s), k)
  <2>1. m \in 1..Len(s) /\ Cardinality(UpTo(1..Len(s), m)) = k
    BY <1>1, NthResult
  <2>2. UpTo(1..Len(s), m) = 1..m
    BY <1>1, <2>1 DEF UpTo
  <2>3. Cardinality(1..m) = m
    BY <1>1, <2>1, FS_Interval
  <2> QED
    BY <2>1, <2>2, <2>3
<1>3. ElementsAt(s, 1..Len(s)) = [k \in 1..Len(s) |-> s[k]]
  BY <1>1, <1>2 DEF ElementsAt
<1> QED
  BY <1>3

\* The first position that passes a test which some position passes.
LEMMA FirstOf ==
    ASSUME NEW T, NEW s \in Seq(T), NEW D
    PROVE  LET i == SelectInSeq(s, LAMBDA x : x \in D)
           IN  /\ i \in 0..Len(s)
               /\ i > 0 => s[i] \in D
               /\ i = 0 => \A j \in 1..Len(s) : s[j] \notin D
<1> DEFINE I == {i \in 1..Len(s) : s[i] \in D}
<1>1. I # {} => Min(I) \in I
  <2>1. I \in SUBSET Nat
    OBVIOUS
  <2> HIDE DEF I
  <2> QED
    BY <2>1, MinOfNats
<1>2. SelectInSeq(s, LAMBDA x : x \in D) = IF I # {} THEN Min(I) ELSE 0
  BY DEF SelectInSeq
<1> QED
  BY <1>1, <1>2

----------------------------------------------------------------------------
(* A slice that has each element of a set once. *)

Lists(s, D) ==
    /\ \A i \in 1..Len(s) : s[i] \in D
    /\ \A d \in D : \E i \in 1..Len(s) : s[i] = d
    /\ \A i, j \in 1..Len(s) : s[i] = s[j] => i = j

\* append of a new id.
LEMMA ListsAppend ==
    ASSUME NEW T, NEW s \in Seq(T), NEW D, Lists(s, D), NEW x \in T, x \notin D
    PROVE  Append(s, x) \in Seq(T) /\ Lists(Append(s, x), D \cup {x})
BY DEF Lists

\* Shifting the elements behind a removed one, then cutting the last.
LEMMA ListsShift ==
    ASSUME NEW T, NEW s \in Seq(T), NEW D, NEW x \in T, x \notin D, Lists(s, D \cup {x}),
           NEW i \in 1..Len(s), s[i] = x
    PROVE  LET r == Append(RemoveAt(s, i), Last(s)) IN
           r \in Seq(T) /\ Len(r) > 0 /\ Lists(Front(r), D)
<1> DEFINE a == SubSeq(s, 1, i - 1)
           b == SubSeq(s, i + 1, Len(s))
           t == a \o b
           r == Append(t, Last(s))
<1>1. Len(s) \in Nat /\ Len(s) > 0 /\ Last(s) \in T
  BY DEF Last
<1>2. a \in Seq(T) /\ Len(a) = i - 1 /\ \A k \in 1..(i - 1) : a[k] = s[k]
  BY <1>1
<1>3. b \in Seq(T) /\ Len(b) = Len(s) - i /\ \A k \in 1..(Len(s) - i) : b[k] = s[k + i]
  BY <1>1
<1> HIDE DEF a, b
<1>4. /\ t \in Seq(T) /\ Len(t) = Len(s) - 1
      /\ \A k \in 1..(Len(s) - 1) : t[k] = IF k < i THEN s[k] ELSE s[k + 1]
  BY <1>1, <1>2, <1>3
<1> HIDE DEF t
<1>5. Lists(t, D)
  <2>1. \A k \in 1..Len(t) : t[k] \in D
    BY <1>1, <1>4 DEF Lists
  <2>2. ASSUME NEW d \in D PROVE \E k \in 1..Len(t) : t[k] = d
    <3>1. PICK m \in 1..Len(s) : s[m] = d
      BY DEF Lists
    <3>2. m # i
      BY <3>1
    <3>3. CASE m < i
      BY <1>1, <1>4, <3>1, <3>3
    <3>4. CASE m > i
      <4>1. m - 1 \in 1..Len(t) /\ ~(m - 1 < i) /\ m - 1 + 1 = m
        BY <1>1, <1>4, <3>4
      <4>2. t[m - 1] = d
        BY <1>4, <3>1, <4>1
      <4> QED
        BY <4>1, <4>2
    <3> QED
      BY <3>2, <3>3, <3>4
  <2>3. ASSUME NEW k \in 1..Len(t), NEW l \in 1..Len(t), t[k] = t[l] PROVE k = l
    <3> DEFINE up_(m) == IF m < i THEN m ELSE m + 1
    <3>1. up_(k) \in 1..Len(s) /\ up_(l) \in 1..Len(s) /\ s[up_(k)] = s[up_(l)]
      BY <1>1, <1>4, <2>3
    <3>2. up_(k) = up_(l)
      BY <3>1 DEF Lists
    <3> QED
      BY <1>1, <1>4, <3>2
  <2> QED
    BY <2>1, <2>2, <2>3 DEF Lists
<1>6. r \in Seq(T) /\ Len(r) = Len(s) /\ \A k \in 1..Len(t) : r[k] = t[k]
  BY <1>1, <1>4
<1> HIDE DEF r
<1>7. Front(r) = t
  BY <1>1, <1>4, <1>6 DEF Front
<1>8. r = Append(RemoveAt(s, i), Last(s))
  BY DEF r, t, a, b, RemoveAt
<1> QED
  BY <1>1, <1>5, <1>6, <1>7, <1>8

\* Filtering into a new slice.
LEMMA ListsKept ==
    ASSUME NEW T, NEW s \in Seq(T), NEW D, Lists(s, D), NEW dead
    PROVE  LET r == Keep(s, LAMBDA id : id \notin dead) IN
           r \in Seq(T) /\ Lists(r, D \ dead)
<1> DEFINE S == {i \in 1..Len(s) : s[i] \notin dead}
           r == ElementsAt(s, S)
<1>1. \A i \in S : i \in 1..Len(s)
  OBVIOUS
<1>2. /\ r \in Seq(T)
      /\ \A k \in 1..Len(r) : \E i \in S : r[k] = s[i]
      /\ \A i \in S : \E k \in 1..Len(r) : r[k] = s[i]
      /\ (\A i, j \in 1..Len(s) : s[i] = s[j] => i = j) =>
           \A k, l \in 1..Len(r) : r[k] = r[l] => k = l
  <2> HIDE DEF S
  <2> QED
    BY <1>1, ElementsAtResult
<1>3. Keep(s, LAMBDA id : id \notin dead) = r
  BY DEF Keep
<1> HIDE DEF r
<1>4. \A k \in 1..Len(r) : r[k] \in D \ dead
  BY <1>2 DEF Lists
<1>5. \A d \in D \ dead : \E k \in 1..Len(r) : r[k] = d
  <2> TAKE d \in D \ dead
  <2>1. PICK i \in S : s[i] = d
    BY DEF Lists
  <2> QED
    BY <1>2, <2>1
<1> QED
  BY <1>2, <1>3, <1>4, <1>5 DEF Lists

\* Such a slice has the elements of the set, as many as there are.
LEMMA ListsCount ==
    ASSUME NEW T, NEW s \in Seq(T), NEW D, Lists(s, D)
    PROVE  Range(s) = D /\ Len(s) = Cardinality(D)
<1>1. Len(s) \in Nat /\ DOMAIN s = 1..Len(s)
  OBVIOUS
<1>2. Range(s) = D
  BY <1>1 DEF Lists, Range
<1>3. s \in Bijection(1..Len(s), D)
  <2>1. s \in [1..Len(s) -> D]
    BY <1>1 DEF Lists
  <2>2. s \in Injection(1..Len(s), D)
    BY <2>1 DEF Lists, Injection, IsInjective
  <2>3. s \in Surjection(1..Len(s), D)
    BY <2>1 DEF Lists, Surjection
  <2> QED
    BY <2>2, <2>3 DEF Bijection
<1>4. ExistsBijection(1..Len(s), D)
  BY <1>3 DEF ExistsBijection
<1> QED
  BY <1>1, <1>2, <1>4, FS_CountingElements

----------------------------------------------------------------------------
(* The files: what is renamed to settings.json is whole. *)

(***************************************************************************)
(* The invariant.  A Save is under way only in a goroutine that waits for  *)
(* it; Serial allows one.  So the temporary file is the one its writer has *)
(* truncated, and what is renamed is what was written.  Of the types only  *)
(* the fields that are updated are needed.                                 *)
(***************************************************************************)
Fields ==
    /\ DOMAIN call = Savers /\ DOMAIN save = Savers
    /\ \A p \in Savers : "pc" \in DOMAIN call[p] /\ {"pc", "fd"} \subseteq DOMAIN save[p]

SavesAreAwaited == \A p \in Savers : save[p].pc # "idle" => call[p].pc = "saving"

WritersOwnTmp ==
    \A p \in Savers :
        /\ save[p].pc = "write" => save[p].fd = "tmp" /\ tmp.kind = "empty"
        /\ save[p].pc = "rename" => tmp.kind = "whole"

FileInv == Serial /\ Fields /\ SavesAreAwaited /\ WritersOwnTmp /\ Loadable

\* With one goroutine busy, no other one has a Save under way.
LEMMA OneSaver ==
    ASSUME FileInv, NEW p \in Savers, call[p].pc = "saving"
    PROVE  \A q \in Savers : q # p => save[q].pc = "idle"
BY DEF FileInv, Serial, Busy, SavesAreAwaited

\* A step of a goroutine that has no Save under way and starts none.
LEMMA NoSaveStep ==
    ASSUME FileInv, NEW p \in Savers, call[p].pc # "saving",
           NEW c, Become(p, c), "pc" \in DOMAIN c,
           UNCHANGED <<file, tmp, save>>, Serial'
    PROVE  FileInv'
<1>1. /\ DOMAIN call' = Savers /\ call'[p] = c
      /\ \A q \in Savers : q # p => call'[q] = call[q]
  BY DEF FileInv, Fields, Become
<1>2. Fields'
  BY <1>1 DEF FileInv, Fields
<1>3. SavesAreAwaited'
  BY <1>1 DEF FileInv, SavesAreAwaited
<1>4. WritersOwnTmp' /\ Loadable'
  BY DEF FileInv, WritersOwnTmp, Loadable
<1> QED
  BY <1>2, <1>3, <1>4 DEF FileInv

\* The step that calls Save: nobody else has one under way.
LEMMA CallSaveStep ==
    ASSUME FileInv, NEW p \in Savers,
           NEW c, Become(p, c), "pc" \in DOMAIN c, c.pc = "saving",
           CallSave(p), UNCHANGED <<file, tmp>>, Serial'
    PROVE  FileInv'
<1>1. /\ DOMAIN call' = Savers /\ call'[p] = c
      /\ \A q \in Savers : q # p => call'[q] = call[q]
  BY DEF FileInv, Fields, Become
<1>2. /\ DOMAIN save' = Savers /\ save'[p] = [IdleSave EXCEPT !.pc = "workers"]
      /\ \A q \in Savers : q # p => save'[q] = save[q]
  BY DEF FileInv, Fields, CallSave
<1>3. save'[p].pc = "workers" /\ {"pc", "fd"} \subseteq DOMAIN save'[p]
  BY <1>2 DEF IdleSave
<1>4. Fields'
  BY <1>1, <1>2, <1>3 DEF FileInv, Fields
<1>5. SavesAreAwaited'
  BY <1>1, <1>2 DEF FileInv, SavesAreAwaited
<1>6. WritersOwnTmp' /\ Loadable'
  BY <1>2, <1>3 DEF FileInv, WritersOwnTmp, Loadable
<1> QED
  BY <1>4, <1>5, <1>6 DEF FileInv

\* Inside a Save: the file is replaced only by the whole one the writer made.
LEMMA InSaveKeepsInv ==
    ASSUME FileInv, NEW p \in Savers, InSave(p), Serial'
    PROVE  FileInv'
<1>1. SaveStep(p) /\ call' = call
  BY DEF InSave
<1>2. /\ DOMAIN save = Savers /\ {"pc", "fd"} \subseteq DOMAIN save[p]
      /\ save[p].pc # "idle" => call[p].pc = "saving"
  BY DEF FileInv, Fields, SavesAreAwaited
<1>3. save[p].pc # "idle"
  BY <1>1, SettingsAssumption
     DEF SaveStep, EncodeWorkers, EncodeProxies, Open, Write, Rename, FailSave
<1>4. \A q \in Savers : q # p => save[q].pc = "idle"
  BY <1>2, <1>3, OneSaver
<1> SUFFICES /\ DOMAIN save' = Savers /\ {"pc", "fd"} \subseteq DOMAIN save'[p]
             /\ \A q \in Savers : q # p => save'[q] = save[q]
             /\ save'[p].pc = "write" => save'[p].fd = "tmp" /\ tmp'.kind = "empty"
             /\ save'[p].pc = "rename" => tmp'.kind = "whole"
             /\ Loadable'
  <2>1. Fields'
    BY <1>1 DEF FileInv, Fields
  <2>2. SavesAreAwaited'
    BY <1>1, <1>2, <1>3 DEF FileInv, SavesAreAwaited
  <2>3. WritersOwnTmp'
    BY <1>4 DEF WritersOwnTmp
  <2> QED
    BY <2>1, <2>2, <2>3 DEF FileInv
<1>5. CASE EncodeWorkers(p)
  BY <1>2, <1>5 DEF EncodeWorkers, FileInv, Loadable
<1>6. CASE EncodeProxies(p)
  BY <1>2, <1>6 DEF EncodeProxies, FileInv, Loadable
<1>7. CASE Open(p)
  <2>1. tmp'.kind = "empty"
    BY <1>7 DEF Open, Blank
  <2> QED
    BY <1>2, <1>7, <2>1 DEF Open, FileInv, Loadable
<1>8. CASE Write(p)
  <2>1. save[p].fd = "tmp" /\ tmp.kind = "empty"
    BY <1>8 DEF Write, FileInv, WritersOwnTmp
  <2>2. tmp' \in {Whole(save[p].data)} /\ UNCHANGED file
    BY <1>8, <2>1 DEF Write, WriteTo, WrittenOver
  <2>3. tmp'.kind = "whole"
    BY <2>2 DEF Whole
  <2>4. save' = [save EXCEPT ![p].pc = "rename", ![p].data = NoSettings, ![p].fd = "tmp"]
    BY <1>8 DEF Write
  <2> QED
    BY <1>2, <2>2, <2>3, <2>4 DEF FileInv, Loadable
<1>9. CASE Rename(p)
  <2>1. file'.kind = "whole"
    BY <1>9 DEF Rename, FileInv, WritersOwnTmp
  <2>2. save' = [q \in Savers |->
                   CASE q = p -> [IdleSave EXCEPT !.pc = "ok"]
                     [] q # p /\ save[q].pc = "write" ->
                          [save[q] EXCEPT !.fd = IF @ = "tmp" THEN "file" ELSE "gone"]
                     [] OTHER -> save[q]]
    BY <1>9 DEF Rename
  <2>3. save'[p] = [IdleSave EXCEPT !.pc = "ok"] /\ DOMAIN save' = Savers
    BY <2>2
  <2>4. \A q \in Savers : q # p => save'[q] = save[q]
    BY <1>4, <2>2
  <2>5. save'[p].pc = "ok" /\ {"pc", "fd"} \subseteq DOMAIN save'[p]
    BY <2>3 DEF IdleSave
  <2> QED
    BY <2>1, <2>3, <2>4, <2>5 DEF Loadable
<1>10. CASE FailSave(p)
  <2>1. UNCHANGED file
    BY <1>10 DEF FailSave, WriteTo, FileInv, WritersOwnTmp
  <2>2. save' = [save EXCEPT ![p] = [IdleSave EXCEPT !.pc = "failed"]]
    BY <1>10 DEF FailSave
  <2>3. save'[p] = [IdleSave EXCEPT !.pc = "failed"]
    BY <1>2, <2>2
  <2>4. save'[p].pc = "failed" /\ {"pc", "fd"} \subseteq DOMAIN save'[p]
    BY <2>3 DEF IdleSave
  <2> QED
    BY <1>2, <2>1, <2>2, <2>4 DEF FileInv, Loadable
<1> QED
  BY <1>1, <1>5, <1>6, <1>7, <1>8, <1>9, <1>10 DEF SaveStep

\* The end of a call.
LEMMA ReturnKeepsInv ==
    ASSUME FileInv, NEW p \in Savers, NEW ok, Return(p, ok), Serial'
    PROVE  FileInv'
<1>1. /\ DOMAIN call' = Savers /\ call'[p] = IdleCall
      /\ \A q \in Savers : q # p => call'[q] = call[q]
  BY DEF FileInv, Fields, Return, Become
<1>2. /\ DOMAIN save' = Savers /\ save'[p] = IdleSave
      /\ \A q \in Savers : q # p => save'[q] = save[q]
  BY DEF FileInv, Fields, Return
<1>3. "pc" \in DOMAIN IdleCall /\ IdleSave.pc = "idle" /\ {"pc", "fd"} \subseteq DOMAIN IdleSave
  BY DEF IdleCall, IdleSave
<1>4. Fields'
  BY <1>1, <1>2, <1>3 DEF FileInv, Fields
<1>5. SavesAreAwaited'
  BY <1>1, <1>2, <1>3 DEF FileInv, SavesAreAwaited
<1>6. WritersOwnTmp' /\ Loadable'
  BY <1>2, <1>3 DEF Return, FileInv, WritersOwnTmp, Loadable
<1> QED
  BY <1>4, <1>5, <1>6 DEF FileInv

\* Copying the pool first, or saving at once.
LEMMA BeginPersistKeepsInv ==
    ASSUME FileInv, NEW p \in Savers, call[p].pc # "saving",
           NEW c, "pc" \in DOMAIN c, BeginPersist(p, c), UNCHANGED <<file, tmp>>, Serial'
    PROVE  FileInv'
<1>1. CASE CopiesPool(c.op)
  BY <1>1, NoSaveStep DEF BeginPersist
<1>2. CASE ~CopiesPool(c.op)
  <2> DEFINE d == [c EXCEPT !.pc = "saving"]
  <2>1. d.pc = "saving" /\ "pc" \in DOMAIN d
    OBVIOUS
  <2>2. Become(p, d) /\ CallSave(p)
    BY <1>2 DEF BeginPersist
  <2> HIDE DEF d
  <2> QED
    BY <2>1, <2>2, CallSaveStep
<1> QED
  BY <1>1, <1>2

\* A new call of the administrator.
LEMMA BeginKeepsInv ==
    ASSUME FileInv, NEW op, NEW c, "pc" \in DOMAIN c, Begin(op, c),
           UNCHANGED <<file, tmp, save>>, Serial'
    PROVE  FileInv'
<1> DEFINE d == [c EXCEPT !.op = op]
<1>1. Editor \in Savers
  BY AdminAssumption
<1>2. Become(Editor, d) /\ call[Editor].pc # "saving"
  BY DEF Begin, At
<1>3. "pc" \in DOMAIN d
  OBVIOUS
<1> HIDE DEF d
<1> QED
  BY <1>1, <1>2, <1>3, NoSaveStep

\* The administrator starts a call.
LEMMA NewEditKeepsInv ==
    ASSUME FileInv, NewEdit, Serial'
    PROVE  FileInv'
<1>1. "pc" \in DOMAIN IdleCall
  BY DEF IdleCall
<1>2. ASSUME NEW batch \in Batches, BeginImport(batch) PROVE FileInv'
  <2> DEFINE c == [IdleCall EXCEPT !.pc = "import", !.hosts = batch]
  <2>1. Begin("import", c) /\ UNCHANGED <<file, tmp, save>>
    BY <1>2 DEF BeginImport, settingsVars
  <2>2. "pc" \in DOMAIN c
    BY <1>1
  <2> HIDE DEF c
  <2> QED
    BY <2>1, <2>2, BeginKeepsInv
<1>3. ASSUME NEW id \in ProxyIds, BeginRemove(id) PROVE FileInv'
  <2> DEFINE c == [IdleCall EXCEPT !.pc = IF id \in DOMAIN items THEN "shift" ELSE "compact",
                                   !.ids = {id}]
  <2>1. Begin("remove", c) /\ UNCHANGED <<file, tmp, save>>
    BY <1>3 DEF BeginRemove, settingsVars
  <2>2. "pc" \in DOMAIN c
    BY <1>1
  <2> HIDE DEF c
  <2> QED
    BY <2>1, <2>2, BeginKeepsInv
<1>4. ASSUME NEW id \in ProxyIds, BeginToggle(id) PROVE FileInv'
  <2> DEFINE c == IF id \in DOMAIN items
                  THEN [IdleCall EXCEPT !.pc = "read", !.target = id,
                                        !.entry = [ZeroEntry EXCEPT !.enabled = ~items[id].enabled]]
                  ELSE [IdleCall EXCEPT !.pc = "snapshot"]
  <2>1. Begin("toggle", c) /\ UNCHANGED <<file, tmp, save>>
    BY <1>4 DEF BeginToggle, settingsVars
  <2>2. "pc" \in DOMAIN c
    BY <1>1
  <2> HIDE DEF c
  <2> QED
    BY <2>1, <2>2, BeginKeepsInv
<1>5. CASE BeginPrune
  <2>1. PICK dead : /\ Begin("prune", [IdleCall EXCEPT !.pc = "compact", !.ids = dead])
                    /\ UNCHANGED <<file, tmp, save>>
    BY <1>5 DEF BeginPrune, settingsVars
  <2> DEFINE c == [IdleCall EXCEPT !.pc = "compact", !.ids = dead]
  <2>2. "pc" \in DOMAIN c
    BY <1>1
  <2>3. Begin("prune", c)
    BY <2>1
  <2> HIDE DEF c
  <2> QED
    BY <2>1, <2>2, <2>3, BeginKeepsInv
<1>6. ASSUME NEW name \in Edited, BeginDelete(name) PROVE FileInv'
  <2> DEFINE c == [IdleCall EXCEPT !.pc = "compact", !.target = name]
  <2>1. Begin("workers", c) /\ UNCHANGED <<file, tmp, save>>
    BY <1>6 DEF BeginDelete, settingsVars
  <2>2. "pc" \in DOMAIN c
    BY <1>1
  <2> HIDE DEF c
  <2> QED
    BY <2>1, <2>2, BeginKeepsInv
<1>7. ASSUME NEW name \in Edited, NEW proxy, EditWorker(name, proxy) PROVE FileInv'
  <2> DEFINE c == [[IdleCall EXCEPT !.pc = "saving"] EXCEPT !.op = "workers"]
  <2>1. Become(Editor, c) /\ CallSave(Editor) /\ UNCHANGED <<file, tmp>>
    BY <1>7 DEF EditWorker, Begin
  <2>2. "pc" \in DOMAIN c /\ c.pc = "saving"
    BY DEF IdleCall
  <2>3. Editor \in Savers
    BY AdminAssumption
  <2> HIDE DEF c
  <2> QED
    BY <2>1, <2>2, <2>3, CallSaveStep
<1> QED
  BY <1>2, <1>3, <1>4, <1>5, <1>6, <1>7 DEF NewEdit

\* The steps of a call of the administrator up to its persistPool.
LEMMA EditorStepKeepsInv ==
    ASSUME FileInv, EditorStep, Serial'
    PROVE  FileInv'
<1>1. Editor \in Savers /\ "pc" \in DOMAIN call[Editor]
  BY AdminAssumption DEF FileInv, Fields
<1>2. ASSUME NEW c, Become(Editor, c), "pc" \in DOMAIN c, call[Editor].pc # "saving",
             UNCHANGED <<file, tmp, save>>
      PROVE  FileInv'
  BY <1>1, <1>2, NoSaveStep
<1>3. ASSUME NEW c, BeginPersist(Editor, c), "pc" \in DOMAIN c, call[Editor].pc # "saving",
             UNCHANGED <<file, tmp>>
      PROVE  FileInv'
  BY <1>1, <1>3, BeginPersistKeepsInv
<1>4. CASE ImportProxy
  <2>1. call[Editor].pc # "saving" /\ UNCHANGED <<file, tmp, save>>
    BY <1>4 DEF ImportProxy, At, settingsVars
  <2>2. PICK c : Become(Editor, c) /\ "pc" \in DOMAIN c
    <3> DEFINE rest == [call[Editor] EXCEPT !.hosts = Tail(@)]
               more(id) == [rest EXCEPT !.ids = @ \cup {id}]
    <3>1. Become(Editor, rest) \/ \E id : Become(Editor, more(id))
      BY <1>4 DEF ImportProxy
    <3>2. "pc" \in DOMAIN rest /\ \A id : "pc" \in DOMAIN more(id)
      BY <1>1
    <3> HIDE DEF rest, more
    <3> QED
      BY <3>1, <3>2
  <2> QED
    BY <1>2, <2>1, <2>2
<1>5. CASE BindWorker
  <2>1. call[Editor].pc # "saving" /\ UNCHANGED <<file, tmp, save>>
    BY <1>5 DEF BindWorker, At
  <2>2. PICK id : Become(Editor, [call[Editor] EXCEPT !.ids = @ \ {id}])
    BY <1>5 DEF BindWorker
  <2> DEFINE c == [call[Editor] EXCEPT !.ids = @ \ {id}]
  <2>3. Become(Editor, c) /\ "pc" \in DOMAIN c
    BY <1>1, <2>2
  <2> HIDE DEF c
  <2> QED
    BY <1>2, <2>1, <2>3
<1>6. CASE EndImport
  BY <1>1, <1>3, <1>6 DEF EndImport, At
<1>7. CASE ShiftOrder \/ ShrinkOrder
  <2>1. call[Editor].pc # "saving" /\ UNCHANGED <<file, tmp, save>>
    BY <1>7 DEF ShiftOrder, ShrinkOrder, At, settingsVars
  <2>2. \E pc : Goto(Editor, pc)
    BY <1>7 DEF ShiftOrder, ShrinkOrder
  <2>3. PICK pc : Become(Editor, [call[Editor] EXCEPT !.pc = pc])
    BY <2>2 DEF Goto
  <2> DEFINE c == [call[Editor] EXCEPT !.pc = pc]
  <2>4. Become(Editor, c) /\ "pc" \in DOMAIN c
    BY <1>1, <2>3
  <2> HIDE DEF c
  <2> QED
    BY <1>2, <2>1, <2>4
<1>8. CASE CompactWorkers
  <2>1. call[Editor].pc # "saving" /\ UNCHANGED <<file, tmp, save>>
    BY <1>8 DEF CompactWorkers, At
  <2>2. PICK n : Become(Editor, [call[Editor] EXCEPT !.pc = "cut", !.kept = n])
    BY <1>8 DEF CompactWorkers
  <2> DEFINE c == [call[Editor] EXCEPT !.pc = "cut", !.kept = n]
  <2>3. Become(Editor, c) /\ "pc" \in DOMAIN c
    BY <1>1, <2>2
  <2> HIDE DEF c
  <2> QED
    BY <1>2, <2>1, <2>3
<1>9. CASE CutWorkers
  <2> DEFINE c == [call[Editor] EXCEPT !.kept = 0, !.ids = {}, !.target = None]
  <2>1. BeginPersist(Editor, c) /\ call[Editor].pc # "saving" /\ UNCHANGED <<file, tmp>>
    BY <1>9 DEF CutWorkers, At
  <2>2. "pc" \in DOMAIN c
    BY <1>1
  <2> HIDE DEF c
  <2> QED
    BY <1>3, <2>1, <2>2
<1>10. CASE ReadItem
  <2>1. call[Editor].pc # "saving" /\ UNCHANGED <<file, tmp, save>>
    BY <1>10 DEF ReadItem, At, settingsVars
  <2>2. PICK entry : Become(Editor, [call[Editor] EXCEPT !.pc = "write", !.entry = entry])
    BY <1>10 DEF ReadItem
  <2> DEFINE c == [call[Editor] EXCEPT !.pc = "write", !.entry = entry]
  <2>3. Become(Editor, c) /\ "pc" \in DOMAIN c
    BY <1>1, <2>2
  <2> HIDE DEF c
  <2> QED
    BY <1>2, <2>1, <2>3
<1>11. CASE WriteItem
  <2> DEFINE c == [call[Editor] EXCEPT !.target = None, !.entry = ZeroEntry]
  <2>1. BeginPersist(Editor, c) /\ call[Editor].pc # "saving" /\ UNCHANGED <<file, tmp>>
    BY <1>11 DEF WriteItem, At
  <2>2. "pc" \in DOMAIN c
    BY <1>1
  <2> HIDE DEF c
  <2> QED
    BY <1>3, <2>1, <2>2
<1> QED
  BY <1>4, <1>5, <1>6, <1>7, <1>8, <1>9, <1>10, <1>11 DEF EditorStep

\* The steps of a goroutine that probes, up to its persistPool.
LEMMA ProbingKeepsInv ==
    ASSUME FileInv, NEW p \in Probers, BeginProbe(p) \/ ProberStep(p), Serial'
    PROVE  FileInv'
<1>1. p \in Savers /\ "pc" \in DOMAIN call[p] /\ "pc" \in DOMAIN IdleCall
  BY AdminAssumption DEF FileInv, Fields, IdleCall
<1>2. ASSUME NEW c, Become(p, c), "pc" \in DOMAIN c, call[p].pc # "saving",
             UNCHANGED <<file, tmp, save>>
      PROVE  FileInv'
  BY <1>1, <1>2, NoSaveStep
<1>3. CASE BeginProbe(p)
  <2>1. call[p].pc # "saving" /\ UNCHANGED <<file, tmp, save>>
    BY <1>3 DEF BeginProbe, At, settingsVars
  <2>2. PICK ids : Become(p, [IdleCall EXCEPT !.pc = "probe", !.op = "probe", !.ids = ids])
    BY <1>3 DEF BeginProbe
  <2> DEFINE c == [IdleCall EXCEPT !.pc = "probe", !.op = "probe", !.ids = ids]
  <2>3. Become(p, c) /\ "pc" \in DOMAIN c
    BY <1>1, <2>2
  <2> HIDE DEF c
  <2> QED
    BY <1>2, <2>1, <2>3
<1>4. ASSUME NEW id, NEW usable, ReadUsable(p, id, usable)
      PROVE  FileInv'
  <2>1. call[p].pc # "saving" /\ UNCHANGED <<file, tmp, save>>
    BY <1>4 DEF ReadUsable, At, settingsVars
  <2> DEFINE c == [call[p] EXCEPT !.pc = "set usable", !.ids = @ \ {id}, !.target = id,
                                  !.entry = [items[id] EXCEPT !.usable = usable]]
             d == [call[p] EXCEPT !.ids = @ \ {id}]
  <2>2. Become(p, c) \/ Become(p, d)
    BY <1>4 DEF ReadUsable
  <2>3. "pc" \in DOMAIN c /\ "pc" \in DOMAIN d
    BY <1>1
  <2> HIDE DEF c, d
  <2> QED
    BY <1>2, <2>1, <2>2, <2>3
<1>5. CASE WriteUsable(p)
  <2> DEFINE c == [call[p] EXCEPT !.pc = "probe", !.target = None, !.entry = ZeroEntry]
  <2>1. Become(p, c) /\ call[p].pc # "saving" /\ UNCHANGED <<file, tmp, save>>
    BY <1>5 DEF WriteUsable, At, settingsVars
  <2>2. "pc" \in DOMAIN c
    BY <1>1
  <2> HIDE DEF c
  <2> QED
    BY <1>2, <2>1, <2>2
<1>6. CASE EndProbe(p)
  BY <1>1, <1>6, BeginPersistKeepsInv DEF EndProbe, At
<1> QED
  BY <1>3, <1>4, <1>5, <1>6 DEF ProberStep

\* Copying the pool, saving, and returning.
LEMMA PersistKeepsInv ==
    ASSUME FileInv, NEW p \in Savers, PersistStep(p), Serial'
    PROVE  FileInv'
<1>1. "pc" \in DOMAIN call[p]
  BY DEF FileInv, Fields
<1>2. CASE Snapshot(p)
  <2>1. call[p].pc # "saving" /\ UNCHANGED <<file, tmp, save>>
    BY <1>2 DEF Snapshot, At, settingsVars
  <2>2. PICK list : Become(p, [call[p] EXCEPT !.pc = "assign", !.list = list])
    BY <1>2 DEF Snapshot
  <2> DEFINE c == [call[p] EXCEPT !.pc = "assign", !.list = list]
  <2>3. Become(p, c) /\ "pc" \in DOMAIN c
    BY <1>1, <2>2
  <2> HIDE DEF c
  <2> QED
    BY <2>1, <2>3, NoSaveStep
<1>3. CASE Assign(p)
  <2> DEFINE c == [call[p] EXCEPT !.pc = "saving", !.list = <<>>]
  <2>1. Become(p, c) /\ CallSave(p) /\ UNCHANGED <<file, tmp>>
    BY <1>3 DEF Assign
  <2>2. "pc" \in DOMAIN c /\ c.pc = "saving"
    BY <1>1
  <2> HIDE DEF c
  <2> QED
    BY <2>1, <2>2, CallSaveStep
<1>4. CASE InSave(p)
  BY <1>4, InSaveKeepsInv
<1>5. CASE Resync(p) \/ ReturnOk(p) \/ ReturnError(p)
  BY <1>5, ReturnKeepsInv DEF Resync, ReturnOk, ReturnError
<1> QED
  BY <1>2, <1>3, <1>4, <1>5 DEF PersistStep

\* The death of the process ends every Save where it is; a restart changes no file.
LEMMA RestartKeepsInv ==
    ASSUME FileInv, Crash \/ Boot, Serial'
    PROVE  FileInv'
<1>1. CASE Crash
  <2>1. /\ DOMAIN call' = Savers /\ DOMAIN save' = Savers
        /\ \A p \in Savers : call'[p] = IdleCall /\ save'[p] = IdleSave
    BY <1>1 DEF Crash
  <2>2. /\ "pc" \in DOMAIN IdleCall /\ {"pc", "fd"} \subseteq DOMAIN IdleSave
        /\ IdleSave.pc = "idle"
    BY DEF IdleCall, IdleSave
  <2>3. Fields' /\ SavesAreAwaited' /\ WritersOwnTmp'
    BY <2>1, <2>2 DEF Fields, SavesAreAwaited, WritersOwnTmp
  <2> QED
    BY <1>1, <2>3 DEF Crash, FileInv, Loadable
<1>2. CASE Boot
  BY <1>2 DEF Boot, FileInv, Fields, SavesAreAwaited, WritersOwnTmp, Loadable
<1> QED
  BY <1>1, <1>2

\* The first start: no settings.json, nothing under way.
LEMMA FileInvInit ==
    AdminInit => FileInv
<1> SUFFICES ASSUME AdminInit PROVE FileInv
  OBVIOUS
<1>1. /\ DOMAIN call = Savers /\ DOMAIN save = Savers
      /\ \A p \in Savers : call[p] = IdleCall /\ save[p] = IdleSave
  BY DEF AdminInit, SettingsInit
<1>2. /\ "pc" \in DOMAIN IdleCall /\ IdleCall.pc = "idle"
      /\ {"pc", "fd"} \subseteq DOMAIN IdleSave /\ IdleSave.pc = "idle"
  BY DEF IdleCall, IdleSave
<1>3. Fields /\ SavesAreAwaited /\ WritersOwnTmp /\ Serial
  BY <1>1, <1>2 DEF Fields, SavesAreAwaited, WritersOwnTmp, Serial, Busy
<1>4. file.kind = "absent"
  BY DEF AdminInit, SettingsInit, Blank
<1> QED
  BY <1>3, <1>4 DEF FileInv, Loadable

\* Every step of the specification.
LEMMA FileInvStep ==
    FileInv /\ [SerialNext]_adminVars => FileInv'
<1> SUFFICES ASSUME FileInv, [SerialNext]_adminVars PROVE FileInv'
  OBVIOUS
<1>1. CASE SerialNext
  <2>1. AdminNext /\ Serial'
    BY <1>1 DEF SerialNext
  <2> QED
    BY <2>1, NewEditKeepsInv, EditorStepKeepsInv, ProbingKeepsInv, PersistKeepsInv,
       RestartKeepsInv DEF AdminNext
<1>2. CASE UNCHANGED adminVars
  BY <1>2 DEF adminVars, settingsVars, FileInv, Serial, Busy, Fields, SavesAreAwaited,
     WritersOwnTmp, Loadable
<1> QED
  BY <1>1, <1>2

\* config.go:137 says that Save is atomic.  It is while saves do not overlap:
\* whichever step fails or is the last one before the process dies, whatever the
\* pool and the workers are, the next start can load settings.json.
THEOREM FileStaysLoadable == SerialSpec => []FileLoadable
<1>1. FileInv => FileLoadable
  BY DEF FileInv, FileLoadable
<1> QED
  BY <1>1, FileInvInit, FileInvStep, PTL DEF SerialSpec

----------------------------------------------------------------------------
(* The calls: where each goroutine may be, and what each action does to it. *)

EditorPcs == {"idle", "import", "shift", "shrink", "compact", "cut", "read", "write",
              "snapshot", "assign", "saving"}
ProberPcs == {"idle", "probe", "set usable", "snapshot", "assign", "saving"}

GoodCall(p, c) ==
    /\ DOMAIN c = DOMAIN IdleCall
    /\ c.pc = "idle" => c = IdleCall
    /\ p # Editor => c.pc \in ProberPcs /\ (c.pc # "idle" => c.op = "probe")
    /\ p = Editor =>
          /\ c.pc \in EditorPcs
          /\ c.pc = "import" => c.op = "import"
          /\ c.pc \in {"shift", "shrink"} => c.op = "remove"
          /\ c.pc \in {"compact", "cut"} => c.op \in {"remove", "prune", "workers"}
          /\ c.pc \in {"read", "write"} => c.op = "toggle"
          /\ c.pc \in {"snapshot", "assign"} => c.op \in {"import", "remove", "prune", "toggle"}
          /\ c.pc = "saving" => c.op \in {"import", "remove", "prune", "toggle", "workers"}

GoodCalls ==
    /\ \A p \in Savers : GoodCall(p, call[p])
    /\ \A p \in Savers : save[p].pc # "idle" <=> call[p].pc = "saving"
    /\ ~up => \A p \in Savers : call[p].pc = "idle"

CallInv == Fields /\ GoodCalls

E == call[Editor]
Others(p) == \A q \in Savers : q # p => call'[q] = call[q]

\* What Become does to the calls of all goroutines.
LEMMA BecomeResult ==
    ASSUME CallInv, NEW p \in Savers, NEW c, Become(p, c)
    PROVE  DOMAIN call' = Savers /\ call'[p] = c /\ Others(p)
BY DEF CallInv, GoodCalls, Fields, Become, Others

\* The administrator's goroutine is one of those that save, and where it is.
LEMMA EditorAt ==
    ASSUME CallInv
    PROVE  Editor \in Savers /\ Editor \notin Probers /\ GoodCall(Editor, E)
BY AdminAssumption DEF CallInv, GoodCalls, E

\* The effect of each action on its goroutine's call and on what it touches.
LEMMA ImportProxyEffect ==
    ASSUME CallInv, ImportProxy
    PROVE  /\ Others(Editor) /\ GoodCall(Editor, E') /\ E'.pc = "import" /\ E.pc = "import"
           /\ \/ E'.ids = E.ids /\ UNCHANGED <<poolVars, issued>>
              \/ \E id \in ProxyIds \ issued :
                    /\ items' = Put(id, [id |-> id, enabled |-> TRUE, usable |-> TRUE])
                    /\ order' = Append(order, id) /\ issued' = issued \cup {id}
                    /\ E'.ids = E.ids \cup {id}
<1>1. E.pc = "import" /\ GoodCall(Editor, E) /\ Editor \in Savers
  BY EditorAt DEF ImportProxy, At, E
<1> DEFINE rest == [E EXCEPT !.hosts = Tail(@)]
           more(id) == [rest EXCEPT !.ids = @ \cup {id}]
<1>2. /\ GoodCall(Editor, rest) /\ rest.pc = "import" /\ rest.ids = E.ids
      /\ \A id : /\ GoodCall(Editor, more(id)) /\ more(id).pc = "import"
                 /\ more(id).ids = E.ids \cup {id}
  BY <1>1 DEF GoodCall, IdleCall
<1>3. \/ Become(Editor, rest) /\ UNCHANGED <<poolVars, issued>>
      \/ \E id \in ProxyIds \ issued :
            /\ items' = Put(id, [id |-> id, enabled |-> TRUE, usable |-> TRUE])
            /\ order' = Append(order, id)
            /\ issued' = issued \cup {id}
            /\ Become(Editor, more(id))
  BY DEF ImportProxy, E, FreshIds
<1> HIDE DEF rest, more
<1>4. CASE Become(Editor, rest) /\ UNCHANGED <<poolVars, issued>>
  <2>1. Others(Editor) /\ E' = rest
    BY <1>1, <1>4, BecomeResult DEF E
  <2> QED
    BY <1>1, <1>2, <1>4, <2>1
<1>5. ASSUME NEW id \in ProxyIds \ issued,
             items' = Put(id, [id |-> id, enabled |-> TRUE, usable |-> TRUE]),
             order' = Append(order, id), issued' = issued \cup {id}, Become(Editor, more(id))
      PROVE  /\ Others(Editor) /\ GoodCall(Editor, E') /\ E'.pc = "import"
             /\ E'.ids = E.ids \cup {id}
  <2>1. Others(Editor) /\ E' = more(id)
    BY <1>1, <1>5, BecomeResult DEF E
  <2> QED
    BY <1>2, <2>1
<1> QED
  BY <1>1, <1>3, <1>4, <1>5

\* The worker is bound to the first entry of the order that has none yet.
LEMMA BindWorkerEffect ==
    ASSUME CallInv, BindWorker
    PROVE  /\ Others(Editor) /\ GoodCall(Editor, E') /\ E'.pc = "import" /\ E.pc = "import"
           /\ E.ids # {}
           /\ LET id == order[SelectInSeq(order, LAMBDA o : o \in E.ids)]
              IN  /\ E'.ids = E.ids \ {id}
                  /\ \E name \in Names :
                        cfg' = [cfg EXCEPT !.workers = Append(@, [id |-> name, proxy |-> id])]
<1>1. E.pc = "import" /\ GoodCall(Editor, E) /\ Editor \in Savers
  BY EditorAt DEF BindWorker, At, E
<1> DEFINE id == order[SelectInSeq(order, LAMBDA o : o \in E.ids)]
           c == [E EXCEPT !.ids = @ \ {id}]
<1>2. /\ Become(Editor, c) /\ E.ids # {}
      /\ \E name \in Names :
            cfg' = [cfg EXCEPT !.workers = Append(@, [id |-> name, proxy |-> id])]
  BY DEF BindWorker, E
<1> HIDE DEF id
<1>3. GoodCall(Editor, c) /\ c.pc = "import" /\ c.ids = E.ids \ {id}
  BY <1>1 DEF GoodCall, IdleCall
<1> HIDE DEF c
<1>4. Others(Editor) /\ E' = c
  BY <1>1, <1>2, BecomeResult DEF E
<1> QED
  BY <1>1, <1>2, <1>3, <1>4 DEF id

\* Either the pool is copied first or Save is called at once.
LEMMA BeginPersistEffect ==
    ASSUME CallInv, NEW p \in Savers, NEW c, GoodCall(p, c),
           c.op \in {"import", "remove", "prune", "toggle", "workers", "probe"},
           c.op = "probe" <=> p # Editor,
           BeginPersist(p, c)
    PROVE  /\ Others(p) /\ GoodCall(p, call'[p]) /\ call'[p].op = c.op
           /\ call'[p].ids = c.ids
           /\ c.op = "workers" => call'[p].pc = "saving" /\ CallSave(p)
           /\ c.op # "workers" => call'[p].pc = "snapshot" /\ UNCHANGED save
<1> DEFINE d == [c EXCEPT !.pc = "snapshot"]
           e == [c EXCEPT !.pc = "saving"]
<1>1. DOMAIN c = DOMAIN IdleCall
  BY DEF GoodCall
<1>2. /\ d.pc = "snapshot" /\ d.op = c.op /\ d.ids = c.ids /\ DOMAIN d = DOMAIN IdleCall
      /\ e.pc = "saving" /\ e.op = c.op /\ e.ids = c.ids /\ DOMAIN e = DOMAIN IdleCall
  BY <1>1 DEF IdleCall
<1> HIDE DEF d, e
<1>3. /\ c.op # "workers" => GoodCall(p, d)
      /\ GoodCall(p, e)
  BY <1>2 DEF GoodCall, ProberPcs, EditorPcs
<1>4. /\ c.op # "workers" => Become(p, d) /\ UNCHANGED save
      /\ c.op = "workers" => Become(p, e) /\ CallSave(p)
  BY DEF BeginPersist, CopiesPool, d, e
<1> QED
  BY <1>2, <1>3, <1>4, BecomeResult

\* An import always copies the pool.
LEMMA EndImportEffect ==
    ASSUME CallInv, EndImport
    PROVE  /\ Others(Editor) /\ GoodCall(Editor, E') /\ E'.pc = "snapshot" /\ E.pc = "import"
           /\ E'.op = "import" /\ E.ids = {} /\ UNCHANGED save
<1>1. E.pc = "import" /\ GoodCall(Editor, E) /\ Editor \in Savers /\ E.op = "import" /\ E.ids = {}
  BY EditorAt DEF EndImport, At, E, GoodCall
<1>2. BeginPersist(Editor, E)
  BY DEF EndImport, E
<1> QED
  BY <1>1, <1>2, BeginPersistEffect DEF E

\* What all calls of the administrator begin with.
LEMMA BeginEffect ==
    ASSUME CallInv, NEW c, NEW op, Begin(op, c)
    PROVE  /\ Others(Editor) /\ E' = [c EXCEPT !.op = op] /\ E.pc = "idle" /\ up
           /\ acked' = Unknown
<1>1. Editor \in Savers
  BY AdminAssumption
<1> QED
  BY <1>1, BecomeResult DEF Begin, At, E

\* Nothing has been imported yet.
LEMMA BeginImportEffect ==
    ASSUME CallInv, NEW batch, BeginImport(batch)
    PROVE  /\ Others(Editor) /\ GoodCall(Editor, E') /\ E'.pc = "import" /\ E.pc = "idle"
           /\ E'.ids = {} /\ acked' = Unknown
<1> DEFINE c == [IdleCall EXCEPT !.pc = "import", !.hosts = batch]
           d == [c EXCEPT !.op = "import"]
<1>1. GoodCall(Editor, d) /\ d.pc = "import" /\ d.ids = {}
  BY AdminAssumption DEF GoodCall, IdleCall, EditorPcs
<1>2. Begin("import", c)
  BY DEF BeginImport
<1> HIDE DEF c
<1>3. Others(Editor) /\ E' = d /\ E.pc = "idle" /\ acked' = Unknown
  BY <1>2, BeginEffect
<1> HIDE DEF d
<1> QED
  BY <1>1, <1>3

\* An id that is not in the pool leaves only its workers to remove.
LEMMA BeginRemoveEffect ==
    ASSUME CallInv, NEW id \in ProxyIds, BeginRemove(id)
    PROVE  /\ Others(Editor) /\ GoodCall(Editor, E') /\ E.pc = "idle" /\ E'.op = "remove"
           /\ E'.pc = (IF id \in DOMAIN items THEN "shift" ELSE "compact")
           /\ E'.ids = {id} /\ acked' = Unknown
<1> DEFINE c == [IdleCall EXCEPT !.pc = IF id \in DOMAIN items THEN "shift" ELSE "compact",
                                 !.ids = {id}]
           d == [c EXCEPT !.op = "remove"]
<1>1. /\ GoodCall(Editor, d) /\ d.op = "remove" /\ d.ids = {id}
      /\ d.pc = (IF id \in DOMAIN items THEN "shift" ELSE "compact")
  BY AdminAssumption DEF GoodCall, IdleCall, EditorPcs
<1>2. Begin("remove", c)
  BY DEF BeginRemove
<1> HIDE DEF c
<1>3. Others(Editor) /\ E' = d /\ E.pc = "idle" /\ acked' = Unknown
  BY <1>2, BeginEffect
<1> HIDE DEF d
<1> QED
  BY <1>1, <1>3

\* The two outcomes of the search for the removed id.
LEMMA ShiftOrderEffect ==
    ASSUME CallInv, ShiftOrder
    PROVE  LET i == SelectInSeq(order, LAMBDA o : o \in E.ids) IN
           /\ Others(Editor) /\ GoodCall(Editor, E') /\ E.pc = "shift" /\ E'.op = "remove"
           /\ E'.ids = E.ids
           /\ i = 0 => E'.pc = "compact" /\ UNCHANGED order
           /\ i # 0 => E'.pc = "shrink" /\ order' = Append(RemoveAt(order, i), Last(order))
<1>1. E.pc = "shift" /\ GoodCall(Editor, E) /\ Editor \in Savers /\ E.op = "remove"
  BY EditorAt DEF ShiftOrder, At, E, GoodCall
<1> DEFINE i == SelectInSeq(order, LAMBDA o : o \in E.ids)
           c(pc) == [E EXCEPT !.pc = pc]
<1>2. \A pc \in {"compact", "shrink"} :
         GoodCall(Editor, c(pc)) /\ c(pc).pc = pc /\ c(pc).op = "remove" /\ c(pc).ids = E.ids
  BY <1>1 DEF GoodCall, IdleCall, EditorPcs
<1>3. /\ i = 0 => Become(Editor, c("compact")) /\ UNCHANGED order
      /\ i # 0 => Become(Editor, c("shrink")) /\ order' = Append(RemoveAt(order, i), Last(order))
  BY DEF ShiftOrder, Goto, E
<1> HIDE DEF i, c
<1>4. CASE i = 0
  <2>1. Others(Editor) /\ E' = c("compact")
    BY <1>1, <1>3, <1>4, BecomeResult DEF E
  <2> QED
    BY <1>1, <1>2, <1>3, <1>4, <2>1 DEF i
<1>5. CASE i # 0
  <2>1. Others(Editor) /\ E' = c("shrink")
    BY <1>1, <1>3, <1>5, BecomeResult DEF E
  <2> QED
    BY <1>1, <1>2, <1>3, <1>5, <2>1 DEF i
<1> QED
  BY <1>4, <1>5

\* The order has its new length; the workers come next.
LEMMA ShrinkOrderEffect ==
    ASSUME CallInv, ShrinkOrder
    PROVE  /\ Others(Editor) /\ GoodCall(Editor, E') /\ E'.pc = "compact" /\ E.pc = "shrink"
           /\ E'.op = "remove" /\ E'.ids = E.ids
<1>1. E.pc = "shrink" /\ GoodCall(Editor, E) /\ Editor \in Savers /\ E.op = "remove"
  BY EditorAt DEF ShrinkOrder, At, E, GoodCall
<1> DEFINE c == [E EXCEPT !.pc = "compact"]
<1>2. GoodCall(Editor, c) /\ c.pc = "compact" /\ c.op = "remove" /\ c.ids = E.ids
  BY <1>1 DEF GoodCall, IdleCall, EditorPcs
<1>3. Become(Editor, c)
  BY DEF ShrinkOrder, Goto, E
<1> HIDE DEF c
<1>4. Others(Editor) /\ E' = c
  BY <1>1, <1>3, BecomeResult DEF E
<1> QED
  BY <1>1, <1>2, <1>4

\* The ids the call removes are those of the dead entries.
LEMMA BeginPruneEffect ==
    ASSUME CallInv, BeginPrune
    PROVE  LET dead == {id \in Range(order) : Dead(id)} IN
           /\ Others(Editor) /\ GoodCall(Editor, E') /\ E'.pc = "compact" /\ E.pc = "idle"
           /\ E'.op = "prune" /\ E'.ids = dead /\ acked' = Unknown
<1> DEFINE dead == {id \in Range(order) : Dead(id)}
           c == [IdleCall EXCEPT !.pc = "compact", !.ids = dead]
           d == [c EXCEPT !.op = "prune"]
<1>1. Begin("prune", c)
  BY DEF BeginPrune
<1> HIDE DEF dead
<1>2. GoodCall(Editor, d) /\ d.pc = "compact" /\ d.op = "prune" /\ d.ids = dead
  BY AdminAssumption DEF GoodCall, IdleCall, EditorPcs
<1> HIDE DEF c
<1>3. Others(Editor) /\ E' = d /\ E.pc = "idle" /\ acked' = Unknown
  BY <1>1, BeginEffect
<1> HIDE DEF d
<1> QED
  BY <1>2, <1>3 DEF dead

\* The kept workers come first; the old tail is still visible.
LEMMA CompactWorkersEffect ==
    ASSUME CallInv, CompactWorkers
    PROVE  LET kept == Keep(cfg.workers, LAMBDA w : ~Unwanted(w, E)) IN
           /\ Others(Editor) /\ GoodCall(Editor, E') /\ E'.pc = "cut" /\ E.pc = "compact"
           /\ E'.op = E.op /\ E'.ids = E.ids /\ E'.kept = Len(kept)
           /\ cfg' = [cfg EXCEPT !.workers = kept \o SubSeq(@, Len(kept) + 1, Len(@))]
<1>1. E.pc = "compact" /\ GoodCall(Editor, E) /\ Editor \in Savers
  BY EditorAt DEF CompactWorkers, At, E
<1> DEFINE kept == Keep(cfg.workers, LAMBDA w : ~Unwanted(w, E))
           c == [E EXCEPT !.pc = "cut", !.kept = Len(kept)]
<1>2. /\ Become(Editor, c)
      /\ cfg' = [cfg EXCEPT !.workers = kept \o SubSeq(@, Len(kept) + 1, Len(@))]
  BY DEF CompactWorkers, E
<1> HIDE DEF kept
<1>3. GoodCall(Editor, c) /\ c.pc = "cut" /\ c.op = E.op /\ c.ids = E.ids /\ c.kept = Len(kept)
  BY <1>1 DEF GoodCall, IdleCall, EditorPcs
<1> HIDE DEF c
<1>4. Others(Editor) /\ E' = c
  BY <1>1, <1>2, BecomeResult DEF E
<1> QED
  BY <1>1, <1>2, <1>3, <1>4 DEF kept

\* The old tail is gone; only a change of the workers saves at once.
LEMMA CutWorkersEffect ==
    ASSUME CallInv, CutWorkers
    PROVE  /\ Others(Editor) /\ GoodCall(Editor, E') /\ E.pc = "cut"
           /\ E'.op = E.op /\ E'.ids = {}
           /\ cfg' = [cfg EXCEPT !.workers = SubSeq(@, 1, E.kept)]
           /\ E.op = "workers" => E'.pc = "saving" /\ CallSave(Editor)
           /\ E.op # "workers" => E'.pc = "snapshot" /\ UNCHANGED save
<1>1. E.pc = "cut" /\ GoodCall(Editor, E) /\ Editor \in Savers
  BY EditorAt DEF CutWorkers, At, E
<1> DEFINE c == [E EXCEPT !.kept = 0, !.ids = {}, !.target = None]
<1>2. /\ BeginPersist(Editor, c)
      /\ cfg' = [cfg EXCEPT !.workers = SubSeq(@, 1, E.kept)]
  BY DEF CutWorkers, E
<1>3. GoodCall(Editor, c) /\ c.op = E.op /\ c.ids = {} /\ c.op \in {"remove", "prune", "workers"}
  BY <1>1 DEF GoodCall, IdleCall, EditorPcs
<1> HIDE DEF c
<1> QED
  BY <1>1, <1>2, <1>3, BeginPersistEffect DEF E

\* The call knows the new value before it reads the entry again; for an id the
\* pool does not have it only saves.
LEMMA BeginToggleEffect ==
    ASSUME CallInv, NEW id, BeginToggle(id)
    PROVE  /\ Others(Editor) /\ GoodCall(Editor, E') /\ E.pc = "idle"
           /\ E'.op = "toggle" /\ acked' = Unknown
           /\ \/ /\ E'.pc = "read" /\ E'.target = id /\ id \in DOMAIN items
                 /\ E'.entry.enabled \in BOOLEAN
              \/ E'.pc = "snapshot"
<1>1. ASSUME NEW c, Begin("toggle", c)
      PROVE  Others(Editor) /\ E' = [c EXCEPT !.op = "toggle"] /\ E.pc = "idle" /\ acked' = Unknown
  BY <1>1, BeginEffect
<1>2. CASE id \in DOMAIN items
  <2> DEFINE e == [ZeroEntry EXCEPT !.enabled = ~items[id].enabled]
             c == [IdleCall EXCEPT !.pc = "read", !.target = id, !.entry = e]
             d == [c EXCEPT !.op = "toggle"]
  <2>1. e.enabled \in BOOLEAN
    BY DEF ZeroEntry
  <2>2. Begin("toggle", c)
    BY <1>2 DEF BeginToggle
  <2> HIDE DEF e
  <2>3. GoodCall(Editor, d) /\ d.pc = "read" /\ d.op = "toggle" /\ d.target = id /\ d.entry = e
    BY AdminAssumption DEF GoodCall, IdleCall, EditorPcs
  <2> HIDE DEF c
  <2>4. Others(Editor) /\ E' = d /\ E.pc = "idle" /\ acked' = Unknown
    BY <1>1, <2>2
  <2> HIDE DEF d
  <2> QED
    BY <1>2, <2>1, <2>3, <2>4
<1>3. CASE id \notin DOMAIN items
  <2> DEFINE c == [IdleCall EXCEPT !.pc = "snapshot"]
             d == [c EXCEPT !.op = "toggle"]
  <2>1. Begin("toggle", c)
    BY <1>3 DEF BeginToggle
  <2>2. GoodCall(Editor, d) /\ d.pc = "snapshot" /\ d.op = "toggle"
    BY AdminAssumption DEF GoodCall, IdleCall, EditorPcs
  <2> HIDE DEF c
  <2>3. Others(Editor) /\ E' = d /\ E.pc = "idle" /\ acked' = Unknown
    BY <1>1, <2>1
  <2> HIDE DEF d
  <2> QED
    BY <2>2, <2>3
<1> QED
  BY <1>2, <1>3

\* The entry is read whole, and written back whole later.
LEMMA ReadItemEffect ==
    ASSUME CallInv, ReadItem
    PROVE  /\ Others(Editor) /\ GoodCall(Editor, E') /\ E'.pc = "write" /\ E.pc = "read"
           /\ E'.target = E.target
           /\ E'.entry = [items[E.target] EXCEPT !.enabled = E.entry.enabled]
<1>1. E.pc = "read" /\ GoodCall(Editor, E) /\ Editor \in Savers
  BY EditorAt DEF ReadItem, At, E
<1> DEFINE e == [items[E.target] EXCEPT !.enabled = E.entry.enabled]
           c == [E EXCEPT !.pc = "write", !.entry = e]
<1>2. Become(Editor, c)
  BY DEF ReadItem, E
<1> HIDE DEF e
<1>3. GoodCall(Editor, c) /\ c.pc = "write" /\ c.target = E.target /\ c.entry = e
  BY <1>1 DEF GoodCall, IdleCall, EditorPcs
<1> HIDE DEF c
<1>4. Others(Editor) /\ E' = c
  BY <1>1, <1>2, BecomeResult DEF E
<1> QED
  BY <1>1, <1>3, <1>4 DEF e

\* The entry read before is stored.
LEMMA WriteItemEffect ==
    ASSUME CallInv, WriteItem
    PROVE  /\ Others(Editor) /\ GoodCall(Editor, E') /\ E'.pc = "snapshot" /\ E.pc = "write"
           /\ E'.op = "toggle" /\ items' = Put(E.target, E.entry) /\ UNCHANGED save
<1>1. E.pc = "write" /\ GoodCall(Editor, E) /\ Editor \in Savers /\ E.op = "toggle"
  BY EditorAt DEF WriteItem, At, E, GoodCall
<1> DEFINE c == [E EXCEPT !.target = None, !.entry = ZeroEntry]
<1>2. BeginPersist(Editor, c) /\ items' = Put(E.target, E.entry)
  BY DEF WriteItem, E
<1>3. GoodCall(Editor, c) /\ c.op = "toggle"
  BY <1>1 DEF GoodCall, IdleCall, EditorPcs
<1> HIDE DEF c
<1> QED
  BY <1>1, <1>2, <1>3, BeginPersistEffect DEF E

\* Deleting a worker removes no entry.
LEMMA BeginDeleteEffect ==
    ASSUME CallInv, NEW name, BeginDelete(name)
    PROVE  /\ Others(Editor) /\ GoodCall(Editor, E') /\ E'.pc = "compact" /\ E.pc = "idle"
           /\ E'.op = "workers" /\ E'.ids = {} /\ acked' = Unknown
<1> DEFINE c == [IdleCall EXCEPT !.pc = "compact", !.target = name]
           d == [c EXCEPT !.op = "workers"]
<1>1. Begin("workers", c)
  BY DEF BeginDelete
<1>2. GoodCall(Editor, d) /\ d.pc = "compact" /\ d.op = "workers" /\ d.ids = {}
  BY AdminAssumption DEF GoodCall, IdleCall, EditorPcs
<1> HIDE DEF c
<1>3. Others(Editor) /\ E' = d /\ E.pc = "idle" /\ acked' = Unknown
  BY <1>1, BeginEffect
<1> HIDE DEF d
<1> QED
  BY <1>2, <1>3

\* Editing a worker is followed by Save at once.
LEMMA EditWorkerEffect ==
    ASSUME CallInv, NEW name, NEW proxy, EditWorker(name, proxy)
    PROVE  /\ Others(Editor) /\ GoodCall(Editor, E') /\ E'.pc = "saving" /\ E.pc = "idle"
           /\ E'.op = "workers" /\ E'.ids = {} /\ acked' = Unknown
<1> DEFINE c == [IdleCall EXCEPT !.pc = "saving"]
           d == [c EXCEPT !.op = "workers"]
<1>1. Begin("workers", c)
  BY DEF EditWorker
<1>2. GoodCall(Editor, d) /\ d.pc = "saving" /\ d.op = "workers" /\ d.ids = {}
  BY AdminAssumption DEF GoodCall, IdleCall, EditorPcs
<1> HIDE DEF c
<1>3. Others(Editor) /\ E' = d /\ E.pc = "idle" /\ acked' = Unknown
  BY <1>1, BeginEffect
<1> HIDE DEF d
<1> QED
  BY <1>2, <1>3

\* A prober starts to wait for answers.
LEMMA BeginProbeEffect ==
    ASSUME CallInv, NEW p \in Probers, BeginProbe(p)
    PROVE  Others(p) /\ GoodCall(p, call'[p]) /\ call'[p].pc = "probe" /\ call[p].pc = "idle"
<1>1. p \in Savers /\ p # Editor /\ call[p].pc = "idle"
  BY AdminAssumption DEF BeginProbe, At
<1> DEFINE ids == {id \in Range(order) : ItemAt(id).enabled}
           c == [IdleCall EXCEPT !.pc = "probe", !.op = "probe", !.ids = ids]
<1>2. Become(p, c)
  BY DEF BeginProbe
<1> HIDE DEF ids
<1>3. GoodCall(p, c) /\ c.pc = "probe"
  BY <1>1 DEF GoodCall, IdleCall, ProberPcs
<1> HIDE DEF c
<1> QED
  BY <1>1, <1>2, <1>3, BecomeResult

WithUsable(e, usable) == [e EXCEPT !.usable = usable]

\* An answer for an entry that is gone is dropped.
LEMMA ReadUsableEffect ==
    ASSUME CallInv, NEW p \in Probers, NEW id, NEW usable \in BOOLEAN,
           ReadUsable(p, id, usable)
    PROVE  /\ Others(p) /\ GoodCall(p, call'[p]) /\ call[p].pc = "probe"
           /\ \/ call'[p].pc = "probe"
              \/ /\ call'[p].pc = "set usable" /\ call'[p].target = id /\ id \in DOMAIN items
                 /\ call'[p].entry = WithUsable(items[id], usable)
<1>1. p \in Savers /\ p # Editor /\ call[p].pc = "probe" /\ GoodCall(p, call[p])
  BY AdminAssumption DEF ReadUsable, At, CallInv, GoodCalls
<1> DEFINE e == [items[id] EXCEPT !.usable = usable]
           c == [call[p] EXCEPT !.pc = "set usable", !.ids = @ \ {id}, !.target = id, !.entry = e]
           d == [call[p] EXCEPT !.ids = @ \ {id}]
<1>2. (Become(p, c) /\ id \in DOMAIN items) \/ Become(p, d)
  BY DEF ReadUsable
<1> HIDE DEF e
<1>3. /\ GoodCall(p, c) /\ c.pc = "set usable" /\ c.target = id /\ c.entry = e
      /\ GoodCall(p, d) /\ d.pc = "probe"
  BY <1>1 DEF GoodCall, IdleCall, ProberPcs
<1> HIDE DEF c, d
<1> QED
  BY <1>1, <1>2, <1>3, BecomeResult DEF e, WithUsable

\* The entry read before is stored.
LEMMA WriteUsableEffect ==
    ASSUME CallInv, NEW p \in Probers, WriteUsable(p)
    PROVE  /\ Others(p) /\ GoodCall(p, call'[p]) /\ call[p].pc = "set usable"
           /\ call'[p].pc = "probe" /\ items' = Put(call[p].target, call[p].entry)
<1>1. p \in Savers /\ p # Editor /\ call[p].pc = "set usable" /\ GoodCall(p, call[p])
  BY AdminAssumption DEF WriteUsable, At, CallInv, GoodCalls
<1> DEFINE c == [call[p] EXCEPT !.pc = "probe", !.target = None, !.entry = ZeroEntry]
<1>2. Become(p, c) /\ items' = Put(call[p].target, call[p].entry)
  BY DEF WriteUsable
<1>3. GoodCall(p, c) /\ c.pc = "probe"
  BY <1>1 DEF GoodCall, IdleCall, ProberPcs
<1> HIDE DEF c
<1> QED
  BY <1>1, <1>2, <1>3, BecomeResult

\* All answers are in: the pool is copied.
LEMMA EndProbeEffect ==
    ASSUME CallInv, NEW p \in Probers, EndProbe(p)
    PROVE  /\ Others(p) /\ GoodCall(p, call'[p]) /\ call[p].pc = "probe"
           /\ call'[p].pc = "snapshot" /\ UNCHANGED save
<1>1. /\ p \in Savers /\ p # Editor /\ call[p].pc = "probe" /\ GoodCall(p, call[p])
      /\ call[p].op = "probe"
  BY AdminAssumption DEF EndProbe, At, CallInv, GoodCalls, GoodCall
<1> QED
  BY <1>1, BeginPersistEffect DEF EndProbe

\* The list is a copy of the pool.
LEMMA SnapshotEffect ==
    ASSUME CallInv, NEW p \in Savers, Snapshot(p)
    PROVE  /\ Others(p) /\ GoodCall(p, call'[p]) /\ call[p].pc = "snapshot"
           /\ call'[p].pc = "assign" /\ call'[p].op = call[p].op
           /\ call'[p].list = [i \in 1..Len(order) |-> ItemAt(order[i])]
<1>1. call[p].pc = "snapshot" /\ GoodCall(p, call[p])
  BY DEF Snapshot, At, CallInv, GoodCalls
<1> DEFINE l == [i \in 1..Len(order) |-> ItemAt(order[i])]
           c == [call[p] EXCEPT !.pc = "assign", !.list = l]
<1>2. Become(p, c)
  BY DEF Snapshot
<1> HIDE DEF l
<1>3. GoodCall(p, c) /\ c.pc = "assign" /\ c.op = call[p].op /\ c.list = l
  BY <1>1 DEF GoodCall, IdleCall, EditorPcs, ProberPcs
<1> HIDE DEF c
<1> QED
  BY <1>1, <1>2, <1>3, BecomeResult DEF l

\* The list becomes part of the settings and Save is called.
LEMMA AssignEffect ==
    ASSUME CallInv, NEW p \in Savers, Assign(p)
    PROVE  /\ Others(p) /\ GoodCall(p, call'[p]) /\ call[p].pc = "assign"
           /\ call'[p].pc = "saving" /\ call'[p].op = call[p].op
<1>1. call[p].pc = "assign" /\ GoodCall(p, call[p])
  BY DEF Assign, At, CallInv, GoodCalls
<1> DEFINE c == [call[p] EXCEPT !.pc = "saving", !.list = <<>>]
<1>2. Become(p, c)
  BY DEF Assign
<1>3. GoodCall(p, c) /\ c.pc = "saving" /\ c.op = call[p].op
  BY <1>1 DEF GoodCall, IdleCall, EditorPcs, ProberPcs
<1> HIDE DEF c
<1> QED
  BY <1>1, <1>2, <1>3, BecomeResult

\* The goroutine is idle, and so is its Save.
LEMMA ReturnEffect ==
    ASSUME CallInv, NEW p \in Savers, NEW ok, Return(p, ok)
    PROVE  /\ Others(p) /\ GoodCall(p, call'[p]) /\ call'[p] = IdleCall /\ call'[p].pc = "idle"
           /\ save'[p] = IdleSave /\ \A q \in Savers : q # p => save'[q] = save[q]
<1>1. Others(p) /\ call'[p] = IdleCall
  BY BecomeResult DEF Return
<1>2. GoodCall(p, IdleCall) /\ IdleCall.pc = "idle"
  BY DEF GoodCall, IdleCall, EditorPcs, ProberPcs
<1>3. save'[p] = IdleSave /\ \A q \in Savers : q # p => save'[q] = save[q]
  BY DEF CallInv, GoodCalls, Fields, Return
<1> QED
  BY <1>1, <1>2, <1>3

\* Inside a Save, while no other goroutine is in one.
LEMMA InSaveEffect ==
    ASSUME FileInv, NEW p \in Savers, InSave(p)
    PROVE  /\ call' = call /\ call[p].pc = "saving" /\ cfg' = cfg /\ up
           /\ \A q \in Savers : q # p => save'[q] = save[q] /\ save[q].pc = "idle"
           /\ save[p].pc # "idle" /\ save'[p].pc # "idle"
           /\ \/ /\ save[p].pc = "workers" /\ UNCHANGED <<file, tmp>>
                 /\ save'[p] = [save[p] EXCEPT !.pc = "proxies", !.data.workers = cfg.workers]
              \/ /\ save[p].pc = "proxies" /\ UNCHANGED <<file, tmp>>
                 /\ save'[p] = [save[p] EXCEPT !.pc = "open", !.data.proxies = cfg.proxies]
              \/ /\ save[p].pc = "open" /\ UNCHANGED file /\ tmp' = Blank("empty")
                 /\ save'[p] = [save[p] EXCEPT !.pc = "write", !.fd = "tmp"]
              \/ /\ save[p].pc = "write" /\ UNCHANGED file /\ tmp' = Whole(save[p].data)
                 /\ save'[p] = [save[p] EXCEPT !.pc = "rename", !.data = NoSettings, !.fd = "tmp"]
              \/ /\ save[p].pc = "rename" /\ file' = tmp /\ tmp' = Blank("absent")
                 /\ save'[p] = [IdleSave EXCEPT !.pc = "ok"]
              \/ /\ UNCHANGED file /\ tmp' \in {tmp, Blank("torn")}
                 /\ save'[p] = [IdleSave EXCEPT !.pc = "failed"]
<1>1. SaveStep(p) /\ call' = call /\ up
  BY DEF InSave
<1>2. /\ DOMAIN save = Savers /\ {"pc", "fd"} \subseteq DOMAIN save[p]
      /\ save[p].pc # "idle" => call[p].pc = "saving"
  BY DEF FileInv, Fields, SavesAreAwaited
<1>3. save[p].pc # "idle"
  BY <1>1, SettingsAssumption
     DEF SaveStep, EncodeWorkers, EncodeProxies, Open, Write, Rename, FailSave
<1>4. \A q \in Savers : q # p => save[q].pc = "idle"
  BY <1>2, <1>3, OneSaver
<1>5. CASE EncodeWorkers(p)
  BY <1>1, <1>2, <1>3, <1>4, <1>5 DEF EncodeWorkers
<1>6. CASE EncodeProxies(p)
  BY <1>1, <1>2, <1>3, <1>4, <1>6 DEF EncodeProxies
<1>7. CASE Open(p)
  BY <1>1, <1>2, <1>3, <1>4, <1>7 DEF Open
<1>8. CASE Write(p)
  <2>1. save[p].pc = "write" /\ save[p].fd = "tmp" /\ tmp.kind = "empty"
    BY <1>8 DEF Write, FileInv, WritersOwnTmp
  <2>2. tmp' \in {Whole(save[p].data)} /\ UNCHANGED file
    BY <1>8, <2>1 DEF Write, WriteTo, WrittenOver
  <2>3. save' = [save EXCEPT ![p].pc = "rename", ![p].data = NoSettings, ![p].fd = "tmp"]
    BY <1>8 DEF Write
  <2>4. /\ save'[p] = [save[p] EXCEPT !.pc = "rename", !.data = NoSettings, !.fd = "tmp"]
        /\ \A q \in Savers : q # p => save'[q] = save[q]
    BY <1>2, <2>3
  <2>5. save'[p].pc # "idle" /\ cfg' = cfg
    BY <1>2, <1>8, <2>4 DEF Write
  <2> QED
    BY <1>1, <1>2, <1>3, <1>4, <2>1, <2>2, <2>4, <2>5
<1>9. CASE Rename(p)
  <2>1. save' = [q \in Savers |->
                   CASE q = p -> [IdleSave EXCEPT !.pc = "ok"]
                     [] q # p /\ save[q].pc = "write" ->
                          [save[q] EXCEPT !.fd = IF @ = "tmp" THEN "file" ELSE "gone"]
                     [] OTHER -> save[q]]
    BY <1>9 DEF Rename
  <2>2. save'[p] = [IdleSave EXCEPT !.pc = "ok"]
    BY <2>1
  <2>3. \A q \in Savers : q # p => save'[q] = save[q]
    BY <1>4, <2>1
  <2>4. save'[p].pc = "ok"
    BY <2>2 DEF IdleSave
  <2> QED
    BY <1>1, <1>2, <1>3, <1>4, <1>9, <2>2, <2>3, <2>4 DEF Rename
<1>10. CASE FailSave(p)
  <2>1. UNCHANGED file /\ tmp' \in {tmp, Blank("torn")} /\ cfg' = cfg
    BY <1>10 DEF FailSave, WriteTo, FileInv, WritersOwnTmp
  <2>2. save' = [save EXCEPT ![p] = [IdleSave EXCEPT !.pc = "failed"]]
    BY <1>10 DEF FailSave
  <2>3. /\ save'[p] = [IdleSave EXCEPT !.pc = "failed"]
        /\ \A q \in Savers : q # p => save'[q] = save[q]
    BY <1>2, <2>2
  <2>4. save'[p].pc = "failed"
    BY <2>3 DEF IdleSave
  <2> QED
    BY <1>1, <1>2, <1>3, <1>4, <2>1, <2>3, <2>4
<1> QED
  BY <1>1, <1>5, <1>6, <1>7, <1>8, <1>9, <1>10 DEF SaveStep

\* Inside a Save, whoever else is in one: who is in one stays in it.
LEMMA InSavePcs ==
    ASSUME CallInv, NEW p \in Savers, InSave(p)
    PROVE  /\ call' = call /\ cfg' = cfg /\ up /\ up' = up
           /\ \A q \in Savers : save'[q].pc # "idle" <=> save[q].pc # "idle"
<1>1. SaveStep(p) /\ call' = call /\ up /\ up' = up
  BY DEF InSave
<1>2. DOMAIN save = Savers /\ \A q \in Savers : {"pc", "fd"} \subseteq DOMAIN save[q]
  BY DEF CallInv, Fields
<1>3. [IdleSave EXCEPT !.pc = "ok"].pc = "ok" /\ [IdleSave EXCEPT !.pc = "failed"].pc = "failed"
  BY DEF IdleSave
<1>4. cfg' = cfg
  BY <1>1 DEF SaveStep, EncodeWorkers, EncodeProxies, Open, Write, Rename, FailSave
<1> SUFFICES \A q \in Savers : save'[q].pc # "idle" <=> save[q].pc # "idle"
  BY <1>1, <1>4
<1>5. ASSUME NEW new, save' = [save EXCEPT ![p] = new], save[p].pc # "idle", new.pc # "idle"
      PROVE  \A q \in Savers : save'[q].pc # "idle" <=> save[q].pc # "idle"
  BY <1>2, <1>5
<1>6. CASE EncodeWorkers(p)
  <2> DEFINE new == [save[p] EXCEPT !.pc = "proxies", !.data.workers = cfg.workers]
  <2>1. save' = [save EXCEPT ![p] = new] /\ save[p].pc # "idle"
    BY <1>2, <1>6 DEF EncodeWorkers
  <2>2. new.pc = "proxies"
    BY <1>2
  <2> HIDE DEF new
  <2> QED
    BY <1>5, <2>1, <2>2
<1>7. CASE EncodeProxies(p)
  <2> DEFINE new == [save[p] EXCEPT !.pc = "open", !.data.proxies = cfg.proxies]
  <2>1. save' = [save EXCEPT ![p] = new] /\ save[p].pc # "idle"
    BY <1>2, <1>7 DEF EncodeProxies
  <2>2. new.pc = "open"
    BY <1>2
  <2> HIDE DEF new
  <2> QED
    BY <1>5, <2>1, <2>2
<1>8. CASE Open(p)
  <2> DEFINE new == [save[p] EXCEPT !.pc = "write", !.fd = "tmp"]
  <2>1. save' = [save EXCEPT ![p] = new] /\ save[p].pc # "idle"
    BY <1>2, <1>8 DEF Open
  <2>2. new.pc = "write"
    BY <1>2
  <2> HIDE DEF new
  <2> QED
    BY <1>5, <2>1, <2>2
<1>9. CASE Write(p)
  <2> DEFINE new == [save[p] EXCEPT !.pc = "rename", !.data = NoSettings, !.fd = "tmp"]
  <2>1. save' = [save EXCEPT ![p] = new] /\ save[p].pc # "idle"
    BY <1>2, <1>9 DEF Write
  <2>2. new.pc = "rename"
    BY <1>2
  <2> HIDE DEF new
  <2> QED
    BY <1>5, <2>1, <2>2
<1>10. CASE Rename(p)
  <2>1. \A q \in Savers :
           save'[q] = CASE q = p -> [IdleSave EXCEPT !.pc = "ok"]
                        [] q # p /\ save[q].pc = "write" ->
                             [save[q] EXCEPT !.fd = IF @ = "tmp" THEN "file" ELSE "gone"]
                        [] OTHER -> save[q]
    BY <1>10 DEF Rename
  <2>2. save'[p].pc = "ok" /\ save[p].pc # "idle"
    BY <1>3, <1>10, <2>1 DEF Rename
  <2>3. ASSUME NEW q \in Savers, q # p, save[q].pc = "write" PROVE save'[q].pc = "write"
    BY <1>2, <2>1, <2>3
  <2>4. ASSUME NEW q \in Savers, q # p, save[q].pc # "write" PROVE save'[q] = save[q]
    BY <2>1, <2>4
  <2> SUFFICES ASSUME NEW q \in Savers PROVE save'[q].pc # "idle" <=> save[q].pc # "idle"
    OBVIOUS
  <2>5. CASE q = p
    BY <2>2, <2>5
  <2>6. CASE q # p /\ save[q].pc = "write"
    BY <2>3, <2>6
  <2>7. CASE q # p /\ save[q].pc # "write"
    BY <2>4, <2>7
  <2> QED
    BY <2>5, <2>6, <2>7
<1>11. CASE FailSave(p)
  <2> DEFINE new == [IdleSave EXCEPT !.pc = "failed"]
  <2>1. save' = [save EXCEPT ![p] = new] /\ save[p].pc # "idle"
    BY <1>11, SettingsAssumption DEF FailSave
  <2>2. new.pc = "failed"
    BY <1>3
  <2> HIDE DEF new
  <2> QED
    BY <1>5, <2>1, <2>2
<1> QED
  BY <1>1, <1>6, <1>7, <1>8, <1>9, <1>10, <1>11 DEF SaveStep

\* Calling Save concerns the caller only.
LEMMA CallSaveEffect ==
    ASSUME CallInv, NEW p \in Savers, CallSave(p)
    PROVE  /\ save'[p] = [IdleSave EXCEPT !.pc = "workers"] /\ save'[p].pc = "workers"
           /\ \A q \in Savers : q # p => save'[q] = save[q]
<1>1. /\ save'[p] = [IdleSave EXCEPT !.pc = "workers"]
      /\ \A q \in Savers : q # p => save'[q] = save[q]
  BY DEF CallInv, Fields, CallSave
<1> QED
  BY <1>1 DEF IdleSave

\* A step of one goroutine that agrees with its Save keeps CallInv.
LEMMA CallKept ==
    ASSUME CallInv, NEW p \in Savers, Others(p), GoodCall(p, call'[p]),
           save'[p].pc # "idle" <=> call'[p].pc = "saving",
           \A q \in Savers : q # p => save'[q] = save[q], up'
    PROVE  GoodCalls'
<1>1. \A q \in Savers : GoodCall(q, call'[q])
  BY DEF CallInv, GoodCalls, Others
<1>2. \A q \in Savers : save'[q].pc # "idle" <=> call'[q].pc = "saving"
  BY DEF CallInv, GoodCalls, Others
<1> QED
  BY <1>1, <1>2 DEF CallInv, GoodCalls, GoodCall

\* The administrator begins a call.
LEMMA CallInvNewEdit ==
    ASSUME CallInv, NewEdit
    PROVE  GoodCalls'
<1>1. Editor \in Savers
  BY AdminAssumption
<1>2. save[Editor].pc # "idle" <=> E.pc = "saving"
  BY <1>1 DEF CallInv, GoodCalls, E
<1>3. ASSUME UNCHANGED <<save, up>>, Others(Editor), GoodCall(Editor, E'),
             E.pc = "idle", E'.pc # "saving", up
      PROVE  GoodCalls'
  BY <1>1, <1>2, <1>3, CallKept DEF E
<1>4. ASSUME NEW batch, BeginImport(batch) PROVE GoodCalls'
  BY <1>3, <1>4, BeginImportEffect DEF BeginImport, settingsVars, Begin, At
<1>5. ASSUME NEW id \in ProxyIds, BeginRemove(id) PROVE GoodCalls'
  BY <1>3, <1>5, BeginRemoveEffect DEF BeginRemove, settingsVars, Begin, At
<1>6. ASSUME NEW id, BeginToggle(id) PROVE GoodCalls'
  BY <1>3, <1>6, BeginToggleEffect DEF BeginToggle, settingsVars, Begin, At
<1>7. CASE BeginPrune
  BY <1>3, <1>7, BeginPruneEffect DEF BeginPrune, settingsVars, Begin, At
<1>8. ASSUME NEW name, BeginDelete(name) PROVE GoodCalls'
  BY <1>3, <1>8, BeginDeleteEffect DEF BeginDelete, settingsVars, Begin, At
<1>9. ASSUME NEW name, NEW proxy, EditWorker(name, proxy) PROVE GoodCalls'
  <2>1. CallSave(Editor) /\ up /\ up' = up
    BY <1>9 DEF EditWorker, Begin, At
  <2> QED
    BY <1>1, <1>9, <2>1, EditWorkerEffect, CallSaveEffect, CallKept DEF E
<1> QED
  BY <1>4, <1>5, <1>6, <1>7, <1>8, <1>9 DEF NewEdit

\* The administrator's call goes on.
LEMMA CallInvEditor ==
    ASSUME CallInv, EditorStep
    PROVE  GoodCalls'
<1>1. Editor \in Savers
  BY AdminAssumption
<1>2. save[Editor].pc # "idle" <=> E.pc = "saving"
  BY <1>1 DEF CallInv, GoodCalls, E
<1>3. up /\ up' = up
  BY DEF EditorStep, ImportProxy, BindWorker, EndImport, ShiftOrder, ShrinkOrder,
         CompactWorkers, CutWorkers, ReadItem, WriteItem, At
<1>4. ASSUME UNCHANGED save, Others(Editor), GoodCall(Editor, E'),
             E.pc # "saving", E'.pc # "saving"
      PROVE  GoodCalls'
  BY <1>1, <1>2, <1>3, <1>4, CallKept DEF E
<1>5. CASE ImportProxy
  BY <1>4, <1>5, ImportProxyEffect DEF ImportProxy, settingsVars
<1>6. CASE BindWorker
  BY <1>4, <1>6, BindWorkerEffect DEF BindWorker
<1>7. CASE EndImport
  BY <1>4, <1>7, EndImportEffect
<1>8. CASE ShiftOrder
  BY <1>4, <1>8, ShiftOrderEffect DEF ShiftOrder, settingsVars
<1>9. CASE ShrinkOrder
  BY <1>4, <1>9, ShrinkOrderEffect DEF ShrinkOrder, settingsVars
<1>10. CASE CompactWorkers
  BY <1>4, <1>10, CompactWorkersEffect DEF CompactWorkers
<1>11. CASE CutWorkers
  <2>1. CASE E.op = "workers"
    <3>1. CallSave(Editor) /\ E'.pc = "saving" /\ Others(Editor) /\ GoodCall(Editor, E')
      BY <1>11, <2>1, CutWorkersEffect
    <3> QED
      BY <1>1, <1>3, <3>1, CallSaveEffect, CallKept DEF E
  <2>2. CASE E.op # "workers"
    BY <1>4, <1>11, <2>2, CutWorkersEffect
  <2> QED
    BY <2>1, <2>2
<1>12. CASE ReadItem
  BY <1>4, <1>12, ReadItemEffect DEF ReadItem, settingsVars
<1>13. CASE WriteItem
  BY <1>4, <1>13, WriteItemEffect
<1> QED
  BY <1>5, <1>6, <1>7, <1>8, <1>9, <1>10, <1>11, <1>12, <1>13 DEF EditorStep

\* A probe goes on.
LEMMA CallInvProber ==
    ASSUME CallInv, NEW p \in Probers, BeginProbe(p) \/ ProberStep(p)
    PROVE  GoodCalls'
<1>1. p \in Savers
  BY AdminAssumption
<1>2. save[p].pc # "idle" <=> call[p].pc = "saving"
  BY <1>1 DEF CallInv, GoodCalls
<1>3. up /\ up' = up /\ UNCHANGED save
  <2>1. CASE EndProbe(p)
    BY <2>1, EndProbeEffect DEF EndProbe, At
  <2> QED
    BY <2>1 DEF BeginProbe, ProberStep, ReadUsable, WriteUsable, At, settingsVars
<1>4. ASSUME Others(p), GoodCall(p, call'[p]), call[p].pc # "saving", call'[p].pc # "saving"
      PROVE  GoodCalls'
  BY <1>1, <1>2, <1>3, <1>4, CallKept
<1>5. CASE BeginProbe(p)
  BY <1>4, <1>5, BeginProbeEffect
<1>6. ASSUME NEW id, NEW usable \in BOOLEAN, ReadUsable(p, id, usable) PROVE GoodCalls'
  BY <1>4, <1>6, ReadUsableEffect
<1>7. CASE WriteUsable(p)
  BY <1>4, <1>7, WriteUsableEffect
<1>8. CASE EndProbe(p)
  BY <1>4, <1>8, EndProbeEffect
<1> QED
  BY <1>5, <1>6, <1>7, <1>8 DEF ProberStep

\* A goroutine copies, saves or returns.
LEMMA CallInvPersist ==
    ASSUME CallInv, NEW p \in Savers, PersistStep(p)
    PROVE  GoodCalls'
<1>1. save[p].pc # "idle" <=> call[p].pc = "saving"
  BY DEF CallInv, GoodCalls
<1>2. up /\ up' = up
  BY DEF PersistStep, Snapshot, Assign, InSave, Resync, ReturnOk, ReturnError, Return, At
<1>3. CASE Snapshot(p)
  <2>1. UNCHANGED save
    BY <1>3 DEF Snapshot, settingsVars
  <2> QED
    BY <1>1, <1>2, <1>3, <2>1, SnapshotEffect, CallKept
<1>4. CASE Assign(p)
  <2>1. CallSave(p)
    BY <1>4 DEF Assign
  <2> QED
    BY <1>2, <1>4, <2>1, AssignEffect, CallSaveEffect, CallKept
<1>5. CASE InSave(p)
  <2>1. GoodCall(p, call[p])
    BY DEF CallInv, GoodCalls
  <2> QED
    BY <1>1, <1>2, <1>5, <2>1, InSavePcs DEF CallInv, GoodCalls, GoodCall
<1>6. ASSUME NEW ok, Return(p, ok) PROVE GoodCalls'
  <2>1. save'[p].pc = "idle"
    BY <1>6, ReturnEffect DEF IdleSave
  <2> QED
    BY <1>2, <1>6, <2>1, ReturnEffect, CallKept
<1> QED
  BY <1>3, <1>4, <1>5, <1>6 DEF PersistStep, Resync, ReturnOk, ReturnError

\* An idle goroutine satisfies GoodCall.
LEMMA IdleIsGood ==
    ASSUME NEW p
    PROVE  GoodCall(p, IdleCall) /\ IdleCall.pc = "idle" /\ IdleSave.pc = "idle"
BY DEF GoodCall, IdleCall, IdleSave, EditorPcs, ProberPcs

\* At the start all goroutines are idle.
LEMMA CallInvInit ==
    AdminInit => CallInv
<1> SUFFICES ASSUME AdminInit PROVE CallInv
  OBVIOUS
<1>1. /\ DOMAIN call = Savers /\ DOMAIN save = Savers
      /\ \A p \in Savers : call[p] = IdleCall /\ save[p] = IdleSave
  BY DEF AdminInit, SettingsInit
<1>2. GoodCalls
  BY <1>1, IdleIsGood DEF GoodCalls
<1>3. Fields
  BY <1>1 DEF Fields, IdleCall, IdleSave
<1> QED
  BY <1>2, <1>3 DEF CallInv

\* No step changes which fields the calls and the Saves have.
LEMMA FieldsStep ==
    ASSUME CallInv, [AdminNext]_adminVars, GoodCalls'
    PROVE  Fields'
<1>1. \A p \in Savers : "pc" \in DOMAIN call'[p]
  BY DEF GoodCalls, GoodCall, IdleCall
<1>2. DOMAIN call' = Savers
  BY DEF CallInv, Fields, AdminNext, NewEdit, BeginImport, BeginRemove, BeginToggle, BeginPrune,
         BeginDelete, EditWorker, Begin, EditorStep, ImportProxy, BindWorker, EndImport,
         ShiftOrder, ShrinkOrder, CompactWorkers, CutWorkers, ReadItem, WriteItem, BeginProbe,
         ProberStep, ReadUsable, WriteUsable, EndProbe, PersistStep, Snapshot, Assign, InSave,
         Resync, ReturnOk, ReturnError, Return, BeginPersist, Become, Goto, Crash, Boot, history,
         adminVars
<1>3. \/ UNCHANGED save
      \/ \E p \in Savers : CallSave(p) \/ SaveStep(p) \/ save' = [save EXCEPT ![p] = IdleSave]
      \/ save' = [p \in Savers |-> IdleSave]
  BY AdminAssumption
     DEF AdminNext, NewEdit, BeginImport, BeginRemove, BeginToggle, BeginPrune,
         BeginDelete, EditWorker, EditorStep, ImportProxy, BindWorker, EndImport,
         ShiftOrder, ShrinkOrder, CompactWorkers, CutWorkers, ReadItem, WriteItem, BeginProbe,
         ProberStep, ReadUsable, WriteUsable, EndProbe, PersistStep, Snapshot, Assign, InSave,
         Resync, ReturnOk, ReturnError, Return, BeginPersist, Crash, Boot, settingsVars, adminVars
<1> DEFINE Known(f) == DOMAIN f = Savers /\ \A p \in Savers : {"pc", "fd"} \subseteq DOMAIN f[p]
<1>4. Known(save) /\ {"pc", "fd"} \subseteq DOMAIN IdleSave
  BY DEF CallInv, Fields, IdleSave
<1>5. ASSUME NEW p \in Savers, SaveStep(p) PROVE Known(save')
  BY <1>4, <1>5 DEF SaveStep, EncodeWorkers, EncodeProxies, Open, Write, Rename, FailSave
<1>6. Known(save')
  BY <1>3, <1>4, <1>5 DEF CallSave
<1> QED
  BY <1>1, <1>2, <1>6 DEF Fields

\* Every step, whatever overlaps with it, keeps CallInv.
LEMMA CallInvStep ==
    CallInv /\ [AdminNext]_adminVars => CallInv'
<1> SUFFICES ASSUME CallInv, [AdminNext]_adminVars PROVE CallInv'
  OBVIOUS
<1>1. CASE Crash
  <2>1. \A p \in Savers : call'[p] = IdleCall /\ save'[p] = IdleSave
    BY <1>1 DEF Crash
  <2> QED
    BY <2>1, IdleIsGood, FieldsStep DEF CallInv, GoodCalls
<1>2. CASE Boot
  BY <1>2, FieldsStep DEF Boot, CallInv, GoodCalls, GoodCall
<1>3. CASE UNCHANGED adminVars
  BY <1>3, FieldsStep DEF adminVars, settingsVars, CallInv, GoodCalls, GoodCall
<1> QED
  BY <1>1, <1>2, <1>3, CallInvNewEdit, CallInvEditor, CallInvProber, CallInvPersist, FieldsStep
     DEF AdminNext, CallInv

----------------------------------------------------------------------------
(* The rotator: it lags behind only inside a call that will resync. *)

RotInv == up /\ ~failed => rot = cfg.workers \/ Resyncs(E.op)

\* Beginning a call: only EditWorker changes the workers, and it resyncs.
LEMMA RotNewEdit ==
    ASSUME FileInv, CallInv, RotInv, NewEdit
    PROVE  RotInv'
<1>1. E.op = None /\ ~Resyncs(E.op)
  <2>1. E.pc = "idle"
    BY DEF NewEdit, BeginImport, BeginRemove, BeginToggle, BeginPrune, BeginDelete, EditWorker,
           Begin, At, E
  <2> QED
    BY <2>1, EditorAt DEF GoodCall, IdleCall, None, Resyncs
<1>2. UNCHANGED <<rot, failed, up>>
  BY DEF NewEdit, BeginImport, BeginRemove, BeginToggle, BeginPrune, BeginDelete, EditWorker
<1>3. CASE UNCHANGED cfg
  BY <1>1, <1>2, <1>3 DEF RotInv
<1>4. ASSUME NEW name, NEW proxy, EditWorker(name, proxy) PROVE RotInv'
  BY <1>4, EditWorkerEffect DEF RotInv, Resyncs
<1> QED
  BY <1>3, <1>4 DEF NewEdit, BeginImport, BeginRemove, BeginToggle, BeginPrune, BeginDelete,
                    settingsVars

\* The calls that change the workers are those that resync.
LEMMA RotEditor ==
    ASSUME FileInv, CallInv, RotInv, EditorStep
    PROVE  RotInv'
<1>1. UNCHANGED <<rot, failed, up>>
  BY DEF EditorStep, ImportProxy, BindWorker, EndImport, ShiftOrder, ShrinkOrder,
         CompactWorkers, CutWorkers, ReadItem, WriteItem, history
<1>2. GoodCall(Editor, E)
  BY EditorAt
<1>3. ASSUME Resyncs(E'.op) PROVE RotInv'
  BY <1>3 DEF RotInv
<1>4. CASE ImportProxy
  BY <1>3, <1>4, ImportProxyEffect DEF GoodCall, Resyncs
<1>5. CASE BindWorker
  BY <1>3, <1>5, BindWorkerEffect DEF GoodCall, Resyncs
<1>6. CASE EndImport
  BY <1>3, <1>6, EndImportEffect DEF Resyncs
<1>7. CASE ShiftOrder
  BY <1>3, <1>7, ShiftOrderEffect DEF Resyncs
<1>8. CASE ShrinkOrder
  BY <1>3, <1>8, ShrinkOrderEffect DEF Resyncs
<1>9. CASE CompactWorkers
  BY <1>2, <1>3, <1>9, CompactWorkersEffect DEF GoodCall, Resyncs
<1>10. CASE CutWorkers
  BY <1>2, <1>3, <1>10, CutWorkersEffect DEF GoodCall, Resyncs
<1>11. CASE ReadItem
  BY <1>1, <1>2, <1>11, ReadItemEffect DEF GoodCall, ReadItem, settingsVars, RotInv, Resyncs
<1>12. CASE WriteItem
  BY <1>1, <1>2, <1>12, WriteItemEffect DEF GoodCall, WriteItem, settingsVars, RotInv, Resyncs
<1> QED
  BY <1>4, <1>5, <1>6, <1>7, <1>8, <1>9, <1>10, <1>11, <1>12 DEF EditorStep

\* A probe does not touch the workers.
LEMMA RotProber ==
    ASSUME FileInv, CallInv, RotInv, NEW p \in Probers, BeginProbe(p) \/ ProberStep(p)
    PROVE  RotInv'
<1>1. UNCHANGED <<cfg, rot, failed, up>>
  BY DEF BeginProbe, ProberStep, ReadUsable, WriteUsable, EndProbe, settingsVars, history
<1>2. Others(p)
  BY BeginProbeEffect, ReadUsableEffect, WriteUsableEffect, EndProbeEffect DEF ProberStep
<1>3. E' = E
  BY <1>2, AdminAssumption DEF Others, E
<1> QED
  BY <1>1, <1>3 DEF RotInv

\* Only Resync installs the workers; a failed save is remembered.
LEMMA RotPersist ==
    ASSUME FileInv, CallInv, RotInv, NEW p \in Savers, PersistStep(p)
    PROVE  RotInv'
<1>1. CASE Snapshot(p)
  <2>1. E'.op = E.op
    BY <1>1, SnapshotEffect, AdminAssumption DEF Others, E
  <2> QED
    BY <1>1, <2>1 DEF Snapshot, RotInv, settingsVars, history
<1>2. CASE Assign(p)
  <2>1. E'.op = E.op
    BY <1>2, AssignEffect, AdminAssumption DEF Others, E
  <2>2. UNCHANGED <<rot, failed, up>> /\ cfg' = [cfg EXCEPT !.proxies = call[p].list]
    BY <1>2 DEF Assign, history
  <2>3. cfg'.workers = cfg.workers
    BY <2>2
  <2> QED
    BY <2>1, <2>2, <2>3 DEF RotInv
<1>3. CASE InSave(p)
  <2>1. UNCHANGED <<cfg, rot, failed, up, call>>
    BY <1>3, InSaveEffect DEF InSave, history
  <2> QED
    BY <2>1 DEF RotInv, E
<1>4. CASE Resync(p)
  BY <1>4 DEF Resync, Return, RotInv
<1>5. CASE ReturnOk(p)
  <2>1. /\ UNCHANGED <<cfg, rot, failed, up>> /\ Others(p) /\ ~Resyncs(call[p].op)
    BY <1>5, ReturnEffect DEF ReturnOk, Return
  <2>2. CASE p = Editor
    BY <2>1, <2>2 DEF RotInv, E
  <2>3. CASE p # Editor
    BY <2>1, <2>3, AdminAssumption DEF RotInv, E, Others
  <2> QED
    BY <2>2, <2>3
<1>6. CASE ReturnError(p)
  <2>1. /\ UNCHANGED <<cfg, rot, up>> /\ Others(p) /\ failed' = (failed \/ p = Editor)
    BY <1>6, ReturnEffect DEF ReturnError, Return
  <2>2. CASE p = Editor
    BY <2>1, <2>2 DEF RotInv
  <2>3. CASE p # Editor
    BY <2>1, <2>3, AdminAssumption DEF RotInv, E, Others
  <2> QED
    BY <2>2, <2>3
<1> QED
  BY <1>1, <1>2, <1>3, <1>4, <1>5, <1>6 DEF PersistStep

\* Every step of the specification keeps RotInv.
LEMMA RotInvStep ==
    FileInv /\ CallInv /\ RotInv /\ [SerialNext]_adminVars => RotInv'
<1> SUFFICES ASSUME FileInv, CallInv, RotInv, [SerialNext]_adminVars PROVE RotInv'
  OBVIOUS
<1>1. CASE Crash
  BY <1>1 DEF Crash, RotInv
<1>2. CASE Boot
  BY <1>2 DEF Boot, RotInv
<1>3. CASE UNCHANGED adminVars
  BY <1>3 DEF adminVars, settingsVars, RotInv, E, history
<1> QED
  BY <1>1, <1>2, <1>3, RotNewEdit, RotEditor, RotProber, RotPersist DEF SerialNext, AdminNext

----------------------------------------------------------------------------
(* The pool: its order lists the keys of its map, but inside a removal. *)

PoolTyped ==
    /\ order \in Seq(ProxyIds) /\ DOMAIN items \subseteq issued /\ issued \subseteq ProxyIds
    /\ \A id \in DOMAIN items : items[id] \in Entry /\ items[id].id = id

OrderInv ==
    /\ E.pc \notin {"shift", "shrink"} => Lists(order, DOMAIN items)
    /\ E.pc = "shift" =>
          \E id \in ProxyIds : /\ E.ids = {id} /\ id \notin DOMAIN items
                               /\ Lists(order, DOMAIN items \cup {id})
    /\ E.pc = "shrink" => Len(order) > 0 /\ Lists(Front(order), DOMAIN items)

EditorTarget ==
    /\ E.pc = "import" => E.ids \subseteq DOMAIN items
    /\ E.pc \in {"read", "write"} => E.target \in DOMAIN items
    /\ E.pc = "read" => E.entry.enabled \in BOOLEAN
    /\ E.pc = "write" => E.entry \in Entry /\ E.entry.id = E.target

ProberTargets ==
    \A p \in Probers : call[p].pc = "set usable" =>
        /\ call[p].target \in DOMAIN items /\ call[p].entry \in Entry
        /\ call[p].entry.id = call[p].target
        /\ call[p].entry.enabled = items[call[p].target].enabled

PoolInv == PoolTyped /\ OrderInv /\ EditorTarget /\ ProberTargets

\* While a goroutine is busy, all others are idle or wait for answers to probes.
LEMMA Alone ==
    ASSUME FileInv, NEW p \in Savers, call[p].pc \notin {"idle", "probe"}
    PROVE  \A q \in Savers : q # p => call[q].pc \in {"idle", "probe"}
BY DEF FileInv, Serial, Busy

\* The same after a step.
LEMMA AloneNext ==
    ASSUME FileInv', NEW p \in Savers, call'[p].pc \notin {"idle", "probe"}
    PROVE  \A q \in Savers : q # p => call'[q].pc \in {"idle", "probe"}
BY DEF FileInv, Serial, Busy

\* No prober is between its two accesses while the administrator's call runs.
LEMMA EditorAlone ==
    ASSUME FileInv, CallInv, E.pc # "idle"
    PROVE  \A p \in Probers : call[p].pc \in {"idle", "probe"}
<1>1. Editor \in Savers /\ GoodCall(Editor, E) /\ E.pc \notin {"idle", "probe"}
  BY EditorAt DEF GoodCall, EditorPcs
<1> QED
  BY <1>1, Alone, AdminAssumption DEF E

\* The same after a step.
LEMMA EditorAloneNext ==
    ASSUME FileInv', CallInv', E'.pc # "idle"
    PROVE  \A p \in Probers : call'[p].pc \in {"idle", "probe"}
<1>1. Editor \in Savers /\ GoodCall(Editor, E') /\ E'.pc \notin {"idle", "probe"}
  BY AdminAssumption DEF CallInv, GoodCalls, E, GoodCall, EditorPcs
<1> QED
  BY <1>1, AloneNext, AdminAssumption DEF E

\* While a prober records or saves, the administrator has no call.
LEMMA ProberAlone ==
    ASSUME FileInv, CallInv, NEW p \in Probers, call[p].pc \notin {"idle", "probe"}
    PROVE  E.pc = "idle"
<1>1. E.pc \in {"idle", "probe"}
  BY Alone, AdminAssumption DEF E
<1> QED
  BY <1>1, EditorAt DEF GoodCall, EditorPcs

\* The same after a step.
LEMMA ProberAloneNext ==
    ASSUME FileInv', CallInv', NEW p \in Probers, call'[p].pc \notin {"idle", "probe"}
    PROVE  E'.pc = "idle"
<1>1. E'.pc \in {"idle", "probe"} /\ Editor \in Savers
  BY AloneNext, AdminAssumption DEF E
<1>2. GoodCall(Editor, E')
  BY <1>1 DEF CallInv, GoodCalls, E
<1> QED
  BY <1>1, <1>2 DEF GoodCall, EditorPcs

\* A step of the administrator's call that leaves the pool alone.
LEMMA EditorKeepsPool ==
    ASSUME FileInv', CallInv', PoolInv, UNCHANGED <<poolVars, issued>>,
           E'.pc \notin {"shift", "shrink"}, E.pc \notin {"shift", "shrink"},
           E'.pc # "idle" \/ Others(Editor), EditorTarget'
    PROVE  PoolInv'
<1>1. ProberTargets'
  <2>1. CASE E'.pc # "idle"
    BY <2>1, EditorAloneNext DEF ProberTargets
  <2>2. CASE Others(Editor)
    BY <2>2, AdminAssumption DEF Others, ProberTargets, PoolInv, poolVars
  <2> QED
    BY <2>1, <2>2
<1>2. PoolTyped' /\ OrderInv'
  BY DEF PoolInv, PoolTyped, OrderInv, poolVars
<1> QED
  BY <1>1, <1>2 DEF PoolInv

\* A step of another goroutine that leaves the pool alone.
LEMMA ProberKeepsPool ==
    ASSUME PoolInv, NEW p \in Probers, UNCHANGED <<poolVars, issued>>, Others(p),
           call'[p].pc # "set usable"
    PROVE  PoolInv'
<1>1. E' = E
  BY AdminAssumption DEF Others, E
<1>2. ProberTargets'
  BY AdminAssumption DEF Others, ProberTargets, PoolInv, poolVars
<1>3. PoolTyped' /\ OrderInv' /\ EditorTarget'
  BY <1>1 DEF PoolInv, PoolTyped, OrderInv, EditorTarget, poolVars
<1> QED
  BY <1>2, <1>3 DEF PoolInv

\* An entry with another value of enabled.
LEMMA EnabledEntry ==
    ASSUME NEW e \in Entry, NEW b \in BOOLEAN
    PROVE  /\ [e EXCEPT !.enabled = b] \in Entry
           /\ [e EXCEPT !.enabled = b].id = e.id
           /\ [e EXCEPT !.enabled = b].enabled = b
BY DEF Entry

\* An entry with another value of usable.
LEMMA UsableEntry ==
    ASSUME NEW e \in Entry, NEW b \in BOOLEAN
    PROVE  /\ WithUsable(e, b) \in Entry
           /\ WithUsable(e, b).id = e.id
           /\ WithUsable(e, b).enabled = e.enabled
BY DEF Entry, WithUsable

\* The administrator begins a call: Remove and Prune take entries out.
LEMMA PoolNewEdit ==
    ASSUME FileInv, CallInv, FileInv', CallInv', PoolInv, NewEdit
    PROVE  PoolInv'
<1>1. ASSUME NEW batch, BeginImport(batch) PROVE PoolInv'
  <2>1. UNCHANGED <<poolVars, issued>>
    BY <1>1 DEF BeginImport
  <2>2. E.pc = "idle" /\ E'.pc = "import" /\ E'.ids = {}
    BY <1>1, BeginImportEffect
  <2>3. EditorTarget'
    BY <2>2 DEF EditorTarget
  <2> QED
    BY <2>1, <2>2, <2>3, EditorKeepsPool
<1>2. ASSUME NEW id \in ProxyIds, BeginRemove(id) PROVE PoolInv'
  <2>1. /\ E.pc = "idle" /\ E'.pc = (IF id \in DOMAIN items THEN "shift" ELSE "compact")
        /\ E'.ids = {id}
    BY <1>2, BeginRemoveEffect
  <2>2. items' = [o \in DOMAIN items \ {id} |-> items[o]] /\ UNCHANGED <<order, issued>>
    BY <1>2 DEF BeginRemove
  <2>3. Lists(order, DOMAIN items)
    BY <2>1 DEF PoolInv, OrderInv
  <2>4. PoolTyped' /\ EditorTarget'
    BY <2>1, <2>2 DEF PoolInv, PoolTyped, EditorTarget
  <2>5. ProberTargets'
    BY <2>1, EditorAloneNext DEF ProberTargets
  <2>6. CASE id \in DOMAIN items
    <3>1. DOMAIN items' \cup {id} = DOMAIN items /\ id \notin DOMAIN items'
      BY <2>2, <2>6
    <3>2. Lists(order', DOMAIN items' \cup {id})
      BY <2>2, <2>3, <3>1
    <3>3. OrderInv'
      BY <2>1, <2>6, <3>1, <3>2 DEF OrderInv
    <3> QED
      BY <2>4, <2>5, <3>3 DEF PoolInv
  <2>7. CASE id \notin DOMAIN items
    <3>1. DOMAIN items' = DOMAIN items
      BY <2>2, <2>7
    <3>2. OrderInv'
      BY <2>1, <2>2, <2>3, <2>7, <3>1 DEF OrderInv
    <3> QED
      BY <2>4, <2>5, <3>2 DEF PoolInv
  <2> QED
    BY <2>6, <2>7
<1>3. ASSUME NEW id, BeginToggle(id) PROVE PoolInv'
  <2>1. UNCHANGED <<poolVars, issued>>
    BY <1>3 DEF BeginToggle
  <2>2. /\ E.pc = "idle"
        /\ \/ /\ E'.pc = "read" /\ E'.target = id /\ id \in DOMAIN items
              /\ E'.entry.enabled \in BOOLEAN
           \/ E'.pc = "snapshot"
    BY <1>3, BeginToggleEffect
  <2>3. EditorTarget'
    BY <2>1, <2>2 DEF EditorTarget, poolVars
  <2> QED
    BY <2>1, <2>2, <2>3, EditorKeepsPool
<1>4. CASE BeginPrune
  <2> DEFINE dead == {id \in Range(order) : Dead(id)}
  <2>1. E.pc = "idle" /\ E'.pc = "compact"
    BY <1>4, BeginPruneEffect
  <2>2. /\ items' = [id \in DOMAIN items \ dead |-> items[id]]
        /\ order' = Keep(order, LAMBDA id : id \notin dead)
        /\ issued' = issued
    BY <1>4 DEF BeginPrune
  <2> HIDE DEF dead
  <2>3. order \in Seq(ProxyIds) /\ Lists(order, DOMAIN items)
    BY <2>1 DEF PoolInv, PoolTyped, OrderInv
  <2>4. order' \in Seq(ProxyIds) /\ Lists(order', DOMAIN items \ dead)
    BY <2>2, <2>3, ListsKept DEF Keep
  <2>5. DOMAIN items' = DOMAIN items \ dead
    BY <2>2
  <2>6. PoolTyped'
    BY <2>2, <2>4, <2>5 DEF PoolInv, PoolTyped
  <2>7. OrderInv' /\ EditorTarget'
    BY <2>1, <2>4, <2>5 DEF OrderInv, EditorTarget
  <2>8. ProberTargets'
    BY <2>1, EditorAloneNext DEF ProberTargets
  <2> QED
    BY <2>6, <2>7, <2>8 DEF PoolInv
<1>5. ASSUME NEW name, BeginDelete(name) PROVE PoolInv'
  <2>1. UNCHANGED <<poolVars, issued>>
    BY <1>5 DEF BeginDelete
  <2>2. E.pc = "idle" /\ E'.pc = "compact"
    BY <1>5, BeginDeleteEffect
  <2>3. EditorTarget'
    BY <2>2 DEF EditorTarget
  <2> QED
    BY <2>1, <2>2, <2>3, EditorKeepsPool
<1>6. ASSUME NEW name, NEW proxy, EditWorker(name, proxy) PROVE PoolInv'
  <2>1. UNCHANGED <<poolVars, issued>>
    BY <1>6 DEF EditWorker
  <2>2. E.pc = "idle" /\ E'.pc = "saving"
    BY <1>6, EditWorkerEffect
  <2>3. EditorTarget'
    BY <2>2 DEF EditorTarget
  <2> QED
    BY <2>1, <2>2, <2>3, EditorKeepsPool
<1> QED
  BY <1>1, <1>2, <1>3, <1>4, <1>5, <1>6 DEF NewEdit

\* The administrator's call goes on: entries are added, the order shifted.
LEMMA PoolEditor ==
    ASSUME FileInv, CallInv, FileInv', CallInv', PoolInv, EditorStep
    PROVE  PoolInv'
<1>1. ASSUME UNCHANGED <<poolVars, issued>>, E.pc \notin {"shift", "shrink"},
             E'.pc \in {"cut", "snapshot", "saving"}
      PROVE  PoolInv'
  <2>1. EditorTarget'
    BY <1>1 DEF EditorTarget
  <2> QED
    BY <1>1, <2>1, EditorKeepsPool
<1>2. CASE ImportProxy
  <2>1. E.pc = "import" /\ E'.pc = "import"
    BY <1>2, ImportProxyEffect
  <2>2. CASE E'.ids = E.ids /\ UNCHANGED <<poolVars, issued>>
    <3>1. EditorTarget'
      BY <2>1, <2>2 DEF EditorTarget, PoolInv, poolVars
    <3> QED
      BY <2>1, <2>2, <3>1, EditorKeepsPool
  <2>3. ASSUME NEW id \in ProxyIds \ issued,
               items' = Put(id, [id |-> id, enabled |-> TRUE, usable |-> TRUE]),
               order' = Append(order, id), issued' = issued \cup {id},
               E'.ids = E.ids \cup {id}
        PROVE  PoolInv'
    <3> DEFINE e == [id |-> id, enabled |-> TRUE, usable |-> TRUE]
    <3>1. e \in Entry /\ e.id = id
      BY DEF Entry
    <3>2. /\ DOMAIN items' = DOMAIN items \cup {id} /\ items'[id] = e
          /\ \A o \in DOMAIN items : o # id => items'[o] = items[o]
      BY <2>3 DEF Put
    <3> HIDE DEF e
    <3>3. id \notin DOMAIN items /\ order \in Seq(ProxyIds) /\ Lists(order, DOMAIN items)
      BY <2>1 DEF PoolInv, PoolTyped, OrderInv
    <3>4. order' \in Seq(ProxyIds) /\ Lists(order', DOMAIN items')
      BY <2>3, <3>2, <3>3, ListsAppend
    <3>5. PoolTyped'
      BY <2>3, <3>1, <3>2, <3>4 DEF PoolInv, PoolTyped
    <3>6. OrderInv' /\ EditorTarget'
      BY <2>1, <2>3, <3>2, <3>4 DEF OrderInv, EditorTarget, PoolInv
    <3>7. ProberTargets'
      BY <2>1, EditorAloneNext DEF ProberTargets
    <3> QED
      BY <3>5, <3>6, <3>7 DEF PoolInv
  <2> QED
    BY <1>2, <2>2, <2>3, ImportProxyEffect
<1>3. CASE BindWorker
  <2>1. UNCHANGED <<poolVars, issued>>
    BY <1>3 DEF BindWorker, history
  <2>2. E.pc = "import" /\ E'.pc = "import" /\ E'.ids \subseteq E.ids
    BY <1>3, BindWorkerEffect
  <2>3. EditorTarget'
    BY <2>1, <2>2 DEF EditorTarget, PoolInv, poolVars
  <2> QED
    BY <2>1, <2>2, <2>3, EditorKeepsPool
<1>4. CASE EndImport
  BY <1>1, <1>4, EndImportEffect DEF EndImport, history
<1>5. CASE ShiftOrder
  <2> DEFINE i == SelectInSeq(order, LAMBDA o : o \in E.ids)
  <2>1. /\ E.pc = "shift"
        /\ i = 0 => E'.pc = "compact" /\ UNCHANGED order
        /\ i # 0 => E'.pc = "shrink" /\ order' = Append(RemoveAt(order, i), Last(order))
    BY <1>5, ShiftOrderEffect
  <2>2. UNCHANGED <<items, issued>>
    BY <1>5 DEF ShiftOrder, history
  <2>3. order \in Seq(ProxyIds)
    BY DEF PoolInv, PoolTyped
  <2>4. PICK id \in ProxyIds : /\ E.ids = {id} /\ id \notin DOMAIN items
                               /\ Lists(order, DOMAIN items \cup {id})
    BY <2>1 DEF PoolInv, OrderInv
  <2>5. i \in 0..Len(order) /\ (i > 0 => order[i] \in E.ids)
        /\ (i = 0 => \A j \in 1..Len(order) : order[j] \notin E.ids)
    BY <2>3, FirstOf DEF SelectInSeq
  <2> HIDE DEF i
  <2>6. i \in 1..Len(order) /\ order[i] = id
    BY <2>3, <2>4, <2>5 DEF Lists
  <2>7. E'.pc = "shrink" /\ order' = Append(RemoveAt(order, i), Last(order))
    BY <2>1, <2>6
  <2>8. order' \in Seq(ProxyIds) /\ Len(order') > 0 /\ Lists(Front(order'), DOMAIN items)
    BY <2>3, <2>4, <2>6, <2>7, ListsShift
  <2>9. PoolTyped' /\ OrderInv' /\ EditorTarget'
    BY <2>2, <2>7, <2>8 DEF PoolInv, PoolTyped, OrderInv, EditorTarget
  <2>10. ProberTargets'
    BY <2>7, EditorAloneNext DEF ProberTargets
  <2> QED
    BY <2>9, <2>10 DEF PoolInv
<1>6. CASE ShrinkOrder
  <2>1. E.pc = "shrink" /\ E'.pc = "compact"
    BY <1>6, ShrinkOrderEffect
  <2>2. UNCHANGED <<items, issued>> /\ order' = Front(order)
    BY <1>6 DEF ShrinkOrder, history
  <2>3. order \in Seq(ProxyIds) /\ Len(order) > 0 /\ Lists(order', DOMAIN items)
    BY <2>1, <2>2 DEF PoolInv, PoolTyped, OrderInv
  <2>4. order' \in Seq(ProxyIds)
    BY <2>2, <2>3 DEF Front
  <2>5. PoolTyped' /\ OrderInv' /\ EditorTarget'
    BY <2>1, <2>2, <2>3, <2>4 DEF PoolInv, PoolTyped, OrderInv, EditorTarget
  <2>6. ProberTargets'
    BY <2>1, EditorAloneNext DEF ProberTargets
  <2> QED
    BY <2>5, <2>6 DEF PoolInv
<1>7. CASE CompactWorkers
  BY <1>1, <1>7, CompactWorkersEffect DEF CompactWorkers, history
<1>8. CASE CutWorkers
  BY <1>1, <1>8, CutWorkersEffect DEF CutWorkers, history
<1>9. CASE ReadItem
  <2>1. UNCHANGED <<poolVars, issued>>
    BY <1>9 DEF ReadItem, history
  <2>2. /\ E.pc = "read" /\ E'.pc = "write" /\ E'.target = E.target
        /\ E'.entry = [items[E.target] EXCEPT !.enabled = E.entry.enabled]
    BY <1>9, ReadItemEffect
  <2>3. /\ E.target \in DOMAIN items /\ E.entry.enabled \in BOOLEAN
        /\ items[E.target] \in Entry /\ items[E.target].id = E.target
    BY <2>2 DEF PoolInv, PoolTyped, EditorTarget
  <2>4. E'.entry \in Entry /\ E'.entry.id = E.target
    <3> DEFINE e == items[E.target]
               b == E.entry.enabled
    <3>1. e \in Entry /\ e.id = E.target /\ b \in BOOLEAN
      BY <2>3
    <3>2. E'.entry = [e EXCEPT !.enabled = b]
      BY <2>2
    <3> HIDE DEF e, b
    <3> QED
      BY <3>1, <3>2, EnabledEntry
  <2>5. EditorTarget'
    BY <2>1, <2>2, <2>3, <2>4 DEF EditorTarget, poolVars
  <2> QED
    BY <2>1, <2>2, <2>5, EditorKeepsPool
<1>10. CASE WriteItem
  <2>1. E.pc = "write" /\ E'.pc = "snapshot" /\ items' = Put(E.target, E.entry)
    BY <1>10, WriteItemEffect
  <2>2. UNCHANGED <<order, issued>>
    BY <1>10 DEF WriteItem, history
  <2>3. E.target \in DOMAIN items /\ E.entry \in Entry /\ E.entry.id = E.target
    BY <2>1 DEF PoolInv, EditorTarget
  <2>4. DOMAIN items' = DOMAIN items
        /\ \A o \in DOMAIN items : items'[o] = IF o = E.target THEN E.entry ELSE items[o]
    BY <2>1, <2>3 DEF Put
  <2>5. PoolTyped' /\ OrderInv' /\ EditorTarget'
    BY <2>1, <2>2, <2>3, <2>4 DEF PoolInv, PoolTyped, OrderInv, EditorTarget
  <2>6. ProberTargets'
    BY <2>1, EditorAloneNext DEF ProberTargets
  <2> QED
    BY <2>5, <2>6 DEF PoolInv
<1> QED
  BY <1>2, <1>3, <1>4, <1>5, <1>6, <1>7, <1>8, <1>9, <1>10 DEF EditorStep

\* A probe stores an entry it has read under the lock.
LEMMA PoolProber ==
    ASSUME FileInv, CallInv, FileInv', CallInv', PoolInv,
           NEW p \in Probers, BeginProbe(p) \/ ProberStep(p)
    PROVE  PoolInv'
<1>1. CASE BeginProbe(p)
  BY <1>1, BeginProbeEffect, ProberKeepsPool DEF BeginProbe, history
<1>2. ASSUME NEW id \in ProxyIds, NEW usable \in BOOLEAN, ReadUsable(p, id, usable)
      PROVE  PoolInv'
  <2>1. UNCHANGED <<poolVars, issued>>
    BY <1>2 DEF ReadUsable, history
  <2>2. Others(p)
    BY <1>2, ReadUsableEffect
  <2>3. CASE call'[p].pc # "set usable"
    BY <2>1, <2>2, <2>3, ProberKeepsPool
  <2>4. CASE call'[p].pc = "set usable"
    <3>1. /\ call'[p].target = id /\ id \in DOMAIN items
          /\ call'[p].entry = WithUsable(items[id], usable)
      BY <1>2, <2>4, ReadUsableEffect
    <3>2. items[id] \in Entry /\ items[id].id = id
      BY <3>1 DEF PoolInv, PoolTyped
    <3>3. /\ call'[p].entry \in Entry /\ call'[p].entry.id = id
          /\ call'[p].entry.enabled = items[id].enabled
      BY <1>2, <3>1, <3>2, UsableEntry
    <3>4. ProberTargets'
      BY <2>1, <2>2, <3>1, <3>3, AdminAssumption DEF Others, ProberTargets, PoolInv, poolVars
    <3>5. E' = E
      BY <2>2, AdminAssumption DEF Others, E
    <3> QED
      BY <2>1, <3>4, <3>5 DEF PoolInv, PoolTyped, OrderInv, EditorTarget, poolVars
  <2> QED
    BY <2>3, <2>4
<1>3. CASE WriteUsable(p)
  <2>1. /\ Others(p) /\ call[p].pc = "set usable" /\ call'[p].pc = "probe"
        /\ items' = Put(call[p].target, call[p].entry)
    BY <1>3, WriteUsableEffect
  <2>2. UNCHANGED <<order, issued>> /\ p \in Savers
    BY <1>3, AdminAssumption DEF WriteUsable, history
  <2>3. /\ call[p].target \in DOMAIN items /\ call[p].entry \in Entry
        /\ call[p].entry.id = call[p].target
    BY <2>1 DEF PoolInv, ProberTargets
  <2>4. DOMAIN items' = DOMAIN items
        /\ \A o \in DOMAIN items :
              items'[o] = IF o = call[p].target THEN call[p].entry ELSE items[o]
    BY <2>1, <2>3 DEF Put
  <2>5. E' = E /\ E.pc = "idle"
    BY <2>1, ProberAlone, AdminAssumption DEF Others, E
  <2>6. PoolTyped' /\ OrderInv' /\ EditorTarget'
    BY <2>2, <2>3, <2>4, <2>5 DEF PoolInv, PoolTyped, OrderInv, EditorTarget
  <2>7. \A q \in Probers : call'[q].pc # "set usable"
    BY <2>1, <2>2, Alone, AdminAssumption DEF Others
  <2> QED
    BY <2>6, <2>7 DEF PoolInv, ProberTargets
<1>4. CASE EndProbe(p)
  BY <1>4, EndProbeEffect, ProberKeepsPool DEF EndProbe, history
<1> QED
  BY <1>1, <1>2, <1>3, <1>4 DEF ProberStep

\* Copying, saving and returning leave the pool alone.
LEMMA PoolPersist ==
    ASSUME FileInv, CallInv, FileInv', CallInv', PoolInv, NEW p \in Savers, PersistStep(p)
    PROVE  PoolInv'
<1>1. UNCHANGED <<poolVars, issued>>
  BY DEF PersistStep, Snapshot, Assign, InSave, Resync, ReturnOk, ReturnError, Return, history
<1>2. CASE InSave(p)
  <2>1. call' = call
    BY <1>2, InSaveEffect
  <2> QED
    BY <1>1, <2>1 DEF PoolInv, PoolTyped, OrderInv, EditorTarget, ProberTargets, E, poolVars
<1>3. CASE ~InSave(p)
  <2>1. /\ Others(p) /\ call[p].pc \in {"snapshot", "assign", "saving"}
        /\ call'[p].pc \in {"assign", "saving", "idle"}
    BY <1>3, SnapshotEffect, AssignEffect, ReturnEffect
       DEF PersistStep, Resync, ReturnOk, ReturnError, At
  <2>2. CASE p = Editor
    <3>1. EditorTarget'
      BY <2>1, <2>2 DEF EditorTarget, E
    <3> QED
      BY <1>1, <2>1, <2>2, <3>1, EditorKeepsPool DEF E
  <2>3. CASE p \in Probers
    BY <1>1, <2>1, <2>3, ProberKeepsPool
  <2> QED
    BY <2>2, <2>3, AdminAssumption
<1> QED
  BY <1>2, <1>3

----------------------------------------------------------------------------
(* The bindings: no worker is bound to an entry that is gone, but by a call that
   asked for it. *)

Allowed == DOMAIN items \cup loose

Bound(w, S) == w.proxy # None => w.proxy \in S
AllBound(workers, n, S) == \A i \in 1..n : Bound(workers[i], S)

BoundInv ==
    /\ cfg \in Settings /\ rot \in Seq(Worker)
    /\ E.op = "workers" => E.ids = {}
    /\ E.pc \notin {"shift", "shrink", "compact", "cut"} =>
          AllBound(cfg.workers, Len(cfg.workers), Allowed)
    /\ E.pc \in {"shift", "shrink", "compact"} =>
          AllBound(cfg.workers, Len(cfg.workers), Allowed \cup E.ids)
    /\ E.pc = "cut" =>
          E.kept \in 0..Len(cfg.workers) /\ AllBound(cfg.workers, E.kept, Allowed)

\* Settings with other workers.
LEMMA WorkersReplaced ==
    ASSUME NEW s \in Settings, NEW w \in Seq(Worker)
    PROVE  /\ [s EXCEPT !.workers = w] \in Settings
           /\ [s EXCEPT !.workers = w].workers = w
           /\ [s EXCEPT !.workers = w].proxies = s.proxies
BY DEF Settings

\* Settings with another list of the pool.
LEMMA ProxiesReplaced ==
    ASSUME NEW s \in Settings, NEW l \in Seq(Entry)
    PROVE  /\ [s EXCEPT !.proxies = l] \in Settings
           /\ [s EXCEPT !.proxies = l].proxies = l
           /\ [s EXCEPT !.proxies = l].workers = s.workers
BY DEF Settings

\* Neither the settings nor the keys of the pool change, and the call leaves no
\* worker behind that is bound to what it removed.
LEMMA BoundKept ==
    ASSUME BoundInv, UNCHANGED <<cfg, rot, loose>>, DOMAIN items' = DOMAIN items,
           E'.pc \notin {"shift", "shrink", "compact", "cut"},
           E.pc \notin {"shift", "shrink", "compact", "cut"},
           E'.op = "workers" => E'.ids = {}
    PROVE  BoundInv'
BY DEF BoundInv, Allowed

\* Removed entries are remembered in the call until their workers are.
LEMMA BoundNewEdit ==
    ASSUME FileInv, CallInv, FileInv', CallInv', PoolInv, BoundInv, NewEdit
    PROVE  BoundInv'
<1>1. GoodCall(Editor, E) /\ GoodCall(Editor, E')
  BY AdminAssumption DEF CallInv, GoodCalls, E
<1>2. ASSUME NEW batch, BeginImport(batch) PROVE BoundInv'
  <2>1. UNCHANGED <<cfg, rot, items, loose>>
    BY <1>2 DEF BeginImport, settingsVars, poolVars, history
  <2>2. E.pc = "idle" /\ E'.pc = "import" /\ E'.ids = {}
    BY <1>2, BeginImportEffect
  <2> QED
    BY <2>1, <2>2, BoundKept
<1>3. ASSUME NEW id \in ProxyIds, BeginRemove(id) PROVE BoundInv'
  <2>1. /\ UNCHANGED <<cfg, rot, loose>>
        /\ items' = [o \in DOMAIN items \ {id} |-> items[o]]
    BY <1>3 DEF BeginRemove, settingsVars
  <2>2. E.pc = "idle" /\ E'.pc \in {"shift", "compact"} /\ E'.ids = {id} /\ E'.op = "remove"
    BY <1>3, BeginRemoveEffect
  <2>3. DOMAIN items \subseteq DOMAIN items' \cup {id}
    BY <2>1
  <2> QED
    BY <2>1, <2>2, <2>3 DEF BoundInv, AllBound, Bound, Allowed
<1>4. ASSUME NEW id, BeginToggle(id) PROVE BoundInv'
  <2>1. UNCHANGED <<cfg, rot, items, loose>>
    BY <1>4 DEF BeginToggle, settingsVars, poolVars, history
  <2>2. E.pc = "idle" /\ E'.pc \in {"read", "snapshot"} /\ E'.op = "toggle"
    BY <1>4, BeginToggleEffect
  <2> QED
    BY <2>1, <2>2, BoundKept
<1>5. CASE BeginPrune
  <2> DEFINE dead == {id \in Range(order) : Dead(id)}
  <2>1. UNCHANGED <<cfg, rot, loose>> /\ items' = [id \in DOMAIN items \ dead |-> items[id]]
    BY <1>5 DEF BeginPrune, settingsVars
  <2>2. E.pc = "idle" /\ E'.pc = "compact" /\ E'.op = "prune" /\ E'.ids = dead
    BY <1>5, BeginPruneEffect
  <2> HIDE DEF dead
  <2>3. DOMAIN items \subseteq DOMAIN items' \cup dead
    BY <2>1
  <2> QED
    BY <2>1, <2>2, <2>3 DEF BoundInv, AllBound, Bound, Allowed
<1>6. ASSUME NEW name, BeginDelete(name) PROVE BoundInv'
  <2>1. UNCHANGED <<cfg, rot, items, loose>>
    BY <1>6 DEF BeginDelete, settingsVars, poolVars, history
  <2>2. E.pc = "idle" /\ E'.pc = "compact" /\ E'.op = "workers" /\ E'.ids = {}
    BY <1>6, BeginDeleteEffect
  <2> QED
    BY <2>1, <2>2 DEF BoundInv, AllBound, Bound, Allowed
<1>7. ASSUME NEW name \in Edited, NEW proxy \in ProxyIds \cup {None}, EditWorker(name, proxy)
      PROVE  BoundInv'
  <2>1. E.pc = "idle" /\ E'.pc = "saving" /\ E'.op = "workers" /\ E'.ids = {}
    BY <1>7, EditWorkerEffect
  <2>2. /\ UNCHANGED <<items, rot>>
        /\ loose' = loose \cup ({proxy} \ (DOMAIN items \cup {None}))
    BY <1>7 DEF EditWorker, poolVars
  <2> DEFINE W == cfg.workers
             i == SelectInSeq(W, LAMBDA w : w.id = name)
             V == IF i = 0 THEN Append(W, [id |-> name, proxy |-> proxy])
                  ELSE [W EXCEPT ![i].proxy = proxy]
  <2>3. cfg' = [cfg EXCEPT !.workers = V]
    BY <1>7 DEF EditWorker
  <2>4. W \in Seq(Worker) /\ cfg \in Settings /\ AllBound(W, Len(W), Allowed)
    BY <2>1 DEF BoundInv, Settings
  <2>5. Allowed \subseteq Allowed' /\ (proxy # None => proxy \in Allowed')
    BY <2>2 DEF Allowed
  <2>6. name \in Names /\ proxy \in ProxyIds \cup {None}
    BY <1>7, AdminAssumption
  <2> DEFINE A == Allowed'
  <2>10. AllBound(W, Len(W), A) /\ (proxy # None => proxy \in A)
    BY <2>4, <2>5 DEF AllBound, Bound
  <2> HIDE DEF A
  <2>7. i \in 0..Len(W)
    <3> DEFINE I == {k \in 1..Len(W) : W[k].id = name}
    <3>1. I # {} => Min(I) \in I
      <4>1. I \in SUBSET Nat
        OBVIOUS
      <4> HIDE DEF I
      <4> QED
        BY <4>1, MinOfNats
    <3>2. i = IF I # {} THEN Min(I) ELSE 0
      BY DEF SelectInSeq
    <3>3. Len(W) \in Nat
      BY <2>4
    <3> HIDE DEF i, W
    <3> QED
      BY <3>1, <3>2, <3>3
  <2> HIDE DEF i, W
  <2>8. V \in Seq(Worker) /\ AllBound(V, Len(V), A)
    <3>1. CASE i = 0
      <4> DEFINE w == [id |-> name, proxy |-> proxy]
      <4>1. w \in Worker /\ Bound(w, A)
        BY <2>6, <2>10 DEF Worker, Bound
      <4>2. V = Append(W, w)
        BY <3>1
      <4> HIDE DEF w, V
      <4> QED
        BY <2>4, <2>10, <4>1, <4>2 DEF AllBound
    <3>2. CASE i # 0
      <4>1. i \in 1..Len(W) /\ V = [W EXCEPT ![i].proxy = proxy]
        BY <2>4, <2>7, <3>2
      <4>2. V = [W EXCEPT ![i] = [W[i] EXCEPT !.proxy = proxy]]
        BY <4>1
      <4> DEFINE w == [W[i] EXCEPT !.proxy = proxy]
      <4>3. W[i] \in Worker
        BY <2>4, <4>1
      <4>4. w \in Worker /\ w.proxy = proxy
        BY <2>6, <4>3 DEF Worker
      <4> HIDE DEF w, V
      <4>5. V \in Seq(Worker) /\ Len(V) = Len(W)
            /\ \A k \in 1..Len(W) : V[k] = IF k = i THEN w ELSE W[k]
        BY <2>4, <4>1, <4>2, <4>4 DEF w
      <4> QED
        BY <2>4, <2>10, <4>4, <4>5 DEF AllBound, Bound
    <3> QED
      BY <3>1, <3>2
  <2> HIDE DEF V
  <2>9. cfg' \in Settings /\ cfg'.workers = V
    BY <2>3, <2>4, <2>8, WorkersReplaced
  <2> QED
    BY <2>1, <2>2, <2>8, <2>9 DEF BoundInv, A
<1> QED
  BY <1>2, <1>3, <1>4, <1>5, <1>6, <1>7 DEF NewEdit

\* Workers are bound to entries that exist; filtering keeps no other.
LEMMA BoundEditor ==
    ASSUME FileInv, CallInv, FileInv', CallInv', PoolInv, PoolInv', BoundInv, EditorStep
    PROVE  BoundInv'
<1>1. GoodCall(Editor, E) /\ GoodCall(Editor, E')
  BY AdminAssumption DEF CallInv, GoodCalls, E
<1>2. CASE ImportProxy
  <2>1. E.pc = "import" /\ E'.pc = "import" /\ E'.op = "import"
    BY <1>1, <1>2, ImportProxyEffect DEF GoodCall
  <2>2. UNCHANGED <<cfg, rot, loose>>
    BY <1>2 DEF ImportProxy, settingsVars, history
  <2>3. DOMAIN items \subseteq DOMAIN items'
    <3>1. ASSUME UNCHANGED <<poolVars, issued>> PROVE DOMAIN items \subseteq DOMAIN items'
      BY <3>1 DEF poolVars
    <3>2. ASSUME NEW id, NEW e, items' = Put(id, e) PROVE DOMAIN items \subseteq DOMAIN items'
      BY <3>2 DEF Put
    <3> QED
      BY <1>2, <3>1, <3>2, ImportProxyEffect
  <2> QED
    BY <2>1, <2>2, <2>3 DEF BoundInv, AllBound, Bound, Allowed
<1>3. CASE BindWorker
  <2> DEFINE id == order[SelectInSeq(order, LAMBDA o : o \in E.ids)]
  <2>1. /\ E.pc = "import" /\ E'.pc = "import" /\ E.ids # {}
        /\ \E name \in Names :
              cfg' = [cfg EXCEPT !.workers = Append(@, [id |-> name, proxy |-> id])]
    BY <1>3, BindWorkerEffect
  <2>2. UNCHANGED <<items, rot, loose>> /\ E'.op = "import"
    BY <1>1, <1>3, <2>1 DEF BindWorker, poolVars, history, GoodCall
  <2>3. id \in DOMAIN items /\ id \in ProxyIds
    <3>1. order \in Seq(ProxyIds) /\ Lists(order, DOMAIN items) /\ E.ids \subseteq DOMAIN items
      BY <2>1 DEF PoolInv, PoolTyped, OrderInv, EditorTarget
    <3> DEFINE i == SelectInSeq(order, LAMBDA o : o \in E.ids)
    <3>2. i \in 0..Len(order) /\ (i > 0 => order[i] \in E.ids)
          /\ (i = 0 => \A j \in 1..Len(order) : order[j] \notin E.ids)
      BY <3>1, FirstOf DEF SelectInSeq
    <3>3. id = order[i]
      OBVIOUS
    <3> HIDE DEF i, id
    <3>4. i # 0
      BY <2>1, <3>1, <3>2 DEF Lists
    <3>5. id \in E.ids
      BY <3>1, <3>2, <3>3, <3>4
    <3> QED
      BY <3>1, <3>5 DEF PoolInv, PoolTyped
  <2> HIDE DEF id
  <2>4. PICK name \in Names :
           cfg' = [cfg EXCEPT !.workers = Append(cfg.workers, [id |-> name, proxy |-> id])]
    BY <2>1
  <2> DEFINE W == cfg.workers
             w == [id |-> name, proxy |-> id]
             V == Append(W, w)
  <2>5. W \in Seq(Worker) /\ cfg \in Settings /\ AllBound(W, Len(W), Allowed)
    BY <2>1 DEF BoundInv, Settings
  <2>6. w \in Worker /\ Bound(w, Allowed)
    BY <2>3 DEF Worker, Bound, Allowed
  <2>7. cfg' = [cfg EXCEPT !.workers = V]
    BY <2>4
  <2> HIDE DEF W, w
  <2>8. V \in Seq(Worker) /\ AllBound(V, Len(V), Allowed)
    BY <2>5, <2>6 DEF AllBound
  <2> HIDE DEF V
  <2>9. cfg' \in Settings /\ cfg'.workers = V
    BY <2>5, <2>7, <2>8, WorkersReplaced
  <2> QED
    BY <2>1, <2>2, <2>8, <2>9 DEF BoundInv, Allowed
<1>4. CASE EndImport
  <2>1. UNCHANGED <<cfg, rot, items, loose>>
    BY <1>4 DEF EndImport, poolVars, history
  <2> QED
    BY <1>4, <2>1, EndImportEffect, BoundKept
<1>5. CASE ShiftOrder
  <2>1. UNCHANGED <<cfg, rot, items, loose>>
    BY <1>5 DEF ShiftOrder, settingsVars, history
  <2>2. E.pc = "shift" /\ E'.pc \in {"compact", "shrink"} /\ E'.op = "remove" /\ E'.ids = E.ids
    BY <1>5, ShiftOrderEffect
  <2> QED
    BY <2>1, <2>2 DEF BoundInv, Allowed
<1>6. CASE ShrinkOrder
  <2>1. UNCHANGED <<cfg, rot, items, loose>>
    BY <1>6 DEF ShrinkOrder, settingsVars, history
  <2>2. E.pc = "shrink" /\ E'.pc = "compact" /\ E'.op = "remove" /\ E'.ids = E.ids
    BY <1>6, ShrinkOrderEffect
  <2> QED
    BY <2>1, <2>2 DEF BoundInv, Allowed
<1>7. CASE CompactWorkers
  <2> DEFINE W == cfg.workers
             S == {i \in 1..Len(W) : ~Unwanted(W[i], E)}
             K == ElementsAt(W, S)
             V == K \o SubSeq(W, Len(K) + 1, Len(W))
  <2>1. Keep(cfg.workers, LAMBDA w : ~Unwanted(w, E)) = K
    BY DEF Keep
  <2>2. /\ E'.pc = "cut" /\ E.pc = "compact" /\ E'.op = E.op /\ E'.ids = E.ids
        /\ E'.kept = Len(K) /\ cfg' = [cfg EXCEPT !.workers = V]
    BY <1>7, <2>1, CompactWorkersEffect
  <2>3. UNCHANGED <<items, rot, loose>>
    BY <1>7 DEF CompactWorkers, poolVars, history
  <2>4. W \in Seq(Worker) /\ cfg \in Settings /\ AllBound(W, Len(W), Allowed \cup E.ids)
    BY <2>2 DEF BoundInv, Settings
  <2>5. /\ K \in Seq(Worker) /\ Len(K) \in 0..Len(W)
        /\ \A k \in 1..Len(K) : \E i \in S : K[k] = W[i]
    <3>1. \A i \in S : i \in 1..Len(W)
      OBVIOUS
    <3> HIDE DEF W, S
    <3> QED
      BY <2>4, <3>1, ElementsAtResult
  <2>6. \A i \in S : Bound(W[i], Allowed)
    BY <2>2, <2>4 DEF AllBound, Bound, Unwanted, BoundInv
  <2> HIDE DEF W, S, K
  <2>7. /\ V \in Seq(Worker) /\ Len(K) \in 0..Len(V)
        /\ \A k \in 1..Len(K) : V[k] = K[k]
    BY <2>4, <2>5
  <2> HIDE DEF V
  <2>8. AllBound(V, Len(K), Allowed)
    BY <2>5, <2>6, <2>7 DEF AllBound
  <2>9. cfg' \in Settings /\ cfg'.workers = V
    BY <2>2, <2>4, <2>7, WorkersReplaced
  <2> QED
    BY <2>2, <2>3, <2>7, <2>8, <2>9 DEF BoundInv, Allowed
<1>8. CASE CutWorkers
  <2> DEFINE W == cfg.workers
             V == SubSeq(W, 1, E.kept)
  <2>1. /\ E.pc = "cut" /\ E'.op = E.op /\ E'.ids = {} /\ E'.pc \in {"saving", "snapshot"}
        /\ cfg' = [cfg EXCEPT !.workers = V]
    BY <1>8, CutWorkersEffect
  <2>2. UNCHANGED <<items, rot, loose>>
    BY <1>8 DEF CutWorkers, poolVars, history
  <2>3. /\ W \in Seq(Worker) /\ cfg \in Settings /\ E.kept \in 0..Len(W)
        /\ AllBound(W, E.kept, Allowed)
    BY <2>1 DEF BoundInv, Settings
  <2> HIDE DEF W
  <2>4. V \in Seq(Worker) /\ Len(V) = E.kept /\ \A k \in 1..E.kept : V[k] = W[k]
    BY <2>3
  <2> HIDE DEF V
  <2>5. AllBound(V, Len(V), Allowed)
    BY <2>3, <2>4 DEF AllBound
  <2>6. cfg' \in Settings /\ cfg'.workers = V
    BY <2>1, <2>3, <2>4, WorkersReplaced
  <2> QED
    BY <2>1, <2>2, <2>5, <2>6 DEF BoundInv, Allowed
<1>9. CASE ReadItem
  <2>1. UNCHANGED <<cfg, rot, items, loose>>
    BY <1>9 DEF ReadItem, settingsVars, poolVars, history
  <2>2. E'.op = "toggle"
    BY <1>1, <1>9, ReadItemEffect DEF GoodCall
  <2> QED
    BY <1>9, <2>1, <2>2, ReadItemEffect, BoundKept
<1>10. CASE WriteItem
  <2>1. UNCHANGED <<cfg, rot, loose>>
    BY <1>10 DEF WriteItem, history
  <2>2. E.pc = "write" /\ E'.pc = "snapshot" /\ E'.op = "toggle" /\ items' = Put(E.target, E.entry)
    BY <1>10, WriteItemEffect
  <2>3. DOMAIN items' = DOMAIN items
    BY <2>2 DEF Put, PoolInv, EditorTarget
  <2> QED
    BY <2>1, <2>2, <2>3, BoundKept
<1> QED
  BY <1>2, <1>3, <1>4, <1>5, <1>6, <1>7, <1>8, <1>9, <1>10 DEF EditorStep

\* A probe neither adds nor removes entries.
LEMMA BoundProber ==
    ASSUME FileInv, CallInv, PoolInv, BoundInv, NEW p \in Probers, BeginProbe(p) \/ ProberStep(p)
    PROVE  BoundInv'
<1>1. UNCHANGED <<cfg, rot, loose>>
  BY DEF BeginProbe, ProberStep, ReadUsable, WriteUsable, EndProbe, settingsVars, history
<1>2. Others(p)
  BY BeginProbeEffect, ReadUsableEffect, WriteUsableEffect, EndProbeEffect DEF ProberStep
<1>3. E' = E
  BY <1>2, AdminAssumption DEF Others, E
<1>4. DOMAIN items' = DOMAIN items
  <2>1. CASE WriteUsable(p)
    <3>1. call[p].pc = "set usable" /\ items' = Put(call[p].target, call[p].entry)
      BY <2>1, WriteUsableEffect
    <3> QED
      BY <3>1 DEF Put, PoolInv, ProberTargets
  <2> QED
    BY <2>1 DEF BeginProbe, ProberStep, ReadUsable, EndProbe, poolVars
<1> QED
  BY <1>1, <1>3, <1>4 DEF BoundInv, Allowed

----------------------------------------------------------------------------
(* The settings: between calls they have the list of the pool. *)

\* The list has the ids of the pool, in its order, and the same of them enabled.
Mirrors(list, ids, entries) ==
    /\ Len(list) = Len(ids)
    /\ \A i \in 1..Len(ids) : list[i].id = ids[i] /\ list[i].enabled = entries[ids[i]].enabled

ListsPending ==
    \A p \in Savers : call[p].pc = "assign" =>
        call[p].list \in Seq(Entry) /\ Mirrors(call[p].list, order, items)

MirrorInv ==
    /\ E.pc \in {"idle", "saving"} \/ E.op = "workers" => Mirrors(cfg.proxies, order, items)
    /\ ListsPending

\* What a list says of the pool does not depend on which entries are usable.
LEMMA MirrorsKept ==
    ASSUME NEW ids, NEW entries, NEW others, NEW list,
           Lists(ids, DOMAIN entries), Mirrors(list, ids, entries),
           \A id \in DOMAIN entries : others[id].enabled = entries[id].enabled
    PROVE  Mirrors(list, ids, others)
BY DEF Mirrors, Lists

\* A call of the administrator that is under way is the only one to save.
LEMMA NoListPending ==
    ASSUME FileInv', CallInv', E'.pc \notin {"idle", "assign"}
    PROVE  ListsPending'
<1>1. \A p \in Probers : call'[p].pc \in {"idle", "probe"}
  BY EditorAloneNext
<1> QED
  BY <1>1, AdminAssumption DEF ListsPending, E

\* What is changed is copied before the call ends.
LEMMA MirrorNewEdit ==
    ASSUME FileInv, CallInv, FileInv', CallInv', BoundInv, MirrorInv, NewEdit
    PROVE  MirrorInv'
<1>1. ASSUME E'.pc \notin {"idle", "assign", "saving"}, E'.op # "workers" PROVE MirrorInv'
  BY <1>1, NoListPending DEF MirrorInv
<1>2. GoodCall(Editor, E')
  BY AdminAssumption DEF CallInv, GoodCalls, E
<1>3. ASSUME NEW batch, BeginImport(batch) PROVE MirrorInv'
  BY <1>1, <1>2, <1>3, BeginImportEffect DEF GoodCall
<1>4. ASSUME NEW id \in ProxyIds, BeginRemove(id) PROVE MirrorInv'
  BY <1>1, <1>4, BeginRemoveEffect
<1>5. ASSUME NEW id, BeginToggle(id) PROVE MirrorInv'
  BY <1>1, <1>5, BeginToggleEffect
<1>6. CASE BeginPrune
  BY <1>1, <1>6, BeginPruneEffect
<1>7. ASSUME NEW name, BeginDelete(name) PROVE MirrorInv'
  <2>1. E.pc = "idle" /\ E'.pc = "compact"
    BY <1>7, BeginDeleteEffect
  <2>2. UNCHANGED <<cfg, order, items>>
    BY <1>7 DEF BeginDelete, settingsVars, poolVars
  <2> QED
    BY <2>1, <2>2, NoListPending DEF MirrorInv
<1>8. ASSUME NEW name, NEW proxy, EditWorker(name, proxy) PROVE MirrorInv'
  <2>1. E.pc = "idle" /\ E'.pc = "saving"
    BY <1>8, EditWorkerEffect
  <2>2. UNCHANGED <<order, items>> /\ cfg'.proxies = cfg.proxies
    BY <1>8 DEF EditWorker, poolVars, BoundInv, Settings
  <2> QED
    BY <2>1, <2>2, NoListPending DEF MirrorInv
<1> QED
  BY <1>3, <1>4, <1>5, <1>6, <1>7, <1>8 DEF NewEdit

\* Only calls that edit nothing but workers skip the copy.
LEMMA MirrorEditor ==
    ASSUME FileInv, CallInv, FileInv', CallInv', BoundInv, MirrorInv, EditorStep
    PROVE  MirrorInv'
<1>1. ASSUME E'.pc \notin {"idle", "assign", "saving"}, E'.op # "workers" PROVE MirrorInv'
  BY <1>1, NoListPending DEF MirrorInv
<1>2. ASSUME E'.pc \in {"cut", "saving"}, E.op = "workers", cfg'.proxies = cfg.proxies,
             UNCHANGED poolVars
      PROVE  MirrorInv'
  BY <1>2, NoListPending DEF MirrorInv, poolVars
<1>3. GoodCall(Editor, E) /\ GoodCall(Editor, E')
  BY AdminAssumption DEF CallInv, GoodCalls, E
<1>4. CASE ImportProxy
  BY <1>1, <1>3, <1>4, ImportProxyEffect DEF GoodCall
<1>5. CASE BindWorker
  BY <1>1, <1>3, <1>5, BindWorkerEffect DEF GoodCall
<1>6. CASE EndImport
  BY <1>1, <1>6, EndImportEffect
<1>7. CASE ShiftOrder
  BY <1>1, <1>7, ShiftOrderEffect
<1>8. CASE ShrinkOrder
  BY <1>1, <1>8, ShrinkOrderEffect
<1>9. CASE CompactWorkers
  <2>1. E'.pc = "cut" /\ E'.op = E.op
    BY <1>9, CompactWorkersEffect
  <2>2. cfg'.proxies = cfg.proxies /\ UNCHANGED poolVars
    BY <1>9 DEF CompactWorkers, BoundInv, Settings
  <2> QED
    BY <1>1, <1>2, <2>1, <2>2
<1>10. CASE CutWorkers
  <2>1. E'.op = E.op /\ E'.pc = IF E.op = "workers" THEN "saving" ELSE "snapshot"
    BY <1>10, CutWorkersEffect
  <2>2. cfg'.proxies = cfg.proxies /\ UNCHANGED poolVars
    BY <1>10 DEF CutWorkers, BoundInv, Settings
  <2> QED
    BY <1>1, <1>2, <2>1, <2>2
<1>11. CASE ReadItem
  BY <1>1, <1>3, <1>11, ReadItemEffect DEF GoodCall
<1>12. CASE WriteItem
  BY <1>1, <1>12, WriteItemEffect
<1> QED
  BY <1>4, <1>5, <1>6, <1>7, <1>8, <1>9, <1>10, <1>11, <1>12 DEF EditorStep

\* A probe changes nothing a list says but what is usable.
LEMMA MirrorProber ==
    ASSUME FileInv, CallInv, PoolInv, MirrorInv, NEW p \in Probers, BeginProbe(p) \/ ProberStep(p)
    PROVE  MirrorInv'
<1>1. UNCHANGED <<cfg, order>>
  BY DEF BeginProbe, ProberStep, ReadUsable, WriteUsable, EndProbe, settingsVars, poolVars
<1>2. Others(p) /\ call'[p].pc # "assign"
  BY BeginProbeEffect, ReadUsableEffect, WriteUsableEffect, EndProbeEffect DEF ProberStep
<1>3. E' = E
  BY <1>2, AdminAssumption DEF Others, E
<1>4. CASE WriteUsable(p)
  <2>1. call[p].pc = "set usable" /\ items' = Put(call[p].target, call[p].entry)
    BY <1>4, WriteUsableEffect
  <2>2. E.pc = "idle"
    BY <2>1, ProberAlone
  <2>3. Lists(order, DOMAIN items) /\ Mirrors(cfg.proxies, order, items)
    BY <2>2 DEF PoolInv, OrderInv, MirrorInv
  <2>4. \A id \in DOMAIN items : items'[id].enabled = items[id].enabled
    BY <2>1 DEF Put, PoolInv, ProberTargets
  <2>5. Mirrors(cfg.proxies, order, items')
    BY <2>3, <2>4, MirrorsKept
  <2>6. \A q \in Savers : call'[q].pc # "assign"
    BY <1>2, <2>1, Alone, AdminAssumption DEF Others
  <2> QED
    BY <1>1, <2>5, <2>6 DEF MirrorInv, ListsPending
<1>5. CASE UNCHANGED items
  BY <1>1, <1>2, <1>3, <1>5 DEF MirrorInv, ListsPending, Others
<1> QED
  BY <1>4, <1>5 DEF BeginProbe, ProberStep, ReadUsable, EndProbe, poolVars

\* The copy is made, and put into the settings, while the pool is at rest.
LEMMA MirrorPersist ==
    ASSUME FileInv, CallInv, PoolInv, BoundInv, MirrorInv, NEW p \in Savers, PersistStep(p)
    PROVE  MirrorInv'
<1>1. UNCHANGED <<order, items>>
  BY DEF PersistStep, Snapshot, Assign, InSave, Resync, ReturnOk, ReturnError, Return, poolVars
<1>2. CASE Snapshot(p)
  <2> DEFINE list == [i \in 1..Len(order) |-> ItemAt(order[i])]
  <2>1. /\ Others(p) /\ call[p].pc = "snapshot" /\ call'[p].pc = "assign"
        /\ call'[p].op = call[p].op /\ call'[p].list = list
    BY <1>2, SnapshotEffect
  <2>2. E.pc \notin {"shift", "shrink"}
    BY <2>1, Alone, AdminAssumption DEF E
  <2>3. Lists(order, DOMAIN items) /\ order \in Seq(ProxyIds)
    BY <2>2 DEF PoolInv, OrderInv, PoolTyped
  <2>4. \A i \in 1..Len(order) : order[i] \in DOMAIN items /\ ItemAt(order[i]) = items[order[i]]
    BY <2>3 DEF Lists, ItemAt
  <2>5. \A i \in 1..Len(order) : items[order[i]] \in Entry /\ items[order[i]].id = order[i]
    BY <2>4 DEF PoolInv, PoolTyped
  <2>6. list \in Seq(Entry) /\ Mirrors(list, order, items)
    BY <2>3, <2>4, <2>5 DEF Mirrors
  <2>7. cfg' = cfg
    BY <1>2 DEF Snapshot, settingsVars
  <2> HIDE DEF list
  <2>8. ListsPending'
    BY <1>1, <2>1, <2>6 DEF MirrorInv, ListsPending, Others
  <2>9. CASE p = Editor
    <3>1. E'.pc = "assign" /\ E'.op # "workers"
      BY <2>1, <2>9, EditorAt DEF E, GoodCall
    <3> QED
      BY <2>8, <3>1 DEF MirrorInv
  <2>10. CASE p # Editor
    <3>1. E' = E
      BY <2>1, <2>10, AdminAssumption DEF E, Others
    <3> QED
      BY <1>1, <2>7, <2>8, <3>1 DEF MirrorInv
  <2> QED
    BY <2>9, <2>10
<1>3. CASE Assign(p)
  <2>1. Others(p) /\ call[p].pc = "assign" /\ call'[p].pc = "saving"
    BY <1>3, AssignEffect
  <2>2. Mirrors(call[p].list, order, items)
    BY <2>1 DEF MirrorInv, ListsPending
  <2>3. cfg' = [cfg EXCEPT !.proxies = call[p].list]
    BY <1>3 DEF Assign
  <2>4. ListsPending'
    BY <1>1, <2>1 DEF MirrorInv, ListsPending, Others
  <2>5. cfg'.proxies = call[p].list
    BY <2>3 DEF BoundInv, Settings
  <2> QED
    BY <1>1, <2>2, <2>4, <2>5 DEF MirrorInv
<1>4. CASE InSave(p)
  BY <1>1, <1>4, InSaveEffect DEF MirrorInv, ListsPending, E
<1>5. ASSUME NEW ok, Return(p, ok), call[p].pc = "saving" PROVE MirrorInv'
  <2>1. Others(p) /\ call'[p].pc = "idle" /\ cfg' = cfg /\ call'[p].op # "workers"
    <3>1. IdleCall.pc = "idle" /\ IdleCall.op # "workers"
      BY DEF IdleCall, None
    <3> QED
      BY <1>5, <3>1, ReturnEffect DEF Return
  <2>2. ListsPending'
    BY <1>1, <2>1 DEF MirrorInv, ListsPending, Others
  <2> QED
    BY <1>1, <1>5, <2>1, <2>2, AdminAssumption DEF MirrorInv, E, Others
<1> QED
  BY <1>2, <1>3, <1>4, <1>5 DEF PersistStep, Resync, ReturnOk, ReturnError, At

\* The files: a Save gets the list of the pool from the settings, the workers too.
LEMMA BoundPersist ==
    ASSUME FileInv, CallInv, PoolInv, BoundInv, MirrorInv, NEW p \in Savers, PersistStep(p)
    PROVE  BoundInv'
<1>1. UNCHANGED <<items, loose>>
  BY DEF PersistStep, Snapshot, Assign, InSave, Resync, ReturnOk, ReturnError, Return, poolVars,
         history
<1>2. CASE InSave(p)
  <2>1. UNCHANGED <<cfg, rot, call>>
    BY <1>2, InSaveEffect DEF InSave
  <2> QED
    BY <1>1, <2>1 DEF BoundInv, Allowed, E
<1>3. ASSUME Others(p), call[p].pc \in {"snapshot", "assign", "saving"},
             call'[p].pc \in {"assign", "saving", "idle"},
             call'[p].op = "workers" => call'[p].ids = {},
             cfg' \in Settings, cfg'.workers = cfg.workers, rot' \in {rot, cfg.workers}
      PROVE  BoundInv'
  <2>1. /\ E.pc \notin {"shift", "shrink", "compact", "cut"}
        /\ E'.pc \notin {"shift", "shrink", "compact", "cut"}
        /\ E'.op = "workers" => E'.ids = {}
    <3>1. CASE p = Editor
      BY <1>3, <3>1 DEF E
    <3>2. CASE p # Editor
      <4>1. E' = E /\ E.pc = "idle"
        BY <1>3, <3>2, ProberAlone, AdminAssumption DEF E, Others
      <4> QED
        BY <4>1 DEF BoundInv
    <3> QED
      BY <3>1, <3>2
  <2>2. rot' \in Seq(Worker)
    BY <1>3 DEF BoundInv, Settings
  <2> QED
    BY <1>1, <1>3, <2>1, <2>2 DEF BoundInv, Allowed
<1>4. CASE Snapshot(p)
  <2>1. cfg' = cfg /\ rot' = rot
    BY <1>4 DEF Snapshot, settingsVars
  <2>2. /\ Others(p) /\ call[p].pc = "snapshot" /\ call'[p].pc = "assign"
        /\ call'[p].op # "workers"
    <3>1. GoodCall(p, call'[p])
      BY <1>4, SnapshotEffect
    <3> QED
      BY <1>4, <3>1, SnapshotEffect DEF GoodCall
  <2> QED
    BY <1>3, <2>1, <2>2 DEF BoundInv
<1>5. CASE Assign(p)
  <2>1. /\ Others(p) /\ call[p].pc = "assign" /\ call'[p].pc = "saving"
        /\ call'[p].op = call[p].op /\ GoodCall(p, call[p])
    BY <1>5, AssignEffect DEF CallInv, GoodCalls
  <2>2. call'[p].op # "workers"
    BY <2>1 DEF GoodCall
  <2>3. cfg' = [cfg EXCEPT !.proxies = call[p].list] /\ rot' = rot
    BY <1>5 DEF Assign
  <2>4. call[p].list \in Seq(Entry)
    BY <2>1 DEF MirrorInv, ListsPending
  <2>5. cfg' \in Settings /\ cfg'.workers = cfg.workers
    BY <2>3, <2>4, ProxiesReplaced DEF BoundInv
  <2> QED
    BY <1>3, <2>1, <2>2, <2>3, <2>5
<1>6. ASSUME NEW ok, Return(p, ok), rot' \in {rot, cfg.workers}, call[p].pc = "saving"
      PROVE  BoundInv'
  <2>1. IdleCall.pc = "idle" /\ IdleCall.op # "workers"
    BY DEF IdleCall, None
  <2>2. Others(p) /\ call'[p].pc = "idle" /\ call'[p].op # "workers" /\ cfg' = cfg
    BY <1>6, <2>1, ReturnEffect DEF Return
  <2> QED
    BY <1>3, <1>6, <2>2 DEF BoundInv
<1> QED
  BY <1>2, <1>4, <1>5, <1>6 DEF PersistStep, Resync, ReturnOk, ReturnError, At

----------------------------------------------------------------------------
(* The files again: what a Save has encoded is what the settings are. *)

FilesTyped == file \in File /\ tmp \in File /\ save \in [Savers -> SaveState]

SavesAreCurrent ==
    \A p \in Savers :
        /\ save[p].pc = "proxies" => save[p].data.workers = cfg.workers
        /\ save[p].pc \in {"open", "write"} => save[p].data = cfg
        /\ save[p].pc = "rename" => tmp = Whole(cfg)
        /\ save[p].pc = "ok" => file = Whole(cfg)

Listed(list) == {list[j].id : j \in 1..Len(list)}

Sound(s) ==
    /\ Listed(s.proxies) \subseteq issued
    /\ \A i, j \in 1..Len(s.proxies) : s.proxies[i].id = s.proxies[j].id => i = j
    /\ AllBound(s.workers, Len(s.workers), Listed(s.proxies) \cup loose)

FileSound == file.kind = "whole" => Sound(file.data)

FilesInv == FilesTyped /\ SavesAreCurrent /\ FileSound

\* The constants of SettingsFile have the types of its variables.
LEMMA FilesTypes ==
    /\ NoSettings \in Settings /\ DefaultSettings \in Settings
    /\ \A kind \in Kinds : Blank(kind) \in File /\ Blank(kind).kind = kind
    /\ \A s \in Settings : Whole(s) \in File /\ Whole(s).kind = "whole" /\ Whole(s).data = s
    /\ IdleSave \in SaveState
<1>1. NoSettings \in Settings
  BY DEF NoSettings, Settings
<1>2. DefaultSettings \in Settings
  <2>1. [id |-> DefaultName, proxy |-> None] \in Worker
    BY SettingsAssumption DEF Worker
  <2> QED
    BY <2>1 DEF DefaultSettings, Settings
<1> QED
  BY <1>1, <1>2 DEF Blank, Whole, File, Kinds, IdleSave, SaveState

\* A step that leaves the files alone; no Save has encoded what it changes.
LEMMA FilesKept ==
    ASSUME FilesInv, UNCHANGED <<file, tmp>>, issued \subseteq issued', loose \subseteq loose',
           NEW p \in Savers, save' = save \/ save' = [save EXCEPT ![p] = [IdleSave EXCEPT !.pc = "workers"]],
           cfg' = cfg \/ \A q \in Savers : save'[q].pc \in {"idle", "workers"}
    PROVE  FilesInv'
<1>1. [IdleSave EXCEPT !.pc = "workers"] \in SaveState
  BY FilesTypes DEF SaveState
<1>2. FilesTyped'
  BY <1>1 DEF FilesInv, FilesTyped
<1>3. FileSound'
  BY DEF FilesInv, FileSound, Sound, AllBound, Bound
<1>4. CASE save' = save /\ cfg' = cfg
  BY <1>2, <1>3, <1>4 DEF FilesInv, SavesAreCurrent
<1>5. CASE save' = save /\ \A q \in Savers : save'[q].pc \in {"idle", "workers"}
  BY <1>2, <1>3, <1>5 DEF FilesInv, SavesAreCurrent
<1> DEFINE s == [IdleSave EXCEPT !.pc = "workers"]
<1>6. CASE save' = [save EXCEPT ![p] = s]
  <2>1. DOMAIN save = Savers /\ s.pc = "workers"
    BY DEF FilesInv, FilesTyped, IdleSave
  <2> HIDE DEF s
  <2>2. save'[p].pc = "workers" /\ \A q \in Savers : q # p => save'[q] = save[q]
    BY <1>6, <2>1
  <2>3. SavesAreCurrent'
    BY <2>2 DEF FilesInv, SavesAreCurrent
  <2> QED
    BY <1>2, <1>3, <2>3 DEF FilesInv
<1> QED
  BY <1>4, <1>5, <1>6

\* While the administrator's call edits, and when it calls Save, nobody saves.
LEMMA NobodySaves ==
    ASSUME FileInv', CallInv', E'.pc # "idle",
           E'.pc # "saving" \/ save'[Editor].pc = "workers"
    PROVE  \A q \in Savers : save'[q].pc \in {"idle", "workers"}
<1>1. \A p \in Probers : call'[p].pc # "saving"
  BY EditorAloneNext
<1>2. \A q \in Savers : call'[q].pc # "saving" => save'[q].pc = "idle"
  BY DEF CallInv, GoodCalls
<1> QED
  BY <1>1, <1>2, AdminAssumption DEF E

\* The administrator begins a call.
LEMMA FilesNewEdit ==
    ASSUME FileInv, CallInv, FileInv', CallInv', FilesInv, NewEdit
    PROVE  FilesInv'
<1>1. Editor \in Savers
  BY AdminAssumption
<1>2. ASSUME UNCHANGED <<settingsVars, issued, loose>> PROVE FilesInv'
  BY <1>2 DEF settingsVars, FilesInv, FilesTyped, SavesAreCurrent, FileSound, Sound
<1>3. ASSUME NEW name, NEW proxy, EditWorker(name, proxy) PROVE FilesInv'
  <2>1. CallSave(Editor) /\ UNCHANGED <<file, tmp, issued>> /\ loose \subseteq loose'
    BY <1>3 DEF EditWorker
  <2>2. E'.pc # "idle" /\ save'[Editor].pc = "workers"
    BY <1>1, <1>3, <2>1, EditWorkerEffect, CallSaveEffect
  <2> QED
    BY <1>1, <2>1, <2>2, NobodySaves, CallSaveEffect, FilesKept DEF CallSave
<1> QED
  BY <1>2, <1>3 DEF NewEdit, BeginImport, BeginRemove, BeginToggle, BeginPrune, BeginDelete

\* The administrator's call goes on.
LEMMA FilesEditor ==
    ASSUME FileInv, CallInv, FileInv', CallInv', FilesInv, EditorStep
    PROVE  FilesInv'
<1>1. Editor \in Savers
  BY AdminAssumption
<1>2. UNCHANGED <<file, tmp>> /\ issued \subseteq issued' /\ loose \subseteq loose'
  BY DEF EditorStep, ImportProxy, BindWorker, EndImport, ShiftOrder, ShrinkOrder,
         CompactWorkers, CutWorkers, ReadItem, WriteItem, settingsVars, history
<1>3. ASSUME UNCHANGED save, E'.pc \notin {"idle", "saving"} PROVE FilesInv'
  BY <1>1, <1>2, <1>3, NobodySaves, FilesKept
<1>4. CASE ImportProxy
  BY <1>3, <1>4, ImportProxyEffect DEF ImportProxy, settingsVars
<1>5. CASE BindWorker
  BY <1>3, <1>5, BindWorkerEffect DEF BindWorker
<1>6. CASE EndImport
  BY <1>3, <1>6, EndImportEffect
<1>7. CASE ShiftOrder
  BY <1>3, <1>7, ShiftOrderEffect DEF ShiftOrder, settingsVars
<1>8. CASE ShrinkOrder
  BY <1>3, <1>8, ShrinkOrderEffect DEF ShrinkOrder, settingsVars
<1>9. CASE CompactWorkers
  BY <1>3, <1>9, CompactWorkersEffect DEF CompactWorkers
<1>10. CASE CutWorkers
  <2>1. CASE E.op = "workers"
    <3>1. CallSave(Editor) /\ E'.pc = "saving"
      BY <1>10, <2>1, CutWorkersEffect
    <3> QED
      BY <1>1, <1>2, <3>1, NobodySaves, CallSaveEffect, FilesKept DEF CallSave
  <2>2. CASE E.op # "workers"
    BY <1>3, <1>10, <2>2, CutWorkersEffect
  <2> QED
    BY <2>1, <2>2
<1>11. CASE ReadItem
  BY <1>3, <1>11, ReadItemEffect DEF ReadItem, settingsVars
<1>12. CASE WriteItem
  BY <1>3, <1>12, WriteItemEffect
<1> QED
  BY <1>4, <1>5, <1>6, <1>7, <1>8, <1>9, <1>10, <1>11, <1>12 DEF EditorStep

\* A probe does not touch the files.
LEMMA FilesProber ==
    ASSUME FileInv, CallInv, FilesInv, NEW p \in Probers, BeginProbe(p) \/ ProberStep(p)
    PROVE  FilesInv'
<1>1. UNCHANGED <<cfg, file, tmp, issued, loose>>
  BY DEF BeginProbe, ProberStep, ReadUsable, WriteUsable, EndProbe, settingsVars, history
<1>2. UNCHANGED save
  BY EndProbeEffect DEF BeginProbe, ProberStep, ReadUsable, WriteUsable, settingsVars
<1> QED
  BY <1>1, <1>2 DEF FilesInv, FilesTyped, SavesAreCurrent, FileSound, Sound

\* What the settings say when they are saved is sound.
LEMMA SettingsSound ==
    ASSUME PoolInv, BoundInv, MirrorInv, E.pc \in {"idle", "saving"}
    PROVE  Sound(cfg)
<1>1. Lists(order, DOMAIN items) /\ Mirrors(cfg.proxies, order, items)
      /\ DOMAIN items \subseteq issued /\ order \in Seq(ProxyIds)
      /\ AllBound(cfg.workers, Len(cfg.workers), DOMAIN items \cup loose)
  BY DEF PoolInv, OrderInv, PoolTyped, MirrorInv, BoundInv, Allowed
<1>2. Listed(cfg.proxies) = DOMAIN items
  <2>1. \A d \in DOMAIN items : d \in Listed(cfg.proxies)
    BY <1>1 DEF Lists, Mirrors, Listed
  <2>2. \A d \in Listed(cfg.proxies) : d \in DOMAIN items
    BY <1>1 DEF Lists, Mirrors, Listed
  <2> QED
    BY <2>1, <2>2
<1> QED
  BY <1>1, <1>2 DEF Sound, Lists, Mirrors

WithWorkers(s, workers) == [s EXCEPT !.pc = "proxies", !.data.workers = workers]
WithProxies(s, proxies) == [s EXCEPT !.pc = "open", !.data.proxies = proxies]

\* A Save that has encoded the workers.
LEMMA EncodedWorkers ==
    ASSUME NEW s \in SaveState, NEW w \in Seq(Worker)
    PROVE  LET t == WithWorkers(s, w) IN
           t \in SaveState /\ t.pc = "proxies" /\ t.data.workers = w
<1>1. s.data \in Settings
  BY DEF SaveState
<1>2. [s.data EXCEPT !.workers = w] \in Settings /\ [s.data EXCEPT !.workers = w].workers = w
  BY <1>1, WorkersReplaced
<1> DEFINE d == [s.data EXCEPT !.workers = w]
<1>3. WithWorkers(s, w) = [s EXCEPT !.pc = "proxies", !.data = d]
  BY DEF SaveState, WithWorkers
<1> HIDE DEF d
<1> QED
  BY <1>2, <1>3 DEF SaveState, d

\* A Save that has encoded the workers and the pool has the settings.
LEMMA EncodedProxies ==
    ASSUME NEW s \in SaveState, NEW c \in Settings, s.data.workers = c.workers
    PROVE  LET t == WithProxies(s, c.proxies) IN
           t \in SaveState /\ t.pc = "open" /\ t.data = c
<1>1. s.data \in Settings
  BY DEF SaveState
<1>2. [s.data EXCEPT !.proxies = c.proxies] = c
  BY <1>1 DEF Settings
<1>3. WithProxies(s, c.proxies) = [s EXCEPT !.pc = "open", !.data = c]
  BY <1>2 DEF SaveState, WithProxies
<1> QED
  BY <1>3 DEF SaveState

\* A Save that has opened the temporary file.
LEMMA OpenedState ==
    ASSUME NEW s \in SaveState, NEW t, t = [s EXCEPT !.pc = "write", !.fd = "tmp"]
    PROVE  t \in SaveState /\ t.pc = "write" /\ t.data = s.data
BY DEF SaveState

\* A Save that has written it.
LEMMA WrittenState ==
    ASSUME NEW s \in SaveState, NEW t,
           t = [s EXCEPT !.pc = "rename", !.data = NoSettings, !.fd = "tmp"]
    PROVE  t \in SaveState /\ t.pc = "rename"
<1>1. NoSettings \in Settings
  BY FilesTypes
<1> QED
  BY <1>1 DEF SaveState

\* A Save that is over.
LEMMA EndedState ==
    ASSUME NEW pc \in {"ok", "failed"}, NEW t, t = [IdleSave EXCEPT !.pc = pc]
    PROVE  t \in SaveState /\ t.pc = pc
<1>1. NoSettings \in Settings
  BY FilesTypes
<1> QED
  BY <1>1 DEF IdleSave, SaveState

\* A step of Save: what reaches settings.json is the settings, at rest.
LEMMA FilesInSave ==
    ASSUME FileInv, CallInv, PoolInv, BoundInv, MirrorInv, FilesInv, NEW p \in Savers, InSave(p)
    PROVE  FilesInv'
<1>1. /\ call[p].pc = "saving" /\ UNCHANGED <<cfg, issued, loose>>
      /\ \A q \in Savers : q # p => save'[q] = save[q] /\ save[q].pc = "idle"
  BY InSaveEffect DEF InSave, history
<1>2. DOMAIN save' = Savers
  BY DEF InSave, SaveStep, EncodeWorkers, EncodeProxies, Open, Write, Rename, FailSave,
         FilesInv, FilesTyped
<1>3. /\ save[p] \in SaveState /\ cfg \in Settings
      /\ cfg.workers \in Seq(Worker) /\ cfg.proxies \in Seq(Entry)
      /\ cfg = [workers |-> cfg.workers, proxies |-> cfg.proxies]
      /\ file \in File /\ tmp \in File
  BY DEF FilesInv, FilesTyped, BoundInv, Settings
<1>4. ASSUME save'[p] \in SaveState, file' \in File, tmp' \in File, FileSound',
             save'[p].pc = "proxies" => save'[p].data.workers = cfg.workers,
             save'[p].pc \in {"open", "write"} => save'[p].data = cfg,
             save'[p].pc = "rename" => tmp' = Whole(cfg),
             save'[p].pc = "ok" => file' = Whole(cfg)
      PROVE  FilesInv'
  <2>1. save' \in [Savers -> SaveState]
    <3>1. \A q \in Savers : save'[q] \in SaveState
      BY <1>1, <1>4 DEF FilesInv, FilesTyped
    <3>2. save' = [q \in Savers |-> save'[q]]
      BY <1>2 DEF InSave, SaveStep, EncodeWorkers, EncodeProxies, Open, Write, Rename, FailSave,
         FilesInv, FilesTyped
    <3> QED
      BY <3>1, <3>2
  <2>2. SavesAreCurrent'
    BY <1>1, <1>4 DEF SavesAreCurrent
  <2> QED
    BY <1>4, <2>1, <2>2 DEF FilesInv, FilesTyped
<1>5. ASSUME file' = file PROVE FileSound'
  BY <1>1, <1>5 DEF FilesInv, FileSound, Sound
<1>6. CASE /\ save[p].pc = "workers" /\ UNCHANGED <<file, tmp>>
           /\ save'[p] = [save[p] EXCEPT !.pc = "proxies", !.data.workers = cfg.workers]
  <2> DEFINE s == save[p]
             t == save'[p]
             w == cfg.workers
  <2>1. t = WithWorkers(s, w)
    BY <1>6 DEF WithWorkers
  <2>2. s \in SaveState /\ w \in Seq(Worker)
    BY <1>3
  <2> HIDE DEF s, t, w
  <2>3. t \in SaveState /\ t.pc = "proxies" /\ t.data.workers = w
    BY <2>1, <2>2, EncodedWorkers
  <2> USE DEF t, w
  <2> QED
    BY <1>3, <1>4, <1>5, <1>6, <2>3
<1>7. CASE /\ save[p].pc = "proxies" /\ UNCHANGED <<file, tmp>>
           /\ save'[p] = [save[p] EXCEPT !.pc = "open", !.data.proxies = cfg.proxies]
  <2>1. save[p].data.workers = cfg.workers
    BY <1>7 DEF FilesInv, SavesAreCurrent
  <2>2. save'[p] \in SaveState /\ save'[p].pc = "open" /\ save'[p].data = cfg
    <3> DEFINE s == save[p]
               t == save'[p]
    <3>1. t = WithProxies(s, cfg.proxies)
      BY <1>7 DEF WithProxies
    <3>2. s \in SaveState /\ s.data.workers = cfg.workers
      BY <1>3, <2>1
    <3> HIDE DEF s, t
    <3>3. t \in SaveState /\ t.pc = "open" /\ t.data = cfg
      BY <1>3, <3>1, <3>2, EncodedProxies
    <3> QED
      BY <3>3 DEF t
  <2> QED
    BY <1>3, <1>4, <1>5, <1>7, <2>2
<1>8. CASE /\ save[p].pc = "open" /\ UNCHANGED file /\ tmp' = Blank("empty")
           /\ save'[p] = [save[p] EXCEPT !.pc = "write", !.fd = "tmp"]
  <2>1. save[p].data = cfg
    BY <1>8 DEF FilesInv, SavesAreCurrent
  <2>2. save'[p] \in SaveState /\ save'[p].pc = "write" /\ save'[p].data = cfg
    <3> DEFINE s == save[p]
               t == save'[p]
    <3>1. t = [s EXCEPT !.pc = "write", !.fd = "tmp"] /\ s \in SaveState
      BY <1>3, <1>8
    <3> HIDE DEF s, t
    <3>2. t \in SaveState /\ t.pc = "write" /\ t.data = s.data
      BY <3>1, OpenedState
    <3> QED
      BY <2>1, <3>2 DEF s, t
  <2>3. tmp' \in File
    BY <1>8, FilesTypes DEF Kinds
  <2> QED
    BY <1>3, <1>4, <1>5, <1>8, <2>2, <2>3
<1>9. CASE /\ save[p].pc = "write" /\ UNCHANGED file /\ tmp' = Whole(save[p].data)
           /\ save'[p] = [save[p] EXCEPT !.pc = "rename", !.data = NoSettings, !.fd = "tmp"]
  <2>1. save[p].data = cfg
    BY <1>9 DEF FilesInv, SavesAreCurrent
  <2>2. save'[p] \in SaveState /\ save'[p].pc = "rename"
    <3> DEFINE s == save[p]
               t == save'[p]
    <3>1. /\ t = [s EXCEPT !.pc = "rename", !.data = NoSettings, !.fd = "tmp"]
          /\ s \in SaveState
      BY <1>3, <1>9
    <3> HIDE DEF s, t
    <3>2. t \in SaveState /\ t.pc = "rename"
      BY <3>1, WrittenState
    <3> QED
      BY <3>2 DEF t
  <2>3. tmp' = Whole(cfg) /\ tmp' \in File
    BY <1>3, <1>9, <2>1, FilesTypes
  <2> QED
    BY <1>3, <1>4, <1>5, <1>9, <2>2, <2>3
<1>10. CASE /\ save[p].pc = "rename" /\ file' = tmp /\ tmp' = Blank("absent")
            /\ save'[p] = [IdleSave EXCEPT !.pc = "ok"]
  <2>1. file' = Whole(cfg) /\ file' \in File /\ file'.data = cfg
    BY <1>3, <1>10, FilesTypes DEF FilesInv, SavesAreCurrent
  <2>2. save'[p] \in SaveState /\ save'[p].pc = "ok"
    BY <1>3, <1>10, EndedState
  <2>3. tmp' \in File
    BY <1>10, FilesTypes DEF Kinds
  <2>4. E.pc \in {"idle", "saving"}
    BY <1>1, ProberAlone, AdminAssumption DEF E
  <2>5. FileSound'
    BY <1>1, <2>1, <2>4, SettingsSound DEF FileSound, Sound
  <2> QED
    BY <1>4, <2>1, <2>2, <2>3, <2>5
<1>11. CASE /\ UNCHANGED file /\ tmp' \in {tmp, Blank("torn")}
            /\ save'[p] = [IdleSave EXCEPT !.pc = "failed"]
  <2>1. tmp' \in File
    BY <1>3, <1>11, FilesTypes DEF Kinds
  <2>2. save'[p] \in SaveState /\ save'[p].pc = "failed"
    BY <1>3, <1>11, EndedState
  <2> QED
    BY <1>3, <1>4, <1>5, <1>11, <2>1, <2>2
<1> QED
  BY <1>6, <1>7, <1>8, <1>9, <1>10, <1>11, InSaveEffect

\* A goroutine copies, saves or returns.
LEMMA FilesPersist ==
    ASSUME FileInv, CallInv, CallInv', FileInv', PoolInv, BoundInv, MirrorInv, FilesInv,
           NEW p \in Savers, PersistStep(p)
    PROVE  FilesInv'
<1>1. CASE Snapshot(p)
  BY <1>1 DEF Snapshot, settingsVars, history, FilesInv, FilesTyped, SavesAreCurrent, FileSound, Sound
<1>2. CASE Assign(p)
  <2>1. call[p].pc = "assign"
    BY <1>2, AssignEffect
  <2>2. CallSave(p) /\ UNCHANGED <<file, tmp, issued, loose>>
    BY <1>2 DEF Assign, history
  <2>3. \A q \in Savers : q # p => save[q].pc = "idle"
    BY <2>1, Alone DEF CallInv, GoodCalls
  <2>4. \A q \in Savers : save'[q].pc \in {"idle", "workers"}
    BY <2>2, <2>3, CallSaveEffect
  <2> QED
    BY <2>2, <2>4, FilesKept DEF CallSave
<1>3. CASE InSave(p)
  BY <1>3, FilesInSave
<1>4. ASSUME NEW ok, Return(p, ok) PROVE FilesInv'
  <2>1. /\ save'[p] = IdleSave /\ \A q \in Savers : q # p => save'[q] = save[q]
        /\ UNCHANGED <<cfg, file, tmp, issued, loose>>
    BY <1>4, ReturnEffect DEF Return
  <2>2. save' \in [Savers -> SaveState]
    BY <1>4, FilesTypes DEF Return, FilesInv, FilesTyped
  <2>3. IdleSave.pc = "idle"
    BY DEF IdleSave
  <2>4. SavesAreCurrent'
    BY <2>1, <2>3 DEF FilesInv, SavesAreCurrent
  <2> QED
    BY <2>1, <2>2, <2>4 DEF FilesInv, FilesTyped, FileSound, Sound
<1> QED
  BY <1>1, <1>2, <1>3, <1>4 DEF PersistStep, Resync, ReturnOk, ReturnError

----------------------------------------------------------------------------
(* What a call that returned 200 has promised. *)

\* What the settings say of the entry with this id, and of everything a call
\* that returned 200 has left.
EnabledIn(list, id) == \E j \in 1..Len(list) : list[j].id = id /\ list[j].enabled = TRUE
Promise(s) == [known |-> TRUE, workers |-> s.workers,
               enabled |-> [id \in Listed(s.proxies) |-> EnabledIn(s.proxies, id)]]

AckInv ==
    acked.known =>
        /\ E.pc = "idle" /\ file.kind = "whole" /\ acked = Promise(file.data)
        /\ up => acked = Outcome

\* A list that mirrors the pool says which entries are enabled.
LEMMA EnabledMirrored ==
    ASSUME NEW T, NEW ids \in Seq(T), NEW entries, NEW list,
           Lists(ids, DOMAIN entries), Mirrors(list, ids, entries),
           \A id \in DOMAIN entries : entries[id] \in Entry
    PROVE  [id \in Range(ids) |-> (IF id \in DOMAIN entries THEN entries[id] ELSE ZeroEntry).enabled]
             = [id \in Listed(list) |-> EnabledIn(list, id)]
<1>1. Range(ids) = DOMAIN entries
  BY ListsCount
<1>2. Listed(list) = DOMAIN entries
  <2>1. \A d \in DOMAIN entries : d \in Listed(list)
    BY DEF Lists, Mirrors, Listed
  <2>2. \A d \in Listed(list) : d \in DOMAIN entries
    BY DEF Lists, Mirrors, Listed
  <2> QED
    BY <2>1, <2>2
<1>3. ASSUME NEW id \in DOMAIN entries PROVE entries[id].enabled = EnabledIn(list, id)
  <2>1. PICK i \in 1..Len(ids) : ids[i] = id
    BY DEF Lists
  <2>2. list[i].id = id /\ list[i].enabled = entries[id].enabled
    BY <2>1 DEF Mirrors
  <2>3. \A j \in 1..Len(list) : list[j].id = id => j = i
    BY <2>1 DEF Mirrors, Lists
  <2>4. entries[id].enabled \in BOOLEAN
    BY DEF Entry
  <2>5. i \in 1..Len(list)
    BY DEF Mirrors
  <2>6. entries[id].enabled = TRUE <=> EnabledIn(list, id)
    BY <2>2, <2>3, <2>5 DEF EnabledIn
  <2> QED
    BY <2>4, <2>6 DEF EnabledIn
<1> QED
  BY <1>1, <1>2, <1>3

\* While the settings have the list of the pool, they say what the call did.
LEMMA OutcomeIsPromise ==
    ASSUME PoolInv, MirrorInv, E.pc \in {"idle", "saving"}
    PROVE  Outcome = Promise(cfg)
<1>1. /\ Lists(order, DOMAIN items) /\ Mirrors(cfg.proxies, order, items)
      /\ order \in Seq(ProxyIds) /\ \A id \in DOMAIN items : items[id] \in Entry
  BY DEF PoolInv, OrderInv, PoolTyped, MirrorInv
<1>2. [id \in Range(order) |-> (IF id \in DOMAIN items THEN items[id] ELSE ZeroEntry).enabled]
        = [id \in Listed(cfg.proxies) |-> EnabledIn(cfg.proxies, id)]
  BY <1>1, EnabledMirrored
<1> QED
  BY <1>2 DEF Outcome, Promise, ItemAt

\* The same after a step.
LEMMA OutcomeIsPromiseNext ==
    ASSUME PoolInv', MirrorInv', E'.pc \in {"idle", "saving"}
    PROVE  Outcome' = Promise(cfg')
<1>1. /\ Lists(order', DOMAIN items') /\ Mirrors(cfg'.proxies, order', items')
      /\ order' \in Seq(ProxyIds) /\ \A id \in DOMAIN items' : items'[id] \in Entry
  BY DEF PoolInv, OrderInv, PoolTyped, MirrorInv
<1>2. [id \in Range(order') |-> (IF id \in DOMAIN items' THEN items'[id] ELSE ZeroEntry).enabled]
        = [id \in Listed(cfg'.proxies) |-> EnabledIn(cfg'.proxies, id)]
  BY <1>1, EnabledMirrored
<1> QED
  BY <1>2 DEF Outcome, Promise, ItemAt

\* A call that begins takes the promise back.
LEMMA AckEditor ==
    ASSUME FileInv, CallInv, AckInv, NewEdit \/ EditorStep
    PROVE  AckInv'
<1>1. CASE NewEdit
  <2>1. acked' = Unknown
    BY <1>1 DEF NewEdit, BeginImport, BeginRemove, BeginToggle, BeginPrune, BeginDelete,
                EditWorker, Begin
  <2> QED
    BY <2>1 DEF AckInv, Unknown
<1>2. CASE EditorStep
  <2>1. E.pc # "idle"
    BY <1>2 DEF EditorStep, ImportProxy, BindWorker, EndImport, ShiftOrder, ShrinkOrder,
                CompactWorkers, CutWorkers, ReadItem, WriteItem, At, E
  <2>2. acked' = acked
    BY <1>2 DEF EditorStep, ImportProxy, BindWorker, EndImport, ShiftOrder, ShrinkOrder,
                CompactWorkers, CutWorkers, ReadItem, WriteItem, history
  <2> QED
    BY <2>1, <2>2 DEF AckInv
<1> QED
  BY <1>1, <1>2

\* What a call leaves does not depend on which entries are usable.
LEMMA OutcomeKept ==
    ASSUME UNCHANGED order, cfg'.workers = cfg.workers, DOMAIN items' = DOMAIN items,
           \A id \in DOMAIN items : items'[id].enabled = items[id].enabled
    PROVE  Outcome' = Outcome
<1>1. \A id \in Range(order) : ItemAt(id)'.enabled = ItemAt(id).enabled
  BY DEF ItemAt
<1> QED
  BY <1>1 DEF Outcome

\* A probe keeps what the last call promised.
LEMMA AckProber ==
    ASSUME FileInv, CallInv, PoolInv, AckInv, NEW p \in Probers, BeginProbe(p) \/ ProberStep(p)
    PROVE  AckInv'
<1>1. UNCHANGED <<cfg, file, order, acked, up>>
  BY DEF BeginProbe, ProberStep, ReadUsable, WriteUsable, EndProbe, settingsVars, history, poolVars
<1>2. Others(p)
  BY BeginProbeEffect, ReadUsableEffect, WriteUsableEffect, EndProbeEffect DEF ProberStep
<1>3. E' = E
  BY <1>2, AdminAssumption DEF Others, E
<1>4. /\ DOMAIN items' = DOMAIN items
      /\ \A id \in DOMAIN items : items'[id].enabled = items[id].enabled
  <2>1. CASE WriteUsable(p)
    <3>1. call[p].pc = "set usable" /\ items' = Put(call[p].target, call[p].entry)
      BY <2>1, WriteUsableEffect
    <3> QED
      BY <3>1 DEF Put, PoolInv, ProberTargets
  <2> QED
    BY <2>1 DEF BeginProbe, ProberStep, ReadUsable, EndProbe, poolVars
<1>5. Outcome' = Outcome
  BY <1>1, <1>4, OutcomeKept
<1> QED
  BY <1>1, <1>3, <1>5 DEF AckInv

\* So does saving its results; a call that returns 200 makes the promise.
LEMMA AckPersist ==
    ASSUME FileInv, CallInv, PoolInv, BoundInv, MirrorInv, FilesInv, AckInv,
           NEW p \in Savers, PersistStep(p)
    PROVE  AckInv'
<1>1. UNCHANGED <<order, items, up>> /\ up
  BY DEF PersistStep, Snapshot, Assign, InSave, Resync, ReturnOk, ReturnError, Return, poolVars, At
<1>2. ASSUME cfg'.workers = cfg.workers PROVE Outcome' = Outcome
  BY <1>1, <1>2, OutcomeKept
<1>3. ASSUME p = Editor, call[p].pc # "idle", acked' = acked PROVE AckInv'
  BY <1>3 DEF AckInv, E
<1>4. ASSUME p # Editor, Others(p), cfg'.workers = cfg.workers, UNCHANGED <<file, acked>>
      PROVE  AckInv'
  <2>1. E' = E
    BY <1>4, AdminAssumption DEF Others, E
  <2> QED
    BY <1>1, <1>2, <1>4, <2>1 DEF AckInv
<1>5. CASE Snapshot(p)
  BY <1>3, <1>4, <1>5, SnapshotEffect DEF Snapshot, settingsVars, history
<1>6. CASE Assign(p)
  <2>1. Others(p) /\ call[p].pc = "assign"
    BY <1>6, AssignEffect
  <2>2. cfg'.workers = cfg.workers /\ UNCHANGED <<file, acked>>
    BY <1>6 DEF Assign, history, BoundInv, Settings
  <2> QED
    BY <1>3, <1>4, <2>1, <2>2
<1>7. CASE InSave(p)
  <2>1. call' = call /\ call[p].pc = "saving" /\ cfg' = cfg /\ acked' = acked
    BY <1>7, InSaveEffect DEF InSave, history
  <2>2. CASE p = Editor
    BY <1>3, <2>1, <2>2
  <2>3. CASE p # Editor /\ file' = file
    BY <1>4, <2>1, <2>3 DEF Others
  <2>4. CASE p # Editor /\ save[p].pc = "rename" /\ file' = tmp
    <3>1. file' = Whole(cfg)
      BY <2>4 DEF FilesInv, SavesAreCurrent
    <3>2. E.pc = "idle"
      BY <2>1, <2>4, ProberAlone, AdminAssumption
    <3>3. Outcome = Promise(cfg) /\ Outcome' = Outcome
      BY <1>2, <2>1, <3>2, OutcomeIsPromise
    <3>4. file'.kind = "whole" /\ file'.data = cfg
      BY <3>1 DEF Whole
    <3> QED
      BY <1>1, <2>1, <3>3, <3>4 DEF AckInv, E
  <2> QED
    BY <1>7, <2>2, <2>3, <2>4, InSaveEffect
<1>8. ASSUME NEW ok, Return(p, ok), call[p].pc = "saving", ok = TRUE => save[p].pc = "ok",
             ok \in BOOLEAN
      PROVE  AckInv'
  <2>1. /\ Others(p) /\ call'[p].pc = "idle" /\ UNCHANGED <<cfg, file>>
        /\ acked' = IF p = Editor /\ ok THEN Outcome ELSE acked
    BY <1>8, ReturnEffect DEF Return
  <2>2. CASE p # Editor
    BY <1>4, <2>1, <2>2
  <2>3. CASE p = Editor /\ ok = FALSE
    BY <1>3, <1>8, <2>1, <2>3
  <2>4. CASE p = Editor /\ ok = TRUE
    <3>1. file = Whole(cfg)
      BY <1>8, <2>4 DEF FilesInv, SavesAreCurrent
    <3>2. Outcome = Promise(cfg) /\ Outcome' = Outcome
      BY <1>2, <1>8, <2>1, <2>4, OutcomeIsPromise DEF E
    <3>3. file'.kind = "whole" /\ file'.data = cfg
      BY <2>1, <3>1 DEF Whole
    <3> QED
      BY <2>1, <2>4, <3>2, <3>3 DEF AckInv, E
  <2> QED
    BY <1>8, <2>2, <2>3, <2>4
<1>9. CASE Resync(p) \/ ReturnOk(p)
  BY <1>8, <1>9 DEF Resync, ReturnOk, At
<1>10. CASE ReturnError(p)
  BY <1>8, <1>10 DEF ReturnError, At
<1> QED
  BY <1>5, <1>6, <1>7, <1>9, <1>10 DEF PersistStep

----------------------------------------------------------------------------
(* Crash, restart, and the theorems. *)

\* After a crash there is nothing in memory.
LEMMA CrashClears ==
    ASSUME FileInv, BoundInv, FilesInv, PoolInv, AckInv, Crash
    PROVE  (PoolInv /\ BoundInv /\ MirrorInv /\ FilesInv /\ AckInv)'
<1>1. /\ \A p \in Savers : call'[p] = IdleCall /\ save'[p] = IdleSave
      /\ save' = [p \in Savers |-> IdleSave]
      /\ E' = IdleCall /\ items' = <<>> /\ order' = <<>> /\ rot' = <<>> /\ cfg' = NoSettings
      /\ UNCHANGED <<file, tmp, issued, loose, acked>> /\ ~up'
  BY AdminAssumption DEF Crash, E
<1>2. /\ IdleCall.pc = "idle" /\ IdleCall.op # "workers" /\ IdleSave.pc = "idle"
      /\ NoSettings \in Settings /\ NoSettings.workers = <<>> /\ NoSettings.proxies = <<>>
      /\ IdleSave \in SaveState
  BY FilesTypes DEF IdleCall, IdleSave, NoSettings, None
<1>3. PoolInv'
  <2>1. DOMAIN items' = {} /\ order' \in Seq(ProxyIds) /\ Len(order') = 0
    BY <1>1
  <2>2. Lists(order', DOMAIN items')
    BY <2>1 DEF Lists
  <2>3. PoolTyped'
    BY <1>1, <2>1 DEF PoolInv, PoolTyped
  <2>4. OrderInv' /\ EditorTarget'
    BY <1>1, <1>2, <2>2 DEF OrderInv, EditorTarget
  <2>5. \A p \in Probers : call'[p].pc = "idle"
    BY <1>1, <1>2, AdminAssumption
  <2> QED
    BY <2>3, <2>4, <2>5 DEF PoolInv, ProberTargets
<1>4. BoundInv'
  BY <1>1, <1>2 DEF BoundInv, AllBound
<1>5. MirrorInv'
  BY <1>1, <1>2 DEF MirrorInv, ListsPending, Mirrors
<1>6. FilesInv'
  BY <1>1, <1>2 DEF FilesInv, FilesTyped, SavesAreCurrent, FileSound, Sound
<1>7. AckInv'
  BY <1>1, <1>2 DEF AckInv
<1> QED
  BY <1>3, <1>4, <1>5, <1>6, <1>7

\* Of a list of entries with distinct ids Restore takes all.
LEMMA BootEffect ==
    ASSUME FilesInv, issued \subseteq ProxyIds, Boot
    PROVE  /\ Loaded \in Settings /\ Sound(Loaded)
           /\ order' \in Seq(ProxyIds) /\ Len(order') = Len(Loaded.proxies)
           /\ \A k \in 1..Len(order') : order'[k] = Loaded.proxies[k].id
           /\ DOMAIN items' = Listed(Loaded.proxies)
           /\ \A k \in 1..Len(order') : items'[order'[k]] = Loaded.proxies[k]
<1>1. Loaded \in Settings /\ Sound(Loaded)
  <2>1. CASE file.kind = "whole"
    BY <2>1 DEF FilesInv, FilesTyped, File, FileSound, Loaded
  <2>2. CASE file.kind # "whole"
    <3>1. Loaded = DefaultSettings /\ DefaultSettings \in Settings
      BY <2>2, FilesTypes DEF Loaded
    <3>2. /\ Len(DefaultSettings.proxies) = 0 /\ Len(DefaultSettings.workers) = 1
          /\ DefaultSettings.workers[1].proxy = None
      BY DEF DefaultSettings
    <3>3. Sound(DefaultSettings)
      BY <3>2 DEF Sound, Listed, AllBound, Bound
    <3> QED
      BY <3>1, <3>3
  <2> QED
    BY <2>1, <2>2
<1> DEFINE list == Loaded.proxies
           taken == ElementsAt(list, Restorable(list))
<1>2. /\ order' = [k \in 1..Len(taken) |-> taken[k].id]
      /\ items' = [id \in Range(order') |->
                     list[CHOOSE i \in Restorable(list) : list[i].id = id]]
  BY DEF Boot
<1>3. /\ list \in Seq(Entry) /\ Len(list) \in Nat
      /\ \A i \in 1..Len(list) : list[i].id \in ProxyIds
      /\ \A i, j \in 1..Len(list) : list[i].id = list[j].id => i = j
  BY <1>1 DEF Settings, Sound, Listed
<1> HIDE DEF list
<1>4. Restorable(list) = 1..Len(list)
  <2>1. \A i \in 1..Len(list) : list[i].id # None
    BY <1>3, SettingsAssumption DEF None
  <2> QED
    BY <1>3, <2>1 DEF Restorable
<1>5. taken = list
  BY <1>3, <1>4, ElementsAtAll
<1> HIDE DEF taken
<1>6. /\ order' \in Seq(ProxyIds) /\ Len(order') = Len(list)
      /\ \A k \in 1..Len(list) : order'[k] = list[k].id
  BY <1>2, <1>3, <1>5
<1>7. Range(order') = Listed(list)
  <2>1. DOMAIN order' = 1..Len(list)
    BY <1>2, <1>3, <1>5
  <2> QED
    BY <1>6, <2>1 DEF Range, Listed
<1>8. \A k \in 1..Len(list) : (CHOOSE i \in Restorable(list) : list[i].id = list[k].id) = k
  BY <1>3, <1>4
<1>9. \A k \in 1..Len(list) : items'[list[k].id] = list[k]
  <2> SUFFICES ASSUME NEW k \in 1..Len(list) PROVE items'[list[k].id] = list[k]
    OBVIOUS
  <2>1. list[k].id \in Range(order')
    BY <1>7 DEF Listed
  <2> QED
    BY <1>2, <1>8, <2>1
<1>10. DOMAIN items' = Listed(list)
  BY <1>2, <1>7
<1> QED
  BY <1>1, <1>6, <1>9, <1>10 DEF list

\* After a start the memory is what settings.json says.
LEMMA BootRestores ==
    ASSUME FileInv, CallInv, CallInv', PoolInv, BoundInv, FilesInv, AckInv, Boot
    PROVE  (PoolInv /\ BoundInv /\ MirrorInv /\ FilesInv /\ AckInv)'
<1> DEFINE s == Loaded
<1>1. /\ s \in Settings /\ Sound(s)
      /\ order' \in Seq(ProxyIds) /\ Len(order') = Len(s.proxies)
      /\ \A k \in 1..Len(order') : order'[k] = s.proxies[k].id
      /\ DOMAIN items' = Listed(s.proxies)
      /\ \A k \in 1..Len(order') : items'[order'[k]] = s.proxies[k]
  BY BootEffect DEF PoolInv, PoolTyped
<1>2. /\ cfg' = s /\ rot' = s.workers /\ up'
      /\ UNCHANGED <<file, tmp, save, call, issued, loose, acked>>
  BY DEF Boot, history
<1>3. /\ \A p \in Savers : call'[p] = IdleCall
      /\ IdleCall.pc = "idle" /\ IdleCall.op # "workers" /\ E' = IdleCall
  <2>1. ~up
    BY DEF Boot
  <2>2. \A p \in Savers : call'[p] = IdleCall
    BY <1>2, <2>1 DEF CallInv, GoodCalls, GoodCall
  <2> QED
    BY <2>2, AdminAssumption DEF IdleCall, None, E
<1> HIDE DEF s
<1>4. \A p \in Savers : save[p].pc = "idle"
  BY <1>2, <1>3 DEF CallInv, GoodCalls
<1>5. s.proxies \in Seq(Entry) /\ s.workers \in Seq(Worker) /\ Len(s.proxies) \in Nat
  BY <1>1 DEF Settings
<1>6. Lists(order', DOMAIN items')
  <2>1. \A d \in DOMAIN items' : \E i \in 1..Len(order') : order'[i] = d
    BY <1>1 DEF Listed
  <2>2. \A i \in 1..Len(order') : order'[i] \in DOMAIN items'
    BY <1>1 DEF Listed
  <2>3. \A i, j \in 1..Len(order') : order'[i] = order'[j] => i = j
    BY <1>1 DEF Sound
  <2> QED
    BY <2>1, <2>2, <2>3 DEF Lists
<1>7. PoolInv'
  <2>1. DOMAIN items' \subseteq issued' /\ issued' \subseteq ProxyIds
    BY <1>1, <1>2 DEF Sound, PoolInv, PoolTyped
  <2>2. \A id \in DOMAIN items' : items'[id] \in Entry /\ items'[id].id = id
    BY <1>1, <1>5, <1>6 DEF Lists
  <2>3. PoolTyped' /\ OrderInv' /\ EditorTarget'
    BY <1>1, <1>3, <1>6, <2>1, <2>2 DEF PoolTyped, OrderInv, EditorTarget
  <2>4. ProberTargets'
    BY <1>3, AdminAssumption DEF ProberTargets
  <2> QED
    BY <2>3, <2>4 DEF PoolInv
<1>8. BoundInv'
  BY <1>1, <1>2, <1>3, <1>5 DEF BoundInv, Sound, Allowed
<1>9. MirrorInv'
  BY <1>1, <1>2, <1>3 DEF MirrorInv, ListsPending, Mirrors
<1>10. FilesInv'
  BY <1>2, <1>4 DEF FilesInv, FilesTyped, SavesAreCurrent, FileSound, Sound
<1>11. AckInv'
  <2>1. Outcome' = Promise(cfg')
    BY <1>3, <1>7, <1>9, OutcomeIsPromiseNext
  <2>2. file.kind = "whole" => cfg' = file.data
    BY <1>2 DEF Loaded, s
  <2> QED
    BY <1>2, <1>3, <2>1, <2>2 DEF AckInv
<1> QED
  BY <1>7, <1>8, <1>9, <1>10, <1>11

\* The invariant as a whole.
AdminInv ==
    /\ FileInv /\ CallInv /\ RotInv
    /\ PoolInv /\ BoundInv /\ MirrorInv
    /\ FilesInv /\ AckInv
    /\ up \in BOOLEAN /\ failed \in BOOLEAN

\* The initial state.
LEMMA AdminInvInit ==
    AdminInit => AdminInv
<1> SUFFICES ASSUME AdminInit PROVE AdminInv
  OBVIOUS
<1>1. FileInv /\ CallInv
  BY FileInvInit, CallInvInit
<1>2. /\ \A p \in Savers : call[p] = IdleCall /\ save[p] = IdleSave
      /\ save = [p \in Savers |-> IdleSave]
      /\ E = IdleCall /\ items = <<>> /\ order = <<>> /\ rot = cfg.workers
      /\ cfg = DefaultSettings /\ file = Blank("absent") /\ tmp = Blank("absent")
      /\ issued = {} /\ acked = Unknown /\ up = TRUE /\ failed = FALSE
  BY AdminAssumption DEF AdminInit, SettingsInit, E
<1>3. /\ IdleCall.pc = "idle" /\ IdleCall.op # "workers" /\ IdleSave.pc = "idle"
      /\ DefaultSettings \in Settings /\ IdleSave \in SaveState
      /\ Blank("absent") \in File /\ Blank("absent").kind = "absent"
  BY FilesTypes DEF IdleCall, IdleSave, None, Kinds
<1>4. /\ Len(DefaultSettings.proxies) = 0 /\ Len(DefaultSettings.workers) = 1
      /\ DefaultSettings.workers[1].proxy = None /\ DefaultSettings.workers \in Seq(Worker)
  BY <1>3 DEF DefaultSettings, Settings
<1>5. PoolInv
  <2>1. DOMAIN items = {} /\ order \in Seq(ProxyIds) /\ Len(order) = 0
    BY <1>2
  <2>2. Lists(order, DOMAIN items)
    BY <2>1 DEF Lists
  <2>3. PoolTyped /\ OrderInv /\ EditorTarget
    BY <1>2, <1>3, <2>1, <2>2 DEF PoolTyped, OrderInv, EditorTarget
  <2>4. ProberTargets
    BY <1>2, <1>3, AdminAssumption DEF ProberTargets
  <2> QED
    BY <2>3, <2>4 DEF PoolInv
<1>6. BoundInv
  BY <1>2, <1>3, <1>4 DEF BoundInv, AllBound, Bound
<1>7. MirrorInv
  BY <1>2, <1>3, <1>4 DEF MirrorInv, ListsPending, Mirrors
<1>8. FilesInv
  BY <1>2, <1>3 DEF FilesInv, FilesTyped, SavesAreCurrent, FileSound
<1>9. AckInv
  BY <1>2 DEF AckInv, Unknown
<1>10. RotInv
  BY <1>2 DEF RotInv
<1> QED
  BY <1>1, <1>2, <1>5, <1>6, <1>7, <1>8, <1>9, <1>10 DEF AdminInv

\* Every step of the specification.
LEMMA AdminInvStep ==
    AdminInv /\ [SerialNext]_adminVars => AdminInv'
<1> SUFFICES ASSUME AdminInv, [SerialNext]_adminVars PROVE AdminInv'
  OBVIOUS
<1>1. FileInv' /\ CallInv' /\ RotInv'
  BY FileInvStep, CallInvStep, RotInvStep DEF AdminInv, SerialNext
<1>2. up' \in BOOLEAN /\ failed' \in BOOLEAN
  BY DEF AdminInv, SerialNext, AdminNext, NewEdit, BeginImport, BeginRemove, BeginToggle,
         BeginPrune, BeginDelete, EditWorker, EditorStep, ImportProxy, BindWorker, EndImport,
         ShiftOrder, ShrinkOrder, CompactWorkers, CutWorkers, ReadItem, WriteItem, BeginProbe,
         ProberStep, ReadUsable, WriteUsable, EndProbe, PersistStep, Snapshot, Assign, InSave,
         Resync, ReturnOk, ReturnError, Return, Crash, Boot, adminVars, history
<1>3. CASE NewEdit
  BY <1>1, <1>2, <1>3, PoolNewEdit, BoundNewEdit, MirrorNewEdit, FilesNewEdit, AckEditor
     DEF AdminInv
<1>4. CASE EditorStep
  <2>1. PoolInv'
    BY <1>1, <1>4, PoolEditor DEF AdminInv
  <2> QED
    BY <1>1, <1>2, <1>4, <2>1, BoundEditor, MirrorEditor, FilesEditor, AckEditor DEF AdminInv
<1>5. ASSUME NEW p \in Probers, BeginProbe(p) \/ ProberStep(p) PROVE AdminInv'
  BY <1>1, <1>2, <1>5, PoolProber, BoundProber, MirrorProber, FilesProber, AckProber
     DEF AdminInv
<1>6. ASSUME NEW p \in Savers, PersistStep(p) PROVE AdminInv'
  BY <1>1, <1>2, <1>6, PoolPersist, BoundPersist, MirrorPersist, FilesPersist, AckPersist
     DEF AdminInv
<1>7. CASE Crash
  BY <1>1, <1>2, <1>7, CrashClears DEF AdminInv
<1>8. CASE Boot
  BY <1>1, <1>2, <1>8, BootRestores DEF AdminInv
<1>9. CASE UNCHANGED adminVars
  <2>1. UNCHANGED <<cfg, file, tmp, save, items, order, rot, call, issued, loose, acked, up>> /\ E' = E
    BY <1>9 DEF adminVars, settingsVars, poolVars, history, E
  <2>2. PoolInv' /\ BoundInv' /\ MirrorInv'
    BY <2>1 DEF AdminInv, PoolInv, PoolTyped, OrderInv, EditorTarget, ProberTargets, BoundInv,
                Allowed, MirrorInv, ListsPending
  <2>3. FilesInv'
    BY <2>1 DEF AdminInv, FilesInv, FilesTyped, SavesAreCurrent, FileSound, Sound
  <2>4. Outcome' = Outcome
    BY <2>1 DEF Outcome, ItemAt
  <2>5. AckInv'
    BY <2>1, <2>4 DEF AdminInv, AckInv
  <2> QED
    BY <1>1, <1>2, <2>2, <2>3, <2>5 DEF AdminInv
<1> QED
  BY <1>3, <1>4, <1>5, <1>6, <1>7, <1>8, <1>9 DEF SerialNext, AdminNext

\* Hence the invariant always holds.
LEMMA AdminInvIsInvariant ==
    SerialSpec => []AdminInv
BY AdminInvInit, AdminInvStep, PTL DEF SerialSpec

\* Outside Remove the pool's order lists every entry of its map, so each is shown,
\* saved and restored; SerialSpec: no result of a probe is recorded between the steps
\* of a call.
THEOREM NothingIsHidden == SerialSpec => []NoHiddenEntry
<1>1. AdminInv => NoHiddenEntry
  <2> SUFFICES ASSUME AdminInv, E.pc \notin {"shift", "shrink"}
               PROVE  DOMAIN items \subseteq Range(order)
    BY DEF NoHiddenEntry, E
  <2>1. order \in Seq(ProxyIds) /\ Lists(order, DOMAIN items)
    BY DEF AdminInv, PoolInv, PoolTyped, OrderInv
  <2> QED
    BY <2>1, ListsCount
<1> QED
  BY <1>1, AdminInvIsInvariant, PTL

\* A call that returned 200 stays done until the next call: the workers and the
\* enabled entries it left are in memory, and after a crash at any step in what the
\* next start loads.  SerialSpec: nobody records or saves results of probes while a
\* call is under way; saves of results that begin after it may fail or be cut off.
THEOREM AckedEditsAreKept == SerialSpec => []AckedEditsSurvive
<1>1. AdminInv => AckedEditsSurvive
  BY DEF AdminInv, AckInv, AckedEditsSurvive, AtRest
<1> QED
  BY <1>1, AdminInvIsInvariant, PTL

\* Between calls the rotator has the configured workers unless a call failed to save
\* since the last one that pushed them; that holds after a restart too.  SerialSpec.
THEOREM RotatorIsInSync == SerialSpec => []RotatorFollows
<1>1. AdminInv => RotatorFollows
  <2> SUFFICES ASSUME AdminInv, AtRest, ~failed PROVE rot = cfg.workers
    BY DEF RotatorFollows
  <2>1. FileInv /\ CallInv /\ RotInv
    BY DEF AdminInv
  <2>2. E.op = None
    BY <2>1, EditorAt DEF AtRest, Idle, GoodCall, E, IdleCall
  <2> QED
    BY <2>1, <2>2 DEF RotInv, Resyncs, None, AtRest
<1> QED
  BY <1>1, AdminInvIsInvariant, PTL

\* Between calls a worker the rotator hands out names no proxy, one that both the
\* pool and the settings have, or one that it was bound to by a call that named an
\* id the pool did not have (adminapi.go:417-425 stores what the request says).
\* SerialSpec: nobody records or saves results of probes while a call is under way.
THEOREM BindingsAreKept == SerialSpec => []BindingsResolve
<1>1. AdminInv => BindingsResolve
  <2> SUFFICES ASSUME AdminInv, AtRest, ~failed,
                      NEW i \in 1..Len(rot), rot[i].proxy \notin loose \cup {None}
               PROVE  Resolves(rot[i].proxy)
    BY DEF BindingsResolve
  <2>1. FileInv /\ CallInv /\ RotInv /\ E.pc = "idle"
    BY DEF AdminInv, AtRest, Idle, E
  <2>2. E.op = None
    BY <2>1, EditorAt DEF GoodCall, IdleCall
  <2>3. rot = cfg.workers
    BY <2>1, <2>2 DEF RotInv, Resyncs, None, AtRest
  <2>4. rot[i].proxy \in DOMAIN items
    BY <2>1, <2>3 DEF AdminInv, BoundInv, AllBound, Bound, Allowed
  <2>5. /\ Lists(order, DOMAIN items) /\ order \in Seq(ProxyIds)
        /\ Mirrors(cfg.proxies, order, items)
    BY <2>1 DEF AdminInv, PoolInv, PoolTyped, OrderInv, MirrorInv
  <2>6. Range(order) = DOMAIN items
    BY <2>5, ListsCount
  <2> QED
    BY <2>4, <2>5, <2>6 DEF Lists, Mirrors, Resolves
<1> QED
  BY <1>1, AdminInvIsInvariant, PTL

----------------------------------------------------------------------------
(***************************************************************************)
(* The types, whatever overlaps: an invariant of AdminSpec.  A probe may   *)
(* store an entry again that a removal has just taken out, so the map may  *)
(* have entries that the order does not list, but never the reverse.       *)
(***************************************************************************)

Within(s, D) ==
    /\ \A i \in 1..Len(s) : s[i] \in D
    /\ \A i, j \in 1..Len(s) : s[i] = s[j] => i = j

OpenTyped ==
    /\ order \in Seq(ProxyIds) /\ DOMAIN items \subseteq ProxyIds
    /\ \A id \in DOMAIN items : items[id] \in Entry /\ items[id].id = id

OpenOrder ==
    /\ E.pc \notin {"shift", "shrink"} => Within(order, DOMAIN items)
    /\ E.pc = "shift" =>
          \E id \in ProxyIds : E.ids = {id} /\ Within(order, DOMAIN items \cup {id})
    /\ E.pc = "shrink" => Len(order) > 0 /\ Within(Front(order), DOMAIN items)

OpenTarget ==
    /\ E.pc = "import" => \A id \in E.ids : \E i \in 1..Len(order) : order[i] = id
    /\ E.pc \in {"read", "write"} => E.target \in DOMAIN items
    /\ E.pc = "read" => E.entry.enabled \in BOOLEAN
    /\ E.pc = "write" => E.entry \in Entry /\ E.entry.id = E.target

OpenProbers ==
    \A p \in Probers : call[p].pc = "set usable" =>
        /\ call[p].target \in ProxyIds /\ call[p].entry \in Entry
        /\ call[p].entry.id = call[p].target

OpenPool == OpenTyped /\ OpenOrder /\ OpenTarget /\ OpenProbers

\* A slice within a set, and the set of its elements.
LEMMA WithinLists ==
    ASSUME NEW s, NEW D, Within(s, D)
    PROVE  Lists(s, {s[i] : i \in 1..Len(s)}) /\ {s[i] : i \in 1..Len(s)} \subseteq D
BY DEF Within, Lists

\* Shifting the elements behind a removed one, then cutting the last.
LEMMA WithinShift ==
    ASSUME NEW T, NEW s \in Seq(T), NEW D, NEW x \in T, Within(s, D \cup {x}),
           NEW i \in 1..Len(s), s[i] = x
    PROVE  LET r == Append(RemoveAt(s, i), Last(s)) IN
           r \in Seq(T) /\ Len(r) > 0 /\ Within(Front(r), D)
<1> DEFINE S == {s[k] : k \in 1..Len(s)}
           C == S \ {x}
           r == Append(RemoveAt(s, i), Last(s))
<1>1. S \subseteq D \cup {x} /\ Lists(s, S)
  BY WithinLists
<1>2. x \in S
  OBVIOUS
<1> HIDE DEF S
<1>3. C \subseteq D /\ x \notin C /\ C \cup {x} = S
  BY <1>1, <1>2
<1>4. Lists(s, C \cup {x})
  BY <1>1, <1>3
<1> HIDE DEF C
<1>5. r \in Seq(T) /\ Len(r) > 0 /\ Lists(Front(r), C)
  BY <1>3, <1>4, ListsShift
<1> QED
  BY <1>5, <1>3 DEF Lists, Within

\* Filtering into a new slice.
LEMMA WithinKept ==
    ASSUME NEW T, NEW s \in Seq(T), NEW D, Within(s, D), NEW dead,
           NEW r, r = Keep(s, LAMBDA id : id \notin dead)
    PROVE  r \in Seq(T) /\ Within(r, D \ dead)
<1> DEFINE C == {s[k] : k \in 1..Len(s)}
<1>1. C \subseteq D /\ Lists(s, C)
  BY WithinLists
<1> HIDE DEF C
<1>2. r \in Seq(T) /\ Lists(r, C \ dead)
  BY <1>1, ListsKept DEF Keep
<1> QED
  BY <1>1, <1>2 DEF Lists, Within

\* A step of the administrator's call does not touch what a prober is about to store.
LEMMA OpenProbersKept ==
    ASSUME OpenProbers, Others(Editor)
    PROVE  OpenProbers'
BY AdminAssumption DEF OpenProbers, Others

\* A step of the administrator's call that leaves the pool alone.
LEMMA OpenKept ==
    ASSUME OpenPool, UNCHANGED poolVars, Others(Editor), E.pc \notin {"shift", "shrink"},
           E'.pc \notin {"shift", "shrink"}, OpenTarget'
    PROVE  OpenPool'
BY OpenProbersKept DEF OpenPool, OpenTyped, OpenOrder, poolVars

\* The administrator begins a call: Remove and Prune take entries out.
LEMMA OpenNewEdit ==
    ASSUME CallInv, OpenPool, NewEdit
    PROVE  OpenPool'
<1>1. ASSUME NEW batch, BeginImport(batch) PROVE OpenPool'
  <2>1. UNCHANGED poolVars
    BY <1>1 DEF BeginImport
  <2>2. Others(Editor) /\ E.pc = "idle" /\ E'.pc = "import" /\ E'.ids = {}
    BY <1>1, BeginImportEffect
  <2>3. OpenTarget'
    BY <2>2 DEF OpenTarget
  <2> QED
    BY <2>1, <2>2, <2>3, OpenKept
<1>2. ASSUME NEW id \in ProxyIds, BeginRemove(id) PROVE OpenPool'
  <2>1. /\ Others(Editor) /\ E.pc = "idle" /\ E'.ids = {id}
        /\ E'.pc = (IF id \in DOMAIN items THEN "shift" ELSE "compact")
    BY <1>2, BeginRemoveEffect
  <2>2. items' = [o \in DOMAIN items \ {id} |-> items[o]] /\ UNCHANGED order
    BY <1>2 DEF BeginRemove
  <2>3. Within(order, DOMAIN items)
    BY <2>1 DEF OpenPool, OpenOrder
  <2>4. OpenTyped' /\ OpenTarget' /\ OpenProbers'
    BY <2>1, <2>2, OpenProbersKept DEF OpenPool, OpenTyped, OpenTarget
  <2>5. CASE id \in DOMAIN items
    <3>1. Within(order', DOMAIN items' \cup {id})
      BY <2>2, <2>3 DEF Within
    <3> QED
      BY <2>1, <2>4, <2>5, <3>1 DEF OpenPool, OpenOrder
  <2>6. CASE id \notin DOMAIN items
    <3>1. Within(order', DOMAIN items')
      BY <2>2, <2>3, <2>6 DEF Within
    <3> QED
      BY <2>1, <2>4, <2>6, <3>1 DEF OpenPool, OpenOrder
  <2> QED
    BY <2>5, <2>6
<1>3. ASSUME NEW id, BeginToggle(id) PROVE OpenPool'
  <2>1. UNCHANGED poolVars
    BY <1>3 DEF BeginToggle
  <2>2. /\ Others(Editor) /\ E.pc = "idle"
        /\ \/ /\ E'.pc = "read" /\ E'.target = id /\ id \in DOMAIN items
              /\ E'.entry.enabled \in BOOLEAN
           \/ E'.pc = "snapshot"
    BY <1>3, BeginToggleEffect
  <2>3. OpenTarget'
    BY <2>1, <2>2 DEF OpenTarget, poolVars
  <2> QED
    BY <2>1, <2>2, <2>3, OpenKept
<1>4. CASE BeginPrune
  <2> DEFINE dead == {id \in Range(order) : Dead(id)}
  <2>1. Others(Editor) /\ E.pc = "idle" /\ E'.pc = "compact"
    BY <1>4, BeginPruneEffect
  <2>2. /\ items' = [id \in DOMAIN items \ dead |-> items[id]]
        /\ order' = Keep(order, LAMBDA id : id \notin dead)
    BY <1>4 DEF BeginPrune
  <2> HIDE DEF dead
  <2>3. order \in Seq(ProxyIds) /\ Within(order, DOMAIN items)
    BY <2>1 DEF OpenPool, OpenTyped, OpenOrder
  <2>4. order' \in Seq(ProxyIds) /\ Within(order', DOMAIN items \ dead)
    BY <2>2, <2>3, WithinKept DEF Keep
  <2>5. DOMAIN items' = DOMAIN items \ dead
    BY <2>2
  <2>6. OpenTyped'
    BY <2>2, <2>4, <2>5 DEF OpenPool, OpenTyped
  <2> QED
    BY <2>1, <2>4, <2>5, <2>6, OpenProbersKept DEF OpenPool, OpenOrder, OpenTarget
<1>5. ASSUME NEW name, BeginDelete(name) PROVE OpenPool'
  <2>1. UNCHANGED poolVars
    BY <1>5 DEF BeginDelete
  <2>2. Others(Editor) /\ E.pc = "idle" /\ E'.pc = "compact"
    BY <1>5, BeginDeleteEffect
  <2> QED
    BY <2>1, <2>2, OpenKept DEF OpenTarget
<1>6. ASSUME NEW name, NEW proxy, EditWorker(name, proxy) PROVE OpenPool'
  <2>1. UNCHANGED poolVars
    BY <1>6 DEF EditWorker
  <2>2. Others(Editor) /\ E.pc = "idle" /\ E'.pc = "saving"
    BY <1>6, EditWorkerEffect
  <2> QED
    BY <2>1, <2>2, OpenKept DEF OpenTarget
<1> QED
  BY <1>1, <1>2, <1>3, <1>4, <1>5, <1>6 DEF NewEdit

\* The administrator's call goes on: entries are added, the order shifted.
LEMMA OpenEditor ==
    ASSUME CallInv, OpenPool, EditorStep
    PROVE  OpenPool'
<1>1. ASSUME UNCHANGED poolVars, Others(Editor), E.pc \notin {"shift", "shrink"},
             E'.pc \in {"cut", "snapshot", "saving"}
      PROVE  OpenPool'
  BY <1>1, OpenKept DEF OpenTarget
<1>2. CASE ImportProxy
  <2>1. Others(Editor) /\ E.pc = "import" /\ E'.pc = "import"
    BY <1>2, ImportProxyEffect
  <2>2. CASE E'.ids = E.ids /\ UNCHANGED poolVars
    <3>1. OpenTarget'
      BY <2>1, <2>2 DEF OpenTarget, OpenPool, poolVars
    <3> QED
      BY <2>1, <2>2, <3>1, OpenKept
  <2>3. ASSUME NEW id \in ProxyIds, \A i \in 1..Len(order) : order[i] # id,
               items' = Put(id, [id |-> id, enabled |-> TRUE, usable |-> TRUE]),
               order' = Append(order, id), E'.ids = E.ids \cup {id}
        PROVE  OpenPool'
    <3> DEFINE e == [id |-> id, enabled |-> TRUE, usable |-> TRUE]
    <3>1. e \in Entry /\ e.id = id
      BY DEF Entry
    <3>2. /\ DOMAIN items' = DOMAIN items \cup {id} /\ items'[id] = e
          /\ \A o \in DOMAIN items : o # id => items'[o] = items[o]
      BY <2>3 DEF Put
    <3> HIDE DEF e
    <3>3. order \in Seq(ProxyIds) /\ Within(order, DOMAIN items)
      BY <2>1 DEF OpenPool, OpenTyped, OpenOrder
    <3>4. order' \in Seq(ProxyIds) /\ Within(order', DOMAIN items')
      BY <2>3, <3>2, <3>3 DEF Within
    <3>5. OpenTyped'
      BY <2>3, <3>1, <3>2, <3>4 DEF OpenPool, OpenTyped
    <3>6. \A o \in E'.ids : \E i \in 1..Len(order') : order'[i] = o
      BY <2>1, <2>3, <3>3 DEF OpenPool, OpenTarget
    <3> QED
      BY <2>1, <3>4, <3>5, <3>6, OpenProbersKept DEF OpenPool, OpenOrder, OpenTarget
  <2>4. \/ E'.ids = E.ids /\ UNCHANGED poolVars
        \/ \E id \in ProxyIds :
              /\ \A i \in 1..Len(order) : order[i] # id
              /\ items' = Put(id, [id |-> id, enabled |-> TRUE, usable |-> TRUE])
              /\ order' = Append(order, id) /\ E'.ids = E.ids \cup {id}
    <3> DEFINE host == Head(E.hosts)
               e(id) == [id |-> id, enabled |-> TRUE, usable |-> TRUE]
    <3>1. CASE Seen(host)
      <4>1. UNCHANGED poolVars
        BY <1>2, <3>1 DEF ImportProxy, E
      <4>2. ASSUME NEW id, order' = Append(order, id) PROVE FALSE
        BY <4>1, <4>2 DEF OpenPool, OpenTyped, poolVars
      <4> QED
        BY <1>2, <4>1, <4>2, ImportProxyEffect
    <3>2. CASE ~Seen(host)
      <4>1. PICK id \in FreshIds(host) : order' = Append(order, id) /\ items' = Put(id, e(id))
        BY <1>2, <3>2 DEF ImportProxy, E
      <4>2. id \in ProxyIds /\ \A i \in 1..Len(order) : order[i] # id
        BY <3>2, <4>1 DEF Seen, FreshIds
      <4>3. ASSUME UNCHANGED poolVars PROVE FALSE
        <5>1. order \in Seq(ProxyIds) /\ Append(order, id) = order
          BY <4>1, <4>3 DEF OpenPool, OpenTyped, poolVars
        <5>2. Len(Append(order, id)) = Len(order) + 1 /\ Len(order) \in Nat
          BY <4>2, <5>1
        <5> QED
          BY <5>1, <5>2
      <4>4. PICK o \in ProxyIds : /\ items' = Put(o, e(o)) /\ order' = Append(order, o)
                                  /\ E'.ids = E.ids \cup {o}
        BY <1>2, <4>3, ImportProxyEffect
      <4>5. o = id
        <5>1. order \in Seq(ProxyIds) /\ Append(order, id) = Append(order, o)
          BY <4>1, <4>4 DEF OpenPool, OpenTyped
        <5>2. \A x \in ProxyIds : Append(order, x)[Len(order) + 1] = x
          BY <5>1
        <5> QED
          BY <4>2, <5>1, <5>2
      <4> QED
        BY <4>2, <4>4, <4>5
    <3> QED
      BY <3>1, <3>2
  <2> QED
    BY <2>2, <2>3, <2>4
<1>3. CASE BindWorker
  <2>1. UNCHANGED poolVars
    BY <1>3 DEF BindWorker
  <2>2. Others(Editor) /\ E.pc = "import" /\ E'.pc = "import" /\ E'.ids \subseteq E.ids
    BY <1>3, BindWorkerEffect
  <2>3. OpenTarget'
    BY <2>1, <2>2 DEF OpenTarget, OpenPool, poolVars
  <2> QED
    BY <2>1, <2>2, <2>3, OpenKept
<1>4. CASE EndImport
  BY <1>1, <1>4, EndImportEffect DEF EndImport
<1>5. CASE ShiftOrder
  <2> DEFINE i == SelectInSeq(order, LAMBDA o : o \in E.ids)
  <2>1. /\ Others(Editor) /\ E.pc = "shift"
        /\ i = 0 => E'.pc = "compact" /\ UNCHANGED order
        /\ i # 0 => E'.pc = "shrink" /\ order' = Append(RemoveAt(order, i), Last(order))
    BY <1>5, ShiftOrderEffect
  <2>2. UNCHANGED items
    BY <1>5 DEF ShiftOrder
  <2>3. order \in Seq(ProxyIds)
    BY DEF OpenPool, OpenTyped
  <2>4. PICK id \in ProxyIds : E.ids = {id} /\ Within(order, DOMAIN items \cup {id})
    BY <2>1 DEF OpenPool, OpenOrder
  <2>5. i \in 0..Len(order) /\ (i > 0 => order[i] \in E.ids)
        /\ (i = 0 => \A j \in 1..Len(order) : order[j] \notin E.ids)
    BY <2>3, FirstOf DEF SelectInSeq
  <2> HIDE DEF i
  <2>6. CASE i = 0
    <3>1. E'.pc = "compact" /\ UNCHANGED order
      BY <2>1, <2>6
    <3>2. Within(order', DOMAIN items')
      BY <2>2, <2>4, <2>5, <2>6, <3>1 DEF Within
    <3> QED
      BY <2>1, <2>2, <3>1, <3>2, OpenProbersKept DEF OpenPool, OpenTyped, OpenOrder, OpenTarget
  <2>7. CASE i # 0
    <3>1. i \in 1..Len(order) /\ order[i] = id
      BY <2>3, <2>4, <2>5, <2>7
    <3>2. E'.pc = "shrink" /\ order' = Append(RemoveAt(order, i), Last(order))
      BY <2>1, <2>7
    <3>3. order' \in Seq(ProxyIds) /\ Len(order') > 0 /\ Within(Front(order'), DOMAIN items)
      BY <2>3, <2>4, <3>1, <3>2, WithinShift
    <3> QED
      BY <2>1, <2>2, <3>2, <3>3, OpenProbersKept DEF OpenPool, OpenTyped, OpenOrder, OpenTarget
  <2> QED
    BY <2>6, <2>7
<1>6. CASE ShrinkOrder
  <2>1. Others(Editor) /\ E.pc = "shrink" /\ E'.pc = "compact"
    BY <1>6, ShrinkOrderEffect
  <2>2. UNCHANGED items /\ order' = Front(order)
    BY <1>6 DEF ShrinkOrder
  <2>3. order \in Seq(ProxyIds) /\ Len(order) > 0 /\ Within(order', DOMAIN items)
    BY <2>1, <2>2 DEF OpenPool, OpenTyped, OpenOrder
  <2>4. order' \in Seq(ProxyIds)
    BY <2>2, <2>3 DEF Front
  <2> QED
    BY <2>1, <2>2, <2>3, <2>4, OpenProbersKept DEF OpenPool, OpenTyped, OpenOrder, OpenTarget
<1>7. CASE CompactWorkers
  BY <1>1, <1>7, CompactWorkersEffect DEF CompactWorkers
<1>8. CASE CutWorkers
  BY <1>1, <1>8, CutWorkersEffect DEF CutWorkers
<1>9. CASE ReadItem
  <2>1. UNCHANGED poolVars
    BY <1>9 DEF ReadItem
  <2>2. /\ Others(Editor) /\ E.pc = "read" /\ E'.pc = "write" /\ E'.target = E.target
        /\ E'.entry = [items[E.target] EXCEPT !.enabled = E.entry.enabled]
    BY <1>9, ReadItemEffect
  <2>3. /\ E.target \in DOMAIN items /\ E.entry.enabled \in BOOLEAN
        /\ items[E.target] \in Entry /\ items[E.target].id = E.target
    BY <2>2 DEF OpenPool, OpenTyped, OpenTarget
  <2>4. E'.entry \in Entry /\ E'.entry.id = E.target
    <3> DEFINE e == items[E.target]
               b == E.entry.enabled
    <3>1. e \in Entry /\ e.id = E.target /\ b \in BOOLEAN
      BY <2>3
    <3>2. E'.entry = [e EXCEPT !.enabled = b]
      BY <2>2
    <3> HIDE DEF e, b
    <3> QED
      BY <3>1, <3>2, EnabledEntry
  <2>5. OpenTarget'
    BY <2>1, <2>2, <2>3, <2>4 DEF OpenTarget, poolVars
  <2> QED
    BY <2>1, <2>2, <2>5, OpenKept
<1>10. CASE WriteItem
  <2>1. /\ Others(Editor) /\ E.pc = "write" /\ E'.pc = "snapshot"
        /\ items' = Put(E.target, E.entry)
    BY <1>10, WriteItemEffect
  <2>2. UNCHANGED order
    BY <1>10 DEF WriteItem
  <2>3. E.target \in DOMAIN items /\ E.entry \in Entry /\ E.entry.id = E.target
    BY <2>1 DEF OpenPool, OpenTarget
  <2>4. DOMAIN items' = DOMAIN items
        /\ \A o \in DOMAIN items : items'[o] = IF o = E.target THEN E.entry ELSE items[o]
    BY <2>1, <2>3 DEF Put
  <2>5. OpenTyped' /\ OpenOrder' /\ OpenTarget'
    BY <2>1, <2>2, <2>3, <2>4 DEF OpenPool, OpenTyped, OpenOrder, OpenTarget
  <2> QED
    BY <2>1, <2>5, OpenProbersKept DEF OpenPool
<1> QED
  BY <1>2, <1>3, <1>4, <1>5, <1>6, <1>7, <1>8, <1>9, <1>10 DEF EditorStep

\* A step of another goroutine that leaves the pool alone.
LEMMA OpenKeptByProber ==
    ASSUME OpenPool, NEW p \in Probers, UNCHANGED poolVars, Others(p),
           call'[p].pc # "set usable"
    PROVE  OpenPool'
<1>1. E' = E
  BY AdminAssumption DEF Others, E
<1> QED
  BY <1>1, AdminAssumption
     DEF Others, OpenPool, OpenTyped, OpenOrder, OpenTarget, OpenProbers, poolVars

\* A probe stores an entry that may be gone by then: the map grows, if it changes.
LEMMA OpenProber ==
    ASSUME CallInv, OpenPool, NEW p \in Probers, BeginProbe(p) \/ ProberStep(p)
    PROVE  OpenPool'
<1>1. CASE BeginProbe(p)
  BY <1>1, BeginProbeEffect, OpenKeptByProber DEF BeginProbe
<1>2. ASSUME NEW id \in ProxyIds, NEW usable \in BOOLEAN, ReadUsable(p, id, usable)
      PROVE  OpenPool'
  <2>1. UNCHANGED poolVars
    BY <1>2 DEF ReadUsable
  <2>2. Others(p)
    BY <1>2, ReadUsableEffect
  <2>3. CASE call'[p].pc # "set usable"
    BY <2>1, <2>2, <2>3, OpenKeptByProber
  <2>4. CASE call'[p].pc = "set usable"
    <3>1. /\ call'[p].target = id /\ id \in DOMAIN items
          /\ call'[p].entry = WithUsable(items[id], usable)
      BY <1>2, <2>4, ReadUsableEffect
    <3>2. items[id] \in Entry /\ items[id].id = id
      BY <3>1 DEF OpenPool, OpenTyped
    <3>3. call'[p].entry \in Entry /\ call'[p].entry.id = id
      BY <1>2, <3>1, <3>2, UsableEntry
    <3>4. OpenProbers'
      BY <1>2, <2>2, <3>1, <3>3, AdminAssumption DEF Others, OpenProbers, OpenPool
    <3>5. E' = E
      BY <2>2, AdminAssumption DEF Others, E
    <3> QED
      BY <2>1, <3>4, <3>5 DEF OpenPool, OpenTyped, OpenOrder, OpenTarget, poolVars
  <2> QED
    BY <2>3, <2>4
<1>3. CASE WriteUsable(p)
  <2>1. /\ Others(p) /\ call[p].pc = "set usable" /\ call'[p].pc = "probe"
        /\ items' = Put(call[p].target, call[p].entry)
    BY <1>3, WriteUsableEffect
  <2>2. UNCHANGED order /\ p \in Savers
    BY <1>3, AdminAssumption DEF WriteUsable
  <2>3. /\ call[p].target \in ProxyIds /\ call[p].entry \in Entry
        /\ call[p].entry.id = call[p].target
    BY <2>1 DEF OpenPool, OpenProbers
  <2>4. /\ DOMAIN items' = DOMAIN items \cup {call[p].target}
        /\ items'[call[p].target] = call[p].entry
        /\ \A o \in DOMAIN items : o # call[p].target => items'[o] = items[o]
    BY <2>1 DEF Put
  <2>5. E' = E
    BY <2>1, AdminAssumption DEF Others, E
  <2>6. OpenTyped'
    BY <2>2, <2>3, <2>4 DEF OpenPool, OpenTyped
  <2>7. \A s, D : Within(s, DOMAIN items \cup D) => Within(s, DOMAIN items' \cup D)
    BY <2>4 DEF Within
  <2>8. \A s : Within(s, DOMAIN items) => Within(s, DOMAIN items')
    BY <2>4 DEF Within
  <2>9. OpenOrder' /\ OpenTarget'
    BY <2>2, <2>4, <2>5, <2>7, <2>8 DEF OpenPool, OpenOrder, OpenTarget
  <2>10. OpenProbers'
    BY <2>1, AdminAssumption DEF Others, OpenPool, OpenProbers
  <2> QED
    BY <2>6, <2>9, <2>10 DEF OpenPool
<1>4. CASE EndProbe(p)
  BY <1>4, EndProbeEffect, OpenKeptByProber DEF EndProbe
<1> QED
  BY <1>1, <1>2, <1>3, <1>4 DEF ProberStep

\* Copying, saving and returning leave the pool alone.
LEMMA OpenPersist ==
    ASSUME CallInv, OpenPool, NEW p \in Savers, PersistStep(p)
    PROVE  OpenPool'
<1>1. UNCHANGED poolVars
  BY DEF PersistStep, Snapshot, Assign, InSave, Resync, ReturnOk, ReturnError, Return
<1>2. CASE InSave(p)
  <2>1. call' = call
    BY <1>2 DEF InSave
  <2> QED
    BY <1>1, <2>1 DEF OpenPool, OpenTyped, OpenOrder, OpenTarget, OpenProbers, E, poolVars
<1>3. CASE ~InSave(p)
  <2>1. /\ Others(p) /\ call[p].pc \in {"snapshot", "assign", "saving"}
        /\ call'[p].pc \in {"assign", "saving", "idle"}
    BY <1>3, SnapshotEffect, AssignEffect, ReturnEffect
       DEF PersistStep, Resync, ReturnOk, ReturnError, At
  <2>2. CASE p = Editor
    BY <1>1, <2>1, <2>2, OpenKept DEF OpenTarget, E
  <2>3. CASE p \in Probers
    BY <1>1, <2>1, <2>3, OpenKeptByProber
  <2> QED
    BY <2>2, <2>3, AdminAssumption
<1> QED
  BY <1>2, <1>3

\* The settings, the files, what the goroutines are about to store in them, and
\* the rotator's workers.
OpenData ==
    /\ SettingsTypeOK
    /\ rot \in Seq(Worker)
    /\ \A p \in Savers : call[p].pc = "assign" => call[p].list \in Seq(Entry)
    /\ E.pc = "cut" => E.kept \in 0..Len(cfg.workers)
    /\ up \in BOOLEAN /\ failed \in BOOLEAN
    /\ issued \subseteq ProxyIds /\ loose \subseteq ProxyIds

\* A call of Save begins, or the Saves stay as they are.
LEMMA SavesTyped ==
    ASSUME save \in [Savers -> SaveState], NEW p \in Savers, UNCHANGED save \/ CallSave(p)
    PROVE  save' \in [Savers -> SaveState]
<1>1. [IdleSave EXCEPT !.pc = "workers"] \in SaveState
  BY FilesTypes DEF SaveState
<1> QED
  BY <1>1 DEF CallSave

\* A Save that has encoded the pool's list.
LEMMA ListEncoded ==
    ASSUME NEW s \in SaveState, NEW l \in Seq(Entry)
    PROVE  WithProxies(s, l) \in SaveState
<1> DEFINE d == [s.data EXCEPT !.proxies = l]
<1>1. d \in Settings
  BY ProxiesReplaced DEF SaveState
<1>2. WithProxies(s, l) = [s EXCEPT !.pc = "open", !.data = d]
  BY DEF SaveState, WithProxies
<1> HIDE DEF d
<1> QED
  BY <1>1, <1>2 DEF SaveState

\* What a write to an open file may leave.
LEMMA WritesTyped ==
    ASSUME NEW old \in File, NEW data \in Settings
    PROVE  WrittenOver(old, data) \subseteq File /\ Blank("torn") \in File
BY FilesTypes DEF WrittenOver, Kinds

\* Every step of a Save, whoever else is in one.
LEMMA SaveStepTyped ==
    ASSUME SettingsTypeOK, NEW p \in Savers, SaveStep(p)
    PROVE  SettingsTypeOK'
<1>1. /\ save \in [Savers -> SaveState] /\ cfg \in Settings /\ file \in File /\ tmp \in File
      /\ cfg.workers \in Seq(Worker) /\ cfg.proxies \in Seq(Entry) /\ save[p].data \in Settings
  BY DEF SettingsTypeOK, Settings, SaveState
<1>2. cfg' = cfg
  BY DEF SaveStep, EncodeWorkers, EncodeProxies, Open, Write, Rename, FailSave
<1>3. ASSUME NEW t \in SaveState, save' = [save EXCEPT ![p] = t], file' \in File, tmp' \in File
      PROVE  SettingsTypeOK'
  BY <1>1, <1>2, <1>3 DEF SettingsTypeOK
<1>4. CASE EncodeWorkers(p)
  <2>1. WithWorkers(save[p], cfg.workers) \in SaveState
    BY <1>1, EncodedWorkers
  <2>2. /\ save' = [save EXCEPT ![p] = WithWorkers(save[p], cfg.workers)]
        /\ UNCHANGED <<file, tmp>>
    BY <1>1, <1>4 DEF EncodeWorkers, WithWorkers
  <2> QED
    BY <1>1, <1>3, <2>1, <2>2
<1>5. CASE EncodeProxies(p)
  <2>1. WithProxies(save[p], cfg.proxies) \in SaveState
    BY <1>1, ListEncoded
  <2>2. /\ save' = [save EXCEPT ![p] = WithProxies(save[p], cfg.proxies)]
        /\ UNCHANGED <<file, tmp>>
    BY <1>1, <1>5 DEF EncodeProxies, WithProxies
  <2> QED
    BY <1>1, <1>3, <2>1, <2>2
<1>6. CASE Open(p)
  <2> DEFINE t == [save[p] EXCEPT !.pc = "write", !.fd = "tmp"]
  <2>1. t \in SaveState
    BY <1>1 DEF SaveState
  <2>2. save' = [save EXCEPT ![p] = t] /\ file' = file /\ tmp' = Blank("empty")
    BY <1>6 DEF Open
  <2>3. tmp' \in File
    BY <2>2, FilesTypes DEF Kinds
  <2> HIDE DEF t
  <2> QED
    BY <1>1, <1>3, <2>1, <2>2, <2>3
<1>7. CASE Write(p)
  <2> DEFINE t == [save[p] EXCEPT !.pc = "rename", !.data = NoSettings, !.fd = "tmp"]
  <2>1. t \in SaveState
    BY <1>1, FilesTypes DEF SaveState
  <2>2. save' = [save EXCEPT ![p] = t]
    BY <1>7 DEF Write
  <2>3. /\ tmp' \in WrittenOver(tmp, save[p].data) \cup {tmp}
        /\ file' \in WrittenOver(file, save[p].data) \cup {file}
    BY <1>7 DEF Write, WriteTo
  <2>4. tmp' \in File /\ file' \in File
    BY <1>1, <2>3, WritesTyped
  <2> HIDE DEF t
  <2> QED
    BY <1>3, <2>1, <2>2, <2>4
<1>8. CASE Rename(p)
  <2>1. file' \in File /\ tmp' \in File
    BY <1>1, <1>8, FilesTypes DEF Rename, Kinds
  <2>2. [IdleSave EXCEPT !.pc = "ok"] \in SaveState
    BY EndedState
  <2>3. \A s \in SaveState : [s EXCEPT !.fd = IF @ = "tmp" THEN "file" ELSE "gone"] \in SaveState
    BY DEF SaveState
  <2>4. save' \in [Savers -> SaveState]
    BY <1>1, <1>8, <2>2, <2>3 DEF Rename
  <2> QED
    BY <1>1, <1>2, <2>1, <2>4 DEF SettingsTypeOK
<1>9. CASE FailSave(p)
  <2>1. [IdleSave EXCEPT !.pc = "failed"] \in SaveState
    BY EndedState
  <2>2. tmp' \in {tmp, Blank("torn")} /\ file' \in {file, Blank("torn")}
    BY <1>9 DEF FailSave, WriteTo
  <2>3. tmp' \in File /\ file' \in File
    BY <1>1, <2>2, WritesTyped
  <2>4. save' = [save EXCEPT ![p] = [IdleSave EXCEPT !.pc = "failed"]]
    BY <1>9 DEF FailSave
  <2> QED
    BY <1>3, <2>1, <2>3, <2>4
<1> QED
  BY <1>4, <1>5, <1>6, <1>7, <1>8, <1>9 DEF SaveStep

\* A step of the administrator's call.
LEMMA DataByEditor ==
    ASSUME OpenData, Others(Editor), cfg' \in Settings, UNCHANGED <<file, tmp, rot, failed, up>>,
           UNCHANGED save \/ CallSave(Editor), E'.pc # "assign",
           E'.pc = "cut" => E'.kept \in 0..Len(cfg'.workers),
           issued' \subseteq ProxyIds, loose' \subseteq ProxyIds
    PROVE  OpenData'
<1>1. SettingsTypeOK'
  BY SavesTyped, AdminAssumption DEF OpenData, SettingsTypeOK
<1>2. \A p \in Savers : call'[p].pc = "assign" => call'[p].list \in Seq(Entry)
  BY AdminAssumption DEF OpenData, Others, E
<1> QED
  BY <1>1, <1>2 DEF OpenData

\* The list of workers with one added, or one bound to another proxy.
LEMMA WorkerEdited ==
    ASSUME NEW W \in Seq(Worker), NEW name \in Names, NEW proxy \in ProxyIds \cup {None}
    PROVE  /\ Append(W, [id |-> name, proxy |-> proxy]) \in Seq(Worker)
           /\ \A i \in 1..Len(W) : [W EXCEPT ![i].proxy = proxy] \in Seq(Worker)
<1>1. [id |-> name, proxy |-> proxy] \in Worker
  BY DEF Worker
<1>2. ASSUME NEW i \in 1..Len(W) PROVE [W EXCEPT ![i].proxy = proxy] \in Seq(Worker)
  <2> DEFINE w == [W[i] EXCEPT !.proxy = proxy]
  <2>1. W[i] \in Worker
    OBVIOUS
  <2>2. w \in Worker
    BY <2>1 DEF Worker
  <2>3. [W EXCEPT ![i].proxy = proxy] = [W EXCEPT ![i] = w]
    OBVIOUS
  <2> HIDE DEF w
  <2> QED
    BY <2>2, <2>3
<1> QED
  BY <1>1, <1>2

\* The administrator begins a call.
LEMMA DataNewEdit ==
    ASSUME CallInv, OpenData, NewEdit
    PROVE  OpenData'
<1>1. ASSUME UNCHANGED <<settingsVars, rot, issued, loose, failed, up>>, Others(Editor),
             E'.pc \notin {"assign", "cut"}
      PROVE  OpenData'
  BY <1>1, DataByEditor DEF settingsVars, OpenData, SettingsTypeOK
<1>2. ASSUME NEW batch, BeginImport(batch) PROVE OpenData'
  BY <1>1, <1>2, BeginImportEffect DEF BeginImport
<1>3. ASSUME NEW id \in ProxyIds, BeginRemove(id) PROVE OpenData'
  BY <1>1, <1>3, BeginRemoveEffect DEF BeginRemove
<1>4. ASSUME NEW id, BeginToggle(id) PROVE OpenData'
  BY <1>1, <1>4, BeginToggleEffect DEF BeginToggle
<1>5. CASE BeginPrune
  BY <1>1, <1>5, BeginPruneEffect DEF BeginPrune
<1>6. ASSUME NEW name, BeginDelete(name) PROVE OpenData'
  BY <1>1, <1>6, BeginDeleteEffect DEF BeginDelete
<1>7. ASSUME NEW name \in Edited, NEW proxy \in ProxyIds \cup {None}, EditWorker(name, proxy)
      PROVE  OpenData'
  <2>1. Others(Editor) /\ E'.pc = "saving"
    BY <1>7, EditWorkerEffect
  <2>2. /\ UNCHANGED <<file, tmp, rot, issued, failed, up>> /\ CallSave(Editor)
        /\ loose' = loose \cup ({proxy} \ (DOMAIN items \cup {None}))
    BY <1>7 DEF EditWorker
  <2> DEFINE W == cfg.workers
             i == SelectInSeq(W, LAMBDA w : w.id = name)
             V == IF i = 0 THEN Append(W, [id |-> name, proxy |-> proxy])
                  ELSE [W EXCEPT ![i].proxy = proxy]
  <2>3. cfg' = [cfg EXCEPT !.workers = V]
    BY <1>7 DEF EditWorker
  <2>4. W \in Seq(Worker) /\ cfg \in Settings
    BY DEF OpenData, SettingsTypeOK, Settings
  <2>5. i \in 0..Len(W)
    <3> DEFINE I == {k \in 1..Len(W) : W[k].id = name}
    <3>1. I # {} => Min(I) \in I
      <4>1. I \in SUBSET Nat
        OBVIOUS
      <4> HIDE DEF I
      <4> QED
        BY <4>1, MinOfNats
    <3>2. i = IF I # {} THEN Min(I) ELSE 0
      BY DEF SelectInSeq
    <3>3. Len(W) \in Nat
      BY <2>4
    <3> HIDE DEF i, W
    <3> QED
      BY <3>1, <3>2, <3>3
  <2>6. name \in Names
    BY AdminAssumption
  <2> HIDE DEF i, W
  <2>7. V \in Seq(Worker)
    BY <1>7, <2>4, <2>5, <2>6, WorkerEdited
  <2> HIDE DEF V
  <2>8. cfg' \in Settings
    BY <2>3, <2>4, <2>7, WorkersReplaced
  <2>9. issued' \subseteq ProxyIds /\ loose' \subseteq ProxyIds
    BY <1>7, <2>2 DEF OpenData
  <2> QED
    BY <2>1, <2>2, <2>8, <2>9, DataByEditor
<1> QED
  BY <1>2, <1>3, <1>4, <1>5, <1>6, <1>7 DEF NewEdit

\* The administrator's call goes on.
LEMMA DataEditor ==
    ASSUME CallInv, OpenPool, OpenData, EditorStep
    PROVE  OpenData'
<1>1. UNCHANGED <<file, tmp, rot, loose, failed, up>> /\ issued' \subseteq ProxyIds
      /\ loose' \subseteq ProxyIds
  BY DEF EditorStep, ImportProxy, BindWorker, EndImport, ShiftOrder, ShrinkOrder,
         CompactWorkers, CutWorkers, ReadItem, WriteItem, settingsVars, history, OpenData,
         FreshIds
<1>2. cfg \in Settings /\ cfg.workers \in Seq(Worker)
  BY DEF OpenData, SettingsTypeOK, Settings
<1>3. ASSUME UNCHANGED <<cfg, save>>, Others(Editor), E'.pc \notin {"assign", "cut"}
      PROVE  OpenData'
  BY <1>1, <1>2, <1>3, DataByEditor
<1>4. CASE ImportProxy
  BY <1>3, <1>4, ImportProxyEffect DEF ImportProxy, settingsVars
<1>5. CASE BindWorker
  <2> DEFINE id == order[SelectInSeq(order, LAMBDA o : o \in E.ids)]
  <2>1. /\ Others(Editor) /\ E.pc = "import" /\ E'.pc = "import" /\ E.ids # {}
        /\ \E name \in Names :
              cfg' = [cfg EXCEPT !.workers = Append(@, [id |-> name, proxy |-> id])]
    BY <1>5, BindWorkerEffect
  <2>2. id \in ProxyIds
    <3>1. order \in Seq(ProxyIds) /\ \A o \in E.ids : \E j \in 1..Len(order) : order[j] = o
      BY <2>1 DEF OpenPool, OpenTyped, OpenTarget
    <3> DEFINE i == SelectInSeq(order, LAMBDA o : o \in E.ids)
    <3>2. i \in 0..Len(order) /\ (i = 0 => \A j \in 1..Len(order) : order[j] \notin E.ids)
      BY <3>1, FirstOf DEF SelectInSeq
    <3>3. id = order[i]
      OBVIOUS
    <3> HIDE DEF i, id
    <3>4. i # 0
      BY <2>1, <3>1, <3>2
    <3> QED
      BY <3>1, <3>2, <3>3, <3>4
  <2> HIDE DEF id
  <2>3. PICK name \in Names :
           cfg' = [cfg EXCEPT !.workers = Append(cfg.workers, [id |-> name, proxy |-> id])]
    BY <2>1
  <2>4. Append(cfg.workers, [id |-> name, proxy |-> id]) \in Seq(Worker)
    BY <1>2, <2>2, WorkerEdited
  <2>5. cfg' \in Settings
    BY <1>2, <2>3, <2>4, WorkersReplaced
  <2> QED
    BY <1>1, <1>5, <2>1, <2>5, DataByEditor DEF BindWorker
<1>6. CASE EndImport
  BY <1>3, <1>6, EndImportEffect DEF EndImport
<1>7. CASE ShiftOrder
  <2>1. Others(Editor) /\ E'.pc \in {"compact", "shrink"}
    BY <1>7, ShiftOrderEffect
  <2> QED
    BY <1>3, <1>7, <2>1 DEF ShiftOrder, settingsVars
<1>8. CASE ShrinkOrder
  BY <1>3, <1>8, ShrinkOrderEffect DEF ShrinkOrder, settingsVars
<1>9. CASE CompactWorkers
  <2> DEFINE W == cfg.workers
             S == {i \in 1..Len(W) : ~Unwanted(W[i], E)}
             K == ElementsAt(W, S)
             V == K \o SubSeq(W, Len(K) + 1, Len(W))
  <2>1. Keep(cfg.workers, LAMBDA w : ~Unwanted(w, E)) = K
    BY DEF Keep
  <2>2. /\ Others(Editor) /\ E'.pc = "cut" /\ E'.kept = Len(K)
        /\ cfg' = [cfg EXCEPT !.workers = V]
    BY <1>9, <2>1, CompactWorkersEffect
  <2>3. UNCHANGED save
    BY <1>9 DEF CompactWorkers
  <2>4. W \in Seq(Worker) /\ \A i \in S : i \in 1..Len(W)
    BY <1>2
  <2> HIDE DEF W, S
  <2>5. K \in Seq(Worker) /\ Len(K) \in 0..Len(W)
    BY <2>4, ElementsAtResult
  <2> HIDE DEF K
  <2>6. V \in Seq(Worker) /\ Len(K) \in 0..Len(V)
    BY <2>4, <2>5
  <2> HIDE DEF V
  <2>7. cfg' \in Settings /\ cfg'.workers = V
    BY <1>2, <2>2, <2>6, WorkersReplaced
  <2> QED
    BY <1>1, <2>2, <2>3, <2>6, <2>7, DataByEditor
<1>10. CASE CutWorkers
  <2> DEFINE V == SubSeq(cfg.workers, 1, E.kept)
  <2>1. /\ Others(Editor) /\ E.pc = "cut" /\ E'.pc \in {"saving", "snapshot"}
        /\ cfg' = [cfg EXCEPT !.workers = V]
        /\ UNCHANGED save \/ CallSave(Editor)
    BY <1>10, CutWorkersEffect
  <2>2. E.kept \in 0..Len(cfg.workers)
    BY <2>1 DEF OpenData
  <2>3. V \in Seq(Worker)
    BY <1>2, <2>2
  <2> HIDE DEF V
  <2>4. cfg' \in Settings
    BY <1>2, <2>1, <2>3, WorkersReplaced
  <2> QED
    BY <1>1, <2>1, <2>4, DataByEditor
<1>11. CASE ReadItem
  BY <1>3, <1>11, ReadItemEffect DEF ReadItem, settingsVars
<1>12. CASE WriteItem
  BY <1>3, <1>12, WriteItemEffect DEF WriteItem
<1> QED
  BY <1>4, <1>5, <1>6, <1>7, <1>8, <1>9, <1>10, <1>11, <1>12 DEF EditorStep

\* A probe touches neither the settings nor the files.
LEMMA DataProber ==
    ASSUME CallInv, OpenData, NEW p \in Probers, BeginProbe(p) \/ ProberStep(p)
    PROVE  OpenData'
<1>1. UNCHANGED <<cfg, file, tmp, rot, failed, up, issued, loose>>
  BY DEF BeginProbe, ProberStep, ReadUsable, WriteUsable, EndProbe, settingsVars, history
<1>2. UNCHANGED save
  BY EndProbeEffect, AdminAssumption
     DEF BeginProbe, ProberStep, ReadUsable, WriteUsable, settingsVars
<1>3. Others(p) /\ call'[p].pc # "assign"
  BY BeginProbeEffect, ReadUsableEffect, WriteUsableEffect, EndProbeEffect DEF ProberStep
<1>4. E' = E /\ p \in Savers
  BY <1>3, AdminAssumption DEF Others, E
<1>5. \A q \in Savers : call'[q].pc = "assign" => call'[q].list \in Seq(Entry)
  BY <1>3 DEF OpenData, Others
<1> QED
  BY <1>1, <1>2, <1>4, <1>5 DEF OpenData, SettingsTypeOK

\* A goroutine copies, saves or returns.
LEMMA DataPersist ==
    ASSUME CallInv, OpenPool, OpenData, NEW p \in Savers, PersistStep(p)
    PROVE  OpenData'
<1>1. UNCHANGED <<issued, loose, up>>
  BY DEF PersistStep, Snapshot, Assign, InSave, Resync, ReturnOk, ReturnError, Return, history
<1>2. CASE InSave(p)
  <2>1. call' = call /\ cfg' = cfg /\ SettingsTypeOK' /\ UNCHANGED <<rot, failed>> /\ E' = E
    BY <1>2, InSavePcs, SaveStepTyped DEF InSave, OpenData, history, E
  <2> QED
    BY <1>1, <2>1 DEF OpenData
<1>3. ASSUME Others(p), call'[p].pc \in {"assign", "saving", "idle"},
             call'[p].pc = "assign" => call'[p].list \in Seq(Entry),
             SettingsTypeOK', cfg'.workers = cfg.workers, rot' \in {rot, cfg.workers},
             failed' \in BOOLEAN
      PROVE  OpenData'
  <2>1. \A q \in Savers : call'[q].pc = "assign" => call'[q].list \in Seq(Entry)
    BY <1>3 DEF OpenData, Others
  <2>2. E'.pc = "cut" => E'.kept \in 0..Len(cfg'.workers)
    BY <1>3, AdminAssumption DEF OpenData, Others, E
  <2>3. rot' \in Seq(Worker)
    BY <1>3 DEF OpenData, SettingsTypeOK, Settings
  <2> QED
    BY <1>1, <1>3, <2>1, <2>2, <2>3 DEF OpenData
<1>4. CASE Snapshot(p)
  <2>1. /\ Others(p) /\ call'[p].pc = "assign"
        /\ call'[p].list = [i \in 1..Len(order) |-> ItemAt(order[i])]
    BY <1>4, SnapshotEffect
  <2>2. SettingsTypeOK' /\ UNCHANGED <<cfg, rot, failed>>
    BY <1>4 DEF Snapshot, settingsVars, OpenData, SettingsTypeOK, history
  <2>3. \A id \in ProxyIds : ItemAt(id) \in Entry
    BY DEF ItemAt, ZeroEntry, Entry, OpenPool, OpenTyped
  <2>4. order \in Seq(ProxyIds) /\ Len(order) \in Nat
    BY DEF OpenPool, OpenTyped
  <2>5. call'[p].list \in Seq(Entry)
    BY <2>1, <2>3, <2>4
  <2> QED
    BY <1>3, <2>1, <2>2, <2>5 DEF OpenData
<1>5. CASE Assign(p)
  <2>1. Others(p) /\ call[p].pc = "assign" /\ call'[p].pc = "saving"
    BY <1>5, AssignEffect
  <2>2. /\ cfg' = [cfg EXCEPT !.proxies = call[p].list] /\ CallSave(p)
        /\ UNCHANGED <<file, tmp, rot, failed>>
    BY <1>5 DEF Assign, history
  <2>3. call[p].list \in Seq(Entry) /\ cfg \in Settings
    BY <2>1 DEF OpenData, SettingsTypeOK
  <2>4. cfg' \in Settings /\ cfg'.workers = cfg.workers
    BY <2>2, <2>3, ProxiesReplaced
  <2>5. SettingsTypeOK'
    BY <2>2, <2>4, SavesTyped DEF OpenData, SettingsTypeOK
  <2> QED
    BY <1>3, <2>1, <2>2, <2>4, <2>5 DEF OpenData
<1>6. ASSUME NEW ok, Return(p, ok), rot' \in {rot, cfg.workers}, failed' \in BOOLEAN
      PROVE  OpenData'
  <2>1. Others(p) /\ call'[p].pc = "idle"
    BY <1>6, ReturnEffect
  <2>2. save' = [save EXCEPT ![p] = IdleSave] /\ UNCHANGED <<cfg, file, tmp>>
    BY <1>6 DEF Return
  <2>3. SettingsTypeOK'
    BY <2>2, FilesTypes DEF OpenData, SettingsTypeOK
  <2> QED
    BY <1>3, <1>6, <2>1, <2>2, <2>3
<1>7. CASE Resync(p) \/ ReturnOk(p) \/ ReturnError(p)
  <2>1. failed' \in BOOLEAN /\ rot' \in {rot, cfg.workers} /\ \E ok : Return(p, ok)
    BY <1>7 DEF Resync, ReturnOk, ReturnError, OpenData
  <2> QED
    BY <1>6, <2>1
<1> QED
  BY <1>2, <1>4, <1>5, <1>7 DEF PersistStep

IdsAt(list, S) == [k \in 1..Len(ElementsAt(list, S)) |-> ElementsAt(list, S)[k].id]

\* The ids that Restore takes from a list: each once.
LEMMA RestoredIds ==
    ASSUME NEW list \in Seq(Entry), NEW S, S = Restorable(list)
    PROVE  /\ IdsAt(list, S) \in Seq(ProxyIds)
           /\ \A k, l \in 1..Len(IdsAt(list, S)) : IdsAt(list, S)[k] = IdsAt(list, S)[l] => k = l
           /\ \A k \in 1..Len(IdsAt(list, S)) : \E i \in S : list[i].id = IdsAt(list, S)[k]
           /\ \A i \in S : i \in 1..Len(list)
<1> DEFINE ids == IdsAt(list, S)
           c == Cardinality(S)
           r == ElementsAt(list, S)
<1>1. \A i \in S : i \in 1..Len(list) /\ list[i].id \in ProxyIds
  <2>1. \A i \in 1..Len(list) : list[i] \in Entry
    OBVIOUS
  <2>2. \A e \in Entry : e.id \in ProxyIds \cup {None}
    BY DEF Entry
  <2>3. \A i \in S : i \in 1..Len(list) /\ list[i].id # None
    BY DEF Restorable
  <2> QED
    BY <2>1, <2>2, <2>3
<1>2. \A i, j \in S : list[i].id = list[j].id => i = j
  BY <1>1 DEF Restorable
<1>3. Len(list) \in Nat /\ c \in Nat
  BY <1>1, PositionsOf
<1>4. r = [k \in 1..c |-> list[Nth(S, k)]]
  BY DEF ElementsAt
<1>5. \A k \in 1..c : Nth(S, k) \in S
  BY <1>1, <1>3, NthResult
<1>6. \A k, l \in 1..c : Nth(S, k) = Nth(S, l) => k = l
  BY <1>1, <1>3, NthOrder
<1> HIDE DEF c
<1>7. Len(r) = c
  BY <1>3, <1>4
<1>8. ids = [k \in 1..c |-> list[Nth(S, k)].id]
  BY <1>4, <1>7 DEF IdsAt
<1>9. ids \in Seq(ProxyIds) /\ Len(ids) = c
  BY <1>1, <1>3, <1>5, <1>8
<1>10. \A k \in 1..c : ids[k] = list[Nth(S, k)].id
  BY <1>8
<1> HIDE DEF r, ids
<1> HIDE <1>8
<1>11. \A k, l \in 1..c : ids[k] = ids[l] => k = l
  BY <1>2, <1>5, <1>6, <1>10
<1>12. \A k \in 1..c : \E i \in S : list[i].id = ids[k]
  BY <1>5, <1>10
<1> QED
  BY <1>1, <1>9, <1>11, <1>12 DEF ids

\* A start takes what the file says, and of several entries with one id the first.
LEMMA OpenBoot ==
    ASSUME CallInv, OpenPool, OpenData, Boot
    PROVE  (OpenPool /\ OpenData)'
<1>1. Loaded \in Settings
  BY FilesTypes DEF Loaded, OpenData, SettingsTypeOK, File
<1> DEFINE list == Loaded.proxies
           S == Restorable(list)
<1>2. /\ order' = IdsAt(list, S)
      /\ items' = [id \in Range(order') |-> list[CHOOSE i \in S : list[i].id = id]]
  BY DEF Boot, IdsAt
<1>3. /\ cfg' = Loaded /\ rot' = Loaded.workers /\ up'
      /\ UNCHANGED <<file, tmp, save, call, issued, loose, failed>>
  BY DEF Boot, history
<1>4. E' = IdleCall /\ \A p \in Savers : call'[p] = IdleCall
  <2>1. ~up
    BY DEF Boot
  <2>2. \A p \in Savers : call'[p] = IdleCall
    BY <1>3, <2>1 DEF CallInv, GoodCalls, GoodCall
  <2> QED
    BY <2>2, AdminAssumption DEF E
<1>5. list \in Seq(Entry) /\ Loaded.workers \in Seq(Worker)
  BY <1>1 DEF Settings
<1> HIDE DEF list, S
<1>6. /\ order' \in Seq(ProxyIds)
      /\ \A k, l \in 1..Len(order') : order'[k] = order'[l] => k = l
      /\ \A k \in 1..Len(order') : \E i \in S : list[i].id = order'[k]
      /\ \A i \in S : i \in 1..Len(list)
  BY <1>2, <1>5, RestoredIds DEF S
<1>7. DOMAIN items' = {order'[k] : k \in 1..Len(order')}
  BY <1>2, <1>6 DEF Range
<1>8. \A id \in DOMAIN items' : items'[id] \in Entry /\ items'[id].id = id
  <2> SUFFICES ASSUME NEW id \in DOMAIN items' PROVE items'[id] \in Entry /\ items'[id].id = id
    OBVIOUS
  <2>1. PICK i \in S : list[i].id = id
    BY <1>6, <1>7
  <2> DEFINE j == CHOOSE k \in S : list[k].id = id
  <2>2. j \in S /\ list[j].id = id
    BY <2>1
  <2>3. items'[id] = list[j]
    BY <1>2
  <2> HIDE DEF j
  <2> QED
    BY <1>5, <1>6, <2>2, <2>3
<1>9. OpenTyped'
  BY <1>6, <1>7, <1>8 DEF OpenTyped
<1>10. Within(order', DOMAIN items')
  BY <1>6, <1>7 DEF Within
<1>11. IdleCall.pc = "idle" /\ \A p \in Probers : call'[p] = IdleCall
  BY <1>4, AdminAssumption DEF IdleCall
<1>12. OpenPool'
  BY <1>4, <1>9, <1>10, <1>11 DEF OpenPool, OpenOrder, OpenTarget, OpenProbers
<1>13. OpenData'
  BY <1>1, <1>3, <1>4, <1>5, <1>11 DEF OpenData, SettingsTypeOK
<1> QED
  BY <1>12, <1>13

\* At the start there is nothing in the pool.
LEMMA OpenEmpty ==
    ASSUME items = <<>>, order = <<>>, \A p \in Savers : call[p] = IdleCall
    PROVE  OpenPool
<1>1. DOMAIN items = {} /\ order \in Seq(ProxyIds) /\ Len(order) = 0
  OBVIOUS
<1>2. /\ E = IdleCall /\ \A p \in Probers : call[p] = IdleCall
      /\ IdleCall.pc = "idle"
  BY AdminAssumption DEF E, IdleCall
<1>3. Within(order, DOMAIN items)
  BY <1>1 DEF Within
<1> QED
  BY <1>1, <1>2, <1>3 DEF OpenPool, OpenTyped, OpenOrder, OpenTarget, OpenProbers

\* Nor after a crash.
LEMMA OpenCrash ==
    ASSUME OpenData, Crash
    PROVE  (OpenPool /\ OpenData)'
<1>1. /\ \A p \in Savers : call'[p] = IdleCall
      /\ save' = [p \in Savers |-> IdleSave] /\ items' = <<>> /\ order' = <<>>
      /\ rot' = <<>> /\ cfg' = NoSettings /\ failed' = FALSE /\ up' = FALSE
      /\ UNCHANGED <<file, tmp, issued, loose>>
  BY DEF Crash
<1>2. DOMAIN items' = {} /\ order' \in Seq(ProxyIds) /\ Len(order') = 0 /\ rot' \in Seq(Worker)
  BY <1>1
<1>3. /\ E' = IdleCall /\ \A p \in Probers : call'[p] = IdleCall
      /\ IdleCall.pc = "idle"
  BY <1>1, AdminAssumption DEF E, IdleCall
<1>4. Within(order', DOMAIN items')
  BY <1>2 DEF Within
<1>5. OpenPool'
  BY <1>2, <1>3, <1>4 DEF OpenPool, OpenTyped, OpenOrder, OpenTarget, OpenProbers
<1>6. SettingsTypeOK'
  BY <1>1, FilesTypes DEF OpenData, SettingsTypeOK
<1>7. OpenData'
  BY <1>1, <1>2, <1>3, <1>6 DEF OpenData
<1> QED
  BY <1>5, <1>7

\* The invariant as a whole, whatever overlaps.
OpenInv == CallInv /\ OpenPool /\ OpenData

\* The initial state.
LEMMA OpenInvInit ==
    AdminInit => OpenInv
<1> SUFFICES ASSUME AdminInit PROVE OpenInv
  OBVIOUS
<1>1. /\ \A p \in Savers : call[p] = IdleCall
      /\ save = [p \in Savers |-> IdleSave]
      /\ items = <<>> /\ order = <<>> /\ rot = cfg.workers
      /\ cfg = DefaultSettings /\ file = Blank("absent") /\ tmp = Blank("absent")
      /\ issued = {} /\ loose = {} /\ up = TRUE /\ failed = FALSE
  BY DEF AdminInit, SettingsInit
<1>2. SettingsTypeOK
  BY <1>1, FilesTypes DEF SettingsTypeOK, Kinds
<1>3. rot \in Seq(Worker)
  BY <1>1, <1>2 DEF SettingsTypeOK, Settings
<1>4. E.pc = "idle" /\ \A p \in Savers : call[p].pc = "idle"
  BY <1>1, AdminAssumption DEF IdleCall, E
<1>5. OpenData
  BY <1>1, <1>2, <1>3, <1>4 DEF OpenData
<1> QED
  BY <1>1, <1>5, CallInvInit, OpenEmpty DEF OpenInv

\* Every step, whatever overlaps with it.
LEMMA OpenInvStep ==
    OpenInv /\ [AdminNext]_adminVars => OpenInv'
<1> SUFFICES ASSUME OpenInv, [AdminNext]_adminVars PROVE OpenInv'
  OBVIOUS
<1>1. CallInv'
  BY CallInvStep DEF OpenInv
<1>2. CASE NewEdit
  BY <1>1, <1>2, OpenNewEdit, DataNewEdit DEF OpenInv
<1>3. CASE EditorStep
  BY <1>1, <1>3, OpenEditor, DataEditor DEF OpenInv
<1>4. ASSUME NEW p \in Probers, BeginProbe(p) \/ ProberStep(p) PROVE OpenInv'
  BY <1>1, <1>4, OpenProber, DataProber DEF OpenInv
<1>5. ASSUME NEW p \in Savers, PersistStep(p) PROVE OpenInv'
  BY <1>1, <1>5, OpenPersist, DataPersist DEF OpenInv
<1>6. CASE Crash
  BY <1>1, <1>6, OpenCrash DEF OpenInv
<1>7. CASE Boot
  BY <1>1, <1>7, OpenBoot DEF OpenInv
<1>8. CASE UNCHANGED adminVars
  BY <1>1, <1>8
     DEF adminVars, settingsVars, poolVars, history, OpenInv, OpenPool, OpenTyped, OpenOrder,
         OpenTarget, OpenProbers, OpenData, SettingsTypeOK, E
<1> QED
  BY <1>2, <1>3, <1>4, <1>5, <1>6, <1>7, <1>8 DEF AdminNext

\* AdminTypeOK, for every number of proxies, workers, probers and calls, and for
\* every overlap of probes, saves and edits that the missing locks allow.
THEOREM AdminTypesHold == AdminSpec => []AdminTypeOK
<1>1. OpenInv => AdminTypeOK
  <2> SUFFICES ASSUME OpenInv PROVE AdminTypeOK
    OBVIOUS
  <2>1. call[Editor].pc \notin {"shift", "shrink"} =>
           Range(order) \subseteq DOMAIN items /\ IsInjective(order)
    BY DEF OpenInv, OpenPool, OpenTyped, OpenOrder, Within, Range, IsInjective, E
  <2>2. \A p \in Savers : save[p].pc # "idle" <=> call[p].pc = "saving"
    BY DEF OpenInv, CallInv, GoodCalls
  <2>3. issued \cup loose \subseteq ProxyIds
    BY DEF OpenInv, OpenData
  <2> QED
    BY <2>1, <2>2, <2>3 DEF AdminTypeOK, OpenInv, OpenPool, OpenTyped, OpenData
<1> QED
  BY <1>1, OpenInvInit, OpenInvStep, PTL DEF AdminSpec

=============================================================================
