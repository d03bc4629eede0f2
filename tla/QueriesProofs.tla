---------------------------- MODULE QueriesProofs ----------------------------
(***************************************************************************)
(* Proofs about module Queries: what the pages, the search and the export  *)
(* read in one snapshot of any state of the store is true of that state,   *)
(* for every grid, every set of names and of backups, every bound on the   *)
(* ids and on the results of a search.                                     *)
(***************************************************************************)
EXTENDS Queries, InventoryProofs, SequenceTheorems

-----------------------------------------------------------------------------
(* What the constraints of the tables give the queries. *)

\* Ids are bounded by the last one that was handed out.
LEMMA TablesFinite ==
    ASSUME IInv
    PROVE  /\ IsFiniteSet(DOMAIN item)
           /\ IsFiniteSet(DOMAIN container)
           /\ IsFiniteSet(DOMAIN tag)
           /\ IsFiniteSet(item_tag)
<1>1. sqlite_sequence.item \in Int /\ sqlite_sequence.tag \in Int
      /\ sqlite_sequence.container \in Int
  BY BoundAssumption DEF IInv, TypeOK
<1>2. IsFiniteSet(ItemId) /\ IsFiniteSet(TagId) /\ IsFiniteSet(ContainerId)
  BY <1>1, FS_Interval DEF ItemId, TagId, ContainerId
<1>3. IsFiniteSet(ItemId \X TagId)
  BY <1>2, FS_Product
<1>4. /\ DOMAIN item \in SUBSET ItemId /\ DOMAIN tag \in SUBSET TagId
      /\ DOMAIN container \in SUBSET ContainerId
      /\ item_tag \in SUBSET (ItemId \X TagId)
  BY DEF IInv, TypeOK
<1> QED BY <1>2, <1>3, <1>4, FS_Subset

\* The joins lose nothing: every item is placed and every association leads to
\* a tag; no row has the id NULL.
LEMMA Joined ==
    ASSUME IInv
    PROVE  /\ Placed = DOMAIN item
           /\ \A i : LinkedTags(i) \subseteq DOMAIN tag
           /\ \A i : {tag[t] : t \in LinkedTags(i)} = NamesOn(i, item_tag, tag)
           /\ Null \notin DOMAIN tag
           /\ Null \notin DOMAIN container
<1>1. Placed = DOMAIN item
  BY DEF Placed, IInv, ForeignKeys, Range
<1>2. \A i : LinkedTags(i) \subseteq DOMAIN tag
  BY DEF LinkedTags
<1>3. \A q \in item_tag : q[2] \in DOMAIN tag
  BY DEF IInv, ForeignKeys
<1>4. \A i : {tag[t] : t \in LinkedTags(i)} = NamesOn(i, item_tag, tag)
  BY <1>3 DEF LinkedTags, NamesOn
<1>5. Null \notin DOMAIN tag /\ Null \notin DOMAIN container
  BY BoundAssumption DEF Null, IInv, TypeOK, TagId, ContainerId
<1> QED BY <1>1, <1>2, <1>4, <1>5

\* An item's container is found, at one position that no other has.
LEMMA Positions ==
    ASSUME IInv, NEW i \in DOMAIN item
    PROVE  /\ item[i] \in DOMAIN container
           /\ Position(i) \in Int \X Int
           /\ Position(i) \in Range(container)
           /\ \A c \in DOMAIN container : container[c] = Position(i) => c = item[i]
<1>1. item[i] \in DOMAIN container
  BY DEF IInv, ForeignKeys, Range
<1> QED BY <1>1 DEF Position, IInv, TypeOK, UniqueKeys, IsInjective, Range

-----------------------------------------------------------------------------
(* The grid page. *)

\* On a complete grid the cells are the positions of the containers, and the
\* container that is found at a position is the only one there.
LEMMA GridTrue == IInv => GridShowsItems
<1> SUFFICES ASSUME IInv, GridComplete
             PROVE  /\ \A p \in DOMAIN GetGridData : GetGridData[p].id # Null
                    /\ \A i \in DOMAIN item : GetGridData[Position(i)].id = item[i]
                    /\ \A p \in DOMAIN GetGridData :
                          GetGridData[p].count =
                              Cardinality({i \in DOMAIN item : Position(i) = p})
  BY DEF GridShowsItems
<1>1. DOMAIN GetGridData = Range(container)
  BY DEF GetGridData, GridComplete
<1>2. ASSUME NEW c \in DOMAIN container
      PROVE  /\ container[c] \in DOMAIN GetGridData
             /\ GetGridData[container[c]].id = c
             /\ GetGridData[container[c]].count =
                    Cardinality({i \in DOMAIN item : item[i] = c})
  <2> DEFINE p == container[c]
             at == {d \in DOMAIN container : container[d] = p}
  <2>1. p \in Cells(shelf.rows, shelf.cols)
    BY DEF GridComplete, Range
  <2>2. at = {c}
    BY DEF IInv, UniqueKeys, IsInjective
  <2>3. (CHOOSE d \in at : TRUE) = c
    BY <2>2
  <2>4. at # {}
    BY <2>2
  <2>5. GetGridData[p] =
            [id |-> c, count |-> Cardinality({i \in DOMAIN item : item[i] = c})]
    BY <2>1, <2>3, <2>4 DEF GetGridData
  <2> QED BY <1>1, <2>5 DEF Range
<1>3. ASSUME NEW p \in DOMAIN GetGridData
      PROVE  \E c \in DOMAIN container : p = container[c]
  BY <1>1 DEF Range
<1>4. ASSUME NEW p \in DOMAIN GetGridData PROVE GetGridData[p].id # Null
  <2>1. PICK c \in DOMAIN container : p = container[c]
    BY <1>3
  <2>2. GetGridData[p].id = c
    BY <1>2, <2>1
  <2> QED BY <2>2, Joined
<1>5. ASSUME NEW i \in DOMAIN item PROVE GetGridData[Position(i)].id = item[i]
  <2>1. item[i] \in DOMAIN container
    BY Positions
  <2> QED BY <1>2, <2>1 DEF Position
<1>6. ASSUME NEW p \in DOMAIN GetGridData
      PROVE  GetGridData[p].count = Cardinality({i \in DOMAIN item : Position(i) = p})
  <2>1. PICK c \in DOMAIN container : p = container[c]
    BY <1>3
  <2>2. {i \in DOMAIN item : item[i] = c} = {i \in DOMAIN item : Position(i) = p}
    BY <2>1, Positions DEF Position
  <2>3. GetGridData[p].count = Cardinality({i \in DOMAIN item : item[i] = c})
    BY <1>2, <2>1
  <2> QED BY <2>2, <2>3
<1> QED BY <1>4, <1>5, <1>6

\* GetGridData: on a complete grid every cell can take items, and every item is
\* counted in one cell, the one that its container is at.
THEOREM GridPageIsTrue == Spec => []GridShowsItems
BY Invariance, GridTrue, PTL

-----------------------------------------------------------------------------
(* Sequences. *)

\* The rows of a result in some order: each once.
LEMMA SeqsFacts ==
    ASSUME NEW S, IsFiniteSet(S), NEW s \in SetToSeqs(S)
    PROVE  /\ Cardinality(S) \in Nat
           /\ s \in Seq(S)
           /\ Len(s) = Cardinality(S)
           /\ DOMAIN s = 1..Cardinality(S)
           /\ \A j, k \in DOMAIN s : s[j] = s[k] => j = k
           /\ \A x \in S : \E k \in DOMAIN s : s[k] = x
<1> DEFINE n == Cardinality(S)
<1>1. n \in Nat
  BY FS_CardinalityType
<1>2. s \in [1..n -> S] /\ \A i, j \in 1..n : i # j => s[i] # s[j]
  BY DEF SetToSeqs
<1>3. IsFiniteSet(1..n) /\ Cardinality(1..n) = n
  <2> HIDE DEF n
  <2>1. IsFiniteSet(1..n) /\ Cardinality(1..n) = IF 1 > n THEN 0 ELSE n - 1 + 1
    BY <1>1, FS_Interval
  <2> QED BY <1>1, <2>1
<1>4. s \in Injection(1..n, S)
  BY <1>2 DEF Injection, IsInjective
<1>5. s \in Surjection(1..n, S)
  <2>1. Cardinality(1..n) = Cardinality(S) <=> s \in Surjection(1..n, S)
    <3> HIDE DEF n
    <3> QED BY <1>4, FS_Injection
  <2> QED BY <1>3, <2>1
<1>6. \A x \in S : \E k \in 1..n : s[k] = x
  BY <1>5 DEF Surjection
<1>7. s \in Seq(S) /\ Len(s) = n /\ DOMAIN s = 1..n
  <2> HIDE DEF n
  <2>1. DOMAIN s = 1..n
    BY <1>2
  <2>2. s \in Seq(S)
    BY <1>1, <1>2, SeqDef
  <2>3. DOMAIN s = 1..Len(s) /\ Len(s) \in Nat
    BY <2>2, LenProperties
  <2>4. Len(s) = n
    BY <1>1, <2>1, <2>3
  <2> QED BY <2>1, <2>2, <2>4
<1> QED BY <1>1, <1>2, <1>6, <1>7

-----------------------------------------------------------------------------
(* Sorting. *)

\* "before" is a set of pairs that orders any two members of S.
Orders(before, S) ==
    /\ \A x, y \in S : x # y => <<x, y>> \in before \/ <<y, x>> \in before
    /\ \A x, y, z \in S : <<x, y>> \in before /\ <<y, z>> \in before
                             => <<x, z>> \in before

IsLast(m, T, before) == m \in T /\ \A x \in T \ {m} : <<x, m>> \in before

\* Every inhabited finite set has a last member.
LEMMA LastExists ==
    ASSUME NEW S, IsFiniteSet(S), NEW before, Orders(before, S), S # {}
    PROVE  \E m \in S : IsLast(m, S, before)
<1> DEFINE Good == {n \in Nat : \A T \in SUBSET S :
                        Cardinality(T) = n /\ T # {} => \E m \in T : IsLast(m, T, before)}
<1>1. 0 \in Good
  <2>1. \A T \in SUBSET S : Cardinality(T) = 0 => T = {}
    BY FS_Subset, FS_EmptySet
  <2> QED BY <2>1
<1>2. ASSUME NEW n \in Nat, n \in Good PROVE n + 1 \in Good
  <2> SUFFICES ASSUME NEW T \in SUBSET S, Cardinality(T) = n + 1, T # {}
               PROVE  \E m \in T : IsLast(m, T, before)
    OBVIOUS
  <2>1. PICK x \in T : TRUE
    OBVIOUS
  <2> DEFINE U == T \ {x}
  <2>2. IsFiniteSet(T)
    BY FS_Subset
  <2>3. Cardinality(U) = n
    <3>1. Cardinality(U) = IF x \in T THEN Cardinality(T) - 1 ELSE Cardinality(T)
      BY <2>2, FS_RemoveElement
    <3> QED BY <2>1, <3>1
  <2>4. CASE U = {}
    BY <2>1, <2>4 DEF IsLast
  <2>5. CASE U # {}
    <3>1. PICK u \in U : IsLast(u, U, before)
      BY <1>2, <2>3, <2>5
    <3>2. x # u /\ x \in S /\ u \in S /\ u \in T /\ T \subseteq S
      BY <2>1, <3>1
    <3>3. CASE <<x, u>> \in before
      <4>1. IsLast(u, T, before)
        BY <3>1, <3>2, <3>3 DEF IsLast
      <4> QED BY <3>2, <4>1
    <3>4. CASE <<u, x>> \in before
      <4>1. ASSUME NEW y \in T \ {x} PROVE <<y, x>> \in before
        <5>1. CASE y = u
          BY <3>4, <5>1
        <5>2. CASE y # u
          <6>1. <<y, u>> \in before
            BY <3>1, <5>2 DEF IsLast
          <6>2. y \in S
            OBVIOUS
          <6> QED BY <3>2, <3>4, <6>1, <6>2 DEF Orders
        <5> QED BY <5>1, <5>2
      <4>2. IsLast(x, T, before)
        BY <2>1, <4>1 DEF IsLast
      <4> QED BY <2>1, <4>2
    <3> QED BY <3>2, <3>3, <3>4 DEF Orders
  <2> QED BY <2>4, <2>5
<1> HIDE DEF Good
<1>3. Nat \subseteq Good
  BY <1>1, <1>2, NatInd
<1>4. Cardinality(S) \in Good
  BY <1>3, FS_CardinalityType
<1> QED BY <1>4 DEF Good

Ascending(s, before) == \A j, k \in DOMAIN s : j < k => <<s[j], s[k]>> \in before

\* Every finite set can be listed in order.
LEMMA SortingExists ==
    ASSUME NEW S, IsFiniteSet(S), NEW before, Orders(before, S)
    PROVE  \E s \in SetToSeqs(S) : Ascending(s, before)
<1> DEFINE Good == {n \in Nat : \A T \in SUBSET S :
                        Cardinality(T) = n => \E s \in SetToSeqs(T) : Ascending(s, before)}
<1>1. 0 \in Good
  <2> SUFFICES ASSUME NEW T \in SUBSET S, Cardinality(T) = 0
               PROVE  \E s \in SetToSeqs(T) : Ascending(s, before)
    OBVIOUS
  <2> DEFINE s == [k \in 1..0 |-> k]
  <2>1. s \in SetToSeqs(T)
    BY DEF SetToSeqs
  <2>2. Ascending(s, before)
    BY DEF Ascending
  <2> QED BY <2>1, <2>2
<1>2. ASSUME NEW n \in Nat, n \in Good PROVE n + 1 \in Good
  <2> SUFFICES ASSUME NEW T \in SUBSET S, Cardinality(T) = n + 1
               PROVE  \E s \in SetToSeqs(T) : Ascending(s, before)
    OBVIOUS
  <2>1. IsFiniteSet(T)
    BY FS_Subset
  <2>2. T # {}
    BY FS_EmptySet
  <2>3. Orders(before, T)
    BY DEF Orders
  <2>4. PICK m \in T : IsLast(m, T, before)
    BY <2>1, <2>2, <2>3, LastExists
  <2> DEFINE U == T \ {m}
  <2>5. Cardinality(U) = n
    <3>1. Cardinality(U) = IF m \in T THEN Cardinality(T) - 1 ELSE Cardinality(T)
      BY <2>1, FS_RemoveElement
    <3> QED BY <3>1
  <2>6. PICK u \in SetToSeqs(U) : Ascending(u, before)
    BY <1>2, <2>5
  <2>7. u \in [1..n -> U] /\ \A i, j \in 1..n : i # j => u[i] # u[j]
    BY <2>5 DEF SetToSeqs
  <2> DEFINE s == [k \in 1..(n + 1) |-> IF k <= n THEN u[k] ELSE m]
  <2>8. \A k \in 1..(n + 1) : (k <= n /\ k \in 1..n) \/ k = n + 1
    OBVIOUS
  <2>9. /\ s \in [1..(n + 1) -> T]
        /\ \A k \in 1..n : k \in 1..(n + 1) /\ s[k] = u[k]
        /\ s[n + 1] = m
    <3>1. \A k \in 1..n : k \in 1..(n + 1) /\ k <= n
      OBVIOUS
    <3>2. n + 1 \in 1..(n + 1) /\ ~(n + 1 <= n)
      OBVIOUS
    <3>3. \A k \in 1..(n + 1) : s[k] \in T
      BY <2>7, <2>8
    <3> QED BY <3>1, <3>2, <3>3
  <2> HIDE DEF s
  <2>10. ASSUME NEW i \in 1..(n + 1), NEW j \in 1..(n + 1), i < j
         PROVE  s[i] # s[j] /\ <<s[i], s[j]>> \in before
    <3>1. i \in 1..n
      BY <2>10
    <3>2. s[i] = u[i] /\ u[i] \in U
      BY <2>7, <2>9, <3>1
    <3>3. CASE j = n + 1
      BY <2>4, <2>9, <3>2, <3>3 DEF IsLast
    <3>4. CASE j # n + 1
      <4>1. j \in 1..n
        BY <3>4
      <4>2. s[j] = u[j] /\ u[i] # u[j]
        BY <2>7, <2>9, <2>10, <3>1, <4>1
      <4>3. <<u[i], u[j]>> \in before
        BY <2>6, <2>7, <2>10, <3>1, <4>1 DEF Ascending
      <4> QED BY <3>2, <4>2, <4>3
    <3> QED BY <3>3, <3>4
  <2>11. s \in SetToSeqs(T)
    <3>1. \A i, j \in 1..(n + 1) : i # j => s[i] # s[j]
      <4> SUFFICES ASSUME NEW i \in 1..(n + 1), NEW j \in 1..(n + 1), i # j
                   PROVE  s[i] # s[j]
        OBVIOUS
      <4>1. i < j \/ j < i
        OBVIOUS
      <4> QED BY <2>10, <4>1
    <3> QED BY <2>9, <3>1 DEF SetToSeqs
  <2>12. Ascending(s, before)
    BY <2>9, <2>10 DEF Ascending
  <2> QED BY <2>11, <2>12
<1> HIDE DEF Good
<1>3. Nat \subseteq Good
  BY <1>1, <1>2, NatInd
<1>4. Cardinality(S) \in Good
  BY <1>3, FS_CardinalityType
<1> QED BY <1>4 DEF Good

-----------------------------------------------------------------------------
(* A list of lists, one after the other. *)

\* The prefixes of the concatenation.
IsFlat(f, s, n) ==
    f = [k \in 1..n |-> IF k = 1 THEN s[k] ELSE f[k - 1] \o s[k]]

LEMMA FlatExists ==
    ASSUME NEW s, NEW n \in Nat
    PROVE  \E f : IsFlat(f, s, n)
<1> DEFINE Good == {m \in Nat : \E f : IsFlat(f, s, m)}
<1>1. 0 \in Good
  <2> DEFINE f == [k \in 1..0 |-> s[k]]
  <2>1. IsFlat(f, s, 0)
    BY DEF IsFlat
  <2> QED BY <2>1
<1>2. ASSUME NEW m \in Nat, m \in Good PROVE m + 1 \in Good
  <2>1. PICK f : IsFlat(f, s, m)
    BY <1>2
  <2>2. /\ DOMAIN f = 1..m
        /\ \A k \in 1..m : f[k] = IF k = 1 THEN s[k] ELSE f[k - 1] \o s[k]
    BY <2>1 DEF IsFlat
  <2> DEFINE last == IF m = 0 THEN s[1] ELSE f[m] \o s[m + 1]
             g == [k \in 1..(m + 1) |-> IF k = m + 1 THEN last ELSE f[k]]
  <2>3. \A k \in 1..(m + 1) : k \in 1..m \/ k = m + 1
    OBVIOUS
  <2>4. ASSUME NEW k \in 1..(m + 1)
        PROVE  g[k] = IF k = 1 THEN s[k] ELSE g[k - 1] \o s[k]
    <3>1. CASE k \in 1..m
      <4>1. g[k] = f[k]
        BY <3>1
      <4>2. k # 1 => g[k - 1] = f[k - 1]
        BY <3>1
      <4> HIDE DEF g
      <4> QED BY <2>2, <3>1, <4>1, <4>2
    <3>2. CASE k = m + 1
      <4>1. g[k] = last
        BY <3>2
      <4>2. k # 1 => m \in 1..(m + 1) /\ g[m] = f[m] /\ k - 1 = m /\ m # 0
        BY <3>2
      <4>3. k = 1 => m = 0
        BY <3>2
      <4> HIDE DEF g
      <4> QED BY <3>2, <4>1, <4>2, <4>3
    <3> QED BY <2>3, <3>1, <3>2
  <2>5. DOMAIN g = 1..(m + 1) /\ g = [k \in 1..(m + 1) |-> g[k]]
    OBVIOUS
  <2> HIDE DEF g
  <2>6. IsFlat(g, s, m + 1)
    BY <2>4, <2>5 DEF IsFlat
  <2> QED BY <2>6
<1> HIDE DEF Good
<1>3. n \in Good
  BY <1>1, <1>2, NatInd
<1> QED BY <1>3 DEF Good

LEMMA FlattenIsFlat ==
    ASSUME NEW s, Len(s) \in Nat \ {0}
    PROVE  \E f : /\ FlattenSeq(s) = f[Len(s)]
                  /\ \A k \in 1..Len(s) :
                        f[k] = IF k = 1 THEN s[k] ELSE f[k - 1] \o s[k]
<1> DEFINE f == CHOOSE g : g = [k \in 1..Len(s) |-> IF k = 1 THEN s[k]
                                                     ELSE g[k - 1] \o s[k]]
<1>1. \E g : IsFlat(g, s, Len(s))
  BY FlatExists
<1>2. f = [k \in 1..Len(s) |-> IF k = 1 THEN s[k] ELSE f[k - 1] \o s[k]]
  BY <1>1 DEF IsFlat
<1>3. FlattenSeq(s) = f[Len(s)]
  BY DEF FlattenSeq
<1> HIDE DEF f
<1>4. \A k \in 1..Len(s) : f[k] = IF k = 1 THEN s[k] ELSE f[k - 1] \o s[k]
  BY <1>2
<1> QED BY <1>3, <1>4

\* There is no list but <<>> of length 0.
LEMMA OnlyEmpty ==
    ASSUME NEW T, NEW s \in Seq(T), Len(s) = 0
    PROVE  s = <<>>
<1>1. <<>> \in Seq(T) /\ Len(<<>>) = 0
  BY EmptySeq
<1>2. 1..Len(s) = {}
  BY EmptySeq
<1> QED BY <1>1, <1>2, SeqEqual

LEMMA FlattenEmpty ==
    ASSUME NEW T, NEW s \in Seq(T), Len(s) = 0
    PROVE  FlattenSeq(s) = <<>>
BY OnlyEmpty DEF FlattenSeq

\* A property of the number 1 that each hands on to the next, up to n.
LEMMA UpTo ==
    ASSUME NEW n \in Nat \ {0}, NEW S, 1 \in S,
           \A m \in 1..n : m \in S /\ m + 1 \in 1..n => m + 1 \in S
    PROVE  1..n \subseteq S
<1> DEFINE Good == {m \in Nat : m \in 1..n => m \in S}
<1>1. 0 \in Good
  OBVIOUS
<1>2. ASSUME NEW m \in Nat, m \in Good PROVE m + 1 \in Good
  <2>1. CASE m = 0
    BY <2>1
  <2>2. CASE m # 0
    <3>1. m + 1 \in 1..n => m \in 1..n
      BY <2>2
    <3> QED BY <1>2, <3>1
  <2> QED BY <2>1, <2>2
<1> HIDE DEF Good
<1>3. Nat \subseteq Good
  BY <1>1, <1>2, NatInd
<1> QED BY <1>3 DEF Good

LEMMA FlattenType ==
    ASSUME NEW T, NEW s \in Seq(Seq(T))
    PROVE  FlattenSeq(s) \in Seq(T)
<1>1. Len(s) \in Nat
  BY LenProperties
<1>2. CASE Len(s) = 0
  BY <1>2, FlattenEmpty, EmptySeq
<1>3. CASE Len(s) # 0
  <2> DEFINE n == Len(s)
  <2>1. PICK f : /\ FlattenSeq(s) = f[n]
                 /\ \A k \in 1..n : f[k] = IF k = 1 THEN s[k] ELSE f[k - 1] \o s[k]
    BY <1>1, <1>3, FlattenIsFlat
  <2>2. \A k \in 1..n : s[k] \in Seq(T)
    BY ElementOfSeq
  <2>3. n \in Nat \ {0}
    BY <1>1, <1>3
  <2> HIDE DEF n
  <2> DEFINE S == {m \in 1..n : f[m] \in Seq(T)}
  <2>4. 1 \in S
    BY <2>1, <2>2, <2>3
  <2>5. ASSUME NEW m \in 1..n, m \in S, m + 1 \in 1..n PROVE m + 1 \in S
    <3>1. f[m + 1] = f[m] \o s[m + 1]
      <4>1. m + 1 # 1 /\ (m + 1) - 1 = m
        BY <2>3
      <4> QED BY <2>1, <2>5, <4>1
    <3>2. f[m] \o s[m + 1] \in Seq(T)
      BY <2>2, <2>5, ConcatProperties
    <3> QED BY <2>5, <3>1, <3>2
  <2> HIDE DEF S
  <2>6. n \in S
    <3>1. 1..n \subseteq S
      BY <2>3, <2>4, <2>5, UpTo
    <3> QED BY <2>3, <3>1
  <2> QED BY <2>1, <2>6 DEF S
<1> QED BY <1>2, <1>3

\* One after the other, the members of a list make the list.
LEMMA FlattenSingles ==
    ASSUME NEW T, NEW x \in Seq(T)
    PROVE  FlattenSeq([k \in DOMAIN x |-> <<x[k]>>]) = x
<1> DEFINE s == [k \in DOMAIN x |-> <<x[k]>>]
           n == Len(x)
<1>1. n \in Nat /\ DOMAIN x = 1..n /\ \A k \in 1..n : x[k] \in T
  BY LenProperties, ElementOfSeq
<1>2. \A k \in 1..n : s[k] = <<x[k]>> /\ s[k] \in Seq(T) /\ Len(s[k]) = 1 /\ s[k][1] = x[k]
  BY <1>1
<1>3. s \in Seq(Seq(T)) /\ Len(s) = n
  <2> HIDE DEF n
  <2>1. s \in [1..n -> Seq(T)]
    BY <1>1, <1>2
  <2>2. s \in Seq(Seq(T))
    BY <1>1, <2>1, SeqDef
  <2>3. DOMAIN s = 1..n
    BY <1>1
  <2> HIDE DEF s
  <2> DEFINE l == Len(s)
  <2>4. l \in Nat /\ 1..l = 1..n
    BY <2>2, <2>3, LenProperties
  <2> HIDE DEF l
  <2>5. l = n
    BY <1>1, <2>4
  <2> QED BY <2>2, <2>5 DEF l
<1> HIDE DEF s, n
<1>4. CASE n = 0
  <2>1. FlattenSeq(s) = <<>>
    BY <1>3, <1>4, FlattenEmpty
  <2>2. x = <<>>
    BY <1>4, OnlyEmpty DEF n
  <2> QED BY <2>1, <2>2 DEF s
<1>5. CASE n # 0
  <2>1. n \in Nat \ {0}
    BY <1>1, <1>5
  <2>2. PICK f : /\ FlattenSeq(s) = f[n]
                 /\ \A k \in 1..n : f[k] = IF k = 1 THEN s[k] ELSE f[k - 1] \o s[k]
    BY <1>3, <2>1, FlattenIsFlat
  <2> DEFINE Begins(m) == /\ f[m] \in Seq(T) /\ Len(f[m]) = m
                          /\ \A k \in 1..m : f[m][k] = x[k]
             S == {m \in 1..n : Begins(m)}
  <2>3. 1 \in S
    <3>1. f[1] = s[1] /\ 1 \in 1..n
      BY <2>1, <2>2
    <3>2. \A k \in 1..1 : k = 1
      OBVIOUS
    <3> QED BY <1>2, <3>1, <3>2
  <2>4. ASSUME NEW m \in 1..n, m \in S, m + 1 \in 1..n PROVE m + 1 \in S
    <3>1. f[m + 1] = f[m] \o s[m + 1]
      <4>1. m + 1 # 1 /\ (m + 1) - 1 = m
        BY <2>1
      <4> QED BY <2>2, <2>4, <4>1
    <3>2. /\ f[m] \in Seq(T) /\ Len(f[m]) = m /\ \A k \in 1..m : f[m][k] = x[k]
      BY <2>4
    <3>3. /\ s[m + 1] \in Seq(T) /\ Len(s[m + 1]) = 1 /\ s[m + 1][1] = x[m + 1]
      BY <1>2, <2>4
    <3> DEFINE u == f[m]
               v == s[m + 1]
    <3> HIDE DEF u, v
    <3>4. /\ u \in Seq(T) /\ Len(u) = m /\ \A k \in 1..m : u[k] = x[k]
          /\ v \in Seq(T) /\ Len(v) = 1 /\ v[1] = x[m + 1]
      BY <3>2, <3>3 DEF u, v
    <3>5. /\ u \o v \in Seq(T) /\ Len(u \o v) = m + 1
          /\ \A k \in 1..(m + 1) : (u \o v)[k] = IF k <= m THEN u[k] ELSE v[k - m]
      <4>1. /\ u \o v \in Seq(T) /\ Len(u \o v) = Len(u) + Len(v)
            /\ \A k \in 1..Len(u) + Len(v) :
                  (u \o v)[k] = IF k <= Len(u) THEN u[k] ELSE v[k - Len(u)]
        <5>1. u \in Seq(T) /\ v \in Seq(T)
          BY <3>4
        <5> QED BY <5>1, ConcatProperties
      <4>2. Len(u) = m /\ Len(v) = 1
        BY <3>4
      <4> DEFINE w == u \o v
      <4> HIDE DEF w
      <4>3. /\ w \in Seq(T) /\ Len(w) = m + 1
            /\ \A k \in 1..(m + 1) : w[k] = IF k <= m THEN u[k] ELSE v[k - m]
        BY <4>1, <4>2 DEF w
      <4> QED BY <4>3 DEF w
    <3>6. \A k \in 1..(m + 1) : (u \o v)[k] = x[k]
      <4> SUFFICES ASSUME NEW k \in 1..(m + 1) PROVE (u \o v)[k] = x[k]
        OBVIOUS
      <4>1. CASE k <= m
        <5>1. k \in 1..m
          BY <2>1, <4>1
        <5> QED BY <3>4, <3>5, <4>1, <5>1
      <4>2. CASE ~(k <= m)
        <5>1. k = m + 1 /\ k - m = 1
          BY <2>1, <4>2
        <5> QED BY <3>4, <3>5, <4>2, <5>1
      <4> QED BY <4>1, <4>2
    <3>7. f[m + 1] = u \o v
      BY <3>1 DEF u, v
    <3> QED BY <2>4, <3>5, <3>6, <3>7
  <2> HIDE DEF S
  <2>5. n \in S
    <3>1. 1..n \subseteq S
      BY <2>1, <2>3, <2>4, UpTo
    <3> QED BY <2>1, <3>1
  <2>6. f[n] \in Seq(T) /\ Len(f[n]) = n /\ \A k \in 1..n : f[n][k] = x[k]
    BY <2>5 DEF S
  <2>7. f[n] = x
    BY <2>6, SeqEqual DEF n
  <2> QED BY <2>2, <2>7 DEF s
<1> QED BY <1>4, <1>5

-----------------------------------------------------------------------------
(* Duplicates. *)

\* HAVING COUNT(...) >= 2: there are two that differ.
LEMMA TwoOrMore ==
    ASSUME NEW S, IsFiniteSet(S)
    PROVE  Cardinality(S) >= 2 <=> \E x, y \in S : x # y
<1>1. Cardinality(S) \in Nat
  BY FS_CardinalityType
<1>2. ASSUME NEW x \in S, NEW y \in S, x # y PROVE Cardinality(S) >= 2
  <2>1. Cardinality(S) # 0
    BY FS_EmptySet
  <2>2. ASSUME Cardinality(S) = 1 PROVE FALSE
    <3>1. PICK z : S = {z}
      BY <2>2, FS_Singleton
    <3> QED BY <1>2, <3>1
  <2> QED BY <1>1, <2>1, <2>2
<1>3. ASSUME \A x, y \in S : x = y PROVE ~(Cardinality(S) >= 2)
  <2>1. CASE S = {}
    <3>1. Cardinality(S) = 0
      BY <2>1, FS_EmptySet
    <3> QED BY <3>1
  <2>2. CASE S # {}
    <3>1. PICK z : z \in S
      BY <2>2
    <3>2. S = {z}
      BY <1>3, <3>1
    <3>3. Cardinality(S) = 1
      BY <3>2, FS_Singleton
    <3> QED BY <3>3
  <2> QED BY <2>1, <2>2
<1> QED BY <1>2, <1>3

\* The order in which the tags of a group are put together, and the result.
IdOrder(S) ==
    CHOOSE s \in SetToSeqs(S) : \A j, k \in DOMAIN s : j < k => s[j] < s[k]

ConcatenationOf(S) ==
    IF S = {} THEN <<NoText>>
    ELSE FlattenSeq([k \in DOMAIN IdOrder(S) |-> Pieces[tag[IdOrder(S)[k]]]])

LEMMA ConcatenationDepends ==
    ASSUME NEW i PROVE Concatenation(i) = ConcatenationOf(LinkedTags(i))
BY DEF Concatenation, ConcatenationOf, IdOrder, InOrder

\* The tags of an item are read in the order of their ids: each once.
LEMMA TagIdsListed ==
    ASSUME IInv, NEW i
    PROVE  IdOrder(LinkedTags(i)) \in SetToSeqs(LinkedTags(i))
<1> DEFINE S == LinkedTags(i)
           before == {p \in S \X S : p[1] < p[2]}
<1>1. IsFiniteSet(S) /\ S \subseteq Int
  <2>1. DOMAIN tag \subseteq Int /\ IsFiniteSet(DOMAIN tag)
    BY TablesFinite, BoundAssumption DEF IInv, TypeOK, TagId
  <2> QED BY <2>1, Joined, FS_Subset
<1> HIDE DEF S
<1>2. Orders(before, S)
  BY <1>1 DEF Orders
<1>3. \E s \in SetToSeqs(S) : Ascending(s, before)
  <2> HIDE DEF before
  <2> QED BY <1>1, <1>2, SortingExists
<1>4. \E s \in SetToSeqs(S) : \A j, k \in DOMAIN s : j < k => s[j] < s[k]
  BY <1>3 DEF Ascending
<1> QED BY <1>4 DEF IdOrder, S

\* What is put together of plain names can be taken apart again.
LEMMA PlainConcatenation ==
    ASSUME IInv, NEW i, \A n \in NamesOn(i, item_tag, tag) : Plain(n)
    PROVE  LET names == NamesOn(i, item_tag, tag)
           IN  Range(Concatenation(i)) = IF names = {} THEN {NoText} ELSE names
<1> DEFINE S == LinkedTags(i)
           names == NamesOn(i, item_tag, tag)
           ids == IdOrder(S)
           x == [k \in DOMAIN ids |-> tag[ids[k]]]
<1>1. {tag[t] : t \in S} = names
  BY Joined
<1>2. CASE S = {}
  <2>1. Concatenation(i) = <<NoText>>
    BY <1>2, ConcatenationDepends DEF ConcatenationOf
  <2>2. Range(<<NoText>>) = {NoText}
    BY DEF Range
  <2> QED BY <1>1, <1>2, <2>1, <2>2
<1>3. CASE S # {}
  <2>1. /\ Cardinality(S) \in Nat /\ ids \in Seq(S) /\ DOMAIN ids = 1..Cardinality(S)
        /\ \A t \in S : \E k \in DOMAIN ids : ids[k] = t
    <3>1. IsFiniteSet(S)
      BY Joined, TablesFinite, FS_Subset
    <3>2. ids \in SetToSeqs(S)
      BY TagIdsListed
    <3> HIDE DEF ids, S
    <3> QED BY <3>1, <3>2, SeqsFacts
  <2>2. Concatenation(i) = FlattenSeq([k \in DOMAIN ids |-> Pieces[tag[ids[k]]]])
    BY <1>3, ConcatenationDepends DEF ConcatenationOf
  <2> HIDE DEF ids, S
  <2>3. \A k \in DOMAIN ids : ids[k] \in S
    <3>1. DOMAIN ids = 1..Len(ids)
      BY <2>1, LenProperties
    <3> QED BY <2>1, <3>1, ElementOfSeq
  <2>4. /\ DOMAIN x = 1..Cardinality(S)
        /\ \A k \in DOMAIN x : x[k] = tag[ids[k]] /\ x[k] \in names
    BY <1>1, <2>1, <2>3
  <2>5. x \in Seq(names)
    <3> HIDE DEF x
    <3>1. x = [k \in 1..Cardinality(S) |-> x[k]]
      BY <2>4 DEF x
    <3>2. x \in [1..Cardinality(S) -> names]
      BY <2>4, <3>1
    <3> QED BY <2>1, <3>2, SeqDef
  <2>6. \A k \in DOMAIN ids : Pieces[tag[ids[k]]] = <<x[k]>>
    BY <1>1, <2>3 DEF Plain
  <2>7. [k \in DOMAIN ids |-> Pieces[tag[ids[k]]]] = [k \in DOMAIN x |-> <<x[k]>>]
    BY <2>6
  <2>8. FlattenSeq([k \in DOMAIN x |-> <<x[k]>>]) = x
    <3> HIDE DEF x, names
    <3> QED BY <2>5, FlattenSingles
  <2>9. Concatenation(i) = x
    BY <2>2, <2>7, <2>8
  <2>10. Range(x) = names
    BY <1>1, <2>1, <2>3 DEF Range
  <2> QED BY <1>1, <1>3, <2>9, <2>10
<1> QED BY <1>2, <1>3

LEMMA SameNames ==
    ASSUME IInv, NEW i, NEW j
    PROVE  /\ NamesOn(i, item_tag, tag) = NamesOn(j, item_tag, tag) =>
                  Concatenation(i) = Concatenation(j)
           /\ /\ \A n \in NamesOn(i, item_tag, tag) \cup NamesOn(j, item_tag, tag) : Plain(n)
              /\ Concatenation(i) = Concatenation(j)
              => NamesOn(i, item_tag, tag) = NamesOn(j, item_tag, tag)
<1>1. ASSUME NamesOn(i, item_tag, tag) = NamesOn(j, item_tag, tag)
      PROVE  Concatenation(i) = Concatenation(j)
  <2>1. /\ \A a : {tag[t] : t \in LinkedTags(a)} = NamesOn(a, item_tag, tag)
        /\ \A a : LinkedTags(a) \subseteq DOMAIN tag
    BY Joined
  <2>2. \A t, u \in DOMAIN tag : tag[t] = tag[u] => t = u
    BY DEF IInv, UniqueKeys, IsInjective
  <2>3. {tag[t] : t \in LinkedTags(i)} = {tag[t] : t \in LinkedTags(j)}
    BY <1>1, <2>1
  <2>4. LinkedTags(i) = LinkedTags(j)
    BY <2>1, <2>2, <2>3
  <2> QED BY <2>4, ConcatenationDepends
<1>2. ASSUME \A n \in NamesOn(i, item_tag, tag) \cup NamesOn(j, item_tag, tag) : Plain(n),
             Concatenation(i) = Concatenation(j)
      PROVE  NamesOn(i, item_tag, tag) = NamesOn(j, item_tag, tag)
  <2> DEFINE p == NamesOn(i, item_tag, tag)
             q == NamesOn(j, item_tag, tag)
  <2>1. /\ Range(Concatenation(i)) = IF p = {} THEN {NoText} ELSE p
        /\ Range(Concatenation(j)) = IF q = {} THEN {NoText} ELSE q
    BY <1>2, PlainConcatenation
  <2>2. NoText \notin p /\ NoText \notin q
    BY <1>2 DEF Plain
  <2> HIDE DEF p, q
  <2>3. p = q
    BY <1>2, <2>1, <2>2
  <2> QED BY <2>3 DEF p, q
<1> QED BY <1>1, <1>2

\* An item with its copies have one fingerprint, so that they are in one group
\* of the query, and in a reported one if there are two containers.
LEMMA DuplicatesTrue == IInv => DuplicatesFound
<1> SUFFICES ASSUME IInv, NEW name \in [DOMAIN item -> 1..2]
             PROVE
        LET names(i) == NamesOn(i, item_tag, tag)
            copies(i) == {j \in DOMAIN item : name[i] = name[j] /\ names(i) = names(j)}
            groups == FindDuplicates(name)
        IN  /\ \A i \in DOMAIN item : (\E j \in copies(i) : item[j] # item[i]) =>
                  \E g \in groups : copies(i) \subseteq g
            /\ \A g \in groups :
                  /\ \E i, j \in g : item[i] # item[j]
                  /\ \A h \in groups \ {g} : g \cap h = {}
                  /\ \A i, j \in g :
                        /\ name[i] = name[j]
                        /\ (\A n \in names(i) \cup names(j) : Plain(n)) =>
                              names(i) = names(j)
  BY DEF DuplicatesFound
<1> DEFINE names(i) == NamesOn(i, item_tag, tag)
           copies(i) == {j \in DOMAIN item : name[i] = name[j] /\ names(i) = names(j)}
           group(i) == {j \in DOMAIN item : Fingerprint(name, j) = Fingerprint(name, i)}
           several(h) == Cardinality({item[j] : j \in h}) >= 2
           groups == FindDuplicates(name)
<1>1. \A i, j : Fingerprint(name, j) = Fingerprint(name, i) <=>
                    name[i] = name[j] /\ Concatenation(i) = Concatenation(j)
  BY DEF Fingerprint
<1>2. \A i : copies(i) \subseteq group(i)
  BY <1>1, SameNames
<1>3. ASSUME NEW h \in SUBSET DOMAIN item
      PROVE  several(h) <=> \E i, j \in h : item[i] # item[j]
  <2> DEFINE held == {item[j] : j \in h}
  <2>1. held \subseteq DOMAIN container
    BY DEF IInv, ForeignKeys, Range
  <2>2. IsFiniteSet(held)
    BY <2>1, TablesFinite, FS_Subset
  <2>3. Cardinality(held) >= 2 <=> \E x, y \in held : x # y
    <3> HIDE DEF held
    <3> QED BY <2>2, TwoOrMore
  <2> QED BY <2>3
<1>4. groups = {g \cap Placed : g \in {h \in {group(i) : i \in DOMAIN item} : several(h)}}
  BY DEF FindDuplicates
<1>5. \A i : group(i) \in SUBSET DOMAIN item /\ group(i) \cap Placed = group(i)
  BY Joined
<1>6. ASSUME NEW i \in DOMAIN item, several(group(i)) PROVE group(i) \in groups
  <2>1. group(i) \cap Placed \in groups
    <3> HIDE DEF group, several
    <3> QED BY <1>4, <1>6
  <2> QED BY <1>5, <2>1
<1>7. ASSUME NEW g \in groups
      PROVE  \E i \in DOMAIN item : g = group(i) /\ several(g)
  <2>1. PICK h \in {group(i) : i \in DOMAIN item} : several(h) /\ g = h \cap Placed
    <3> HIDE DEF group, several
    <3> QED BY <1>4, <1>7
  <2>2. PICK i \in DOMAIN item : h = group(i)
    OBVIOUS
  <2>3. g = h
    BY <1>5, <2>1, <2>2
  <2> HIDE DEF group, several
  <2> QED BY <2>1, <2>2, <2>3
<1>8. ASSUME NEW i \in DOMAIN item, NEW j \in copies(i), item[j] # item[i]
      PROVE  \E g \in groups : copies(i) \subseteq g
  <2>1. i \in group(i) /\ j \in group(i)
    BY <1>2, <1>8
  <2>2. several(group(i))
    <3> HIDE DEF group, several
    <3> QED BY <1>3, <1>5, <1>8, <2>1
  <2> HIDE DEF group, several, copies
  <2> QED BY <1>2, <1>6, <2>2
<1>9. ASSUME NEW g \in groups
      PROVE  /\ \E i, j \in g : item[i] # item[j]
             /\ \A h \in groups \ {g} : g \cap h = {}
             /\ \A i, j \in g :
                   /\ name[i] = name[j]
                   /\ (\A n \in names(i) \cup names(j) : Plain(n)) => names(i) = names(j)
  <2>1. PICK a \in DOMAIN item : g = group(a) /\ several(g)
    BY <1>7
  <2>2. \E i, j \in g : item[i] # item[j]
    <3> HIDE DEF group, several
    <3> QED BY <1>3, <1>5, <2>1
  <2>3. ASSUME NEW h \in groups, g \cap h # {} PROVE g = h
    <3>1. PICK b \in DOMAIN item : h = group(b)
      BY <1>7
    <3>2. PICK c : c \in group(a) /\ c \in group(b)
      BY <2>1, <2>3, <3>1
    <3>3. Fingerprint(name, a) = Fingerprint(name, b)
      BY <3>2
    <3> QED BY <2>1, <3>1, <3>3
  <2>4. ASSUME NEW i \in g, NEW j \in g
        PROVE  /\ name[i] = name[j]
               /\ (\A n \in names(i) \cup names(j) : Plain(n)) => names(i) = names(j)
    <3>1. Fingerprint(name, i) = Fingerprint(name, j)
      BY <2>1
    <3>2. name[i] = name[j] /\ Concatenation(i) = Concatenation(j)
      BY <1>1, <3>1
    <3> QED BY <3>2, SameNames
  <2> HIDE DEF group, several, groups, names
  <2> QED BY <2>2, <2>3, <2>4
<1> HIDE DEF groups, copies, names
<1>10. /\ \A i \in DOMAIN item : (\E j \in copies(i) : item[j] # item[i]) =>
              \E g \in groups : copies(i) \subseteq g
       /\ \A g \in groups :
              /\ \E i, j \in g : item[i] # item[j]
              /\ \A h \in groups \ {g} : g \cap h = {}
              /\ \A i, j \in g :
                    /\ name[i] = name[j]
                    /\ (\A n \in names(i) \cup names(j) : Plain(n)) => names(i) = names(j)
  BY <1>8, <1>9
<1> QED BY <1>10 DEF groups, copies, names

\* FindDuplicates: items in different containers that agree in name and tags are
\* reported, in one group with all others that do.  Those of a group agree in
\* name, and in tags if none of these is empty or contains '|'.
THEOREM DuplicatesAreTrue == Spec => []DuplicatesFound
BY Invariance, DuplicatesTrue, PTL

-----------------------------------------------------------------------------
(* The search. *)

\* The items that the search is about to order.
Found(hits, n, tags) ==
    IF n = NoText /\ tags = <<>> THEN {} ELSE Matched(hits, n, tags)

\* A row of the join is an item with one of its tags, or with NULL.
LEMMA TagRowsFacts ==
    ASSUME IInv, NEW i \in DOMAIN item
    PROVE  /\ \A row \in TagRows(i) :
                 row[1] = i /\ (row[2] # Null => row[2] \in LinkedTags(i))
           /\ \A t \in LinkedTags(i) : <<i, t>> \in TagRows(i) /\ t # Null
           /\ \E t : <<i, t>> \in TagRows(i)
<1>1. \A t \in LinkedTags(i) : t # Null
  BY Joined
<1>2. CASE LinkedTags(i) = {}
  <2>1. TagRows(i) = {i} \X {Null}
    BY <1>2 DEF TagRows
  <2> QED BY <1>2, <2>1
<1>3. CASE LinkedTags(i) # {}
  <2>1. TagRows(i) = {i} \X LinkedTags(i)
    BY <1>3 DEF TagRows
  <2> QED BY <1>1, <1>3, <2>1
<1> QED BY <1>2, <1>3

\* Grouped by item, the rows with the text or tag are the items with it.
LEMMA TextMatches ==
    ASSUME IInv, NEW hits \in SUBSET DOMAIN item, NEW n
    PROVE  {row[1] : row \in TextRows(hits, n)} =
               {i \in DOMAIN item : i \in hits \/ n \in NamesOn(i, item_tag, tag)}
<1>1. ASSUME NEW row \in TextRows(hits, n)
      PROVE  /\ row[1] \in DOMAIN item
             /\ row[1] \in hits \/ n \in NamesOn(row[1], item_tag, tag)
  <2>1. PICK i \in DOMAIN item : row \in TagRows(i)
    BY Joined DEF TextRows
  <2>2. row[1] = i /\ (row[2] # Null => row[2] \in LinkedTags(i))
    BY <2>1, TagRowsFacts
  <2>3. row[1] \in hits \/ (row[2] # Null /\ tag[row[2]] = n)
    BY DEF TextRows
  <2>4. {tag[t] : t \in LinkedTags(i)} = NamesOn(i, item_tag, tag)
    BY Joined
  <2> QED BY <2>2, <2>3, <2>4
<1>2. ASSUME NEW i \in DOMAIN item, i \in hits \/ n \in NamesOn(i, item_tag, tag)
      PROVE  \E row \in TextRows(hits, n) : row[1] = i
  <2>1. CASE i \in hits
    <3>1. PICK t : <<i, t>> \in TagRows(i)
      BY TagRowsFacts
    <3>2. <<i, t>> \in TextRows(hits, n)
      BY <2>1, <3>1, Joined DEF TextRows
    <3> QED BY <3>2
  <2>2. CASE n \in NamesOn(i, item_tag, tag)
    <3>1. {tag[t] : t \in LinkedTags(i)} = NamesOn(i, item_tag, tag)
      BY Joined
    <3>2. PICK t \in LinkedTags(i) : tag[t] = n
      BY <2>2, <3>1
    <3>3. <<i, t>> \in TagRows(i) /\ t # Null
      BY TagRowsFacts
    <3>4. <<i, t>> \in TextRows(hits, n)
      BY <3>2, <3>3, Joined DEF TextRows
    <3> QED BY <3>4
  <2> QED BY <1>2, <2>1, <2>2
<1> QED BY <1>1, <1>2

\* COUNT(DISTINCT ...) = the number of terms: every term is on the item, and no
\* term was given twice.
LEMMA FilterMatches ==
    ASSUME IInv, NEW hits \in SUBSET DOMAIN item, NEW n, NEW tags \in Seq(STRING)
    PROVE  FilteredItems(DOMAIN item, hits, n, tags) =
               {i \in DOMAIN item : /\ n = NoText \/ i \in hits
                                    /\ IsInjective(tags)
                                    /\ Range(tags) \subseteq NamesOn(i, item_tag, tag)}
<1> DEFINE R == Range(tags)
           len == Len(tags)
<1>1. len \in Nat /\ DOMAIN tags = 1..len
  BY LenProperties
<1>2. tags \in Surjection(1..len, R)
  BY <1>1 DEF Surjection, Range
<1>3. IsFiniteSet(1..len) /\ Cardinality(1..len) = len
  <2> HIDE DEF len
  <2>1. IsFiniteSet(1..len) /\ Cardinality(1..len) = IF 1 > len THEN 0 ELSE len - 1 + 1
    BY <1>1, FS_Interval
  <2> QED BY <1>1, <2>1
<1>4. /\ IsFiniteSet(R) /\ Cardinality(R) \in Nat /\ Cardinality(R) <= len
      /\ Cardinality(R) = len <=> IsInjective(tags)
  <2>1. tags \in Injection(1..len, R) <=> IsInjective(tags)
    BY <1>2 DEF Surjection, Injection
  <2> HIDE DEF R, len
  <2>2. /\ IsFiniteSet(R) /\ Cardinality(R) <= Cardinality(1..len)
        /\ Cardinality(R) = Cardinality(1..len) <=> tags \in Injection(1..len, R)
    BY <1>2, <1>3, FS_Surjection
  <2>3. Cardinality(R) \in Nat
    BY <2>2, FS_CardinalityType
  <2> QED BY <1>3, <2>1, <2>2, <2>3
<1> HIDE DEF R, len
<1>5. ASSUME NEW names
      PROVE  Cardinality(names \cap R) = len <=> IsInjective(tags) /\ R \subseteq names
  <2>1. names \cap R \in SUBSET R
    OBVIOUS
  <2> DEFINE c == names \cap R
  <2> HIDE DEF c
  <2>2. /\ c \in SUBSET R
        /\ Cardinality(c) <= Cardinality(R)
        /\ Cardinality(R) = Cardinality(c) => R = c
        /\ Cardinality(c) \in Nat
    <3>1. c \in SUBSET R
      BY <2>1 DEF c
    <3>2. IsFiniteSet(c)
      BY <1>4, <3>1, FS_Subset
    <3>3. Cardinality(c) \in Nat
      BY <3>2, FS_CardinalityType
    <3> QED BY <1>4, <3>1, <3>3, FS_Subset
  <2>3. R \subseteq names <=> c = R
    BY DEF c
  <2>4. Cardinality(c) = len <=> IsInjective(tags) /\ c = R
    BY <1>1, <1>4, <2>2
  <2> QED BY <2>3, <2>4 DEF c
<1>6. \A i : {tag[t] : t \in LinkedTags(i)} = NamesOn(i, item_tag, tag)
  BY Joined
<1> QED BY <1>5, <1>6 DEF FilteredItems, R, len

\* The second query counts the items of the first, the joins losing none.
LEMMA CountAgrees ==
    ASSUME IInv, NEW hits, NEW n, NEW tags
    PROVE  searchBatchCount(hits, n, tags) = Cardinality(Matched(hits, n, tags))
BY Joined DEF searchBatchCount, Matched

\* What is shown of the rows that were found.
LEMMA ShownFacts ==
    ASSUME NEW S, NEW ids \in Seq(S), NEW L \in Nat \ {0}
    PROVE  LET shown == IF Len(ids) > L THEN SubSeq(ids, 1, L) ELSE ids
           IN  /\ DOMAIN shown = 1..(IF Len(ids) > L THEN L ELSE Len(ids))
               /\ \A k \in DOMAIN shown : k \in DOMAIN ids /\ shown[k] = ids[k]
<1>1. Len(ids) \in Nat /\ DOMAIN ids = 1..Len(ids)
  BY LenProperties
<1>2. CASE Len(ids) > L
  <2>1. \A k \in 1..L : k \in 1..Len(ids)
    BY <1>1, <1>2
  <2>2. \A k \in 1..L : ids[k] \in S
    BY <2>1, ElementOfSeq
  <2>3. /\ SubSeq(ids, 1, L) \in Seq(S)
        /\ Len(SubSeq(ids, 1, L)) = L
        /\ \A k \in 1..L : SubSeq(ids, 1, L)[k] = ids[k]
    <3>1. /\ SubSeq(ids, 1, L) \in Seq(S)
          /\ Len(SubSeq(ids, 1, L)) = IF 1 <= L THEN L - 1 + 1 ELSE 0
          /\ \A k \in 1..(L - 1 + 1) : SubSeq(ids, 1, L)[k] = ids[1 + k - 1]
      BY <2>2, SubSeqProperties
    <3>2. L - 1 + 1 = L /\ 1 <= L
      OBVIOUS
    <3>3. \A k \in 1..L : 1 + k - 1 = k
      OBVIOUS
    <3> QED BY <3>1, <3>2, <3>3
  <2>4. DOMAIN SubSeq(ids, 1, L) = 1..L
    BY <2>3, LenProperties
  <2> QED BY <1>1, <1>2, <2>1, <2>3, <2>4
<1>3. CASE ~(Len(ids) > L)
  BY <1>1, <1>3
<1> QED BY <1>2, <1>3

\* An answer: the first of the items that were found, in an order of the grid, as
\* many as are shown, and the number of all.
Answers(answer, hits, n, tags, limit) ==
    LET r == answer.results
        F == Found(hits, n, tags)
        m == Cardinality(F)
        last == IF m > limit THEN limit ELSE m
    IN  /\ m \in Nat
        /\ answer.total = m
        /\ Len(r) = last
        /\ DOMAIN r = 1..last
        /\ \E ids \in Ordered(F) :
              /\ DOMAIN ids = 1..m
              /\ \A k \in DOMAIN r : k \in DOMAIN ids
                                      /\ r[k] = Result(ids[k], hits, n, tags)

LEMMA AnswerFacts ==
    ASSUME IInv, NEW hits \in SUBSET DOMAIN item, NEW n, NEW tags,
           NEW limit \in Nat \ {0},
           NEW answer \in SearchItemsBatch(hits, n, tags, limit)
    PROVE  Answers(answer, hits, n, tags, limit)
<1> DEFINE F == Found(hits, n, tags)
           m == Cardinality(F)
           last == IF m > limit THEN limit ELSE m
           res(i) == Result(i, hits, n, tags)
<1>1. F \subseteq DOMAIN item
  <2>1. {row[1] : row \in TextRows(hits, n)} \subseteq DOMAIN item
    BY TextMatches
  <2>2. FilteredItems(Placed, hits, n, tags) \subseteq DOMAIN item
    BY Joined DEF FilteredItems
  <2> QED BY <2>1, <2>2 DEF Found, Matched
<1>2. IsFiniteSet(F)
  BY <1>1, TablesFinite, FS_Subset
<1>3. PICK ids \in Ordered(F) :
        answer = LET more == Len(ids) > limit
                     shown == IF more THEN SubSeq(ids, 1, limit) ELSE ids
                 IN  [results |-> [k \in DOMAIN shown |-> res(shown[k])],
                      total |-> IF more THEN searchBatchCount(hits, n, tags)
                                ELSE Len(ids)]
  BY DEF SearchItemsBatch, Found
<1> DEFINE shown == IF Len(ids) > limit THEN SubSeq(ids, 1, limit) ELSE ids
           r == answer.results
<1>4. /\ m \in Nat /\ ids \in Seq(F) /\ Len(ids) = m /\ DOMAIN ids = 1..m
      /\ \A j, k \in DOMAIN ids : ids[j] = ids[k] => j = k
  <2>1. ids \in SetToSeqs(F)
    BY DEF Ordered
  <2> HIDE DEF F
  <2> QED BY <1>2, <2>1, SeqsFacts
<1>5. /\ DOMAIN shown = 1..last
      /\ \A k \in DOMAIN shown : k \in DOMAIN ids /\ shown[k] = ids[k]
  <2> HIDE DEF F
  <2>1. /\ DOMAIN shown = 1..(IF Len(ids) > limit THEN limit ELSE Len(ids))
        /\ \A k \in DOMAIN shown : k \in DOMAIN ids /\ shown[k] = ids[k]
    BY <1>4, ShownFacts
  <2> QED BY <1>4, <2>1
<1>6. /\ r = [k \in DOMAIN shown |-> res(shown[k])]
      /\ answer.total = IF Len(ids) > limit THEN searchBatchCount(hits, n, tags)
                        ELSE Len(ids)
  BY <1>3
<1> HIDE DEF res, shown, r, F
<1>7. DOMAIN r = 1..last /\ \A k \in DOMAIN r : k \in DOMAIN ids /\ r[k] = res(ids[k])
  BY <1>5, <1>6
<1>9. answer.total = m
  <2>1. CASE m > limit
    <3>1. F = Matched(hits, n, tags)
      <4>1. F = {} => m = 0
        BY FS_EmptySet
      <4>2. F # {}
        BY <2>1, <4>1
      <4> QED BY <4>2 DEF F, Found
    <3> QED BY <1>4, <1>6, <2>1, <3>1, CountAgrees
  <2>2. CASE ~(m > limit)
    BY <1>4, <1>6, <2>2
  <2> QED BY <2>1, <2>2
<1>10. last \in Nat
  BY <1>4
<1>11. Len(r) = last
  <2> HIDE DEF last
  <2>1. r \in [1..last -> {r[k] : k \in 1..last}]
    <3>1. r = [k \in 1..last |-> r[k]]
      BY <1>5, <1>6, <1>7
    <3> QED BY <3>1
  <2>2. r \in Seq({r[k] : k \in 1..last})
    BY <1>10, <2>1, SeqDef
  <2>3. Len(r) \in Nat /\ DOMAIN r = 1..Len(r)
    BY <2>2, LenProperties
  <2>4. \A k \in Nat \ {0} : k <= Len(r) <=> k <= last
    <3>1. 1..Len(r) = 1..last
      BY <1>7, <2>3
    <3>2. \A k \in Nat \ {0} : k \in 1..Len(r) <=> k \in 1..last
      BY <3>1
    <3> QED BY <1>10, <2>3, <3>2
  <2> DEFINE len == Len(r)
  <2> HIDE DEF len
  <2>5. len \in Nat /\ \A k \in Nat \ {0} : k <= len <=> k <= last
    BY <2>3, <2>4 DEF len
  <2>6. len = last
    BY <1>10, <2>5
  <2> QED BY <2>6 DEF len
<1>12. ids \in Ordered(F) /\ DOMAIN ids = 1..m
  BY <1>3, <1>4 DEF F
<1> QED BY <1>4, <1>7, <1>9, <1>11, <1>12 DEF r, F, res, Answers

\* The items that a query asks for, a search by tags alone asking for any text.
Wanted(hits, n, tags) ==
    {i \in DOMAIN item :
        LET names == NamesOn(i, item_tag, tag)
        IN  IF tags = <<>> THEN n # NoText /\ (i \in hits \/ n \in names)
            ELSE i \in hits /\ IsInjective(tags) /\ Range(tags) \subseteq names}

IsQuery(hits, n, filters, limit) ==
    /\ hits \in SUBSET DOMAIN item /\ filters \in FilterLists /\ limit \in ResultLimits
    /\ n \in LowerName \/ (n = NoText /\ hits = DOMAIN item)

\* What the handler makes of the filters is a list of texts, and the filters
\* themselves if none of them contains ','.
LEMMA TermsFacts ==
    ASSUME NEW filters \in FilterLists
    PROVE  /\ TermsOf(filters) \in Seq(STRING)
           /\ (\A f \in Range(filters) : Terms[f] = <<f>>) => TermsOf(filters) = filters
<1> DEFINE s == [k \in DOMAIN filters |-> Terms[filters[k]]]
           len == Len(filters)
<1>1. filters \in Seq(DOMAIN Terms)
  BY SeparatorAssumption
<1>2. /\ len \in Nat /\ DOMAIN filters = 1..len
      /\ \A k \in 1..len : filters[k] \in DOMAIN Terms
  BY <1>1, LenProperties, ElementOfSeq
<1>3. s \in Seq(Seq(STRING))
  <2> HIDE DEF len
  <2>1. s \in [1..len -> Seq(STRING)]
    BY <1>2, SeparatorAssumption
  <2> HIDE DEF s
  <2> QED BY <1>2, <2>1, SeqDef
<1>4. TermsOf(filters) = FlattenSeq(s)
  BY DEF TermsOf
<1>5. FlattenSeq(s) \in Seq(STRING)
  <2> HIDE DEF s
  <2> QED BY <1>3, FlattenType
<1>6. ASSUME \A f \in Range(filters) : Terms[f] = <<f>>
      PROVE  TermsOf(filters) = filters
  <2>1. \A k \in DOMAIN filters : Terms[filters[k]] = <<filters[k]>>
    BY <1>6 DEF Range
  <2>2. s = [k \in DOMAIN filters |-> <<filters[k]>>]
    BY <2>1
  <2>3. FlattenSeq([k \in DOMAIN filters |-> <<filters[k]>>]) = filters
    BY <1>1, FlattenSingles
  <2> HIDE DEF s
  <2> QED BY <1>4, <2>2, <2>3
<1> QED BY <1>4, <1>5, <1>6

LEMMA FoundIsWanted ==
    ASSUME IInv, NEW hits, NEW n, NEW filters, NEW limit,
           IsQuery(hits, n, filters, limit)
    PROVE  Found(hits, n, TermsOf(filters)) = Wanted(hits, n, TermsOf(filters))
<1> DEFINE tags == TermsOf(filters)
<1>1. tags \in Seq(STRING)
  BY TermsFacts DEF IsQuery
<1>2. hits \in SUBSET DOMAIN item /\ (n = NoText => hits = DOMAIN item)
  BY TextAssumption DEF IsQuery
<1> HIDE DEF tags
<1>3. Found(hits, n, tags) = Wanted(hits, n, tags)
  <2>1. CASE tags = <<>> /\ n = NoText
    BY <2>1 DEF Found, Wanted
  <2>2. CASE tags = <<>> /\ n # NoText
    <3>1. Found(hits, n, tags) = {row[1] : row \in TextRows(hits, n)}
      BY <2>2 DEF Found, Matched
    <3>2. {row[1] : row \in TextRows(hits, n)} =
              {i \in DOMAIN item : i \in hits \/ n \in NamesOn(i, item_tag, tag)}
      BY <1>2, TextMatches
    <3> QED BY <2>2, <3>1, <3>2 DEF Wanted
  <2>3. CASE tags # <<>>
    <3>1. Found(hits, n, tags) = FilteredItems(DOMAIN item, hits, n, tags)
      BY <2>3, Joined DEF Found, Matched
    <3>2. FilteredItems(DOMAIN item, hits, n, tags) =
              {i \in DOMAIN item : /\ n = NoText \/ i \in hits
                                   /\ IsInjective(tags)
                                   /\ Range(tags) \subseteq NamesOn(i, item_tag, tag)}
      BY <1>1, <1>2, FilterMatches
    <3>3. \A i \in DOMAIN item : (n = NoText \/ i \in hits) <=> i \in hits
      BY <1>2
    <3> QED BY <2>3, <3>1, <3>2, <3>3 DEF Wanted
  <2> QED BY <2>1, <2>2, <2>3
<1> QED BY <1>3 DEF tags

\* What an answer shows is the beginning of the items that are wanted, in order.
LEMMA AnswerIsWanted ==
    ASSUME IInv, NEW hits, NEW n, NEW filters, NEW limit,
           IsQuery(hits, n, filters, limit),
           NEW answer \in SearchItemsBatch(hits, n, TermsOf(filters), limit)
    PROVE  LET r == answer.results
               wanted == Wanted(hits, n, TermsOf(filters))
               shown == {r[k].id : k \in DOMAIN r}
           IN  /\ shown \subseteq wanted
               /\ \A j, k \in DOMAIN r : j < k =>
                     /\ r[j].id # r[k].id
                     /\ ~ColumnMajor(Position(r[k].id), Position(r[j].id))
               /\ \A i \in wanted \ shown, k \in DOMAIN r :
                     ~ColumnMajor(Position(i), Position(r[k].id))
               /\ answer.total = Cardinality(wanted)
               /\ Len(r) = IF answer.total > limit THEN limit ELSE answer.total
               /\ \A k \in DOMAIN r : r[k] = Result(r[k].id, hits, n, TermsOf(filters))
<1> DEFINE r == answer.results
           tags == TermsOf(filters)
           F == Found(hits, n, tags)
           m == Cardinality(F)
           last == IF m > limit THEN limit ELSE m
           shown == {r[k].id : k \in DOMAIN r}
<1>1. limit \in Nat \ {0} /\ hits \in SUBSET DOMAIN item
  BY LimitAssumption DEF IsQuery
<1>2. F = Wanted(hits, n, tags)
  BY FoundIsWanted
<1>3. Answers(answer, hits, n, tags, limit)
  BY <1>1, AnswerFacts
<1>4. /\ m \in Nat /\ answer.total = m /\ Len(r) = last /\ DOMAIN r = 1..last
      /\ \E ids \in Ordered(F) :
            /\ DOMAIN ids = 1..m
            /\ \A k \in DOMAIN r : k \in DOMAIN ids /\ r[k] = Result(ids[k], hits, n, tags)
  BY <1>3 DEF Answers
<1>5. PICK ids \in Ordered(F) :
          /\ DOMAIN ids = 1..m
          /\ \A k \in DOMAIN r : k \in DOMAIN ids /\ r[k] = Result(ids[k], hits, n, tags)
  BY <1>4
<1>6. /\ \A j, k \in DOMAIN ids : j < k =>
            ~ColumnMajor(Position(ids[k]), Position(ids[j]))
      /\ ids \in SetToSeqs(F)
  BY DEF Ordered
<1>7. IsFiniteSet(F)
  <2>1. F \subseteq DOMAIN item
    BY <1>2 DEF Wanted
  <2> HIDE DEF F
  <2> QED BY <2>1, TablesFinite, FS_Subset
<1> HIDE DEF F, r, tags
<1>8. /\ \A j, k \in DOMAIN ids : ids[j] = ids[k] => j = k
      /\ \A i \in F : \E k \in DOMAIN ids : ids[k] = i
      /\ ids \in Seq(F) /\ DOMAIN ids = 1..Len(ids)
  <2>1. /\ \A j, k \in DOMAIN ids : ids[j] = ids[k] => j = k
        /\ \A i \in F : \E k \in DOMAIN ids : ids[k] = i
        /\ ids \in Seq(F)
    BY <1>6, <1>7, SeqsFacts
  <2> QED BY <2>1, LenProperties
<1>9. \A k \in DOMAIN ids : ids[k] \in F
  BY <1>8, ElementOfSeq
<1>10. \A i : Result(i, hits, n, tags).id = i
  BY DEF Result
<1>11. \A k \in DOMAIN r : k \in DOMAIN ids /\ r[k].id = ids[k]
                           /\ r[k] = Result(r[k].id, hits, n, tags)
  BY <1>5, <1>10
<1>12. shown \subseteq F
  BY <1>9, <1>11
<1>13. ASSUME NEW j \in DOMAIN r, NEW k \in DOMAIN r, j < k
       PROVE  /\ r[j].id # r[k].id
              /\ ~ColumnMajor(Position(r[k].id), Position(r[j].id))
  <2>1. j \in Int /\ k \in Int
    BY <1>4, <1>1
  <2>2. j # k
    BY <1>13, <2>1
  <2> QED BY <1>6, <1>8, <1>11, <1>13, <2>2
<1>14. ASSUME NEW i \in F \ shown, NEW k \in DOMAIN r
       PROVE  ~ColumnMajor(Position(i), Position(r[k].id))
  <2>1. PICK l \in DOMAIN ids : ids[l] = i
    BY <1>8
  <2>2. l \notin DOMAIN r
    BY <1>11, <2>1
  <2>3. k < l
    <3>1. l \in 1..m /\ l \notin 1..last /\ k \in 1..last
      BY <1>4, <1>5, <2>2
    <3> QED BY <1>1, <1>4, <3>1
  <2> QED BY <1>6, <1>11, <2>1, <2>3
<1>15. Len(r) = IF answer.total > limit THEN limit ELSE answer.total
  BY <1>4
<1>16. answer.total = Cardinality(F)
  BY <1>4
<1> HIDE DEF m, last
<1> QED BY <1>2, <1>11, <1>12, <1>13, <1>14, <1>15, <1>16 DEF r, tags

\* Every query finds what it asks for, and counts it.
LEMMA SearchTrue == IInv => SearchFindsItems
<1> DEFINE
      Holds(hits, n, filters, limit) ==
        LET plain == \A f \in Range(filters) : Terms[f] = <<f>>
            asked == IF plain THEN filters ELSE TermsOf(filters)
            wanted == {i \in DOMAIN item :
                LET names == NamesOn(i, item_tag, tag)
                IN  IF asked = <<>> THEN n # NoText /\ (i \in hits \/ n \in names)
                    ELSE i \in hits /\ IsInjective(asked) /\ Range(asked) \subseteq names}
        IN  \A answer \in SearchItemsBatch(hits, n, TermsOf(filters), limit) :
                LET r == answer.results
                    shown == {r[k].id : k \in DOMAIN r}
                IN  /\ shown \subseteq wanted
                    /\ \A j, k \in DOMAIN r : j < k =>
                          /\ r[j].id # r[k].id
                          /\ ~ColumnMajor(Position(r[k].id), Position(r[j].id))
                    /\ \A i \in wanted \ shown, k \in DOMAIN r :
                          ~ColumnMajor(Position(i), Position(r[k].id))
                    /\ answer.total = Cardinality(wanted)
                    /\ Len(r) = IF answer.total > limit THEN limit ELSE answer.total
<1>1. ASSUME IInv, NEW hits, NEW n, NEW filters, NEW limit,
             IsQuery(hits, n, filters, limit)
      PROVE  Holds(hits, n, filters, limit)
  <2> DEFINE plain == \A f \in Range(filters) : Terms[f] = <<f>>
             asked == IF plain THEN filters ELSE TermsOf(filters)
             wanted == {i \in DOMAIN item :
                LET names == NamesOn(i, item_tag, tag)
                IN  IF asked = <<>> THEN n # NoText /\ (i \in hits \/ n \in names)
                    ELSE i \in hits /\ IsInjective(asked) /\ Range(asked) \subseteq names}
  <2>1. asked = TermsOf(filters)
    BY <1>1, TermsFacts DEF IsQuery
  <2> HIDE DEF asked
  <2>2. wanted = Wanted(hits, n, TermsOf(filters))
    BY <2>1 DEF Wanted
  <2> HIDE DEF wanted
  <2>3. ASSUME NEW answer \in SearchItemsBatch(hits, n, TermsOf(filters), limit)
        PROVE  LET r == answer.results
                   shown == {r[k].id : k \in DOMAIN r}
               IN  /\ shown \subseteq wanted
                   /\ \A j, k \in DOMAIN r : j < k =>
                         /\ r[j].id # r[k].id
                         /\ ~ColumnMajor(Position(r[k].id), Position(r[j].id))
                   /\ \A i \in wanted \ shown, k \in DOMAIN r :
                         ~ColumnMajor(Position(i), Position(r[k].id))
                   /\ answer.total = Cardinality(wanted)
                   /\ Len(r) = IF answer.total > limit THEN limit ELSE answer.total
    BY <1>1, <2>2, AnswerIsWanted
  <2> QED BY <2>3 DEF wanted, asked
<1> HIDE DEF Holds
<1>2. ASSUME IInv, NEW hits \in SUBSET DOMAIN item, NEW filters \in FilterLists,
             NEW limit \in ResultLimits
      PROVE  (\A n \in LowerName : Holds(hits, n, filters, limit))
             /\ Holds(DOMAIN item, NoText, filters, limit)
  BY <1>1, <1>2 DEF IsQuery
<1> QED BY <1>2 DEF SearchFindsItems, Queried, Holds

\* SearchItemsBatch: a search finds the items that have the text in their name
\* or description or have the tag, or those with the text and all of the terms
\* that the selected tags are taken apart to, and nothing if a term is given
\* twice; the first in the order of the grid, no item twice, and with the true
\* number of all.
THEOREM SearchIsComplete == Spec => []SearchFindsItems
BY Invariance, SearchTrue, PTL

\* The rows that a result's tags are put together of, when no tag was selected,
\* hold only names of its tags, and the one that was searched for if it is one.
LEMMA RowNames ==
    ASSUME IInv, NEW hits, NEW n, NEW i \in DOMAIN item
    PROVE  LET rows == {tag[t] : t \in ResultRows(i, hits, n, <<>>)}
               names == NamesOn(i, item_tag, tag)
           IN  rows \subseteq names /\ (n \in names => n \in rows)
<1> DEFINE rows == {tag[t] : t \in ResultRows(i, hits, n, <<>>)}
           names == NamesOn(i, item_tag, tag)
<1>1. {tag[t] : t \in LinkedTags(i)} = names
  BY Joined
<1>2. ResultRows(i, hits, n, <<>>) =
          {row[2] : row \in {q \in TextRows(hits, n) : q[1] = i /\ q[2] # Null}}
  BY DEF ResultRows
<1>3. ASSUME NEW t \in ResultRows(i, hits, n, <<>>) PROVE tag[t] \in names
  <2>1. PICK row \in TextRows(hits, n) : row[1] = i /\ row[2] # Null /\ row[2] = t
    BY <1>2, <1>3
  <2>2. PICK j \in DOMAIN item : row \in TagRows(j)
    BY Joined DEF TextRows
  <2>3. row[1] = j /\ (row[2] # Null => row[2] \in LinkedTags(j))
    BY <2>2, TagRowsFacts
  <2> QED BY <1>1, <2>1, <2>3
<1>4. ASSUME n \in names PROVE n \in rows
  <2>1. PICK t \in LinkedTags(i) : tag[t] = n
    BY <1>1, <1>4
  <2>2. <<i, t>> \in TagRows(i) /\ t # Null
    BY TagRowsFacts
  <2>3. <<i, t>> \in TextRows(hits, n)
    BY <2>1, <2>2, Joined DEF TextRows
  <2>4. t \in ResultRows(i, hits, n, <<>>)
    BY <1>2, <2>2, <2>3
  <2> QED BY <2>1, <2>4
<1> QED BY <1>3, <1>4

\* The name that was searched for is among the tags shown, if it contains no
\* '|'; if no name on the item does, only names of its tags are shown.
LEMMA TagShown ==
    ASSUME IInv, NEW hits, NEW n, n # NoText, NEW i \in DOMAIN item
    PROVE  LET found == ResultTags(i, hits, n, <<>>)
               names == NamesOn(i, item_tag, tag)
           IN  /\ n \in names /\ Pieces[n] = <<n>> => n \in found
               /\ (\A m \in names : Pieces[m] = <<m>>) => (n \in found <=> n \in names)
<1> DEFINE rows == {tag[t] : t \in ResultRows(i, hits, n, <<>>)}
           names == NamesOn(i, item_tag, tag)
           found == ResultTags(i, hits, n, <<>>)
<1>1. rows \subseteq names /\ (n \in names => n \in rows)
  BY RowNames
<1>2. found = IF rows = {NoText} THEN {} ELSE UNION {Range(Pieces[m]) : m \in rows}
  BY DEF ResultTags
<1>3. \A m : Range(<<m>>) = {m}
  BY DEF Range
<1> HIDE DEF rows, found, names
<1>4. ASSUME n \in names, Pieces[n] = <<n>> PROVE n \in found
  <2>1. n \in rows /\ rows # {NoText}
    BY <1>1, <1>4
  <2>2. n \in Range(Pieces[n])
    BY <1>3, <1>4
  <2> QED BY <1>2, <2>1, <2>2
<1>5. ASSUME \A m \in names : Pieces[m] = <<m>>, n \in found PROVE n \in names
  <2>1. PICK m \in rows : n \in Range(Pieces[m])
    BY <1>2, <1>5
  <2>2. m \in names /\ Pieces[m] = <<m>>
    BY <1>1, <1>5, <2>1
  <2>3. n = m
    BY <1>3, <2>1, <2>2
  <2> QED BY <2>2, <2>3
<1>6. /\ n \in names /\ Pieces[n] = <<n>> => n \in found
      /\ (\A m \in names : Pieces[m] = <<m>>) => (n \in found <=> n \in names)
  BY <1>4, <1>5
<1> QED BY <1>6 DEF found, names

\* A wanted item has the text, or else the tag, and is marked with what it has.
LEMMA WhyTrue == IInv => SearchSaysWhy
<1> DEFINE
      Holds(hits, n, filters, limit) ==
        \A answer \in SearchItemsBatch(hits, n, TermsOf(filters), limit) :
            \A k \in DOMAIN answer.results :
                LET r == answer.results[k]
                    names == NamesOn(r.id, item_tag, tag)
                IN  /\ n # NoText /\ r.matched_on = {} =>
                          n \in names /\ Pieces[n] # <<n>>
                    /\ "text" \in r.matched_on <=> n # NoText /\ r.id \in hits
                    /\ (\A m \in names : Pieces[m] = <<m>>) =>
                          ("tag" \in r.matched_on <=> TermsOf(filters) = <<>> /\ n \in names)
<1>1. ASSUME IInv, NEW hits, NEW n, NEW filters, NEW limit,
             IsQuery(hits, n, filters, limit)
      PROVE  Holds(hits, n, filters, limit)
  <2> SUFFICES ASSUME NEW answer \in SearchItemsBatch(hits, n, TermsOf(filters), limit),
                      NEW k \in DOMAIN answer.results
      PROVE  LET r == answer.results[k]
                 names == NamesOn(r.id, item_tag, tag)
             IN  /\ n # NoText /\ r.matched_on = {} => n \in names /\ Pieces[n] # <<n>>
                 /\ "text" \in r.matched_on <=> n # NoText /\ r.id \in hits
                 /\ (\A m \in names : Pieces[m] = <<m>>) =>
                       ("tag" \in r.matched_on <=> TermsOf(filters) = <<>> /\ n \in names)
    OBVIOUS
  <2> DEFINE i == answer.results[k].id
             tags == TermsOf(filters)
             found == ResultTags(i, hits, n, tags)
             why == answer.results[k].matched_on
             names == NamesOn(i, item_tag, tag)
             plain == \A m \in names : Pieces[m] = <<m>>
  <2>1. /\ i \in Wanted(hits, n, tags)
        /\ answer.results[k] = Result(i, hits, n, tags)
    BY <1>1, AnswerIsWanted
  <2>2. why = computeMatchedOn(i, found, hits, n, tags)
    BY <2>1 DEF Result
  <2> HIDE DEF i, tags, why
  <2>3. i \in DOMAIN item
    BY <2>1 DEF Wanted
  <2>4. tags = <<>> => n # NoText /\ (i \in hits \/ n \in names)
    BY <2>1 DEF Wanted
  <2>5. tags # <<>> => i \in hits
    BY <2>1 DEF Wanted
  <2>6. "text" \in why <=> n # NoText /\ i \in hits
    BY <2>2 DEF computeMatchedOn
  <2>7. "tag" \in why <=> n # NoText /\ tags = <<>> /\ n \in found
    BY <2>2 DEF computeMatchedOn
  <2>8. ASSUME tags = <<>>
        PROVE  /\ n \in names /\ Pieces[n] = <<n>> => n \in found
               /\ plain => (n \in found <=> n \in names)
    BY <1>1, <2>3, <2>4, <2>8, TagShown
  <2> HIDE DEF found, names, plain
  <2>9. n # NoText /\ why = {} => n \in names /\ Pieces[n] # <<n>>
    BY <2>4, <2>5, <2>6, <2>7, <2>8
  <2>10. plain => ("tag" \in why <=> tags = <<>> /\ n \in names)
    BY <2>4, <2>7, <2>8
  <2> QED BY <2>6, <2>9, <2>10 DEF i, tags, why, names, plain
<1> HIDE DEF Holds
<1>2. ASSUME IInv, NEW hits \in SUBSET DOMAIN item, NEW filters \in FilterLists,
             NEW limit \in ResultLimits
      PROVE  (\A n \in LowerName : Holds(hits, n, filters, limit))
             /\ Holds(DOMAIN item, NoText, filters, limit)
  BY <1>1, <1>2 DEF IsQuery
<1> QED BY <1>2 DEF SearchSaysWhy, Queried, Holds

\* computeMatchedOn: a result of a search for a text says "text" if and only if
\* it has the text; it says "tag" if and only if no tag was selected and it has
\* that tag, unless a tag on it contains '|'; none is without a reason, unless
\* the tag it was found by does.
THEOREM SearchReasonsAreTrue == Spec => []SearchSaysWhy
BY Invariance, WhyTrue, PTL

-----------------------------------------------------------------------------
(* The export, of any tables that were read. *)

\* A table of containers that UNIQUE(shelf_id, col, row) lets through.
IsContainers(conts) ==
    /\ IsFiniteSet(DOMAIN conts)
    /\ conts \in [DOMAIN conts -> Int \X Int]
    /\ IsInjective(conts)

IsItems(items) == IsFiniteSet(DOMAIN items) /\ DOMAIN items \subseteq Int

LEMMA ContainerListFacts ==
    ASSUME NEW conts, IsContainers(conts)
    PROVE  ContainerList(conts) \in SetToSeqs(DOMAIN conts)
<1> DEFINE S == DOMAIN conts
           before == {p \in S \X S : RowMajor(conts[p[1]], conts[p[2]])}
<1>1. \A x, y \in S : <<x, y>> \in before <=> RowMajor(conts[x], conts[y])
  OBVIOUS
<1>2. \A x \in S : conts[x] = <<conts[x][1], conts[x][2]>>
                   /\ conts[x][1] \in Int /\ conts[x][2] \in Int
  BY DEF IsContainers
<1>3. Orders(before, S)
  <2>1. ASSUME NEW x \in S, NEW y \in S, x # y
        PROVE  RowMajor(conts[x], conts[y]) \/ RowMajor(conts[y], conts[x])
    <3>1. conts[x] # conts[y]
      BY <2>1 DEF IsContainers, IsInjective
    <3>2. conts[x][1] # conts[y][1] \/ conts[x][2] # conts[y][2]
      BY <1>2, <3>1
    <3> QED BY <1>2, <3>2 DEF RowMajor
  <2>2. ASSUME NEW x \in S, NEW y \in S, NEW z \in S,
               RowMajor(conts[x], conts[y]), RowMajor(conts[y], conts[z])
        PROVE  RowMajor(conts[x], conts[z])
    BY <1>2, <2>2 DEF RowMajor
  <2> HIDE DEF before
  <2> QED BY <1>1, <2>1, <2>2 DEF Orders
<1>4. \E s \in SetToSeqs(S) : Ascending(s, before)
  <2> HIDE DEF before
  <2> QED BY <1>3, SortingExists DEF IsContainers
<1>5. \E s \in SetToSeqs(S) :
          \A j, k \in DOMAIN s : j < k => RowMajor(conts[s[j]], conts[s[k]])
  BY <1>4 DEF Ascending
<1> QED BY <1>5 DEF ContainerList, InOrder

\* Each listed container is found again at one place of the list.
LEMMA IndexFacts ==
    ASSUME NEW conts, IsContainers(conts), NEW c \in DOMAIN conts
    PROVE  /\ IndexOf(ContainerList(conts), c) \in DOMAIN ContainerList(conts)
           /\ ContainerList(conts)[IndexOf(ContainerList(conts), c)] = c
<1> DEFINE s == ContainerList(conts)
<1>1. s \in SetToSeqs(DOMAIN conts)
  BY ContainerListFacts
<1> HIDE DEF s
<1>2. \E k \in DOMAIN s : s[k] = c
  BY <1>1, SeqsFacts DEF IsContainers
<1>3. IndexOf(s, c) \in DOMAIN s /\ s[IndexOf(s, c)] = c
  BY <1>2 DEF IndexOf
<1> QED BY <1>3 DEF s

Listable(conts, items) == {i \in DOMAIN items : items[i] \in DOMAIN conts}

LEMMA ItemListFacts ==
    ASSUME NEW conts, NEW items, IsContainers(conts), IsItems(items)
    PROVE  ItemList(conts, items) \in SetToSeqs(Listable(conts, items))
<1> DEFINE at(i) == IndexOf(ContainerList(conts), items[i])
           less(i, j) == at(i) < at(j) \/ (at(i) = at(j) /\ i < j)
           S == Listable(conts, items)
           before == {p \in S \X S : less(p[1], p[2])}
<1>1. \A x, y \in S : <<x, y>> \in before <=> less(x, y)
  OBVIOUS
<1>2. \A x \in S : x \in Int /\ at(x) \in Int
  <2>1. DOMAIN ContainerList(conts) \subseteq Int
    <3>1. ContainerList(conts) \in SetToSeqs(DOMAIN conts)
      BY ContainerListFacts
    <3> DEFINE s == ContainerList(conts)
    <3> HIDE DEF s
    <3>2. s \in SetToSeqs(DOMAIN conts)
      BY <3>1 DEF s
    <3>3. DOMAIN s = 1..Cardinality(DOMAIN conts)
      BY <3>2, SeqsFacts DEF IsContainers
    <3> QED BY <3>3 DEF s
  <2> QED BY <2>1, IndexFacts DEF IsItems, Listable
<1> HIDE DEF at
<1>3. Orders(before, S)
  <2>1. ASSUME NEW x \in S, NEW y \in S, x # y PROVE less(x, y) \/ less(y, x)
    BY <1>2, <2>1
  <2>2. ASSUME NEW x \in S, NEW y \in S, NEW z \in S, less(x, y), less(y, z)
        PROVE  less(x, z)
    BY <1>2, <2>2
  <2> HIDE DEF before, less
  <2> QED BY <1>1, <2>1, <2>2 DEF Orders
<1>4. IsFiniteSet(S)
  BY FS_Subset DEF Listable, IsItems
<1>5. \E s \in SetToSeqs(S) : Ascending(s, before)
  <2> HIDE DEF before, S
  <2> QED BY <1>3, <1>4, SortingExists
<1>6. \E s \in SetToSeqs(S) : \A j, k \in DOMAIN s : j < k => less(s[j], s[k])
  BY <1>5 DEF Ascending
<1> QED BY <1>6 DEF ItemList, InOrder, at, Listable

\* The tags of an item are listed once each.
LEMMA ExportTagsFacts ==
    ASSUME IInv, NEW i
    PROVE  /\ IsInjective(ExportTags(i))
           /\ Range(ExportTags(i)) = NamesOn(i, item_tag, tag)
<1> DEFINE S == LinkedTags(i)
           n == Cardinality(S)
           ids == SetToSeq(S)
<1>1. IsFiniteSet(S)
  BY Joined, TablesFinite, FS_Subset
<1>2. ids \in [1..n -> S] /\ IsInjective(ids)
  <2>1. ExistsBijection(1..n, S)
    BY <1>1, FS_CardinalityType
  <2>2. \E f \in [1..n -> S] : IsInjective(f)
    <3> HIDE DEF S
    <3> QED BY <2>1 DEF ExistsBijection, Bijection, Injection
  <2> QED BY <2>2 DEF SetToSeq
<1>3. \A t \in S : \E k \in 1..n : ids[k] = t
  <2>1. n \in Nat
    BY <1>1, FS_CardinalityType
  <2>2. ids \in SetToSeqs(S)
    <3> HIDE DEF ids
    <3> QED BY <1>2 DEF SetToSeqs, IsInjective
  <2> HIDE DEF ids, S
  <2> QED BY <1>1, <2>2, SeqsFacts
<1>4. ExportTags(i) = [k \in 1..n |-> tag[ids[k]]]
  <2>1. DOMAIN ids = 1..n
    BY <1>2
  <2> QED BY <2>1 DEF ExportTags
<1>5. S \subseteq DOMAIN tag /\ {tag[t] : t \in S} = NamesOn(i, item_tag, tag)
  BY Joined
<1> HIDE DEF ids, n, S
<1>6. IsInjective(ExportTags(i))
  BY <1>2, <1>4, <1>5 DEF IsInjective, IInv, UniqueKeys
<1>7. Range(ExportTags(i)) = {tag[t] : t \in S}
  BY <1>2, <1>3, <1>4 DEF Range
<1> QED BY <1>5, <1>6, <1>7

\* What a file is made of: each container once, each item that has a container
\* once, with the container's place in the file and the names of its tags.
IsExport(b, size, conts, items, I) ==
    /\ b.rows = size.rows /\ b.cols = size.cols /\ b.named = size.named
    /\ IsInjective(b.containers) /\ Range(b.containers) = Range(conts)
    /\ DOMAIN b.items = DOMAIN I
    /\ IsInjective(I)
    /\ Range(I) = Listable(conts, items)
    /\ IsFiniteSet(DOMAIN I)
    /\ \A k \in DOMAIN I :
           /\ b.items[k].at \in DOMAIN b.containers
           /\ b.containers[b.items[k].at] = conts[items[I[k]]]
           /\ b.items[k].tags = ExportTags(I[k])

LEMMA ExportFacts ==
    ASSUME NEW size, NEW conts, NEW items, IsContainers(conts), IsItems(items)
    PROVE  IsExport(ExportOf(size, conts, items), size, conts, items,
                    ItemList(conts, items))
<1> DEFINE b == ExportOf(size, conts, items)
           L == ContainerList(conts)
           I == ItemList(conts, items)
           n == Cardinality(DOMAIN conts)
           at(k) == IndexOf(L, items[I[k]])
<1>1. /\ b.rows = size.rows /\ b.cols = size.cols /\ b.named = size.named
      /\ b.containers = [k \in DOMAIN L |-> conts[L[k]]]
      /\ b.items = [k \in DOMAIN I |-> [at |-> at(k), tags |-> ExportTags(I[k])]]
  BY DEF ExportOf
<1>2. L \in SetToSeqs(DOMAIN conts) /\ I \in SetToSeqs(Listable(conts, items))
  BY ContainerListFacts, ItemListFacts
<1>3. \A c \in DOMAIN conts : IndexOf(L, c) \in DOMAIN L /\ L[IndexOf(L, c)] = c
  BY IndexFacts
<1> HIDE DEF b, L, I
<1>4. /\ DOMAIN L = 1..n
      /\ \A j, k \in DOMAIN L : L[j] = L[k] => j = k
      /\ \A k \in DOMAIN L : L[k] \in DOMAIN conts
      /\ \A c \in DOMAIN conts : \E k \in DOMAIN L : L[k] = c
  <2>1. /\ DOMAIN L = 1..n /\ L \in Seq(DOMAIN conts) /\ Len(L) = n
        /\ \A j, k \in DOMAIN L : L[j] = L[k] => j = k
        /\ \A c \in DOMAIN conts : \E k \in DOMAIN L : L[k] = c
    BY <1>2, SeqsFacts DEF IsContainers
  <2>2. \A k \in DOMAIN L : L[k] \in DOMAIN conts
    BY <2>1, ElementOfSeq
  <2> QED BY <2>1, <2>2
<1>5. /\ IsFiniteSet(DOMAIN I)
      /\ \A j, k \in DOMAIN I : I[j] = I[k] => j = k
      /\ \A k \in DOMAIN I : I[k] \in Listable(conts, items)
      /\ \A i \in Listable(conts, items) : \E k \in DOMAIN I : I[k] = i
  <2> DEFINE S == Listable(conts, items)
             m == Cardinality(S)
  <2>1. IsFiniteSet(S)
    BY FS_Subset DEF Listable, IsItems
  <2>2. I \in SetToSeqs(S)
    BY <1>2
  <2> HIDE DEF S
  <2>3. /\ m \in Nat /\ DOMAIN I = 1..m /\ I \in Seq(S) /\ Len(I) = m
        /\ \A j, k \in DOMAIN I : I[j] = I[k] => j = k
        /\ \A i \in S : \E k \in DOMAIN I : I[k] = i
    BY <2>1, <2>2, SeqsFacts
  <2>4. \A k \in DOMAIN I : I[k] \in S
    BY <2>3, ElementOfSeq
  <2>5. IsFiniteSet(DOMAIN I)
    BY <2>3, FS_Interval
  <2> QED BY <2>3, <2>4, <2>5 DEF S
<1>6. IsInjective(b.containers) /\ Range(b.containers) = Range(conts)
  <2>1. IsInjective(b.containers)
    BY <1>1, <1>4 DEF IsInjective, IsContainers
  <2>2. Range(b.containers) = Range(conts)
    BY <1>1, <1>4 DEF Range
  <2> QED BY <2>1, <2>2
<1>7. IsInjective(I) /\ Range(I) = Listable(conts, items)
  BY <1>5 DEF IsInjective, Range
<1>8. ASSUME NEW k \in DOMAIN I
      PROVE  /\ b.items[k].at \in DOMAIN b.containers
             /\ b.containers[b.items[k].at] = conts[items[I[k]]]
             /\ b.items[k].tags = ExportTags(I[k])
  <2>1. b.items[k].at = at(k) /\ b.items[k].tags = ExportTags(I[k])
    BY <1>1
  <2>2. items[I[k]] \in DOMAIN conts
    BY <1>5 DEF Listable
  <2>3. at(k) \in DOMAIN L /\ L[at(k)] = items[I[k]]
    BY <1>3, <2>2
  <2> QED BY <1>1, <2>1, <2>3
<1>9. DOMAIN b.items = DOMAIN I
  BY <1>1
<1>10. IsExport(b, size, conts, items, I)
  BY <1>1, <1>5, <1>6, <1>7, <1>8, <1>9 DEF IsExport
<1> QED BY <1>10 DEF b, I

\* What is committed can be listed, every item of it.
LEMMA CommittedListable ==
    ASSUME IInv
    PROVE  /\ IsContainers(container) /\ IsItems(item)
           /\ Listable(container, item) = DOMAIN item
<1>1. IsContainers(container)
  BY TablesFinite DEF IsContainers, IInv, TypeOK, UniqueKeys
<1>2. IsItems(item)
  BY TablesFinite, BoundAssumption DEF IsItems, IInv, TypeOK, ItemId
<1>3. Listable(container, item) = DOMAIN item
  BY DEF Listable, IInv, ForeignKeys, Range
<1> QED BY <1>1, <1>2, <1>3

\* The import's constraints let every export through.
LEMMA ExportInsertable ==
    ASSUME IInv, NEW b, NEW size, NEW conts, NEW items, NEW I,
           IsExport(b, size, conts, items, I)
    PROVE  Insertable(b) /\ \A k \in DOMAIN b.items : b.items[k].at \in DOMAIN b.containers
BY ExportTagsFacts DEF Insertable, IsExport

\* The entries of a file that put an item with these names at this position.
Entries(b, p, names) ==
    {k \in DOMAIN b.items :
        b.containers[b.items[k].at] = p /\ Range(b.items[k].tags) = names}

\* The listing is a bijection between the items and the entries of the file.
LEMMA BackupTrue == IInv => ExportIsBackup
<1> SUFFICES ASSUME IInv PROVE ExportIsBackup
  OBVIOUS
<1> DEFINE b == ExportAllData
           I == ItemList(container, item)
           Held(p, names) == {i \in DOMAIN item :
               Position(i) = p /\ NamesOn(i, item_tag, tag) = names}
<1>1. IsExport(b, shelf, container, item, I) /\ Range(I) = DOMAIN item
  <2>1. IsExport(b, shelf, container, item, I)
    BY CommittedListable, ExportFacts DEF ExportAllData
  <2> QED BY <2>1, CommittedListable DEF IsExport
<1> HIDE DEF b, I
<1>2. /\ Importable(b) <=> shelf.named
      /\ [rows |-> b.rows, cols |-> b.cols, named |-> b.named] = shelf
  <2>1. Insertable(b)
    BY <1>1, ExportInsertable
  <2>2. b.rows = shelf.rows /\ b.cols = shelf.cols /\ b.named = shelf.named
    BY <1>1 DEF IsExport
  <2>3. shelf \in [rows : Nat \ {0}, cols : Nat \ {0}, named : BOOLEAN]
    BY DEF IInv, TypeOK
  <2>4. shelf = [rows |-> shelf.rows, cols |-> shelf.cols, named |-> shelf.named]
        /\ shelf.rows > 0 /\ shelf.cols > 0
    BY <2>3
  <2>5. Importable(b) <=> shelf.named
    BY <2>1, <2>2, <2>4 DEF Importable, Accepted
  <2> QED BY <2>2, <2>4, <2>5
<1>3. CompleteBackup(b) <=> GridComplete
  BY <1>1 DEF IsExport, CompleteBackup, GridComplete
<1>4. ASSUME NEW p, NEW names
      PROVE  Cardinality(Entries(b, p, names)) = Cardinality(Held(p, names))
  <2> DEFINE E == Entries(b, p, names)
             H == Held(p, names)
             f == [k \in E |-> I[k]]
  <2>1. ASSUME NEW k \in DOMAIN I
        PROVE  /\ I[k] \in DOMAIN item
               /\ b.containers[b.items[k].at] = Position(I[k])
               /\ Range(b.items[k].tags) = NamesOn(I[k], item_tag, tag)
    BY <1>1, ExportTagsFacts DEF IsExport, Position, Range
  <2>2. DOMAIN b.items = DOMAIN I
    BY <1>1 DEF IsExport
  <2>3. \A k \in DOMAIN I : k \in E <=> I[k] \in H
    BY <2>1, <2>2 DEF Entries
  <2>4. E \subseteq DOMAIN I /\ H \subseteq DOMAIN item
    BY <2>2 DEF Entries
  <2> HIDE DEF E, H
  <2>5. \A i \in H : \E k \in E : I[k] = i
    BY <1>1, <2>3, <2>4 DEF Range
  <2>6. f \in Bijection(E, H)
    <3>1. f \in [E -> H]
      BY <2>3, <2>4
    <3>2. IsInjective(f)
      BY <1>1, <2>4 DEF IsExport, IsInjective
    <3>3. \A i \in H : \E k \in E : f[k] = i
      BY <2>5
    <3> QED BY <3>1, <3>2, <3>3 DEF Bijection, Injection, Surjection
  <2>7. IsFiniteSet(E)
    BY <1>1, <2>4, FS_Subset DEF IsExport
  <2>8. Cardinality(H) = Cardinality(E)
    <3>1. ExistsBijection(E, H)
      BY <2>6 DEF ExistsBijection
    <3> QED BY <2>7, <3>1, FS_Bijection
  <2> QED BY <2>8 DEF E, H
<1>5. Range(b.containers) = Range(container)
  BY <1>1 DEF IsExport
<1> HIDE DEF Held
<1>6. \A p \in Range(container), names \in SUBSET TagName :
          Cardinality(Entries(b, p, names)) = Cardinality(Held(p, names))
  BY <1>4
<1> QED BY <1>2, <1>3, <1>5, <1>6 DEF ExportIsBackup, b, Held, Entries

\* ExportAllData in one snapshot: whatever the store has become, the file can be
\* imported again if and only if the shelf has a name, and puts as many items
\* with the same tags at each position, on a grid that is as complete.
THEOREM ExportsAreBackups == Spec => []ExportIsBackup
BY Invariance, BackupTrue, PTL

-----------------------------------------------------------------------------
(* The tags page. *)

\* No two tags have the same name, so that the associations of a tag are one for
\* each item with its name.
LEMMA TagsTrue == IInv => TagsPageIsTrue
<1> SUFFICES ASSUME IInv PROVE TagsPageIsTrue
  OBVIOUS
<1> DEFINE A(t) == {p \in item_tag : p[2] = t}
           H(t) == {i \in DOMAIN item : tag[t] \in NamesOn(i, item_tag, tag)}
<1>1. DOMAIN ListTags = DOMAIN tag
      /\ \A t \in DOMAIN tag : ListTags[t].name = tag[t]
                               /\ ListTags[t].count = Cardinality(A(t))
  <2>1. ListTags = [t \in DOMAIN tag |-> [name |-> tag[t], count |-> Cardinality(A(t))]]
    BY DEF ListTags
  <2> HIDE DEF A
  <2> QED BY <2>1
<1>2. ASSUME NEW t \in DOMAIN tag
      PROVE  /\ Cardinality(A(t)) = Cardinality(H(t))
             /\ Cardinality(A(t)) = 0 <=> A(t) = {}
  <2> DEFINE a == A(t)
             h == H(t)
             f == [p \in a |-> p[1]]
  <2>1. \A p \in item_tag : p = <<p[1], p[2]>> /\ p[1] \in DOMAIN item /\ p[2] \in DOMAIN tag
    BY StateFacts
  <2>2. \A p \in a : p = <<p[1], t>> /\ p[1] \in h
    BY <2>1 DEF NamesOn
  <2>3. \A u \in DOMAIN tag : tag[u] = tag[t] => u = t
    BY DEF IInv, UniqueKeys, IsInjective
  <2>4. ASSUME NEW i \in h PROVE \E p \in a : p[1] = i
    <3>1. PICK p \in item_tag : p[1] = i /\ tag[p[2]] = tag[t]
      BY <2>4 DEF NamesOn
    <3> QED BY <2>1, <2>3, <3>1
  <2>5. IsFiniteSet(a)
    BY TablesFinite, FS_Subset
  <2> HIDE DEF a, h
  <2>6. f \in Bijection(a, h)
    <3>1. f \in [a -> h]
      BY <2>2
    <3>2. IsInjective(f)
      BY <2>2 DEF IsInjective
    <3> QED BY <2>4, <3>1, <3>2 DEF Bijection, Injection, Surjection
  <2>7. ExistsBijection(a, h)
    BY <2>6 DEF ExistsBijection
  <2>8. Cardinality(h) = Cardinality(a)
    BY <2>5, <2>7, FS_Bijection
  <2>9. Cardinality(a) = 0 <=> a = {}
    BY <2>5, FS_EmptySet
  <2> QED BY <2>8, <2>9 DEF a, h
<1>3. {ListTags[t].name : t \in DOMAIN ListTags} = Range(tag)
  <2> HIDE DEF A
  <2> QED BY <1>1 DEF Range
<1>4. ASSUME NEW t \in DOMAIN ListTags
      PROVE  /\ ListTags[t].count = Cardinality({i \in DOMAIN item :
                                       ListTags[t].name \in NamesOn(i, item_tag, tag)})
             /\ ListTags[t].count = 0 <=> Unused(t)
  <2>1. ListTags[t].count = Cardinality(H(t)) /\ (ListTags[t].count = 0 <=> A(t) = {})
    <3>1. t \in DOMAIN tag
      BY <1>1
    <3> HIDE DEF A, H
    <3> QED BY <1>1, <1>2, <3>1
  <2>2. H(t) = {i \in DOMAIN item : ListTags[t].name \in NamesOn(i, item_tag, tag)}
    BY <1>1
  <2>3. A(t) = {} <=> Unused(t)
    BY <1>1 DEF Unused
  <2> QED BY <2>1, <2>2, <2>3
<1> QED BY <1>1, <1>3, <1>4 DEF TagsPageIsTrue

\* TagsPageIsTrue: the tags page counts for each name the items that carry it, and
\* offers to delete exactly the tags that DeleteUnusedTag deletes.
THEOREM TagsPageCounts == Spec => []TagsPageIsTrue
BY Invariance, TagsTrue, PTL

=============================================================================
