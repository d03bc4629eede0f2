--------------------------- MODULE InventoryProofs ---------------------------
(***************************************************************************)
(* Proofs about module Inventory, for every grid, every set of names and   *)
(* of backups, and every bound on the ids.                                 *)
(***************************************************************************)
EXTENDS Inventory, FiniteSetTheorems, WellFoundedInduction, TLAPS

\* The inductive invariant: rows have ids that were handed out, references
\* lead to rows, and the UNIQUE columns are unique.
IInv == TypeOK /\ ForeignKeys /\ UniqueKeys

-----------------------------------------------------------------------------
(* Induction over Nat. *)

\* Every inhabited set of numbers has a least one.
LEMMA NatMin ==
    ASSUME NEW T, T \subseteq Nat, T # {}
    PROVE  \E x \in T : \A y \in T : x <= y
<1> DEFINE R == OpToRel(<, Nat)
<1>1. IsWellFoundedOn(R, Nat)
  BY NatLessThanWellFounded
<1>2. R = {p \in Nat \X Nat : p[1] < p[2]}
  BY DEF OpToRel
<1> HIDE DEF R
<1>4. PICK x \in T : \A y \in T : ~ (<<y, x>> \in R)
  BY <1>1, WFMin
<1>5. ASSUME NEW y \in T PROVE x <= y
  <2>1. <<y, x>> \in Nat \X Nat /\ x \in Nat /\ y \in Nat
    OBVIOUS
  <2>2. ~ (y < x)
    BY <1>2, <1>4, <2>1
  <2> QED BY <2>1, <2>2
<1> QED BY <1>5

\* A property of 0 that each number hands on to the next is one of all.
LEMMA NatInd ==
    ASSUME NEW S, 0 \in S, \A n \in Nat : n \in S => n + 1 \in S
    PROVE  Nat \subseteq S
<1> SUFFICES ASSUME Nat \ S # {} PROVE FALSE
  OBVIOUS
<1>1. PICK x \in Nat \ S : \A y \in Nat \ S : x <= y
  <2> DEFINE T == Nat \ S
  <2>1. T \subseteq Nat /\ T # {} OBVIOUS
  <2> HIDE DEF T
  <2>2. \E x \in T : \A y \in T : x <= y
    BY <2>1, NatMin
  <2> QED BY <2>2 DEF T
<1>2. x # 0 OBVIOUS
<1>3. x - 1 \in Nat BY <1>2
<1>4. x - 1 \in S BY <1>1, <1>3
<1>5. (x - 1) + 1 \in S BY <1>3, <1>4
<1> QED BY <1>5

-----------------------------------------------------------------------------
\* The rows inserted after id "last": as many fresh ids as values, one each.
LEMMA NumberingFacts ==
    ASSUME NEW S, IsFiniteSet(S), NEW last \in Nat, NEW g \in Numbering(S, last)
    PROVE  /\ Cardinality(S) \in Nat
           /\ DOMAIN g = (last + 1)..(last + Cardinality(S))
           /\ g \in [DOMAIN g -> S]
           /\ IsInjective(g)
           /\ Range(g) = S
<1>1. Cardinality(S) \in Nat
  BY FS_CardinalityType
<1>2. g \in [(last + 1)..(last + Cardinality(S)) -> S] /\ IsInjective(g)
  BY DEF Numbering, Bijection, Injection
<1>3. \A s \in S : \E n \in (last + 1)..(last + Cardinality(S)) : g[n] = s
  BY DEF Numbering, Bijection, Surjection
<1>4. Range(g) = S
  BY <1>2, <1>3 DEF Range
<1> QED
  BY <1>1, <1>2, <1>4

\* Inserting fresh rows keeps the old ones and their values unique.
LEMMA ExtendFacts ==
    ASSUME NEW f, NEW g, NEW T,
           f \in [DOMAIN f -> T], g \in [DOMAIN g -> T],
           DOMAIN f \cap DOMAIN g = {}
    PROVE  /\ DOMAIN Extend(f, g) = DOMAIN f \cup DOMAIN g
           /\ Extend(f, g) \in [DOMAIN f \cup DOMAIN g -> T]
           /\ \A x \in DOMAIN f : Extend(f, g)[x] = f[x]
           /\ \A x \in DOMAIN g : Extend(f, g)[x] = g[x]
           /\ Range(Extend(f, g)) = Range(f) \cup Range(g)
           /\ IsInjective(f) /\ IsInjective(g) /\ Range(f) \cap Range(g) = {}
                 => IsInjective(Extend(f, g))
<1>1. /\ DOMAIN Extend(f, g) = DOMAIN f \cup DOMAIN g
      /\ Extend(f, g) \in [DOMAIN f \cup DOMAIN g -> T]
      /\ \A x \in DOMAIN f : Extend(f, g)[x] = f[x]
      /\ \A x \in DOMAIN g : Extend(f, g)[x] = g[x]
  BY DEF Extend
<1>2. Range(Extend(f, g)) = Range(f) \cup Range(g)
  BY <1>1 DEF Range
<1>3. ASSUME IsInjective(f), IsInjective(g), Range(f) \cap Range(g) = {},
             NEW a \in DOMAIN f \cup DOMAIN g, NEW b \in DOMAIN f \cup DOMAIN g,
             Extend(f, g)[a] = Extend(f, g)[b]
      PROVE  a = b
  BY <1>1, <1>3 DEF IsInjective, Range
<1> QED
  BY <1>1, <1>2, <1>3 DEF IsInjective

\* Deleting rows keeps the others as they are.
LEMMA RestrictFacts ==
    ASSUME NEW f, NEW S \in SUBSET DOMAIN f, NEW T, f \in [DOMAIN f -> T]
    PROVE  /\ DOMAIN Restrict(f, S) = S
           /\ Restrict(f, S) \in [S -> T]
           /\ \A x \in S : Restrict(f, S)[x] = f[x]
           /\ Range(Restrict(f, S)) \subseteq Range(f)
           /\ IsInjective(f) => IsInjective(Restrict(f, S))
BY DEF Restrict, Range, IsInjective

\* INSERT OR IGNORE INTO tag keeps the tags, gives every listed name one row,
\* and numbers the new rows after the last id.
LEMMA InsertTagsFacts ==
    ASSUME IInv, NEW names \in SUBSET TagName, IsFiniteSet(names),
           InsertTags(names)
    PROVE  /\ sqlite_sequence.tag + Cardinality(NewNames(names)) \in 0..MaxTag
           /\ Cardinality(NewNames(names)) \in Nat
           /\ DOMAIN tag' = DOMAIN tag \cup
                  ((sqlite_sequence.tag + 1)..
                       (sqlite_sequence.tag + Cardinality(NewNames(names))))
           /\ tag' \in [DOMAIN tag' -> TagName]
           /\ \A t \in DOMAIN tag : tag'[t] = tag[t]
           /\ IsInjective(tag')
<1> DEFINE last == sqlite_sequence.tag
<1>1. IsFiniteSet(NewNames(names))
  BY FS_Subset DEF NewNames
<1>2. PICK new \in Numbering(NewNames(names), last) : tag' = Extend(tag, new)
  BY DEF InsertTags
<1>3. last \in Nat /\ MaxTag \in Nat
  BY BoundAssumption DEF IInv, TypeOK
<1>4. /\ Cardinality(NewNames(names)) \in Nat
      /\ DOMAIN new = (last + 1)..(last + Cardinality(NewNames(names)))
      /\ new \in [DOMAIN new -> NewNames(names)]
      /\ IsInjective(new)
      /\ Range(new) = NewNames(names)
  <2> HIDE DEF last
  <2> QED BY <1>1, <1>2, <1>3, NumberingFacts
<1>5. DOMAIN tag \cap DOMAIN new = {}
  BY <1>3, <1>4 DEF IInv, TypeOK, TagId
<1>6. /\ tag \in [DOMAIN tag -> TagName] /\ IsInjective(tag)
      /\ new \in [DOMAIN new -> TagName]
  BY <1>4 DEF IInv, TypeOK, UniqueKeys, NewNames
<1>7. Range(tag) \cap Range(new) = {}
  BY <1>4 DEF NewNames
<1>8. /\ DOMAIN tag' = DOMAIN tag \cup DOMAIN new
      /\ tag' \in [DOMAIN tag' -> TagName]
      /\ \A t \in DOMAIN tag : tag'[t] = tag[t]
      /\ IsInjective(tag')
  <2>1. /\ DOMAIN Extend(tag, new) = DOMAIN tag \cup DOMAIN new
        /\ Extend(tag, new) \in [DOMAIN tag \cup DOMAIN new -> TagName]
        /\ \A t \in DOMAIN tag : Extend(tag, new)[t] = tag[t]
    BY <1>5, <1>6, ExtendFacts
  <2>2. IsInjective(Extend(tag, new))
    BY <1>4, <1>5, <1>6, <1>7, ExtendFacts
  <2> QED BY <1>2, <2>1, <2>2
<1>9. last + Cardinality(NewNames(names)) <= MaxTag
  BY DEF InsertTags
<1>10. sqlite_sequence.tag + Cardinality(NewNames(names)) \in 0..MaxTag
  BY <1>3, <1>4, <1>9
<1> QED
  BY <1>10, <1>4, <1>8

-----------------------------------------------------------------------------
LEMMA CellsFacts ==
    ASSUME NEW rows \in Nat, NEW cols \in Nat
    PROVE  /\ IsFiniteSet(Cells(rows, cols))
           /\ Cells(rows, cols) \subseteq Int \X Int
<1>1. IsFiniteSet(1..rows) /\ IsFiniteSet(1..cols)
  BY FS_Interval
<1>2. IsFiniteSet((1..cols) \X (1..rows))
  BY <1>1, FS_Product
<1> QED
  BY <1>2 DEF Cells

\* The invariant holds of a freshly seeded database.
LEMMA InitInv == Init => IInv
<1> SUFFICES ASSUME Init PROVE IInv
  OBVIOUS
<1> DEFINE cells == Cells(SeedGrid[1], SeedGrid[2])
<1>1. SeedGrid[1] \in 1..26 /\ SeedGrid[2] \in 1..30
  BY GridAssumption
<1>2. IsFiniteSet(cells) /\ cells \subseteq Int \X Int
  <2>1. SeedGrid[1] \in Nat /\ SeedGrid[2] \in Nat
    BY <1>1
  <2> QED BY <2>1, CellsFacts
<1>3. /\ Cardinality(cells) \in Nat
      /\ DOMAIN container = 1..Cardinality(cells)
      /\ container \in [DOMAIN container -> cells]
      /\ IsInjective(container)
      /\ Range(container) = cells
  <2>1. container \in Numbering(cells, 0)
    BY DEF Init
  <2> HIDE DEF cells
  <2>2. /\ Cardinality(cells) \in Nat
        /\ DOMAIN container = (0 + 1)..(0 + Cardinality(cells))
        /\ container \in [DOMAIN container -> cells]
        /\ IsInjective(container)
        /\ Range(container) = cells
    BY <1>2, <2>1, NumberingFacts
  <2> QED BY <2>2
<1>4. /\ shelf = [rows |-> SeedGrid[1], cols |-> SeedGrid[2], named |-> TRUE]
      /\ sqlite_sequence = [container |-> Cardinality(cells), item |-> 0, tag |-> 0]
      /\ item = <<>> /\ tag = <<>> /\ item_tag = {}
  BY <1>3 DEF Init
<1>5. /\ MaxContainer \in Nat /\ MaxItem \in Nat /\ MaxTag \in Nat
      /\ Cardinality(cells) <= MaxContainer
  BY BoundAssumption
<1>6. TypeOK
  <2> HIDE DEF cells
  <2>1. shelf \in [rows : Nat \ {0}, cols : Nat \ {0}, named : BOOLEAN]
    <3>1. SeedGrid[1] \in Nat \ {0} /\ SeedGrid[2] \in Nat \ {0}
      BY <1>1
    <3> QED BY <1>4, <3>1
  <2>2. sqlite_sequence \in [container : 0..MaxContainer, item : 0..MaxItem,
                             tag : 0..MaxTag]
    BY <1>3, <1>4, <1>5
  <2>3. /\ DOMAIN container \subseteq ContainerId
        /\ container \in [DOMAIN container -> Int \X Int]
    BY <1>2, <1>3, <1>4 DEF ContainerId
  <2>4. DOMAIN item = {} /\ DOMAIN tag = {}
    BY <1>4
  <2>5. item \in [DOMAIN item -> ContainerId] /\ tag \in [DOMAIN tag -> TagName]
    BY <1>4, <2>4
  <2> QED
    BY <1>4, <2>1, <2>2, <2>3, <2>4, <2>5 DEF TypeOK
<1>7. ForeignKeys /\ UniqueKeys
  BY <1>3, <1>4 DEF ForeignKeys, UniqueKeys, IsInjective, Range
<1> QED
  BY <1>6, <1>7 DEF IInv

\* Deleting one tag keeps the names of the others, and keeps them unique.
LEMMA DropTagFacts ==
    ASSUME NEW f, NEW t, f \in [DOMAIN f -> TagName], IsInjective(f)
    PROVE  /\ DOMAIN Restrict(f, DOMAIN f \ {t}) = DOMAIN f \ {t}
           /\ Restrict(f, DOMAIN f \ {t}) \in [DOMAIN f \ {t} -> TagName]
           /\ IsInjective(Restrict(f, DOMAIN f \ {t}))
BY DEF Restrict, IsInjective

\* What the proofs of the steps use of the state they start from.
LEMMA StateFacts ==
    ASSUME IInv
    PROVE  /\ shelf \in [rows : Nat \ {0}, cols : Nat \ {0}, named : BOOLEAN]
           /\ sqlite_sequence \in [container : 0..MaxContainer,
                                   item : 0..MaxItem, tag : 0..MaxTag]
           /\ sqlite_sequence.container \in 0..MaxContainer
           /\ sqlite_sequence.item \in 0..MaxItem
           /\ sqlite_sequence.tag \in 0..MaxTag
           /\ MaxContainer \in Nat /\ MaxItem \in Nat /\ MaxTag \in Nat
           /\ DOMAIN container \subseteq 1..sqlite_sequence.container
           /\ container \in [DOMAIN container -> Int \X Int]
           /\ DOMAIN item \subseteq 1..sqlite_sequence.item
           /\ item \in [DOMAIN item -> DOMAIN container]
           /\ DOMAIN tag \subseteq 1..sqlite_sequence.tag
           /\ tag \in [DOMAIN tag -> TagName]
           /\ item_tag \subseteq (DOMAIN item) \X (DOMAIN tag)
           /\ IsInjective(container) /\ IsInjective(tag)
BY BoundAssumption DEF IInv, TypeOK, ForeignKeys, UniqueKeys, Range,
   ContainerId, ItemId, TagId

\* The invariant follows from a state whose references lead to rows: the
\* domains of the references then need no proof of their own.
LEMMA InvFromFacts ==
    ASSUME shelf' \in [rows : Nat \ {0}, cols : Nat \ {0}, named : BOOLEAN],
           sqlite_sequence' \in [container : 0..MaxContainer,
                                 item : 0..MaxItem, tag : 0..MaxTag],
           DOMAIN container' \subseteq 1..sqlite_sequence'.container,
           container' \in [DOMAIN container' -> Int \X Int],
           DOMAIN item' \subseteq 1..sqlite_sequence'.item,
           item' \in [DOMAIN item' -> DOMAIN container'],
           DOMAIN tag' \subseteq 1..sqlite_sequence'.tag,
           tag' \in [DOMAIN tag' -> TagName],
           item_tag' \subseteq (DOMAIN item') \X (DOMAIN tag'),
           IsInjective(container'), IsInjective(tag')
    PROVE  IInv'
<1>1. ForeignKeys' /\ UniqueKeys'
  BY DEF ForeignKeys, UniqueKeys, Range
<1>2. item' \in [DOMAIN item' -> 1..sqlite_sequence'.container]
  OBVIOUS
<1>3. item_tag' \subseteq (1..sqlite_sequence'.item) \X (1..sqlite_sequence'.tag)
  OBVIOUS
<1>4. TypeOK'
  BY <1>2, <1>3 DEF TypeOK, ContainerId, ItemId, TagId
<1> QED
  BY <1>1, <1>4 DEF IInv

-----------------------------------------------------------------------------
\* Each operation keeps the invariant.
LEMMA CreateItemInv ==
    ASSUME IInv, NEW c \in ContainerId, NEW names \in SUBSET LowerName,
           CreateItem(c, names)
    PROVE  IInv'
<1> DEFINE id == sqlite_sequence.item + 1
           n  == Cardinality(NewNames(names))
<1>1. names \in SUBSET TagName /\ IsFiniteSet(names)
  BY NameAssumption, FS_Subset
<1>2. InsertTags(names)
  BY DEF CreateItem
<1>3. /\ sqlite_sequence.tag + n \in 0..MaxTag
      /\ n \in Nat
      /\ DOMAIN tag' = DOMAIN tag \cup
             ((sqlite_sequence.tag + 1)..(sqlite_sequence.tag + n))
      /\ tag' \in [DOMAIN tag' -> TagName]
      /\ IsInjective(tag')
  BY <1>1, <1>2, InsertTagsFacts
<1>4. /\ c \in DOMAIN container /\ id <= MaxItem
      /\ item' = Extend(item, [i \in {id} |-> c])
      /\ item_tag' = item_tag \cup ({id} \X IdsOf(tag', names))
      /\ sqlite_sequence' =
             [sqlite_sequence EXCEPT !.item = id, !.tag = @ + n]
      /\ shelf' = shelf /\ container' = container
  BY DEF CreateItem
<1>5. /\ DOMAIN item' = DOMAIN item \cup {id}
      /\ item' \in [DOMAIN item' -> DOMAIN container]
  BY <1>4, StateFacts DEF Extend
<1>6. /\ sqlite_sequence' \in [container : 0..MaxContainer,
                               item : 0..MaxItem, tag : 0..MaxTag]
      /\ sqlite_sequence'.container = sqlite_sequence.container
      /\ sqlite_sequence'.item = id
      /\ sqlite_sequence'.tag = sqlite_sequence.tag + n
  <2>1. id \in 0..MaxItem
    BY <1>4, StateFacts
  <2> HIDE DEF id, n
  <2> QED BY <1>3, <1>4, <2>1, StateFacts
<1>7. DOMAIN item' \subseteq 1..sqlite_sequence'.item
  BY <1>5, <1>6, StateFacts
<1>8. DOMAIN tag' \subseteq 1..sqlite_sequence'.tag
  <2> HIDE DEF n
  <2> QED BY <1>3, <1>6, StateFacts
<1>9. item_tag' \subseteq (DOMAIN item') \X (DOMAIN tag')
  <2>1. IdsOf(tag', names) \subseteq DOMAIN tag'
    BY DEF IdsOf
  <2> QED BY <1>3, <1>4, <1>5, <2>1, StateFacts
<1> QED
  <2> HIDE DEF id, n
  <2> QED BY <1>3, <1>4, <1>5, <1>6, <1>7, <1>8, <1>9, StateFacts, InvFromFacts

LEMMA UpdateItemInv ==
    ASSUME IInv, NEW i \in ItemId, NEW c \in ContainerId, UpdateItem(i, c)
    PROVE  IInv'
<1>1. /\ DOMAIN item' = DOMAIN item
      /\ item' \in [DOMAIN item' -> DOMAIN container]
  BY StateFacts DEF UpdateItem
<1> QED
  BY <1>1, StateFacts, InvFromFacts DEF UpdateItem

LEMMA DeleteItemInv ==
    ASSUME IInv, NEW i \in ItemId, DeleteItem(i)
    PROVE  IInv'
<1>1. /\ DOMAIN item' = DOMAIN item \ {i}
      /\ item' \in [DOMAIN item' -> DOMAIN container]
  BY StateFacts DEF DeleteItem, Restrict
<1>2. item_tag' \subseteq (DOMAIN item') \X (DOMAIN tag)
  BY StateFacts DEF DeleteItem, Cascade
<1> QED
  BY <1>1, <1>2, StateFacts, InvFromFacts DEF DeleteItem

LEMMA AddTagToItemInv ==
    ASSUME IInv, NEW i \in ItemId, NEW n \in LowerName, AddTagToItem(i, n)
    PROVE  IInv'
<1> DEFINE k == Cardinality(NewNames({n}))
<1>1. {n} \in SUBSET TagName /\ IsFiniteSet({n})
  BY NameAssumption, FS_Singleton
<1>2. InsertTags({n})
  BY DEF AddTagToItem
<1>3. /\ sqlite_sequence.tag + k \in 0..MaxTag
      /\ k \in Nat
      /\ DOMAIN tag' = DOMAIN tag \cup
             ((sqlite_sequence.tag + 1)..(sqlite_sequence.tag + k))
      /\ tag' \in [DOMAIN tag' -> TagName]
      /\ IsInjective(tag')
  BY <1>1, <1>2, InsertTagsFacts
<1>4. /\ i \in DOMAIN item
      /\ item_tag' = item_tag \cup ({i} \X IdsOf(tag', {n}))
      /\ sqlite_sequence' = [sqlite_sequence EXCEPT !.tag = @ + k]
      /\ shelf' = shelf /\ container' = container /\ item' = item
  BY DEF AddTagToItem
<1>5. /\ sqlite_sequence' \in [container : 0..MaxContainer,
                               item : 0..MaxItem, tag : 0..MaxTag]
      /\ sqlite_sequence'.container = sqlite_sequence.container
      /\ sqlite_sequence'.item = sqlite_sequence.item
      /\ sqlite_sequence'.tag = sqlite_sequence.tag + k
  <2> HIDE DEF k
  <2> QED BY <1>3, <1>4, StateFacts
<1>6. DOMAIN tag' \subseteq 1..sqlite_sequence'.tag
  <2> HIDE DEF k
  <2> QED BY <1>3, <1>5, StateFacts
<1>7. item_tag' \subseteq (DOMAIN item') \X (DOMAIN tag')
  <2>1. IdsOf(tag', {n}) \subseteq DOMAIN tag'
    BY DEF IdsOf
  <2> QED BY <1>3, <1>4, <2>1, StateFacts
<1> QED
  <2> HIDE DEF k
  <2> QED BY <1>3, <1>4, <1>5, <1>6, <1>7, StateFacts, InvFromFacts

LEMMA RemoveTagFromItemInv ==
    ASSUME IInv, NEW i \in ItemId, NEW t \in TagId, RemoveTagFromItem(i, t)
    PROVE  IInv'
<1>1. item_tag' \subseteq (DOMAIN item) \X (DOMAIN tag)
  BY StateFacts DEF RemoveTagFromItem
<1> QED
  BY <1>1, StateFacts, InvFromFacts DEF RemoveTagFromItem

LEMMA RenameTagInv ==
    ASSUME IInv, NEW t \in TagId, NEW n \in LowerName, RenameTag(t, n)
    PROVE  IInv'
<1>1. /\ t \in DOMAIN tag /\ n \notin {tag[u] : u \in DOMAIN tag \ {t}}
      /\ tag' = [tag EXCEPT ![t] = n]
  BY DEF RenameTag
<1>2. DOMAIN tag' = DOMAIN tag /\ tag' \in [DOMAIN tag' -> TagName]
  BY <1>1, NameAssumption, StateFacts
<1>3. IsInjective(tag')
  BY <1>1, StateFacts DEF IsInjective
<1> QED
  BY <1>2, <1>3, StateFacts, InvFromFacts DEF RenameTag

LEMMA MergeTagsInv ==
    ASSUME IInv, NEW source \in TagId, NEW target \in TagId,
           MergeTags(source, target)
    PROVE  IInv'
<1>1. /\ tag' = Restrict(tag, DOMAIN tag \ {source})
      /\ shelf' = shelf /\ container' = container /\ item' = item
      /\ sqlite_sequence' = sqlite_sequence
  BY DEF MergeTags
<1>2. /\ DOMAIN tag' = DOMAIN tag \ {source}
      /\ tag' \in [DOMAIN tag' -> TagName]
      /\ IsInjective(tag')
  <2>1. tag \in [DOMAIN tag -> TagName] /\ IsInjective(tag)
    BY StateFacts
  <2> QED BY <1>1, <2>1, DropTagFacts
<1>3. item_tag' \subseteq (DOMAIN item) \X (DOMAIN tag')
  BY StateFacts DEF MergeTags, Cascade
<1> QED
  BY <1>1, <1>2, <1>3, StateFacts, InvFromFacts

LEMMA DeleteUnusedTagInv ==
    ASSUME IInv, NEW t \in TagId, DeleteUnusedTag(t)
    PROVE  IInv'
<1>1. /\ tag' = Restrict(tag, DOMAIN tag \ {t})
      /\ \A p \in item_tag : p[2] # t
      /\ shelf' = shelf /\ container' = container /\ item' = item
      /\ item_tag' = item_tag /\ sqlite_sequence' = sqlite_sequence
  BY DEF DeleteUnusedTag, Unused
<1>2. /\ DOMAIN tag' = DOMAIN tag \ {t}
      /\ tag' \in [DOMAIN tag' -> TagName]
      /\ IsInjective(tag')
  <2>1. tag \in [DOMAIN tag -> TagName] /\ IsInjective(tag)
    BY StateFacts
  <2> QED BY <1>1, <2>1, DropTagFacts
<1>3. item_tag' \subseteq (DOMAIN item) \X (DOMAIN tag')
  BY <1>1, <1>2, StateFacts
<1> QED
  BY <1>1, <1>2, <1>3, StateFacts, InvFromFacts

\* A resize that is let through: the containers within the new edges stay as
\* they are, each missing cell gets a new one, and no item is touched.
LEMMA ResizeFacts ==
    ASSUME IInv, NEW rows \in Nat \ {0}, NEW cols \in Nat \ {0},
           ResizeShelf(rows, cols)
    PROVE  LET outside == {c \in DOMAIN container :
                               container[c][1] > cols \/ container[c][2] > rows}
           IN  /\ item' = item /\ item_tag' = item_tag /\ tag' = tag
               /\ shelf' \in [rows : {rows}, cols : {cols}, named : BOOLEAN]
               /\ sqlite_sequence' \in [container : 0..MaxContainer,
                                        item : 0..MaxItem, tag : 0..MaxTag]
               /\ sqlite_sequence'.item = sqlite_sequence.item
               /\ sqlite_sequence'.tag = sqlite_sequence.tag
               /\ DOMAIN container' \subseteq 1..sqlite_sequence'.container
               /\ DOMAIN container' \cap ContainerId = DOMAIN container \ outside
               /\ container' \in [DOMAIN container' -> Int \X Int]
               /\ IsInjective(container')
               /\ \A c \in DOMAIN container \ outside : container'[c] = container[c]
               /\ \A i \in DOMAIN item : item[i] \in DOMAIN container \ outside
               /\ Range(container') =
                      Cells(rows, cols) \cup
                          {container[c] : c \in DOMAIN container \ outside}
<1> DEFINE outside == {c \in DOMAIN container :
                           container[c][1] > cols \/ container[c][2] > rows}
           within  == DOMAIN container \ outside
           kept    == Restrict(container, within)
           missing == Cells(rows, cols) \ Range(kept)
           last    == sqlite_sequence.container
           n       == Cardinality(missing)
<1>1. /\ Range(item) \cap outside = {}
      /\ last + n <= MaxContainer
      /\ shelf' = [shelf EXCEPT !.rows = rows, !.cols = cols]
      /\ item' = Restrict(item, {i \in DOMAIN item : item[i] \notin outside})
      /\ item_tag' = Cascade(item_tag, DOMAIN item', DOMAIN tag)
      /\ sqlite_sequence' = [sqlite_sequence EXCEPT !.container = @ + n]
      /\ tag' = tag
  BY DEF ResizeShelf
<1>2. PICK new \in Numbering(missing, last) :
          InColumnOrder(new) /\ container' = Extend(kept, new)
  BY DEF ResizeShelf
<1>3. /\ IsFiniteSet(missing)
      /\ missing \subseteq Int \X Int
      /\ missing \cap Range(kept) = {}
  <2>1. IsFiniteSet(Cells(rows, cols)) /\ Cells(rows, cols) \subseteq Int \X Int
    BY CellsFacts
  <2> QED BY <2>1, FS_Subset
<1>4. within \in SUBSET DOMAIN container
  OBVIOUS
<1> HIDE DEF outside
<1>5. /\ DOMAIN kept = within
      /\ kept \in [within -> Int \X Int]
      /\ IsInjective(kept)
      /\ \A c \in within : kept[c] = container[c]
      /\ Range(kept) = {container[c] : c \in within}
  <2> HIDE DEF within
  <2>1. /\ DOMAIN kept = within
        /\ kept \in [within -> Int \X Int]
        /\ IsInjective(kept)
        /\ \A c \in within : kept[c] = container[c]
    BY <1>4, StateFacts, RestrictFacts
  <2>2. Range(kept) = {container[c] : c \in within}
    BY <2>1 DEF Range
  <2> QED BY <2>1, <2>2
<1>6. last \in Nat /\ within \subseteq 1..last
  BY <1>4, StateFacts
<1>7. /\ n \in Nat
      /\ DOMAIN new = (last + 1)..(last + n)
      /\ new \in [DOMAIN new -> missing]
      /\ IsInjective(new)
      /\ Range(new) = missing
  <2> HIDE DEF missing, last
  <2> QED BY <1>2, <1>3, <1>6, NumberingFacts
<1> HIDE DEF within, kept, missing
<1>8. /\ DOMAIN container' = within \cup DOMAIN new
      /\ container' \in [DOMAIN container' -> Int \X Int]
      /\ IsInjective(container')
      /\ Range(container') = Range(kept) \cup missing
      /\ \A c \in within : container'[c] = kept[c]
  <2>1. DOMAIN kept \cap DOMAIN new = {}
    <3> HIDE DEF last, n
    <3> QED BY <1>5, <1>6, <1>7
  <2>2. /\ kept \in [DOMAIN kept -> Int \X Int]
        /\ new \in [DOMAIN new -> Int \X Int]
        /\ Range(kept) \cap Range(new) = {}
    BY <1>3, <1>5, <1>7
  <2>3. /\ DOMAIN Extend(kept, new) = DOMAIN kept \cup DOMAIN new
        /\ Extend(kept, new) \in [DOMAIN kept \cup DOMAIN new -> Int \X Int]
        /\ \A x \in DOMAIN kept : Extend(kept, new)[x] = kept[x]
        /\ Range(Extend(kept, new)) = Range(kept) \cup Range(new)
        /\ IsInjective(Extend(kept, new))
    BY <1>5, <1>7, <2>1, <2>2, ExtendFacts
  <2> QED BY <1>2, <1>5, <1>7, <2>3
<1>9. /\ sqlite_sequence' \in [container : 0..MaxContainer,
                               item : 0..MaxItem, tag : 0..MaxTag]
      /\ sqlite_sequence'.container = last + n
      /\ sqlite_sequence'.item = sqlite_sequence.item
      /\ sqlite_sequence'.tag = sqlite_sequence.tag
  <2>1. last + n \in 0..MaxContainer
    BY <1>1, <1>7, StateFacts
  <2> HIDE DEF n
  <2> QED BY <1>1, <2>1, StateFacts
<1>10. /\ DOMAIN container' \subseteq 1..sqlite_sequence'.container
       /\ DOMAIN container' \cap ContainerId = within
  <2>1. ContainerId = 1..last
    BY DEF ContainerId
  <2> HIDE DEF n, last
  <2> QED BY <1>6, <1>7, <1>8, <1>9, <2>1
<1>11. \A i \in DOMAIN item : item[i] \in within
  BY <1>1, StateFacts DEF Range, within
<1>12. item' = item /\ item_tag' = item_tag
  <2>1. {i \in DOMAIN item : item[i] \notin outside} = DOMAIN item
    BY <1>11 DEF within
  <2>2. item' = item
    BY <1>1, <2>1, StateFacts DEF Restrict
  <2> QED BY <1>1, <2>2, StateFacts DEF Cascade
<1>13. Range(container') = Cells(rows, cols) \cup {container[c] : c \in within}
  BY <1>5, <1>8 DEF missing
<1>14. \A c \in within : container'[c] = container[c]
  BY <1>5, <1>8
<1>15. shelf' \in [rows : {rows}, cols : {cols}, named : BOOLEAN]
  BY <1>1, StateFacts
<1> QED
  <2> HIDE DEF n, last
  <2> QED BY <1>1, <1>8, <1>9, <1>10, <1>11, <1>12, <1>13, <1>14, <1>15
             DEF outside, within

LEMMA ResizeShelfInv ==
    ASSUME IInv, NEW size \in ResizeTo, ResizeShelf(size[1], size[2])
    PROVE  IInv'
<1> DEFINE rows == size[1]
           cols == size[2]
<1>1. rows \in Nat \ {0} /\ cols \in Nat \ {0}
  BY GridAssumption
<1>2. [rows : {rows}, cols : {cols}, named : BOOLEAN] \subseteq
          [rows : Nat \ {0}, cols : Nat \ {0}, named : BOOLEAN]
  BY <1>1
<1>3. ResizeShelf(rows, cols)
  OBVIOUS
<1> HIDE DEF rows, cols
<1>4. /\ item' = item /\ item_tag' = item_tag /\ tag' = tag
      /\ shelf' \in [rows : Nat \ {0}, cols : Nat \ {0}, named : BOOLEAN]
      /\ sqlite_sequence' \in [container : 0..MaxContainer,
                               item : 0..MaxItem, tag : 0..MaxTag]
      /\ sqlite_sequence'.item = sqlite_sequence.item
      /\ sqlite_sequence'.tag = sqlite_sequence.tag
      /\ DOMAIN container' \subseteq 1..sqlite_sequence'.container
      /\ container' \in [DOMAIN container' -> Int \X Int]
      /\ IsInjective(container')
      /\ \A i \in DOMAIN item : item[i] \in DOMAIN container'
  BY <1>1, <1>2, <1>3, ResizeFacts
<1>5. item' \in [DOMAIN item' -> DOMAIN container']
  BY <1>4, StateFacts
<1> QED
  BY <1>4, <1>5, StateFacts, InvFromFacts

\* A function with a finite domain has a finite range.
LEMMA FiniteRange ==
    ASSUME NEW S, NEW T, NEW f \in [S -> T], IsFiniteSet(S)
    PROVE  IsFiniteSet(Range(f))
<1>1. f \in Surjection(S, Range(f))
  BY DEF Surjection, Range
<1> QED
  BY <1>1, FS_Surjection

\* A list has finitely many members.
LEMMA ListFacts ==
    ASSUME NEW T, NEW s \in Seq(T)
    PROVE  /\ Len(s) \in Nat
           /\ DOMAIN s = 1..Len(s)
           /\ \A k \in 1..Len(s) : s[k] \in T
           /\ Range(s) \subseteq T
           /\ IsFiniteSet(Range(s))
<1>1. Len(s) \in Nat /\ DOMAIN s = 1..Len(s) /\ \A k \in 1..Len(s) : s[k] \in T
  OBVIOUS
<1>2. IsFiniteSet(DOMAIN s)
  BY <1>1, FS_Interval
<1>3. s \in [DOMAIN s -> T]
  OBVIOUS
<1>4. IsFiniteSet(Range(s))
  BY <1>2, <1>3, FiniteRange
<1> QED
  BY <1>1, <1>4 DEF Range

\* A backup is a finite file, with a named shelf of some size.
LEMMA BackupFacts ==
    ASSUME NEW b \in Backups
    PROVE  /\ b.rows \in Nat \ {0} /\ b.cols \in Nat \ {0} /\ b.named \in BOOLEAN
           /\ Len(b.containers) \in Nat
           /\ DOMAIN b.containers = 1..Len(b.containers)
           /\ \A c \in 1..Len(b.containers) : b.containers[c] \in Int \X Int
           /\ Len(b.items) \in Nat
           /\ DOMAIN b.items = 1..Len(b.items)
           /\ \A k \in 1..Len(b.items) : b.items[k].at \in 1..Len(b.containers)
           /\ BackupNames(b) \subseteq TagName
           /\ IsFiniteSet(BackupNames(b))
<1> DEFINE I == [at : Nat \ {0}, tags : Seq(TagName)]
           f == [k \in DOMAIN b.items |-> Range(b.items[k].tags)]
<1>0. b \in Backup /\ b.rows > 0 /\ b.cols > 0
  BY BackupAssumption DEF Accepted
<1>1. /\ b.rows \in Nat \ {0} /\ b.cols \in Nat \ {0} /\ b.named \in BOOLEAN
      /\ b.containers \in Seq(Int \X Int)
      /\ b.items \in Seq(I)
      /\ \A k \in DOMAIN b.items : b.items[k].at \in DOMAIN b.containers
  BY <1>0, BackupAssumption DEF Backup
<1>2. /\ Len(b.containers) \in Nat
      /\ DOMAIN b.containers = 1..Len(b.containers)
      /\ \A c \in 1..Len(b.containers) : b.containers[c] \in Int \X Int
  BY <1>1, ListFacts
<1>3. /\ Len(b.items) \in Nat
      /\ DOMAIN b.items = 1..Len(b.items)
      /\ \A k \in 1..Len(b.items) : b.items[k] \in I
  <2> HIDE DEF I
  <2> QED BY <1>1, ListFacts
<1>4. \A k \in DOMAIN b.items : f[k] \subseteq TagName /\ IsFiniteSet(f[k])
  <2> SUFFICES ASSUME NEW k \in DOMAIN b.items
               PROVE  f[k] \subseteq TagName /\ IsFiniteSet(f[k])
    OBVIOUS
  <2>1. b.items[k].tags \in Seq(TagName)
    BY <1>3
  <2>2. f[k] = Range(b.items[k].tags)
    OBVIOUS
  <2> HIDE DEF f
  <2> QED BY <2>1, <2>2, ListFacts
<1>5. IsFiniteSet(DOMAIN b.items)
  BY <1>3, FS_Interval
<1>6. IsFiniteSet(Range(f))
  <2>1. f \in [DOMAIN b.items -> SUBSET TagName]
    BY <1>4
  <2> HIDE DEF f
  <2> QED BY <1>5, <2>1, FiniteRange
<1>7. BackupNames(b) = UNION Range(f)
  <2>1. DOMAIN f = DOMAIN b.items
    OBVIOUS
  <2>2. \A k \in DOMAIN b.items : f[k] = Range(b.items[k].tags)
    OBVIOUS
  <2> HIDE DEF f
  <2>3. Range(f) = {Range(b.items[k].tags) : k \in DOMAIN b.items}
    <3>1. Range(f) = {f[k] : k \in DOMAIN b.items}
      BY <2>1 DEF Range
    <3> QED BY <2>2, <3>1
  <2> QED BY <2>3 DEF BackupNames
<1>8. IsFiniteSet(UNION Range(f)) /\ UNION Range(f) \subseteq TagName
  <2>1. DOMAIN f = DOMAIN b.items
    OBVIOUS
  <2> HIDE DEF f
  <2>2. \A T \in Range(f) : IsFiniteSet(T) /\ T \subseteq TagName
    BY <1>4, <2>1 DEF Range
  <2> QED BY <1>6, <2>2, FS_UNION
<1> QED
  BY <1>1, <1>2, <1>3, <1>7, <1>8

LEMMA ImportAllDataInv ==
    ASSUME IInv, NEW b \in Backups, ImportAllData(b)
    PROVE  IInv'
<1> DEFINE lastC == sqlite_sequence.container
           lastI == sqlite_sequence.item
           lastT == sqlite_sequence.tag
           n     == Cardinality(BackupNames(b))
           C     == Len(b.containers)
           I     == Len(b.items)
<1>1. /\ lastC \in Nat /\ lastI \in Nat /\ lastT \in Nat
      /\ C \in Nat /\ I \in Nat /\ n \in Nat
  BY StateFacts, BackupFacts, FS_CardinalityType
<1>2. /\ IsInjective(b.containers)
      /\ lastC + C <= MaxContainer /\ lastI + I <= MaxItem /\ lastT + n <= MaxTag
      /\ shelf' = [rows |-> b.rows, cols |-> b.cols, named |-> b.named]
      /\ container' = [c \in (lastC + 1)..(lastC + C) |-> b.containers[c - lastC]]
      /\ item' = [i \in (lastI + 1)..(lastI + I) |-> lastC + b.items[i - lastI].at]
      /\ tag' \in Numbering(BackupNames(b), lastT)
      /\ item_tag' \subseteq (DOMAIN item') \X (DOMAIN tag')
      /\ sqlite_sequence' = [container |-> lastC + C, item |-> lastI + I,
                             tag |-> lastT + n]
  BY DEF ImportAllData, Insertable
<1> HIDE DEF lastC, lastI, lastT, n, C, I
<1>3. /\ sqlite_sequence' \in [container : 0..MaxContainer,
                               item : 0..MaxItem, tag : 0..MaxTag]
      /\ sqlite_sequence'.container = lastC + C
      /\ sqlite_sequence'.item = lastI + I
      /\ sqlite_sequence'.tag = lastT + n
  BY <1>1, <1>2, BoundAssumption
<1>4. /\ DOMAIN tag' = (lastT + 1)..(lastT + n)
      /\ tag' \in [DOMAIN tag' -> TagName]
      /\ IsInjective(tag')
  <2>1. /\ DOMAIN tag' = (lastT + 1)..(lastT + Cardinality(BackupNames(b)))
        /\ tag' \in [DOMAIN tag' -> BackupNames(b)]
        /\ IsInjective(tag')
    BY <1>1, <1>2, BackupFacts, NumberingFacts
  <2> QED BY <2>1, BackupFacts DEF n
<1>5. /\ DOMAIN container' = (lastC + 1)..(lastC + C)
      /\ \A c \in DOMAIN container' :
             c - lastC \in 1..C /\ container'[c] = b.containers[c - lastC]
  BY <1>1, <1>2
<1>6. container' \in [DOMAIN container' -> Int \X Int]
  <2>1. \A c \in 1..C : b.containers[c] \in Int \X Int
    BY BackupFacts DEF C
  <2> QED BY <1>2, <1>5, <2>1
<1>7. IsInjective(container')
  <2> SUFFICES ASSUME NEW x \in DOMAIN container', NEW y \in DOMAIN container',
                      container'[x] = container'[y]
               PROVE  x = y
    BY DEF IsInjective
  <2>1. x - lastC \in DOMAIN b.containers /\ y - lastC \in DOMAIN b.containers
    BY <1>5, BackupFacts DEF C
  <2>2. x - lastC = y - lastC
    BY <1>2, <1>5, <2>1 DEF IsInjective
  <2> QED BY <1>1, <1>5, <2>2
<1>8. /\ DOMAIN item' = (lastI + 1)..(lastI + I)
      /\ item' \in [DOMAIN item' -> DOMAIN container']
  <2>1. \A k \in 1..I : b.items[k].at \in 1..C
    BY BackupFacts DEF C, I
  <2>2. \A i \in (lastI + 1)..(lastI + I) : i - lastI \in 1..I
    BY <1>1
  <2>3. \A i \in (lastI + 1)..(lastI + I) :
            lastC + b.items[i - lastI].at \in DOMAIN container'
    <3>1. DOMAIN container' = (lastC + 1)..(lastC + C)
      BY <1>5
    <3>2. \A m \in 1..C : lastC + m \in (lastC + 1)..(lastC + C)
      BY <1>1
    <3>3. ASSUME NEW i \in (lastI + 1)..(lastI + I)
          PROVE  b.items[i - lastI].at \in 1..C
      BY <2>1, <2>2, <3>3
    <3> QED BY <3>1, <3>2, <3>3
  <2> QED BY <1>2, <2>3
<1>9. shelf' \in [rows : Nat \ {0}, cols : Nat \ {0}, named : BOOLEAN]
  BY <1>2, BackupFacts
<1>10. /\ DOMAIN container' \subseteq 1..sqlite_sequence'.container
       /\ DOMAIN item' \subseteq 1..sqlite_sequence'.item
       /\ DOMAIN tag' \subseteq 1..sqlite_sequence'.tag
  BY <1>1, <1>3, <1>4, <1>5, <1>8
<1> QED
  BY <1>2, <1>3, <1>4, <1>6, <1>7, <1>8, <1>9, <1>10, InvFromFacts

LEMMA UpdateShelfNameInv ==
    ASSUME IInv, NEW named \in BOOLEAN, UpdateShelfName(named)
    PROVE  IInv'
BY StateFacts, InvFromFacts DEF UpdateShelfName

LEMMA NextInv == IInv /\ [Next]_vars => IInv'
<1> SUFFICES ASSUME IInv, [Next]_vars PROVE IInv'
  OBVIOUS
<1>1. CASE UNCHANGED vars
  BY <1>1 DEF vars, IInv, TypeOK, ForeignKeys, UniqueKeys, ContainerId,
     ItemId, TagId, IsInjective, Range
<1>2. CASE ItemStep
  BY <1>2, CreateItemInv, UpdateItemInv, DeleteItemInv DEF ItemStep
<1>3. CASE TagStep
  BY <1>3, AddTagToItemInv, RemoveTagFromItemInv, RenameTagInv, MergeTagsInv,
     DeleteUnusedTagInv DEF TagStep
<1>4. CASE ShelfStep
  BY <1>4, ResizeShelfInv, UpdateShelfNameInv, ImportAllDataInv DEF ShelfStep
<1> QED
  BY <1>1, <1>2, <1>3, <1>4 DEF Next

\* Every reachable database satisfies the inductive invariant.
THEOREM Invariance == Spec => []IInv
BY InitInv, NextInv, PTL DEF Spec

\* TypeOK, the type invariant of the tables, holds of every reachable database.
THEOREM TypeCorrect == Spec => []TypeOK
<1>1. IInv => TypeOK
  BY DEF IInv
<1> QED
  BY Invariance, <1>1, PTL

\* ForeignKeys: every reference leads to a row, whatever is deleted, merged,
\* resized away or imported, by hand-made backups too.
THEOREM ReferencesHold == Spec => []ForeignKeys
<1>1. IInv => ForeignKeys
  BY DEF IInv
<1> QED
  BY Invariance, <1>1, PTL

\* UniqueKeys: one container per position and one tag per name.
THEOREM KeysUnique == Spec => []UniqueKeys
<1>1. IInv => UniqueKeys
  BY DEF IInv
<1> QED
  BY Invariance, <1>1, PTL

-----------------------------------------------------------------------------
\* The containers that an import inserts are those of the file.
LEMMA ImportedCells ==
    ASSUME IInv, NEW b \in Backups, ImportAllData(b)
    PROVE  /\ Range(container') = Range(b.containers)
           /\ DOMAIN container' \cap ContainerId = {}
<1> DEFINE last == sqlite_sequence.container
           C    == Len(b.containers)
<1>1. container' = [c \in (last + 1)..(last + C) |-> b.containers[c - last]]
  BY DEF ImportAllData
<1>2. last \in Nat /\ C \in Nat /\ DOMAIN b.containers = 1..C
  BY StateFacts, BackupFacts
<1>3. ContainerId = 1..last
  BY DEF ContainerId
<1> HIDE DEF last, C
<1>4. \A c \in (last + 1)..(last + C) : c - last \in 1..C
  BY <1>2
<1>5. \A k \in 1..C : last + k \in (last + 1)..(last + C) /\ (last + k) - last = k
  BY <1>2
<1>6. /\ DOMAIN container' = (last + 1)..(last + C)
      /\ \A c \in DOMAIN container' :
             c - last \in 1..C /\ container'[c] = b.containers[c - last]
  BY <1>1, <1>4
<1>7. Range(container') \subseteq Range(b.containers)
  BY <1>2, <1>6 DEF Range
<1>8. ASSUME NEW k \in DOMAIN b.containers
      PROVE  b.containers[k] \in Range(container')
  <2>1. last + k \in DOMAIN container' /\ container'[last + k] = b.containers[k]
    BY <1>2, <1>5, <1>6
  <2> QED BY <2>1 DEF Range
<1>9. Range(b.containers) \subseteq Range(container')
  BY <1>8 DEF Range
<1>10. DOMAIN container' \cap ContainerId = {}
  BY <1>2, <1>3, <1>6
<1> QED BY <1>7, <1>9, <1>10

\* Every step but the import of an incomplete backup keeps the grid complete.
LEMMA GridStep ==
    ASSUME IInv, GridComplete, [Next]_vars
    PROVE  \/ GridComplete'
           \/ \E b \in Backups : ImportAllData(b) /\ ~CompleteBackup(b)
<1>1. CASE shelf'.rows = shelf.rows /\ shelf'.cols = shelf.cols /\ container' = container
  BY <1>1 DEF GridComplete
<1>2. ASSUME NEW size \in ResizeTo, ResizeShelf(size[1], size[2])
      PROVE  GridComplete'
  <2> DEFINE rows == size[1]
             cols == size[2]
             inside == {c \in DOMAIN container :
                            container[c][1] <= cols /\ container[c][2] <= rows}
  <2>1. rows \in Nat \ {0} /\ cols \in Nat \ {0}
    BY GridAssumption
  <2>2. ResizeShelf(rows, cols)
    BY <1>2
  <2> HIDE DEF rows, cols
  <2>3. /\ shelf'.rows = rows /\ shelf'.cols = cols
        /\ Range(container') = Cells(rows, cols) \cup
               {container[c] : c \in DOMAIN container \
                    {d \in DOMAIN container :
                         container[d][1] > cols \/ container[d][2] > rows}}
    BY <2>1, <2>2, ResizeFacts
  <2>4. ASSUME NEW c \in DOMAIN container,
               ~(container[c][1] > cols \/ container[c][2] > rows)
        PROVE  container[c] \in Cells(rows, cols)
    <3>1. container[c] \in Cells(shelf.rows, shelf.cols)
      BY DEF GridComplete, Range
    <3>2. /\ container[c] = <<container[c][1], container[c][2]>>
          /\ container[c][1] \in Int /\ container[c][1] >= 1
          /\ container[c][2] \in Int /\ container[c][2] >= 1
      BY <3>1, StateFacts DEF Cells
    <3> QED BY <2>1, <2>4, <3>2 DEF Cells
  <2> QED BY <2>3, <2>4 DEF GridComplete
<1>3. ASSUME NEW b \in Backups, ImportAllData(b), CompleteBackup(b)
      PROVE  GridComplete'
  <2>1. shelf'.rows = b.rows /\ shelf'.cols = b.cols
    BY <1>3 DEF ImportAllData
  <2>2. Range(container') = Range(b.containers)
    BY <1>3, ImportedCells
  <2> QED BY <1>3, <2>1, <2>2 DEF GridComplete, CompleteBackup
<1>4. CASE ItemStep
  BY <1>1, <1>4 DEF ItemStep, CreateItem, UpdateItem, DeleteItem
<1>5. CASE TagStep
  BY <1>1, <1>5 DEF TagStep, AddTagToItem, RemoveTagFromItem, RenameTag,
     MergeTags, DeleteUnusedTag, Unused
<1>6. ASSUME NEW named \in BOOLEAN, UpdateShelfName(named)
      PROVE  GridComplete'
  <2>1. shelf' = [shelf EXCEPT !.named = named] /\ container' = container
    BY <1>6 DEF UpdateShelfName
  <2>2. shelf'.rows = shelf.rows /\ shelf'.cols = shelf.cols
    BY <2>1, StateFacts
  <2>3. Cells(shelf'.rows, shelf'.cols) = Cells(shelf.rows, shelf.cols)
    BY <2>2
  <2> QED BY <2>1, <2>3 DEF GridComplete
<1> QED
  BY <1>1, <1>2, <1>3, <1>4, <1>5, <1>6 DEF Next, ShelfStep, vars

\* GridKept: whatever is imported, no other operation makes the grid incomplete.
THEOREM GridIsKept == Spec => GridKept
<1> DEFINE Kept == GridComplete => \/ GridComplete'
                                   \/ \E b \in Backups : ImportAllData(b) /\ ~CompleteBackup(b)
<1>1. IInv /\ [Next]_vars => [Kept]_vars
  BY GridStep
<1> QED
  BY Invariance, <1>1, PTL DEF GridKept, Spec

\* GridComplete: while only complete backups are imported, the containers are
\* exactly the cells of the grid, through any series of resizes.
THEOREM GridStaysComplete ==
    ASSUME \A b \in Backups : CompleteBackup(b)
    PROVE  Spec => []GridComplete
<1>1. Init => GridComplete
  <2> SUFFICES ASSUME Init PROVE GridComplete
    OBVIOUS
  <2> DEFINE cells == Cells(SeedGrid[1], SeedGrid[2])
  <2>1. IsFiniteSet(cells)
    <3>1. SeedGrid[1] \in Nat /\ SeedGrid[2] \in Nat
      BY GridAssumption
    <3> QED BY <3>1, CellsFacts
  <2>2. container \in Numbering(cells, 0)
    BY DEF Init
  <2>3. shelf.rows = SeedGrid[1] /\ shelf.cols = SeedGrid[2]
    BY DEF Init
  <2> HIDE DEF cells
  <2>4. Range(container) = cells
    BY <2>1, <2>2, NumberingFacts
  <2> QED BY <2>3, <2>4 DEF GridComplete, cells
<1>2. IInv /\ GridComplete /\ [Next]_vars => GridComplete'
  BY GridStep
<1> QED
  BY <1>1, <1>2, Invariance, PTL DEF Spec

\* ResizeKeepsItems: no item is lost, moved or untagged by a resize, although
\* it deletes containers and a deleted container takes its items along.
THEOREM ResizeLosesNothing == Spec => ResizeKeepsItems
<1> DEFINE Keeps == \A size \in ResizeTo : ResizeShelf(size[1], size[2]) =>
               /\ DOMAIN item' = DOMAIN item
               /\ \A i \in DOMAIN item :
                      container'[item'[i]] = container[item[i]]
               /\ item_tag' = item_tag
<1>1. IInv => Keeps
  <2> SUFFICES ASSUME IInv, NEW size \in ResizeTo, ResizeShelf(size[1], size[2])
               PROVE  /\ DOMAIN item' = DOMAIN item
                      /\ \A i \in DOMAIN item :
                             container'[item'[i]] = container[item[i]]
                      /\ item_tag' = item_tag
    OBVIOUS
  <2> DEFINE rows == size[1]
             cols == size[2]
  <2>1. rows \in Nat \ {0} /\ cols \in Nat \ {0} /\ ResizeShelf(rows, cols)
    BY GridAssumption
  <2> HIDE DEF rows, cols
  <2> QED BY <2>1, ResizeFacts
<1> QED
  BY Invariance, <1>1, PTL DEF ResizeKeepsItems

\* A row that an operation brings in has an id that was never handed out.
Fresh ==
    /\ DOMAIN container' \cap ContainerId \subseteq DOMAIN container
    /\ DOMAIN item' \cap ItemId \subseteq DOMAIN item
    /\ DOMAIN tag' \cap TagId \subseteq DOMAIN tag

LEMMA NextFresh ==
    ASSUME IInv, Next
    PROVE  Fresh
<1> USE DEF Fresh
<1>1. ASSUME NEW names \in SUBSET TagName, IsFiniteSet(names), InsertTags(names)
      PROVE  DOMAIN tag' \cap TagId \subseteq DOMAIN tag
  <2> DEFINE last == sqlite_sequence.tag
             n    == Cardinality(NewNames(names))
  <2>1. /\ n \in Nat
        /\ DOMAIN tag' = DOMAIN tag \cup ((last + 1)..(last + n))
    BY <1>1, InsertTagsFacts
  <2>2. last \in Nat /\ TagId = 1..last
    BY StateFacts DEF TagId
  <2> HIDE DEF last, n
  <2> QED BY <2>1, <2>2
<1>2. ASSUME NEW c \in ContainerId, NEW names \in SUBSET LowerName,
             CreateItem(c, names)
      PROVE  Fresh
  <2>1. names \in SUBSET TagName /\ IsFiniteSet(names)
    BY NameAssumption, FS_Subset
  <2>2. DOMAIN tag' \cap TagId \subseteq DOMAIN tag
    BY <1>1, <1>2, <2>1 DEF CreateItem
  <2>3. DOMAIN item' = DOMAIN item \cup {sqlite_sequence.item + 1}
    BY <1>2 DEF CreateItem, Extend
  <2>4. sqlite_sequence.item + 1 \notin ItemId
    BY StateFacts DEF ItemId
  <2> QED BY <1>2, <2>2, <2>3, <2>4 DEF CreateItem
<1>3. ASSUME NEW i \in ItemId, NEW n \in LowerName, AddTagToItem(i, n)
      PROVE  Fresh
  <2>1. {n} \in SUBSET TagName /\ IsFiniteSet({n})
    BY NameAssumption, FS_Singleton
  <2> QED BY <1>1, <1>3, <2>1 DEF AddTagToItem
<1>4. ASSUME NEW size \in ResizeTo, ResizeShelf(size[1], size[2])
      PROVE  Fresh
  <2> DEFINE rows == size[1]
             cols == size[2]
  <2>1. rows \in Nat \ {0} /\ cols \in Nat \ {0} /\ ResizeShelf(rows, cols)
    BY <1>4, GridAssumption
  <2> HIDE DEF rows, cols
  <2> QED BY <2>1, ResizeFacts
<1>5. ASSUME NEW b \in Backups, ImportAllData(b)
      PROVE  Fresh
  <2>1. /\ sqlite_sequence.container \in Nat /\ ContainerId = 1..sqlite_sequence.container
        /\ sqlite_sequence.item \in Nat /\ ItemId = 1..sqlite_sequence.item
        /\ sqlite_sequence.tag \in Nat /\ TagId = 1..sqlite_sequence.tag
    BY StateFacts DEF ContainerId, ItemId, TagId
  <2>2. /\ DOMAIN container' \cap ContainerId = {}
        /\ DOMAIN item' \cap ItemId = {}
    BY <1>5, <2>1, BackupFacts DEF ImportAllData
  <2>3. tag' \in Numbering(BackupNames(b), sqlite_sequence.tag)
    BY <1>5 DEF ImportAllData
  <2>4. /\ Cardinality(BackupNames(b)) \in Nat
        /\ DOMAIN tag' = (sqlite_sequence.tag + 1)..
               (sqlite_sequence.tag + Cardinality(BackupNames(b)))
    BY <2>1, <2>3, BackupFacts, NumberingFacts
  <2>5. DOMAIN tag' \cap TagId = {}
    BY <2>1, <2>4
  <2> QED BY <2>2, <2>5
<1>6. CASE ItemStep
  BY <1>2, <1>6 DEF ItemStep, UpdateItem, DeleteItem, Restrict
<1>7. CASE TagStep
  BY <1>3, <1>7 DEF TagStep, RemoveTagFromItem, RenameTag, MergeTags,
     DeleteUnusedTag, Unused, Restrict
<1>8. CASE ShelfStep
  BY <1>4, <1>5, <1>8 DEF ShelfStep, UpdateShelfName
<1> QED
  BY <1>6, <1>7, <1>8 DEF Next

\* The ids handed out to items and to tags are never taken back.
LEMMA NextIds ==
    ASSUME IInv, Next
    PROVE  /\ sqlite_sequence.item <= sqlite_sequence'.item
           /\ sqlite_sequence.tag <= sqlite_sequence'.tag
<1> DEFINE Up == /\ sqlite_sequence.item <= sqlite_sequence'.item
                 /\ sqlite_sequence.tag <= sqlite_sequence'.tag
<1>1. sqlite_sequence.item \in Nat /\ sqlite_sequence.tag \in Nat
  BY StateFacts
<1>2. \A m, n \in Nat : /\ sqlite_sequence'.item = sqlite_sequence.item + m
                        /\ sqlite_sequence'.tag = sqlite_sequence.tag + n
                        => Up
  BY <1>1
<1>3. UNCHANGED sqlite_sequence => Up
  BY <1>1
<1>4. \A n \in Nat : sqlite_sequence' = [sqlite_sequence EXCEPT !.tag = @ + n]
                        => Up
  <2> SUFFICES ASSUME NEW n \in Nat,
                      sqlite_sequence' = [sqlite_sequence EXCEPT !.tag = @ + n]
               PROVE  Up
    OBVIOUS
  <2>1. /\ sqlite_sequence'.item = sqlite_sequence.item + 0
        /\ sqlite_sequence'.tag = sqlite_sequence.tag + n
    BY StateFacts
  <2> HIDE DEF Up
  <2> QED BY <1>2, <2>1
<1> HIDE DEF Up
<1>5. ASSUME NEW c \in ContainerId, NEW names \in SUBSET LowerName, CreateItem(c, names)
      PROVE  Up
  <2>1. names \in SUBSET TagName /\ IsFiniteSet(names)
    BY NameAssumption, FS_Subset
  <2>2. Cardinality(NewNames(names)) \in Nat
    BY <1>5, <2>1, InsertTagsFacts DEF CreateItem
  <2>3. /\ sqlite_sequence'.item = sqlite_sequence.item + 1
        /\ sqlite_sequence'.tag = sqlite_sequence.tag + Cardinality(NewNames(names))
    BY <1>5, StateFacts DEF CreateItem
  <2> QED BY <1>2, <2>2, <2>3
<1>6. ASSUME NEW i \in ItemId, NEW n \in LowerName, AddTagToItem(i, n)
      PROVE  Up
  <2>1. {n} \in SUBSET TagName /\ IsFiniteSet({n})
    BY NameAssumption, FS_Singleton
  <2>2. Cardinality(NewNames({n})) \in Nat
    BY <1>6, <2>1, InsertTagsFacts DEF AddTagToItem
  <2> QED BY <1>4, <1>6, <2>2 DEF AddTagToItem
<1>7. ASSUME NEW size \in ResizeTo, ResizeShelf(size[1], size[2])
      PROVE  Up
  <2>1. /\ sqlite_sequence'.item = sqlite_sequence.item + 0
        /\ sqlite_sequence'.tag = sqlite_sequence.tag + 0
    BY <1>1, <1>7, StateFacts DEF ResizeShelf
  <2> QED BY <1>2, <2>1
<1>8. ASSUME NEW b \in Backups, ImportAllData(b)
      PROVE  Up
  <2>1. Cardinality(BackupNames(b)) \in Nat /\ Len(b.items) \in Nat
    BY BackupFacts, FS_CardinalityType
  <2>2. /\ sqlite_sequence'.item = sqlite_sequence.item + Len(b.items)
        /\ sqlite_sequence'.tag = sqlite_sequence.tag + Cardinality(BackupNames(b))
    BY <1>8 DEF ImportAllData
  <2> QED BY <1>2, <2>1, <2>2
<1>9. Up
  <2>1. CASE ItemStep
    BY <1>3, <1>5, <2>1 DEF ItemStep, UpdateItem, DeleteItem
  <2>2. CASE TagStep
    BY <1>3, <1>6, <2>2 DEF TagStep, RemoveTagFromItem, RenameTag, MergeTags,
       DeleteUnusedTag, Unused
  <2>3. CASE ShelfStep
    BY <1>3, <1>7, <1>8, <2>3 DEF ShelfStep, UpdateShelfName
  <2> QED BY <2>1, <2>2, <2>3 DEF Next
<1> QED BY <1>9 DEF Up

\* StaleIdsFindNothing: no operation reuses the id of a row that is gone.
THEOREM IdsNotReused == Spec => StaleIdsFindNothing
<1>1. IInv /\ [Next]_vars => [Fresh]_vars
  BY NextFresh
<1> QED
  BY Invariance, <1>1, PTL DEF Spec, StaleIdsFindNothing, Fresh

\* New rows for names bring in no other name.
LEMMA InsertTagsNames ==
    ASSUME NEW names, IsFiniteSet(names), NEW last \in Nat,
           NEW new \in Numbering(names \ Range(tag), last),
           NEW f, NEW S, Range(f) \subseteq S, names \subseteq S
    PROVE  Range(Extend(f, new)) \subseteq S
<1>1. Range(new) = names \ Range(tag)
  BY FS_Subset, NumberingFacts
<1>2. \A x \in DOMAIN Extend(f, new) : Extend(f, new)[x] \in Range(f) \cup Range(new)
  BY DEF Extend, Range
<1> QED BY <1>1, <1>2 DEF Range

\* TagsNormalized: while the files that are imported have lowercase names only,
\* as those have that the program exports, every tag has one, through any
\* series of operations; so it takes a file to break it.
THEOREM NamesStayNormalized ==
    ASSUME \A b \in Backups : BackupNames(b) \subseteq LowerName
    PROVE  Spec => []TagsNormalized
<1>1. Init => TagsNormalized
  BY DEF Init, TagsNormalized, Range
<1>2. IInv /\ TagsNormalized /\ [Next]_vars => TagsNormalized'
  <2> SUFFICES ASSUME IInv, TagsNormalized, [Next]_vars
               PROVE  TagsNormalized'
    OBVIOUS
  <2>1. sqlite_sequence.tag \in Nat
    BY StateFacts
  <2>2. ASSUME NEW names \in SUBSET LowerName, InsertTags(names)
        PROVE  TagsNormalized'
    <3>1. PICK new \in Numbering(names \ Range(tag), sqlite_sequence.tag) :
              tag' = Extend(tag, new)
      BY <2>2 DEF InsertTags, NewNames
    <3>2. IsFiniteSet(names)
      BY NameAssumption, FS_Subset
    <3>3. Range(Extend(tag, new)) \subseteq LowerName
      BY <2>1, <3>2, InsertTagsNames DEF TagsNormalized
    <3> QED BY <3>1, <3>3 DEF TagsNormalized
  <2>3. ASSUME NEW t, tag' = Restrict(tag, DOMAIN tag \ {t})
        PROVE  TagsNormalized'
    BY <2>3 DEF TagsNormalized, Range, Restrict
  <2>4. CASE tag' = tag
    BY <2>4 DEF TagsNormalized, Range
  <2>5. CASE ItemStep
    BY <2>2, <2>4, <2>5 DEF ItemStep, CreateItem, UpdateItem, DeleteItem
  <2>6. CASE TagStep
    <3>1. ASSUME NEW i \in ItemId, NEW n \in LowerName, AddTagToItem(i, n)
          PROVE  TagsNormalized'
      BY <2>2, <3>1 DEF AddTagToItem
    <3>2. ASSUME NEW t \in TagId, NEW n \in LowerName, RenameTag(t, n)
          PROVE  TagsNormalized'
      BY <3>2, StateFacts DEF RenameTag, TagsNormalized, Range
    <3>3. ASSUME NEW i \in ItemId, NEW t \in TagId, RemoveTagFromItem(i, t)
          PROVE  TagsNormalized'
      BY <2>4, <3>3 DEF RemoveTagFromItem
    <3>4. ASSUME NEW s \in TagId, NEW t \in TagId, MergeTags(s, t)
          PROVE  TagsNormalized'
      BY <2>3, <3>4 DEF MergeTags
    <3>5. ASSUME NEW t \in TagId, DeleteUnusedTag(t)
          PROVE  TagsNormalized'
      BY <2>3, <3>5 DEF DeleteUnusedTag, Unused
    <3> QED BY <2>6, <3>1, <3>2, <3>3, <3>4, <3>5 DEF TagStep
  <2>7. CASE ShelfStep
    <3>1. ASSUME NEW size \in ResizeTo, ResizeShelf(size[1], size[2])
          PROVE  TagsNormalized'
      BY <2>4, <3>1 DEF ResizeShelf
    <3>2. ASSUME NEW b \in Backups, ImportAllData(b)
          PROVE  TagsNormalized'
      <4>1. tag' \in Numbering(BackupNames(b), sqlite_sequence.tag)
        BY <3>2 DEF ImportAllData
      <4>2. Range(tag') = BackupNames(b)
        BY <2>1, <4>1, BackupFacts, NumberingFacts
      <4> QED BY <4>2 DEF TagsNormalized
    <3>3. ASSUME NEW named \in BOOLEAN, UpdateShelfName(named)
          PROVE  TagsNormalized'
      BY <2>4, <3>3 DEF UpdateShelfName
    <3> QED BY <2>7, <3>1, <3>2, <3>3 DEF ShelfStep
  <2> QED BY <2>4, <2>5, <2>6, <2>7 DEF Next, vars
<1> QED
  BY <1>1, <1>2, Invariance, PTL DEF Spec

\* MergeReplacesName: merging two different tags turns the source's name into
\* the target's on every item, and changes no other tag of any item.
THEOREM MergeIsRenaming == Spec => MergeReplacesName
<1> DEFINE before(i) == NamesOn(i, item_tag, tag)
           after(i)  == NamesOn(i, item_tag', tag')
           swap(s, t, n) == IF n = tag[s] THEN tag[t] ELSE n
           Replaces == \A source, target \in DOMAIN tag :
               source # target /\ MergeTags(source, target) =>
                   \A i \in DOMAIN item :
                       after(i) = {swap(source, target, n) : n \in before(i)}
<1>1. IInv => Replaces
  <2> SUFFICES ASSUME IInv, NEW source \in DOMAIN tag, NEW target \in DOMAIN tag,
                      source # target, MergeTags(source, target),
                      NEW i \in DOMAIN item
               PROVE  after(i) = {swap(source, target, n) : n \in before(i)}
    OBVIOUS
  <2> DEFINE carried == {j \in DOMAIN item : <<j, source>> \in item_tag}
  <2>1. /\ tag' = Restrict(tag, DOMAIN tag \ {source})
        /\ item_tag' = {p \in item_tag \cup (carried \X {target}) :
                            p[1] \in DOMAIN item /\ p[2] \in DOMAIN tag \ {source}}
    BY DEF MergeTags, Cascade, Restrict
  <2>2. \A t \in DOMAIN tag \ {source} : tag'[t] = tag[t]
    BY <2>1 DEF Restrict
  <2>3. \A t \in DOMAIN tag : tag[t] = tag[source] => t = source
    BY StateFacts DEF IsInjective
  <2>4. \A p \in item_tag : p = <<p[1], p[2]>> /\ p[1] \in DOMAIN item /\ p[2] \in DOMAIN tag
    BY StateFacts
  <2>5. ASSUME NEW x \in after(i)
        PROVE  \E n \in before(i) : x = swap(source, target, n)
    <3>1. PICK p \in item_tag' : p[1] = i /\ x = tag'[p[2]]
      BY <2>5 DEF NamesOn
    <3>2. p[2] \in DOMAIN tag \ {source} /\ x = tag[p[2]]
      BY <2>1, <2>2, <3>1
    <3>3. CASE p \in item_tag
      BY <2>3, <3>1, <3>2, <3>3 DEF NamesOn
    <3>4. CASE p \in carried \X {target}
      <4>1. <<i, source>> \in item_tag /\ p[2] = target
        BY <3>1, <3>4
      <4>2. tag[source] \in before(i)
        BY <4>1 DEF NamesOn
      <4> QED BY <3>2, <4>1, <4>2
    <3> QED BY <2>1, <3>1, <3>3, <3>4
  <2>6. ASSUME NEW n \in before(i)
        PROVE  swap(source, target, n) \in after(i)
    <3>1. PICK q \in item_tag : q[1] = i /\ n = tag[q[2]]
      BY <2>6 DEF NamesOn
    <3>2. CASE q[2] = source
      <4>1. <<i, target>> \in item_tag'
        BY <2>1, <2>4, <3>1, <3>2
      <4>2. tag'[target] = tag[target]
        BY <2>2
      <4> QED BY <3>1, <3>2, <4>1, <4>2 DEF NamesOn
    <3>3. CASE q[2] # source
      <4>1. q \in item_tag' /\ tag'[q[2]] = tag[q[2]]
        BY <2>1, <2>2, <2>4, <3>3
      <4> QED BY <2>3, <2>4, <3>1, <3>3, <4>1 DEF NamesOn
    <3> QED BY <3>2, <3>3
  <2> QED
    <3> HIDE DEF before, after, swap
    <3> QED BY <2>5, <2>6
<1> QED
  BY Invariance, <1>1, PTL DEF MergeReplacesName

\* ImportReplacesAll: an import leaves exactly what the file lists: its shelf,
\* its cells, its items at their positions and with their names, its tags, all
\* under new ids, and no container, item or tag besides, old or new.
THEOREM ImportIsReplacing == Spec => ImportReplacesAll
<1> DEFINE arrives(b, k, i) ==
               /\ container'[item'[i]] = b.containers[b.items[k].at]
               /\ NamesOn(i, item_tag', tag') = Range(b.items[k].tags)
           Replaced(b) ==
               /\ shelf' = [rows |-> b.rows, cols |-> b.cols, named |-> b.named]
               /\ DOMAIN container' \cap DOMAIN container = {}
               /\ DOMAIN item' \cap DOMAIN item = {}
               /\ DOMAIN tag' \cap DOMAIN tag = {}
               /\ Range(container') = Range(b.containers)
               /\ Range(tag') = BackupNames(b)
               /\ DOMAIN item' = {sqlite_sequence.item + k : k \in DOMAIN b.items}
               /\ \A k \in DOMAIN b.items : arrives(b, k, sqlite_sequence.item + k)
           Replaces == \A b \in Backups : ImportAllData(b) => Replaced(b)
<1>1. IInv => Replaces
  <2> SUFFICES ASSUME IInv, NEW b \in Backups, ImportAllData(b)
               PROVE  Replaced(b)
    OBVIOUS
  <2> DEFINE lastC == sqlite_sequence.container
             lastI == sqlite_sequence.item
             lastT == sqlite_sequence.tag
             C == Len(b.containers)
             I == Len(b.items)
             n == Cardinality(BackupNames(b))
  <2>1. /\ lastC \in Nat /\ lastI \in Nat /\ lastT \in Nat
        /\ C \in Nat /\ I \in Nat /\ n \in Nat
        /\ DOMAIN item \subseteq 1..lastI /\ DOMAIN tag \subseteq 1..lastT
        /\ DOMAIN b.items = 1..I /\ \A k \in 1..I : b.items[k].at \in 1..C
    BY StateFacts, BackupFacts, FS_CardinalityType
  <2>2. /\ container' = [c \in (lastC + 1)..(lastC + C) |-> b.containers[c - lastC]]
        /\ item' = [i \in (lastI + 1)..(lastI + I) |-> lastC + b.items[i - lastI].at]
        /\ tag' \in Numbering(BackupNames(b), lastT)
        /\ item_tag' = {p \in (DOMAIN item') \X (DOMAIN tag') :
                            tag'[p[2]] \in Range(b.items[p[1] - lastI].tags)}
    BY DEF ImportAllData
  <2>3. DOMAIN tag' = (lastT + 1)..(lastT + n) /\ Range(tag') = BackupNames(b)
    <3> HIDE DEF lastT
    <3> QED BY <2>1, <2>2, BackupFacts, NumberingFacts
  <2> HIDE DEF lastC, lastI, lastT, C, I, n
  <2>4. DOMAIN tag' \cap DOMAIN tag = {}
    BY <2>1, <2>3
  <2>5. /\ DOMAIN item' = (lastI + 1)..(lastI + I)
        /\ DOMAIN item' \cap DOMAIN item = {}
        /\ DOMAIN item' = {lastI + k : k \in DOMAIN b.items}
    <3>1. DOMAIN item' = (lastI + 1)..(lastI + I)
      BY <2>2
    <3>2. \A i \in (lastI + 1)..(lastI + I) : i - lastI \in 1..I /\ i = lastI + (i - lastI)
      BY <2>1
    <3>3. \A k \in 1..I : lastI + k \in (lastI + 1)..(lastI + I)
      BY <2>1
    <3>4. DOMAIN item' \cap DOMAIN item = {}
      BY <2>1, <3>1
    <3> QED BY <2>1, <3>1, <3>2, <3>3, <3>4
  <2>6. ASSUME NEW k \in DOMAIN b.items PROVE arrives(b, k, lastI + k)
    <3> DEFINE i == lastI + k
               at == b.items[k].at
    <3>1. i \in DOMAIN item' /\ i - lastI = k
      BY <2>1, <2>5
    <3>2. item'[i] = lastC + at
      BY <2>2, <2>5, <3>1
    <3>3. /\ at \in 1..C /\ lastC + at \in (lastC + 1)..(lastC + C)
          /\ (lastC + at) - lastC = at
      BY <2>1
    <3> HIDE DEF i, at
    <3>4. container'[item'[i]] = b.containers[at]
      BY <2>2, <3>2, <3>3
    <3>5. ASSUME NEW x \in Range(b.items[k].tags)
          PROVE  x \in NamesOn(i, item_tag', tag')
      <4>1. x \in Range(tag')
        BY <2>3, <3>5 DEF BackupNames
      <4>2. PICK t \in DOMAIN tag' : tag'[t] = x
        BY <4>1 DEF Range
      <4>3. <<i, t>> \in item_tag'
        BY <2>2, <3>1, <3>5, <4>2
      <4> QED BY <4>2, <4>3 DEF NamesOn
    <3>6. ASSUME NEW x \in NamesOn(i, item_tag', tag')
          PROVE  x \in Range(b.items[k].tags)
      <4>1. PICK p \in item_tag' : p[1] = i /\ x = tag'[p[2]]
        BY <3>6 DEF NamesOn
      <4> QED BY <2>2, <3>1, <4>1
    <3>7. NamesOn(i, item_tag', tag') = Range(b.items[k].tags)
      BY <3>5, <3>6
    <3> QED BY <3>1, <3>4, <3>7 DEF i, at
  <2>7. /\ Range(container') = Range(b.containers)
        /\ DOMAIN container' \cap DOMAIN container = {}
    BY ImportedCells, StateFacts DEF ContainerId
  <2>8. shelf' = [rows |-> b.rows, cols |-> b.cols, named |-> b.named]
    BY DEF ImportAllData
  <2> QED BY <2>3, <2>4, <2>5, <2>6, <2>7, <2>8 DEF lastI
<1> QED
  BY Invariance, <1>1, PTL DEF ImportReplacesAll
=============================================================================
