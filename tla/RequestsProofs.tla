---------------------------- MODULE RequestsProofs ----------------------------
(***************************************************************************)
(* Proofs about module Requests, for any number of requests, any grids,    *)
(* names, lists of tags and backups, and any bounds on the ids: however    *)
(* their statements interleave, fail and are cut off, the requests         *)
(* implement module Inventory, and their checks and answers hold.          *)
(*                                                                         *)
(*   1. what the folds of module Requests compute for lists of any length: *)
(*      LinkTagsIs, FillGridFills, ContainersPlaced, LinesLoaded;          *)
(*   2. the writes of each request are the action of module Inventory that *)
(*      it asks for (CreateIsCreateItem to RemoveIsRemoveTagFromItem), so  *)
(*      that the invariant of InventoryProofs holds of the committed       *)
(*      database (OperationKeeps);                                         *)
(*   3. the invariant RInv of the requests, a lemma for each action, and   *)
(*      the theorems.                                                      *)
(***************************************************************************)
EXTENDS Requests, FiniteSetTheorems, TLAPS

\* What is proved of module Inventory, of the committed database.
P == INSTANCE InventoryProofs WITH
    shelf <- db.shelf, container <- db.container, item <- db.item,
    tag <- db.tag, item_tag <- db.item_tag, sqlite_sequence <- db.seq

\* Its assumptions are those of module Requests.
LEMMA SameAssumptions ==
    P!GridAssumption /\ P!NameAssumption /\ P!BackupAssumption /\ P!BoundAssumption
<1>1. \A S : P!Cardinality(S) = Cardinality(S)
  BY DEF P!Cardinality, Cardinality
<1>2. \A S : P!IsFiniteSet(S) <=> IsFiniteSet(S)
  BY DEF P!IsFiniteSet, IsFiniteSet
<1>3. \A S, T : P!Cells(S, T) = Inv!Cells(S, T)
  BY DEF P!Cells, Inv!Cells
<1>4. P!Backup = Inv!Backup /\ \A b : P!Accepted(b) <=> Inv!Accepted(b)
  BY DEF P!Backup, Inv!Backup, P!Accepted, Inv!Accepted
<1> QED BY <1>1, <1>2, <1>3, <1>4, GridAssumption, NameAssumption, BackupAssumption,
           BoundAssumption
       DEF P!GridAssumption, P!NameAssumption, P!BackupAssumption, P!BoundAssumption

\* A property of 0 that each number hands on to the next is one of all.
LEMMA NatInd ==
    ASSUME NEW S, 0 \in S, \A n \in Nat : n \in S => n + 1 \in S
    PROVE  Nat \subseteq S
BY SameAssumptions, P!NatInd

-----------------------------------------------------------------------------
(* Folds, a member at a time. *)

\* The largest of the first n + 1 numbers, if it is there.
LEMMA MaxIsLast ==
    ASSUME NEW n \in Nat, NEW s \in SUBSET (1..(n + 1)), n + 1 \in s
    PROVE  Max(s) = n + 1
<1> DEFINE IsMax(x) == x \in s /\ \A y \in s : x >= y
<1>1. \A y \in s : y \in Int /\ n + 1 >= y
  OBVIOUS
<1>2. IsMax(n + 1)
  BY <1>1
<1>3. \A x : IsMax(x) => x = n + 1
  <2> SUFFICES ASSUME NEW x, IsMax(x) PROVE x = n + 1
    OBVIOUS
  <2>1. x \in Int /\ n + 1 >= x /\ x >= n + 1
    BY <1>1
  <2> QED BY <2>1
<1>4. Max(s) = CHOOSE x : IsMax(x)
  BY DEF Max
<1> HIDE DEF IsMax
<1>5. IsMax(CHOOSE x : IsMax(x))
  BY <1>2
<1> QED BY <1>3, <1>4, <1>5

\* INSERT OR IGNORE INTO container
AddCell(e, cell) == IF cell \in Range(e.container) THEN e ELSE InsertContainer(e, cell)

\* An item of a file, whose containers have ids after "last", with its tags.
AddLine(e, last, line) ==
    LinkTags(InsertItem(e, last + line.at), e.seq.item + 1, line.tags)

\* The body of each loop of the store: what it makes of database e and element x.
LoopBody(loop, ctx, e, x) ==
    CASE loop = "tags"       -> LinkTag(e, ctx, x)
      [] loop = "cells"      -> AddCell(e, x)
      [] loop = "containers" -> InsertContainer(e, x)
      [] loop = "items"      -> AddLine(e, ctx, x)

Unrolls(g, loop, ctx, d, list, n) ==
    g = [s \in SUBSET (1..n) |->
            IF s = {} THEN d ELSE LoopBody(loop, ctx, g[s \ {Max(s)}], list[Max(s)])]

Stages(h, loop, ctx, d, list, n) ==
    h[0] = d /\ \A k \in 1..n : h[k] = LoopBody(loop, ctx, h[k - 1], list[k])

LEMMA LoopExists ==
    ASSUME NEW loop, NEW ctx, NEW d, NEW list, NEW n \in Nat
    PROVE  \E g : Unrolls(g, loop, ctx, d, list, n)
<1> DEFINE Val(g, s) == IF s = {} THEN d
                        ELSE LoopBody(loop, ctx, g[s \ {Max(s)}], list[Max(s)])
           S == {m \in Nat : \E g : g = [s \in SUBSET (1..m) |-> Val(g, s)]}
<1>1. 0 \in S
  <2> DEFINE g == [s \in SUBSET (1..0) |-> d]
  <2>1. \A s \in SUBSET (1..0) : s = {}
    OBVIOUS
  <2>2. g = [s \in SUBSET (1..0) |-> Val(g, s)]
    BY <2>1
  <2> HIDE DEF g, Val
  <2> QED BY <2>2
<1>2. ASSUME NEW m \in Nat, m \in S PROVE m + 1 \in S
  <2>1. PICK f : f = [s \in SUBSET (1..m) |-> Val(f, s)]
    BY <1>2
  <2> DEFINE g == [s \in SUBSET (1..(m + 1)) |->
                      IF m + 1 \in s THEN LoopBody(loop, ctx, f[s \ {m + 1}], list[m + 1])
                      ELSE f[s]]
  <2>2. ASSUME NEW s \in SUBSET (1..(m + 1)) PROVE g[s] = Val(g, s)
    <3>1. CASE m + 1 \in s
      <4>1. Max(s) = m + 1
        BY <3>1, MaxIsLast
      <4>2. s \ {m + 1} \in SUBSET (1..(m + 1)) /\ m + 1 \notin s \ {m + 1}
        OBVIOUS
      <4>3. g[s \ {m + 1}] = f[s \ {m + 1}]
        BY <4>2
      <4> QED BY <3>1, <4>1, <4>3
    <3>2. CASE m + 1 \notin s
      <4>1. \A k \in 1..(m + 1) : k # m + 1 => k \in 1..m
        OBVIOUS
      <4>2. s \in SUBSET (1..m) /\ s \ {Max(s)} \in SUBSET (1..m)
        BY <3>2, <4>1
      <4>3. s \ {Max(s)} \in SUBSET (1..(m + 1)) /\ m + 1 \notin s \ {Max(s)}
        BY <3>2
      <4>4. g[s] = f[s] /\ g[s \ {Max(s)}] = f[s \ {Max(s)}]
        BY <3>2, <4>3
      <4>5. f[s] = Val(f, s)
        BY <2>1, <4>2
      <4> HIDE DEF g
      <4> QED BY <4>4, <4>5
    <3> QED BY <3>1, <3>2
  <2>3. g = [s \in SUBSET (1..(m + 1)) |-> g[s]]
    OBVIOUS
  <2> HIDE DEF g, Val
  <2>4. g = [s \in SUBSET (1..(m + 1)) |-> Val(g, s)]
    BY <2>2, <2>3
  <2> QED BY <2>4
<1>3. n \in S
  <2> HIDE DEF S
  <2> QED BY <1>1, <1>2, NatInd
<1>4. PICK g : g = [s \in SUBSET (1..n) |-> Val(g, s)]
  BY <1>3
<1>5. Unrolls(g, loop, ctx, d, list, n)
  BY <1>4 DEF Unrolls
<1> QED BY <1>5

LEMMA LoopPrefixes ==
    ASSUME NEW loop, NEW ctx, NEW d, NEW list, NEW n \in Nat, NEW g,
           Unrolls(g, loop, ctx, d, list, n)
    PROVE  \E h : Stages(h, loop, ctx, d, list, n) /\ h[n] = g[1..n]
<1> DEFINE h == [k \in 0..n |-> g[1..k]]
<1>1. h[0] = d
  <2>1. 1..0 = {} /\ {} \in SUBSET (1..n)
    OBVIOUS
  <2> QED BY <2>1 DEF Unrolls
<1>2. ASSUME NEW k \in 1..n PROVE h[k] = LoopBody(loop, ctx, h[k - 1], list[k])
  <2>1. /\ k - 1 \in Nat /\ k - 1 \in 0..n /\ k \in 0..n
        /\ (k - 1) + 1 = k
        /\ k \in 1..k /\ 1..k \subseteq 1..n
        /\ (1..k) \ {k} = 1..(k - 1)
    OBVIOUS
  <2>2. Max(1..k) = k
    BY <2>1, MaxIsLast
  <2>3. g[1..k] = LoopBody(loop, ctx, g[1..(k - 1)], list[k])
    BY <2>1, <2>2 DEF Unrolls
  <2> QED BY <2>1, <2>3
<1>3. h[n] = g[1..n]
  <2>1. n \in 0..n
    OBVIOUS
  <2> QED BY <2>1
<1>4. Stages(h, loop, ctx, d, list, n)
  BY <1>1, <1>2 DEF Stages
<1> HIDE DEF h
<1> QED BY <1>3, <1>4

\* The loop over the names of a create request or of an item of a file.
LEMMA LinkTagsSteps ==
    ASSUME NEW d, NEW i, NEW names, NEW n \in Nat, DOMAIN names = 1..n
    PROVE  \E h : Stages(h, "tags", i, d, names, n) /\ h[n] = LinkTags(d, i, names)
<1> DEFINE Val(g, s) == IF s = {} THEN d ELSE LinkTag(g[s \ {Max(s)}], i, names[Max(s)])
<1>1. \A e, x : LoopBody("tags", i, e, x) = LinkTag(e, i, x)
  BY DEF LoopBody
<1>2. \A g : Unrolls(g, "tags", i, d, names, n) <=> g = [s \in SUBSET DOMAIN names |-> Val(g, s)]
  BY <1>1 DEF Unrolls
<1>3. PICK g : Unrolls(g, "tags", i, d, names, n)
  BY LoopExists
<1>4. PICK f : /\ f = [s \in SUBSET DOMAIN names |-> Val(f, s)]
               /\ LinkTags(d, i, names) = f[DOMAIN names]
  BY <1>2, <1>3 DEF LinkTags, FoldLeft, MapThenFoldSet
<1>5. Unrolls(f, "tags", i, d, names, n)
  BY <1>2, <1>4
<1>6. PICK h : Stages(h, "tags", i, d, names, n) /\ h[n] = f[1..n]
  BY <1>5, LoopPrefixes
<1> QED BY <1>4, <1>6

\* The loops: over cells, over the containers and over the items of a file.
AddCells(d, list) == FoldLeft(AddCell, d, list)
AddContainers(d, list) == FoldLeft(InsertContainer, d, list)
AddLines(d, last, list) == FoldLeft(LAMBDA e, line : AddLine(e, last, line), d, list)

\* The cells of a grid in the order of the loops over its columns and rows.
Listed(rows, cols) ==
    [k \in 1..(rows * cols) |-> <<((k - 1) \div rows) + 1, ((k - 1) % rows) + 1>>]

LEMMA FillGridIs ==
    ASSUME NEW d, NEW rows, NEW cols
    PROVE  FillGrid(d, rows, cols) = AddCells(d, Listed(rows, cols))
BY DEF FillGrid, AddCells, AddCell, Listed

LEMMA AfterImportIs ==
    ASSUME NEW d, NEW b
    PROVE  AfterImport(d, b) =
               AddLines(AddContainers([d EXCEPT !.item_tag = {}, !.item = <<>>,
                                                !.tag = <<>>, !.container = <<>>,
                                                !.shelf = [rows |-> b.rows, cols |-> b.cols,
                                                           named |-> b.named]],
                                      b.containers),
                        d.seq.container, b.items)
BY DEF AfterImport, AddLines, AddLine, AddContainers

\* The loop over the cells of a grid.
LEMMA AddCellsSteps ==
    ASSUME NEW d, NEW list, NEW n \in Nat, DOMAIN list = 1..n
    PROVE  \E h : Stages(h, "cells", 0, d, list, n) /\ h[n] = AddCells(d, list)
<1> DEFINE Val(g, s) == IF s = {} THEN d ELSE AddCell(g[s \ {Max(s)}], list[Max(s)])
<1>1. \A e, x : LoopBody("cells", 0, e, x) = AddCell(e, x)
  BY DEF LoopBody
<1>2. \A g : Unrolls(g, "cells", 0, d, list, n) <=> g = [s \in SUBSET DOMAIN list |-> Val(g, s)]
  BY <1>1 DEF Unrolls
<1>3. PICK g : Unrolls(g, "cells", 0, d, list, n)
  BY LoopExists
<1>4. PICK f : /\ f = [s \in SUBSET DOMAIN list |-> Val(f, s)]
               /\ AddCells(d, list) = f[DOMAIN list]
  BY <1>2, <1>3 DEF AddCells, FoldLeft, MapThenFoldSet
<1>5. Unrolls(f, "cells", 0, d, list, n)
  BY <1>2, <1>4
<1>6. PICK h : Stages(h, "cells", 0, d, list, n) /\ h[n] = f[1..n]
  BY <1>5, LoopPrefixes
<1> QED BY <1>4, <1>6

\* The loop over the containers of a file.
LEMMA ContainersSteps ==
    ASSUME NEW d, NEW list, NEW n \in Nat, DOMAIN list = 1..n
    PROVE  \E h : Stages(h, "containers", 0, d, list, n) /\ h[n] = AddContainers(d, list)
<1> DEFINE Val(g, s) == IF s = {} THEN d ELSE InsertContainer(g[s \ {Max(s)}], list[Max(s)])
<1>1. \A e, x : LoopBody("containers", 0, e, x) = InsertContainer(e, x)
  BY DEF LoopBody
<1>2. \A g : Unrolls(g, "containers", 0, d, list, n) <=> g = [s \in SUBSET DOMAIN list |-> Val(g, s)]
  BY <1>1 DEF Unrolls
<1>3. PICK g : Unrolls(g, "containers", 0, d, list, n)
  BY LoopExists
<1>4. PICK f : /\ f = [s \in SUBSET DOMAIN list |-> Val(f, s)]
               /\ AddContainers(d, list) = f[DOMAIN list]
  BY <1>2, <1>3 DEF AddContainers, FoldLeft, MapThenFoldSet
<1>5. Unrolls(f, "containers", 0, d, list, n)
  BY <1>2, <1>4
<1>6. PICK h : Stages(h, "containers", 0, d, list, n) /\ h[n] = f[1..n]
  BY <1>5, LoopPrefixes
<1> QED BY <1>4, <1>6

\* The loop over the items of a file.
LEMMA ItemsSteps ==
    ASSUME NEW d, NEW last, NEW list, NEW n \in Nat, DOMAIN list = 1..n
    PROVE  \E h : Stages(h, "items", last, d, list, n) /\ h[n] = AddLines(d, last, list)
<1> DEFINE Val(g, s) == IF s = {} THEN d ELSE AddLine(g[s \ {Max(s)}], last, list[Max(s)])
<1>1. \A e, x : LoopBody("items", last, e, x) = AddLine(e, last, x)
  BY DEF LoopBody
<1>2. \A g : Unrolls(g, "items", last, d, list, n) <=> g = [s \in SUBSET DOMAIN list |-> Val(g, s)]
  BY <1>1 DEF Unrolls
<1>3. PICK g : Unrolls(g, "items", last, d, list, n)
  BY LoopExists
<1>4. PICK f : /\ f = [s \in SUBSET DOMAIN list |-> Val(f, s)]
               /\ AddLines(d, last, list) = f[DOMAIN list]
  BY <1>2, <1>3 DEF AddLines, FoldLeft, MapThenFoldSet
<1>5. Unrolls(f, "items", last, d, list, n)
  BY <1>2, <1>4
<1>6. PICK h : Stages(h, "items", last, d, list, n) /\ h[n] = f[1..n]
  BY <1>5, LoopPrefixes
<1> QED BY <1>4, <1>6

-----------------------------------------------------------------------------
(* Rows inserted after rows. *)

IsTable(f) == f = [x \in DOMAIN f |-> f[x]]

\* Rows get their ids in order, and there is none beyond the last.
Numbered(table, last) == IsTable(table) /\ last \in Nat /\ DOMAIN table \subseteq 1..last

\* The operators of the libraries, as module Inventory sees them.
LEMMA SameOperators ==
    /\ \A S : Inv!Cardinality(S) = Cardinality(S)
    /\ \A f : Inv!Range(f) = Range(f)
    /\ \A f, S : Inv!Restrict(f, S) = Restrict(f, S)
    /\ \A f : Inv!IsInjective(f) <=> IsInjective(f)
    /\ \A S, T : Inv!Bijection(S, T) = Bijection(S, T)
BY DEF Inv!Cardinality, Cardinality, Inv!Range, Range, Inv!Restrict, Restrict,
   Inv!IsInjective, IsInjective, Inv!Bijection, Bijection, Inv!Injection, Injection,
   Inv!Surjection, Surjection

LEMMA BijectionFacts ==
    ASSUME NEW S, NEW T, NEW f
    PROVE  f \in Bijection(S, T) <=>
               /\ f \in [S -> T]
               /\ \A a, b \in S : f[a] = f[b] => a = b
               /\ \A t \in T : \E s \in S : f[s] = t
BY DEF Bijection, Injection, Surjection, IsInjective

\* Rows inserted in two goes are the rows inserted in one.
LEMMA ExtendTwice ==
    ASSUME NEW f, NEW g, NEW h
    PROVE  Inv!Extend(Inv!Extend(f, g), h) = Inv!Extend(f, Inv!Extend(g, h))
BY DEF Inv!Extend

\* The c ids after "last".
Ids(last, c) == (last + 1)..(last + c)

\* One more row with a new value goes on with a numbering.
LEMMA OneMore ==
    ASSUME NEW a \in Nat, NEW c \in Nat, NEW S, NEW v, v \notin S,
           NEW f \in Bijection((a + 1)..(a + c), S)
    PROVE  Inv!Extend(f, [x \in {a + c + 1} |-> v]) \in
               Bijection((a + 1)..(a + (c + 1)), S \cup {v})
<1> DEFINE g == Inv!Extend(f, [x \in {a + c + 1} |-> v])
<1>1. /\ f \in [(a + 1)..(a + c) -> S]
      /\ \A x, y \in (a + 1)..(a + c) : f[x] = f[y] => x = y
      /\ \A t \in S : \E s \in (a + 1)..(a + c) : f[s] = t
  BY BijectionFacts
<1>2. /\ (a + 1)..(a + (c + 1)) = (a + 1)..(a + c) \cup {a + c + 1}
      /\ a + c + 1 \notin (a + 1)..(a + c)
  OBVIOUS
<1>3. /\ DOMAIN g = (a + 1)..(a + (c + 1))
      /\ \A x \in (a + 1)..(a + c) : g[x] = f[x]
      /\ g[a + c + 1] = v
  BY <1>1, <1>2 DEF Inv!Extend
<1>4. g \in [(a + 1)..(a + (c + 1)) -> S \cup {v}]
  <2>1. g = [x \in DOMAIN g |-> g[x]]
    BY DEF Inv!Extend
  <2> HIDE DEF g
  <2> QED BY <1>1, <1>2, <1>3, <2>1
<1> HIDE DEF g
<1>5. ASSUME NEW x \in (a + 1)..(a + (c + 1)), NEW y \in (a + 1)..(a + (c + 1)),
             g[x] = g[y]
      PROVE  x = y
  BY <1>1, <1>2, <1>3, <1>5
<1>6. ASSUME NEW t \in S \cup {v} PROVE \E s \in (a + 1)..(a + (c + 1)) : g[s] = t
  BY <1>1, <1>2, <1>3
<1>7. g \in Bijection((a + 1)..(a + (c + 1)), S \cup {v})
  BY <1>4, <1>5, <1>6, BijectionFacts
<1> QED BY <1>7 DEF g

\* The table after the rows for the values of S that it lacked.
LEMMA InsertedRange ==
    ASSUME NEW table, NEW last \in Nat, Numbered(table, last), NEW c \in Nat, NEW S,
           NEW new, new \in Bijection(Ids(last, c), S \ Range(table))
    PROVE  Range(Inv!Extend(table, new)) = Range(table) \cup S
<1> DEFINE e == Inv!Extend(table, new)
<1>1. /\ DOMAIN new = Ids(last, c)
      /\ \A t \in S \ Range(table) : \E s \in DOMAIN new : new[s] = t
      /\ \A s \in DOMAIN new : new[s] \in S \ Range(table)
  BY BijectionFacts
<1>2. DOMAIN table \cap DOMAIN new = {}
  BY <1>1 DEF Numbered, Ids
<1>3. /\ DOMAIN e = DOMAIN table \cup DOMAIN new
      /\ \A x \in DOMAIN table : e[x] = table[x]
      /\ \A x \in DOMAIN new : e[x] = new[x]
  BY <1>2 DEF Inv!Extend
<1> HIDE DEF e
<1>4. Range(e) = Range(table) \cup S
  BY <1>1, <1>3 DEF Range
<1> QED BY <1>4 DEF e

LEMMA InsertedFacts ==
    ASSUME NEW table, NEW last \in Nat, Numbered(table, last), NEW c \in Nat, NEW S,
           NEW new, new \in Bijection(Ids(last, c), S), NEW e,
           e = Inv!Extend(table, new)
    PROVE  /\ DOMAIN e = DOMAIN table \cup Ids(last, c)
           /\ last + c + 1 \notin DOMAIN e
           /\ \A x \in DOMAIN table : e[x] = table[x]
           /\ \A x \in Ids(last, c) : x \notin DOMAIN table /\ e[x] = new[x]
           /\ Numbered(e, last + c)
<1>1. DOMAIN new = Ids(last, c) /\ Ids(last, c) = (last + 1)..(last + c)
  BY BijectionFacts DEF Ids
<1>2. DOMAIN table \cap DOMAIN new = {}
  BY <1>1 DEF Numbered
<1>3. /\ DOMAIN e = DOMAIN table \cup DOMAIN new
      /\ \A x \in DOMAIN table : e[x] = table[x]
      /\ \A x \in DOMAIN new : e[x] = new[x]
      /\ IsTable(e)
  BY <1>2 DEF Inv!Extend, IsTable
<1>5. last + c \in Nat /\ DOMAIN e \subseteq 1..(last + c) /\ last + c + 1 \notin DOMAIN e
  BY <1>1, <1>3 DEF Numbered
<1> QED BY <1>1, <1>2, <1>3, <1>5 DEF Numbered

\* As many rows as values.
LEMMA NumberingIs ==
    ASSUME NEW a \in Nat, NEW c \in Nat, NEW S, NEW f \in Bijection((a + 1)..(a + c), S)
    PROVE  f \in Inv!Numbering(S, a) /\ Inv!Cardinality(S) = c /\ IsFiniteSet(S)
<1>1. IsFiniteSet((a + 1)..(a + c)) /\ Cardinality((a + 1)..(a + c)) = c
  BY FS_Interval
<1>2. ExistsBijection((a + 1)..(a + c), S)
  BY DEF ExistsBijection
<1>3. IsFiniteSet(S) /\ Cardinality(S) = c
  BY <1>1, <1>2, FS_Bijection
<1> QED BY <1>3, SameOperators DEF Inv!Numbering

-----------------------------------------------------------------------------
(* What the loops make of the database. *)

\* The database has its six tables, and the counters of their ids.
Columns(d) ==
    /\ DOMAIN d = {"shelf", "container", "item", "tag", "item_tag", "seq"}
    /\ DOMAIN d.seq = {"container", "item", "tag"}
    /\ IsTable(d.seq)

\* The names of S are tags of item i in e; otherwise e is as d was.
Linked(d, e, i, S) ==
    /\ Columns(e)
    /\ e.shelf = d.shelf /\ e.container = d.container /\ e.item = d.item
    /\ \E c \in Nat :
          /\ e.seq = [d.seq EXCEPT !.tag = @ + c]
          /\ \E new \in Bijection((d.seq.tag + 1)..(d.seq.tag + c), S \ Range(d.tag)) :
                 e.tag = Inv!Extend(d.tag, new)
    /\ e.item_tag = d.item_tag \cup ({i} \X Inv!IdsOf(e.tag, S))

LEMMA PairUnion ==
    ASSUME NEW i, NEW A, NEW B
    PROVE  ({i} \X A) \cup ({i} \X B) = {i} \X (A \cup B)
OBVIOUS

LEMMA EmptyBijection ==
    ASSUME NEW a \in Nat
    PROVE  <<>> \in Bijection((a + 1)..(a + 0), {})
<1>1. (a + 1)..(a + 0) = {}
  OBVIOUS
<1>2. <<>> \in [{} -> {}]
  OBVIOUS
<1> QED BY <1>1, <1>2, BijectionFacts

LEMMA LinkedNone ==
    ASSUME NEW d, NEW i, Columns(d), Numbered(d.tag, d.seq.tag)
    PROVE  Linked(d, d, i, {})
<1>1. <<>> \in Bijection((d.seq.tag + 1)..(d.seq.tag + 0), {} \ Range(d.tag))
  <2>1. {} \ Range(d.tag) = {}
    OBVIOUS
  <2> QED BY <2>1, EmptyBijection DEF Numbered
<1>2. d.tag = Inv!Extend(d.tag, <<>>)
  BY DEF Inv!Extend, Numbered, IsTable
<1>3. d.seq = [d.seq EXCEPT !.tag = @ + 0]
  BY DEF Columns, Numbered, IsTable
<1>4. d.item_tag = d.item_tag \cup ({i} \X Inv!IdsOf(d.tag, {}))
  BY DEF Inv!IdsOf
<1> QED BY <1>1, <1>2, <1>3, <1>4 DEF Linked

\* One more name is linked.
LEMMA LinkedMore ==
    ASSUME NEW d, NEW e, NEW i, NEW S, NEW n, Columns(d), Numbered(d.tag, d.seq.tag),
           Linked(d, e, i, S)
    PROVE  Linked(d, LinkTag(e, i, n), i, S \cup {n})
<1> DEFINE last == d.seq.tag
           f == InsertTag(e, n)
<1>1. PICK c \in Nat : /\ e.seq = [d.seq EXCEPT !.tag = @ + c]
                       /\ \E new \in Bijection((last + 1)..(last + c), S \ Range(d.tag)) :
                              e.tag = Inv!Extend(d.tag, new)
  BY DEF Linked
<1>2. PICK new \in Bijection((last + 1)..(last + c), S \ Range(d.tag)) :
          e.tag = Inv!Extend(d.tag, new)
  BY <1>1
<1>3. /\ Columns(e) /\ last \in Nat /\ e.seq.tag = last + c
      /\ e.shelf = d.shelf /\ e.container = d.container /\ e.item = d.item
      /\ e.item_tag = d.item_tag \cup ({i} \X Inv!IdsOf(e.tag, S))
  BY <1>1 DEF Linked, Columns, Numbered
<1>4. Range(e.tag) = Range(d.tag) \cup S /\ last + c + 1 \notin DOMAIN e.tag
  <2> DEFINE table == d.tag
             after == e.tag
  <2>1. /\ Numbered(table, last) /\ last \in Nat /\ after = Inv!Extend(table, new)
        /\ new \in Bijection(Ids(last, c), S \ Range(table))
    BY <1>2, <1>3 DEF Ids
  <2> HIDE DEF last, table, after
  <2>2. Range(after) = Range(table) \cup S
    BY <2>1, InsertedRange
  <2>3. last + c + 1 \notin DOMAIN after
    BY <2>1, InsertedFacts
  <2> QED BY <2>2, <2>3 DEF table, after
<1>5. /\ Columns(f)
      /\ f.shelf = d.shelf /\ f.container = d.container /\ f.item = d.item
      /\ f.item_tag = e.item_tag
      /\ LinkTag(e, i, n).item_tag = f.item_tag \cup ({i} \X Inv!IdsOf(f.tag, {n}))
      /\ LinkTag(e, i, n).tag = f.tag /\ LinkTag(e, i, n).seq = f.seq
      /\ LinkTag(e, i, n).shelf = f.shelf /\ LinkTag(e, i, n).container = f.container
      /\ LinkTag(e, i, n).item = f.item /\ Columns(LinkTag(e, i, n))
  <2>1. /\ Columns(f) /\ f.shelf = e.shelf /\ f.container = e.container
        /\ f.item = e.item /\ f.item_tag = e.item_tag
    BY <1>3 DEF InsertTag, Columns, IsTable
  <2> HIDE DEF f
  <2>2. LinkTag(e, i, n) = [f EXCEPT !.item_tag = @ \cup ({i} \X Inv!IdsOf(f.tag, {n}))]
    BY DEF LinkTag, f
  <2> QED BY <1>3, <2>1, <2>2 DEF Columns
<1>6. CASE n \in Range(e.tag)
  <2>1. f.tag = e.tag /\ f.seq = e.seq
    BY <1>6 DEF InsertTag
  <2>2. (S \cup {n}) \ Range(d.tag) = S \ Range(d.tag)
    BY <1>4, <1>6
  <2>3. Inv!IdsOf(f.tag, S) \cup Inv!IdsOf(f.tag, {n}) = Inv!IdsOf(f.tag, S \cup {n})
    BY DEF Inv!IdsOf
  <2>4. LinkTag(e, i, n).item_tag = d.item_tag \cup ({i} \X Inv!IdsOf(f.tag, S \cup {n}))
    <3>1. f.item_tag = d.item_tag \cup ({i} \X Inv!IdsOf(f.tag, S))
      BY <1>3, <1>5, <2>1
    <3> HIDE DEF f
    <3> QED BY <1>5, <2>3, <3>1, PairUnion
  <2> QED BY <1>1, <1>2, <1>5, <2>1, <2>2, <2>4 DEF Linked
<1>7. CASE n \notin Range(e.tag)
  <2> DEFINE row == [x \in {last + c + 1} |-> n]
             all == Inv!Extend(new, row)
  <2>1. /\ f.tag = Inv!Extend(e.tag, row)
        /\ f.seq = [e.seq EXCEPT !.tag = @ + 1]
    BY <1>3, <1>7 DEF InsertTag, AddRow, Columns
  <2>2. f.seq = [d.seq EXCEPT !.tag = @ + (c + 1)]
    <3>1. e.seq.tag + 1 = d.seq.tag + (c + 1)
      BY <1>3
    <3> HIDE DEF f
    <3> QED BY <1>1, <2>1, <3>1 DEF Columns
  <2>3. f.tag = Inv!Extend(d.tag, all)
    BY <1>2, <2>1, ExtendTwice
  <2>4. all \in Bijection((last + 1)..(last + (c + 1)), (S \ Range(d.tag)) \cup {n})
    <3>1. n \notin S \ Range(d.tag)
      BY <1>4, <1>7
    <3> HIDE DEF last
    <3> QED BY <1>2, <1>3, <3>1, OneMore
  <2>5. (S \cup {n}) \ Range(d.tag) = (S \ Range(d.tag)) \cup {n}
    BY <1>4, <1>7
  <2>6. Inv!IdsOf(e.tag, S) \cup Inv!IdsOf(f.tag, {n}) = Inv!IdsOf(f.tag, S \cup {n})
    <3>1. /\ DOMAIN f.tag = DOMAIN e.tag \cup {last + c + 1}
          /\ \A t \in DOMAIN e.tag : f.tag[t] = e.tag[t] /\ e.tag[t] # n
          /\ last + c + 1 \notin DOMAIN e.tag => f.tag[last + c + 1] = n
      <4>1. DOMAIN row = {last + c + 1} /\ row[last + c + 1] = n
        OBVIOUS
      <4> HIDE DEF f, row
      <4> QED BY <1>7, <2>1, <4>1 DEF Range, Inv!Extend
    <3>2. last + c + 1 \notin DOMAIN e.tag
      BY <1>4
    <3>3. n \notin S
      BY <1>4, <1>7
    <3> QED BY <3>1, <3>2, <3>3 DEF Inv!IdsOf
  <2>7. LinkTag(e, i, n).item_tag = d.item_tag \cup ({i} \X Inv!IdsOf(f.tag, S \cup {n}))
    <3>1. f.item_tag = d.item_tag \cup ({i} \X Inv!IdsOf(e.tag, S))
      BY <1>3, <1>5
    <3> HIDE DEF f
    <3> QED BY <1>5, <2>6, <3>1, PairUnion
  <2>8. c + 1 \in Nat
    OBVIOUS
  <2> HIDE DEF f, all
  <2> QED BY <1>3, <1>5, <2>2, <2>3, <2>4, <2>5, <2>7, <2>8 DEF Linked
<1> QED BY <1>6, <1>7

\* All names of a list are linked.
LEMMA LinkTagsIs ==
    ASSUME NEW d, NEW i, NEW names, NEW n \in Nat, DOMAIN names = 1..n,
           Columns(d), Numbered(d.tag, d.seq.tag)
    PROVE  Linked(d, LinkTags(d, i, names), i, Range(names))
<1>0. PICK h : Stages(h, "tags", i, d, names, n) /\ h[n] = LinkTags(d, i, names)
  BY LinkTagsSteps
<1>1. /\ h[0] = d
      /\ \A k \in 1..n : h[k] = LinkTag(h[k - 1], i, names[k])
      /\ h[n] = LinkTags(d, i, names)
  BY <1>0 DEF Stages, LoopBody
<1> DEFINE First(k) == {names[j] : j \in 1..k}
           S == {k \in Nat : k <= n => Linked(d, h[k], i, First(k))}
<1>2. 0 \in S
  <2>1. First(0) = {}
    OBVIOUS
  <2> HIDE DEF First
  <2> QED BY <1>1, <2>1, LinkedNone
<1>3. ASSUME NEW k \in Nat, k \in S PROVE k + 1 \in S
  <2> SUFFICES ASSUME k + 1 <= n PROVE Linked(d, h[k + 1], i, First(k + 1))
    OBVIOUS
  <2>1. k + 1 \in 1..n /\ (k + 1) - 1 = k
    OBVIOUS
  <2>2. Linked(d, h[k], i, First(k)) /\ h[k + 1] = LinkTag(h[k], i, names[k + 1])
    BY <1>1, <1>3, <2>1
  <2>3. First(k + 1) = First(k) \cup {names[k + 1]}
    <3>1. 1..(k + 1) = 1..k \cup {k + 1}
      OBVIOUS
    <3> QED BY <3>1
  <2> HIDE DEF First
  <2> QED BY <2>2, <2>3, LinkedMore
<1>4. n \in S
  <2> HIDE DEF S
  <2> QED BY <1>2, <1>3, NatInd
<1>5. First(n) = Range(names)
  BY DEF Range
<1>6. Linked(d, h[n], i, First(n))
  <2> HIDE DEF First
  <2> QED BY <1>4
<1> QED BY <1>1, <1>5, <1>6

\* e is d with a container for each cell of S, and the new ones in order.
Filled(d, e, S) ==
    /\ Columns(e)
    /\ e.shelf = d.shelf /\ e.item = d.item /\ e.tag = d.tag /\ e.item_tag = d.item_tag
    /\ \E c \in Nat :
          /\ e.seq = [d.seq EXCEPT !.container = @ + c]
          /\ \E new \in Bijection((d.seq.container + 1)..(d.seq.container + c),
                                  S \ Range(d.container)) :
                 Inv!InColumnOrder(new) /\ e.container = Inv!Extend(d.container, new)

LEMMA FilledNone ==
    ASSUME NEW d, Columns(d), Numbered(d.container, d.seq.container)
    PROVE  Filled(d, d, {})
<1>1. <<>> \in Bijection((d.seq.container + 1)..(d.seq.container + 0), {} \ Range(d.container))
  <2>1. {} \ Range(d.container) = {}
    OBVIOUS
  <2> QED BY <2>1, EmptyBijection DEF Numbered
<1>2. d.container = Inv!Extend(d.container, <<>>) /\ Inv!InColumnOrder(<<>>)
  BY DEF Inv!Extend, Numbered, IsTable, Inv!InColumnOrder
<1>3. d.seq = [d.seq EXCEPT !.container = @ + 0]
  BY DEF Columns, Numbered, IsTable
<1> QED BY <1>1, <1>2, <1>3 DEF Filled

\* One more cell, which comes after the others.
LEMMA FilledMore ==
    ASSUME NEW d, NEW e, NEW S, NEW cell, Columns(d),
           Numbered(d.container, d.seq.container), Filled(d, e, S),
           \A p \in S : Inv!ColumnMajor(p, cell)
    PROVE  Filled(d, AddCell(e, cell), S \cup {cell})
<1> DEFINE last == d.seq.container
           f == AddCell(e, cell)
<1>1. PICK c \in Nat : /\ e.seq = [d.seq EXCEPT !.container = @ + c]
                       /\ \E new \in Bijection((last + 1)..(last + c), S \ Range(d.container)) :
                              /\ Inv!InColumnOrder(new)
                              /\ e.container = Inv!Extend(d.container, new)
  BY DEF Filled
<1>2. PICK new \in Bijection((last + 1)..(last + c), S \ Range(d.container)) :
          Inv!InColumnOrder(new) /\ e.container = Inv!Extend(d.container, new)
  BY <1>1
<1>3. /\ Columns(e) /\ last \in Nat /\ e.seq.container = last + c
      /\ e.shelf = d.shelf /\ e.item = d.item /\ e.tag = d.tag /\ e.item_tag = d.item_tag
  BY <1>1 DEF Filled, Columns, Numbered
<1>4. Range(e.container) = Range(d.container) \cup S /\ last + c + 1 \notin DOMAIN e.container
  <2> DEFINE table == d.container
             after == e.container
  <2>1. /\ Numbered(table, last) /\ last \in Nat /\ after = Inv!Extend(table, new)
        /\ new \in Bijection(Ids(last, c), S \ Range(table))
    BY <1>2, <1>3 DEF Ids
  <2> HIDE DEF last, table, after
  <2>2. Range(after) = Range(table) \cup S
    BY <2>1, InsertedRange
  <2>3. last + c + 1 \notin DOMAIN after
    BY <2>1, InsertedFacts
  <2> QED BY <2>2, <2>3 DEF table, after
<1>5. CASE cell \in Range(e.container)
  <2>1. f = e
    BY <1>5 DEF AddCell
  <2>2. (S \cup {cell}) \ Range(d.container) = S \ Range(d.container)
    BY <1>4, <1>5
  <2> QED BY <1>1, <1>2, <1>3, <2>1, <2>2 DEF Filled
<1>6. CASE cell \notin Range(e.container)
  <2> DEFINE row == [x \in {last + c + 1} |-> cell]
             all == Inv!Extend(new, row)
  <2>1. /\ Columns(f) /\ f.shelf = e.shelf /\ f.item = e.item /\ f.tag = e.tag
        /\ f.item_tag = e.item_tag
        /\ f.container = Inv!Extend(e.container, row)
        /\ f.seq = [e.seq EXCEPT !.container = @ + 1]
    BY <1>3, <1>6 DEF AddCell, InsertContainer, AddRow, Columns, IsTable
  <2>2. f.seq = [d.seq EXCEPT !.container = @ + (c + 1)]
    <3>1. e.seq.container + 1 = d.seq.container + (c + 1)
      BY <1>3
    <3> HIDE DEF f
    <3> QED BY <1>1, <2>1, <3>1 DEF Columns
  <2>3. f.container = Inv!Extend(d.container, all)
    BY <1>2, <2>1, ExtendTwice
  <2>4. all \in Bijection((last + 1)..(last + (c + 1)), (S \ Range(d.container)) \cup {cell})
    <3>1. cell \notin S \ Range(d.container)
      BY <1>4, <1>6
    <3> HIDE DEF last
    <3> QED BY <1>2, <1>3, <3>1, OneMore
  <2>5. (S \cup {cell}) \ Range(d.container) = (S \ Range(d.container)) \cup {cell}
    BY <1>4, <1>6
  <2>6. Inv!InColumnOrder(all)
    <3>0. /\ DOMAIN new = (last + 1)..(last + c)
          /\ \A x \in DOMAIN new : new[x] \in S
      BY <1>2, BijectionFacts
    <3>1. /\ DOMAIN all = DOMAIN new \cup {last + c + 1}
          /\ \A x \in DOMAIN new : all[x] = new[x] /\ x \in Int /\ x < last + c + 1
          /\ all[last + c + 1] = cell
      BY <1>3, <3>0 DEF Inv!Extend
    <3> HIDE DEF all
    <3> SUFFICES ASSUME NEW m \in DOMAIN all, NEW n \in DOMAIN all, m < n
                 PROVE  Inv!ColumnMajor(all[m], all[n])
      BY DEF Inv!InColumnOrder
    <3>3. m \in DOMAIN new
      BY <1>3, <3>1
    <3>4. CASE n \in DOMAIN new
      BY <1>2, <3>1, <3>3, <3>4 DEF Inv!InColumnOrder
    <3>5. CASE n = last + c + 1
      BY <3>0, <3>1, <3>3, <3>5
    <3> QED BY <3>1, <3>4, <3>5
  <2>7. c + 1 \in Nat
    OBVIOUS
  <2> HIDE DEF all
  <2>8. Filled(d, f, S \cup {cell})
    <3> HIDE DEF f
    <3> QED BY <1>3, <2>1, <2>2, <2>3, <2>4, <2>5, <2>6, <2>7 DEF Filled
  <2> QED BY <2>8
<1> QED BY <1>5, <1>6

\* Quotient and remainder.
LEMMA DivMod ==
    ASSUME NEW r \in Nat \ {0}
    PROVE  /\ \A m \in Nat : /\ m \div r \in Nat /\ m % r \in 0..(r - 1)
                             /\ m = r * (m \div r) + (m % r)
           /\ \A q \in Nat, s \in 0..(r - 1) : /\ (r * q + s) \div r = q
                                               /\ (r * q + s) % r = s
OBVIOUS

LEMMA Product ==
    ASSUME NEW r \in Nat \ {0}, NEW c \in Nat
    PROVE  /\ r * c \in Nat
           /\ \A q \in Nat, s \in Nat : r * q + s < r * c => q < c
           /\ \A q \in Nat, s \in Nat : q < c /\ s < r => r * q + s < r * c
OBVIOUS

LEMMA Quotients ==
    ASSUME NEW r \in Nat \ {0}, NEW q \in Nat, NEW p \in Nat, NEW s \in Nat, NEW u \in Nat,
           r * q + s < r * p + u, u < r
    PROVE  q < p \/ (q = p /\ s < u)
<1>1. q <= p
  OBVIOUS
<1>2. CASE q = p
  BY <1>2
<1> QED BY <1>1, <1>2

\* The loops visit each cell of the grid once, in column-major order.
LEMMA ListedFacts ==
    ASSUME NEW rows \in Nat \ {0}, NEW cols \in Nat
    PROVE  /\ rows * cols \in Nat
           /\ DOMAIN Listed(rows, cols) = 1..(rows * cols)
           /\ Range(Listed(rows, cols)) = Inv!Cells(rows, cols)
           /\ \A j, k \in 1..(rows * cols) :
                  j < k => Inv!ColumnMajor(Listed(rows, cols)[j], Listed(rows, cols)[k])
<1> DEFINE n == rows * cols
           L == Listed(rows, cols)
           Q(k) == (k - 1) \div rows
           M(k) == (k - 1) % rows
<1>1. n \in Nat
  BY Product
<1>2. DOMAIN L = 1..n /\ \A k \in 1..n : L[k] = <<Q(k) + 1, M(k) + 1>>
  BY DEF Listed
<1>3. ASSUME NEW k \in 1..n
      PROVE  /\ Q(k) \in Nat /\ M(k) \in Nat /\ M(k) < rows
             /\ k - 1 = rows * Q(k) + M(k) /\ Q(k) < cols
  <2>1. k - 1 \in Nat /\ k - 1 < n
    BY <1>1
  <2>2. Q(k) \in Nat /\ M(k) \in 0..(rows - 1) /\ k - 1 = rows * Q(k) + M(k)
    BY <2>1, DivMod
  <2>3. M(k) \in Nat /\ M(k) < rows
    BY <2>2
  <2>4. rows * Q(k) + M(k) < rows * cols
    BY <2>1, <2>2
  <2> HIDE DEF Q, M
  <2>5. Q(k) < cols
    BY <2>2, <2>3, <2>4, Product
  <2> QED BY <2>2, <2>3, <2>5
<1>4. ASSUME NEW k \in 1..n PROVE L[k] \in Inv!Cells(rows, cols)
  <2> HIDE DEF n, L, Q, M
  <2>1. Q(k) + 1 \in 1..cols /\ M(k) + 1 \in 1..rows
    BY <1>3
  <2>2. L[k] = <<Q(k) + 1, M(k) + 1>>
    BY <1>2
  <2>3. <<Q(k) + 1, M(k) + 1>> \in (1..cols) \X (1..rows)
    BY <2>1
  <2> QED BY <2>2, <2>3 DEF Inv!Cells
<1>5. ASSUME NEW p \in Inv!Cells(rows, cols) PROVE \E k \in 1..n : L[k] = p
  <2>1. /\ p = <<p[1], p[2]>> /\ p[1] \in 1..cols /\ p[2] \in 1..rows
    BY DEF Inv!Cells
  <2> DEFINE q == p[1] - 1
             s == p[2] - 1
             k == rows * q + s + 1
  <2>2. /\ q \in Nat /\ s \in Nat /\ q < cols /\ s < rows /\ s \in 0..(rows - 1)
        /\ q + 1 = p[1] /\ s + 1 = p[2]
    BY <2>1
  <2>3. rows * q + s < n /\ rows * q \in Nat
    <3> HIDE DEF q, s
    <3> QED BY <2>2, Product
  <2>4. k \in 1..n /\ k - 1 = rows * q + s
    <3> HIDE DEF q, s, n
    <3>1. rows * q + s \in Nat
      BY <2>2, <2>3
    <3> QED BY <1>1, <2>2, <2>3, <3>1
  <2>5. (rows * q + s) \div rows = q /\ (rows * q + s) % rows = s
    <3> HIDE DEF q, s
    <3> QED BY <2>2, DivMod
  <2>6. Q(k) = q /\ M(k) = s
    <3> HIDE DEF q, s, k
    <3> QED BY <2>4, <2>5
  <2>7. L[k] = p
    <3> HIDE DEF q, s, k, Q, M, L, n
    <3> QED BY <1>2, <2>1, <2>2, <2>4, <2>6
  <2> HIDE DEF k, L, n
  <2> QED BY <2>4, <2>7
<1>6. Range(L) = Inv!Cells(rows, cols)
  <2> HIDE DEF L, n
  <2> QED BY <1>2, <1>4, <1>5 DEF Range
<1>7. ASSUME NEW j \in 1..n, NEW k \in 1..n, j < k PROVE Inv!ColumnMajor(L[j], L[k])
  <2>1. rows * Q(j) + M(j) < rows * Q(k) + M(k)
    <3>1. j - 1 < k - 1
      BY <1>1, <1>7
    <3> HIDE DEF Q, M
    <3> QED BY <1>3, <3>1
  <2> HIDE DEF Q, M, L, n
  <2>2. Q(j) < Q(k) \/ (Q(j) = Q(k) /\ M(j) < M(k))
    BY <1>3, <2>1, Quotients
  <2>3. Q(j) \in Nat /\ Q(k) \in Nat /\ M(j) \in Nat /\ M(k) \in Nat
    BY <1>3
  <2> QED BY <1>2, <2>2, <2>3 DEF Inv!ColumnMajor
<1> QED BY <1>1, <1>2, <1>6, <1>7

\* The grid is filled: every cell has a container, new ones in order.
LEMMA FillGridFills ==
    ASSUME NEW d, Columns(d), Numbered(d.container, d.seq.container),
           NEW rows \in Nat \ {0}, NEW cols \in Nat
    PROVE  Filled(d, FillGrid(d, rows, cols), Inv!Cells(rows, cols))
<1> DEFINE n == rows * cols
           L == Listed(rows, cols)
           First(k) == {L[j] : j \in 1..k}
<1>1. /\ n \in Nat /\ DOMAIN L = 1..n /\ Range(L) = Inv!Cells(rows, cols)
      /\ \A j, k \in 1..n : j < k => Inv!ColumnMajor(L[j], L[k])
  BY ListedFacts
<1> HIDE DEF n, L
<1>2. PICK h : Stages(h, "cells", 0, d, L, n) /\ h[n] = AddCells(d, L)
  BY <1>1, AddCellsSteps
<1>3. /\ h[0] = d
      /\ \A k \in 1..n : h[k] = AddCell(h[k - 1], L[k])
  BY <1>2 DEF Stages, LoopBody
<1> DEFINE S == {k \in Nat : k <= n => Filled(d, h[k], First(k))}
<1>4. 0 \in S
  <2>1. First(0) = {}
    OBVIOUS
  <2> HIDE DEF First
  <2> QED BY <1>3, <2>1, FilledNone
<1>5. ASSUME NEW k \in Nat, k \in S PROVE k + 1 \in S
  <2> SUFFICES ASSUME k + 1 <= n PROVE Filled(d, h[k + 1], First(k + 1))
    OBVIOUS
  <2>1. k + 1 \in 1..n /\ (k + 1) - 1 = k /\ k <= n
    BY <1>1
  <2>2. Filled(d, h[k], First(k)) /\ h[k + 1] = AddCell(h[k], L[k + 1])
    BY <1>3, <1>5, <2>1
  <2>3. First(k + 1) = First(k) \cup {L[k + 1]}
    <3>1. 1..(k + 1) = 1..k \cup {k + 1}
      OBVIOUS
    <3> QED BY <3>1
  <2>4. \A p \in First(k) : Inv!ColumnMajor(p, L[k + 1])
    <3>1. \A j \in 1..k : j \in 1..n /\ j < k + 1
      BY <1>1, <2>1
    <3> QED BY <1>1, <2>1, <3>1
  <2> HIDE DEF First
  <2> QED BY <2>2, <2>3, <2>4, FilledMore
<1>6. n \in S
  <2> HIDE DEF S
  <2> QED BY <1>1, <1>4, <1>5, NatInd
<1>7. First(n) = Range(L)
  BY <1>1 DEF Range
<1>8. Filled(d, h[n], First(n))
  <2> HIDE DEF First
  <2> QED BY <1>1, <1>6
<1>9. AddCells(d, L) = FillGrid(d, rows, cols)
  BY FillGridIs DEF L
<1> QED BY <1>1, <1>2, <1>7, <1>8, <1>9

-----------------------------------------------------------------------------
(* The loops of an import. *)

\* Rows numbered on from rows: the ids are those of one numbering.
LEMMA Appended ==
    ASSUME NEW a \in Nat, NEW c \in Nat, NEW k \in Nat, NEW S, NEW T, S \cap T = {},
           NEW f \in Bijection(Ids(a, c), S), NEW g \in Bijection(Ids(a + c, k), T)
    PROVE  Inv!Extend(f, g) \in Bijection(Ids(a, c + k), S \cup T)
<1> DEFINE e == Inv!Extend(f, g)
<1>1. /\ f \in [Ids(a, c) -> S] /\ g \in [Ids(a + c, k) -> T]
      /\ \A x, y \in Ids(a, c) : f[x] = f[y] => x = y
      /\ \A x, y \in Ids(a + c, k) : g[x] = g[y] => x = y
      /\ \A t \in S : \E s \in Ids(a, c) : f[s] = t
      /\ \A t \in T : \E s \in Ids(a + c, k) : g[s] = t
  BY BijectionFacts
<1>2. /\ Ids(a, c + k) = Ids(a, c) \cup Ids(a + c, k)
      /\ Ids(a, c) \cap Ids(a + c, k) = {}
  BY DEF Ids
<1>3. /\ DOMAIN e = Ids(a, c + k) /\ e = [x \in DOMAIN e |-> e[x]]
      /\ \A x \in Ids(a, c) : e[x] = f[x]
      /\ \A x \in Ids(a + c, k) : e[x] = g[x]
  BY <1>1, <1>2 DEF Inv!Extend
<1> HIDE DEF e
<1>4. e \in [Ids(a, c + k) -> S \cup T]
  BY <1>1, <1>2, <1>3
<1>5. ASSUME NEW x \in Ids(a, c + k), NEW y \in Ids(a, c + k), e[x] = e[y] PROVE x = y
  BY <1>1, <1>2, <1>3, <1>5
<1>6. ASSUME NEW t \in S \cup T PROVE \E s \in Ids(a, c + k) : e[s] = t
  BY <1>1, <1>2, <1>3
<1>7. e \in Bijection(Ids(a, c + k), S \cup T)
  BY <1>4, <1>5, <1>6, BijectionFacts
<1> QED BY <1>7 DEF e

\* The containers of a file have the ids after the last, in the file's order.
Placed(d, e, list, k) ==
    /\ Columns(e)
    /\ e.shelf = d.shelf /\ e.item = d.item /\ e.tag = d.tag /\ e.item_tag = d.item_tag
    /\ e.seq = [d.seq EXCEPT !.container = @ + k]
    /\ e.container = [c \in Ids(d.seq.container, k) |-> list[c - d.seq.container]]

LEMMA PlacedMore ==
    ASSUME NEW d, NEW e, NEW list, NEW k \in Nat, Columns(d), d.seq.container \in Nat,
           Placed(d, e, list, k)
    PROVE  Placed(d, InsertContainer(e, list[k + 1]), list, k + 1)
<1> DEFINE last == d.seq.container
           cell == list[k + 1]
           f == InsertContainer(e, cell)
           row == [x \in {last + k + 1} |-> cell]
<1>1. /\ Columns(e) /\ e.seq = [d.seq EXCEPT !.container = @ + k]
      /\ e.seq.container = last + k /\ last \in Nat
      /\ e.container = [c \in Ids(last, k) |-> list[c - last]]
      /\ e.shelf = d.shelf /\ e.item = d.item /\ e.tag = d.tag /\ e.item_tag = d.item_tag
  BY DEF Placed, Columns
<1>2. /\ Columns(f) /\ f.shelf = e.shelf /\ f.item = e.item /\ f.tag = e.tag
      /\ f.item_tag = e.item_tag
      /\ f.container = Inv!Extend(e.container, row)
      /\ f.seq = [e.seq EXCEPT !.container = @ + 1]
  <2>1. Columns(e) /\ e.seq.container + 1 = last + k + 1
    BY <1>1
  <2> HIDE DEF cell, last
  <2> QED BY <2>1 DEF InsertContainer, AddRow, Columns, IsTable
<1>3. f.seq = [d.seq EXCEPT !.container = @ + (k + 1)]
  <2>1. e.seq.container + 1 = d.seq.container + (k + 1)
    BY <1>1
  <2> HIDE DEF f
  <2> QED BY <1>1, <1>2, <2>1 DEF Columns
<1>4. f.container = [c \in Ids(last, k + 1) |-> list[c - last]]
  <2>1. /\ Ids(last, k + 1) = Ids(last, k) \cup {last + k + 1}
        /\ last + k + 1 \notin Ids(last, k)
        /\ (last + k + 1) - last = k + 1
    BY DEF Ids
  <2> HIDE DEF f, last
  <2> QED BY <1>1, <1>2, <2>1 DEF Inv!Extend
<1> HIDE DEF f
<1>5. Placed(d, f, list, k + 1)
  BY <1>1, <1>2, <1>3, <1>4 DEF Placed
<1> QED BY <1>5 DEF f

LEMMA ContainersPlaced ==
    ASSUME NEW d, NEW list, NEW n \in Nat, DOMAIN list = 1..n, Columns(d),
           d.seq.container \in Nat, d.container = <<>>
    PROVE  Placed(d, AddContainers(d, list), list, n)
<1>1. PICK h : Stages(h, "containers", 0, d, list, n) /\ h[n] = AddContainers(d, list)
  BY ContainersSteps
<1>2. h[0] = d /\ \A k \in 1..n : h[k] = InsertContainer(h[k - 1], list[k])
  BY <1>1 DEF Stages, LoopBody
<1> DEFINE S == {k \in Nat : k <= n => Placed(d, h[k], list, k)}
<1>3. 0 \in S
  <2>1. Ids(d.seq.container, 0) = {}
    BY DEF Ids
  <2>2. <<>> = [c \in Ids(d.seq.container, 0) |-> list[c - d.seq.container]]
    BY <2>1
  <2>3. d.seq = [d.seq EXCEPT !.container = @ + 0]
    BY DEF Columns, IsTable
  <2> QED BY <1>2, <2>2, <2>3 DEF Placed
<1>4. ASSUME NEW k \in Nat, k \in S PROVE k + 1 \in S
  <2> SUFFICES ASSUME k + 1 <= n PROVE Placed(d, h[k + 1], list, k + 1)
    OBVIOUS
  <2>1. k + 1 \in 1..n /\ (k + 1) - 1 = k /\ k <= n
    OBVIOUS
  <2>2. Placed(d, h[k], list, k) /\ h[k + 1] = InsertContainer(h[k], list[k + 1])
    BY <1>2, <1>4, <2>1
  <2> QED BY <2>2, PlacedMore
<1>5. n \in S
  <2> HIDE DEF S
  <2> QED BY <1>3, <1>4, NatInd
<1> QED BY <1>1, <1>5

\* The names on the first k items of a file.
NamesOf(list, k) == UNION {Range(list[j].tags) : j \in 1..k}

\* The items of a file have the ids after the last, and the tags it lists.
Loaded(d, e, last, list, k) ==
    /\ Columns(e)
    /\ e.shelf = d.shelf /\ e.container = d.container
    /\ e.item = [i \in Ids(d.seq.item, k) |-> last + list[i - d.seq.item].at]
    /\ \E c \in Nat : /\ e.seq = [d.seq EXCEPT !.item = @ + k, !.tag = @ + c]
                      /\ e.tag \in Bijection(Ids(d.seq.tag, c), NamesOf(list, k))
    /\ e.item_tag = {p \in (DOMAIN e.item) \X (DOMAIN e.tag) :
                         e.tag[p[2]] \in Range(list[p[1] - d.seq.item].tags)}

LEMMA IdsGrow ==
    ASSUME NEW a \in Nat, NEW k \in Nat
    PROVE  /\ Ids(a, k + 1) = Ids(a, k) \cup {a + k + 1}
           /\ a + k + 1 \notin Ids(a, k) /\ (a + k + 1) - a = k + 1
           /\ \A i \in Ids(a, k) : i - a \in 1..k
BY DEF Ids

LEMMA BijectionIsNumbered ==
    ASSUME NEW a \in Nat, NEW c \in Nat, NEW S, NEW f \in Bijection(Ids(a, c), S)
    PROVE  Numbered(f, a + c) /\ Range(f) = S /\ DOMAIN f = Ids(a, c)
<1>1. /\ f \in [Ids(a, c) -> S]
      /\ \A t \in S : \E s \in Ids(a, c) : f[s] = t
  BY BijectionFacts
<1>2. DOMAIN f = Ids(a, c) /\ f = [x \in Ids(a, c) |-> f[x]]
  BY <1>1
<1>3. IsTable(f)
  BY <1>2 DEF IsTable
<1>4. Ids(a, c) \subseteq 1..(a + c) /\ a + c \in Nat
  BY DEF Ids
<1>5. Range(f) = S
  BY <1>1, <1>2 DEF Range
<1> QED BY <1>2, <1>3, <1>4, <1>5 DEF Numbered

\* One more item of the file is inserted and tagged.
LEMMA LoadedMore ==
    ASSUME NEW d, NEW e, NEW last, NEW list, NEW k \in Nat, Columns(d),
           d.seq.item \in Nat, d.seq.tag \in Nat, Loaded(d, e, last, list, k),
           NEW m \in Nat, DOMAIN list[k + 1].tags = 1..m
    PROVE  Loaded(d, AddLine(e, last, list[k + 1]), last, list, k + 1)
<1> DEFINE li == d.seq.item
           lt == d.seq.tag
           line == list[k + 1]
           at == last + line.at
           id == e.seq.item + 1
           g == InsertItem(e, at)
           h == AddLine(e, last, line)
           names == Range(line.tags)
<1>1. PICK c \in Nat : /\ e.seq = [d.seq EXCEPT !.item = @ + k, !.tag = @ + c]
                       /\ e.tag \in Bijection(Ids(lt, c), NamesOf(list, k))
  BY DEF Loaded
<1>2. /\ Columns(e) /\ e.shelf = d.shelf /\ e.container = d.container
      /\ e.item = [i \in Ids(li, k) |-> last + list[i - li].at]
      /\ e.item_tag = {p \in (DOMAIN e.item) \X (DOMAIN e.tag) :
                           e.tag[p[2]] \in Range(list[p[1] - li].tags)}
      /\ li \in Nat /\ lt \in Nat
  BY DEF Loaded
<1>3. e.seq.item = li + k /\ e.seq.tag = lt + c /\ id = li + k + 1 /\ lt + c \in Nat
  BY <1>1, <1>2 DEF Columns
<1>4. /\ Numbered(e.tag, lt + c) /\ Range(e.tag) = NamesOf(list, k)
      /\ DOMAIN e.tag = Ids(lt, c)
  <2> DEFINE table == e.tag
             S == NamesOf(list, k)
  <2>1. table \in Bijection(Ids(lt, c), S) /\ lt \in Nat
    BY <1>1, <1>2
  <2> HIDE DEF lt, table, S
  <2>2. Numbered(table, lt + c) /\ Range(table) = S /\ DOMAIN table = Ids(lt, c)
    BY <2>1, BijectionIsNumbered
  <2> QED BY <2>2 DEF table, S
<1>5. /\ Columns(g) /\ g.shelf = e.shelf /\ g.container = e.container
      /\ g.tag = e.tag /\ g.item_tag = e.item_tag
      /\ g.item = Inv!Extend(e.item, [x \in {id} |-> at])
      /\ g.seq = [e.seq EXCEPT !.item = @ + 1]
  <2>1. Columns(e)
    BY <1>2
  <2> HIDE DEF at
  <2> QED BY <2>1 DEF InsertItem, AddRow, Columns, IsTable
<1>6. g.seq.tag = lt + c /\ g.seq = [d.seq EXCEPT !.item = @ + (k + 1), !.tag = @ + c]
  <2>1. e.seq.item + 1 = d.seq.item + (k + 1)
    BY <1>3
  <2> HIDE DEF g
  <2> QED BY <1>1, <1>3, <1>5, <2>1 DEF Columns
<1>7. Linked(g, h, id, names)
  <2>1. Numbered(g.tag, g.seq.tag)
    BY <1>4, <1>5, <1>6
  <2>2. h = LinkTags(g, id, line.tags)
    BY DEF AddLine
  <2> HIDE DEF g, h, id, line
  <2>3. DOMAIN line.tags = 1..m
    BY DEF line
  <2> QED BY <1>5, <2>1, <2>2, <2>3, LinkTagsIs
<1> HIDE DEF g, h
<1>8. PICK q \in Nat : /\ h.seq = [g.seq EXCEPT !.tag = @ + q]
                       /\ \E new \in Bijection(Ids(lt + c, q), names \ Range(e.tag)) :
                              h.tag = Inv!Extend(e.tag, new)
  BY <1>5, <1>6, <1>7 DEF Linked, Ids
<1>9. PICK new \in Bijection(Ids(lt + c, q), names \ Range(e.tag)) :
          h.tag = Inv!Extend(e.tag, new)
  BY <1>8
<1>10. /\ Columns(h) /\ h.shelf = d.shelf /\ h.container = d.container /\ h.item = g.item
       /\ h.item_tag = e.item_tag \cup ({id} \X Inv!IdsOf(h.tag, names))
  BY <1>2, <1>5, <1>7 DEF Linked
<1>11. NamesOf(list, k + 1) = NamesOf(list, k) \cup names
  <2>1. 1..(k + 1) = 1..k \cup {k + 1}
    OBVIOUS
  <2> QED BY <2>1 DEF NamesOf
<1>12. h.tag \in Bijection(Ids(lt, c + q), NamesOf(list, k + 1))
  <2> DEFINE T == names \ NamesOf(list, k)
             S == NamesOf(list, k)
             f == e.tag
  <2>1. /\ f \in Bijection(Ids(lt, c), S) /\ new \in Bijection(Ids(lt + c, q), T)
        /\ S \cap T = {} /\ lt \in Nat /\ h.tag = Inv!Extend(f, new)
        /\ NamesOf(list, k + 1) = S \cup T
    BY <1>1, <1>2, <1>4, <1>9, <1>11
  <2> HIDE DEF S, T, lt, f
  <2> QED BY <2>1, Appended
<1>13. h.seq = [d.seq EXCEPT !.item = @ + (k + 1), !.tag = @ + (c + q)]
  <2>1. (lt + c) + q = d.seq.tag + (c + q)
    BY <1>2
  <2> QED BY <1>6, <1>8, <2>1 DEF Columns
<1>14. h.item = [i \in Ids(li, k + 1) |-> last + list[i - li].at]
  <2>1. /\ Ids(li, k + 1) = Ids(li, k) \cup {id}
        /\ id \notin Ids(li, k) /\ id - li = k + 1
    <3> HIDE DEF id, li
    <3> QED BY <1>2, <1>3, IdsGrow
  <2> HIDE DEF id, li
  <2> QED BY <1>2, <1>5, <1>10, <2>1 DEF Inv!Extend
<1>15. h.item_tag = {p \in (DOMAIN h.item) \X (DOMAIN h.tag) :
                         h.tag[p[2]] \in Range(list[p[1] - li].tags)}
  <2>1. /\ DOMAIN h.item = DOMAIN e.item \cup {id} /\ DOMAIN e.item = Ids(li, k)
        /\ id \notin Ids(li, k) /\ list[id - li] = line
    <3>1. /\ Ids(li, k + 1) = Ids(li, k) \cup {id}
          /\ id \notin Ids(li, k) /\ id - li = k + 1
      <4> HIDE DEF id, li
      <4> QED BY <1>2, <1>3, IdsGrow
    <3> HIDE DEF id, li
    <3> QED BY <1>2, <1>14, <3>1
  <2>2. ASSUME NEW i \in Ids(li, k) PROVE Range(list[i - li].tags) \subseteq NamesOf(list, k)
    <3>1. i - li \in 1..k
      <4> HIDE DEF li
      <4> QED BY <1>2, IdsGrow
    <3> QED BY <3>1 DEF NamesOf
  <2>3. /\ DOMAIN h.tag = DOMAIN e.tag \cup DOMAIN new
        /\ \A t \in DOMAIN e.tag : h.tag[t] = e.tag[t]
        /\ \A t \in DOMAIN new : t \notin DOMAIN e.tag => h.tag[t] \notin NamesOf(list, k)
    <3>1. \A t \in DOMAIN new : new[t] \in names \ Range(e.tag)
      BY BijectionFacts
    <3> QED BY <1>4, <1>9, <3>1 DEF Inv!Extend
  <2> HIDE DEF id, li, line, names
  <2>4. ASSUME NEW p, p \in h.item_tag
        PROVE  p \in {r \in (DOMAIN h.item) \X (DOMAIN h.tag) :
                         h.tag[r[2]] \in Range(list[r[1] - li].tags)}
    <3>1. CASE p \in e.item_tag
      BY <1>2, <2>1, <2>3, <3>1
    <3>2. CASE p \in {id} \X Inv!IdsOf(h.tag, names)
      BY <2>1, <3>2 DEF Inv!IdsOf, names
    <3> QED BY <1>10, <2>4, <3>1, <3>2
  <2>5. ASSUME NEW i \in DOMAIN h.item, NEW t \in DOMAIN h.tag,
               h.tag[t] \in Range(list[i - li].tags)
        PROVE  <<i, t>> \in h.item_tag
    <3>1. CASE i = id
      BY <1>10, <2>1, <2>5, <3>1 DEF Inv!IdsOf, names
    <3>2. CASE i # id
      <4>1. i \in Ids(li, k)
        BY <2>1, <3>2
      <4>2. t \in DOMAIN e.tag
        BY <2>2, <2>3, <2>5, <4>1
      <4> QED BY <1>2, <1>10, <2>1, <2>3, <2>5, <4>1, <4>2
    <3> QED BY <3>1, <3>2
  <2> QED BY <2>4, <2>5
<1> HIDE DEF li, lt
<1>16. c + q \in Nat
  OBVIOUS
<1>17. Loaded(d, h, last, list, k + 1)
  BY <1>10, <1>12, <1>13, <1>14, <1>15, <1>16 DEF Loaded, li, lt
<1> QED BY <1>17 DEF h

LEMMA LinesLoaded ==
    ASSUME NEW d, NEW last, NEW list, NEW n \in Nat, DOMAIN list = 1..n, Columns(d),
           d.seq.item \in Nat, d.seq.tag \in Nat,
           d.item = <<>>, d.tag = <<>>, d.item_tag = {},
           \A k \in 1..n : \E m \in Nat : DOMAIN list[k].tags = 1..m
    PROVE  Loaded(d, AddLines(d, last, list), last, list, n)
<1>1. PICK h : Stages(h, "items", last, d, list, n) /\ h[n] = AddLines(d, last, list)
  BY ItemsSteps
<1>2. h[0] = d /\ \A k \in 1..n : h[k] = AddLine(h[k - 1], last, list[k])
  BY <1>1 DEF Stages, LoopBody
<1> DEFINE S == {k \in Nat : k <= n => Loaded(d, h[k], last, list, k)}
<1>3. 0 \in S
  <2>1. Ids(d.seq.item, 0) = {} /\ Ids(d.seq.tag, 0) = {} /\ NamesOf(list, 0) = {}
    BY DEF Ids, NamesOf
  <2>2. <<>> = [i \in Ids(d.seq.item, 0) |-> last + list[i - d.seq.item].at]
    BY <2>1
  <2>3. d.seq = [d.seq EXCEPT !.item = @ + 0, !.tag = @ + 0]
    <3>1. d.seq.item + 0 = d.seq.item /\ d.seq.tag + 0 = d.seq.tag
      OBVIOUS
    <3> QED BY <3>1 DEF Columns, IsTable
  <2>4. <<>> \in Bijection(Ids(d.seq.tag, 0), NamesOf(list, 0))
    BY <2>1, EmptyBijection DEF Ids
  <2>5. d.item_tag = {p \in (DOMAIN d.item) \X (DOMAIN d.tag) :
                         d.tag[p[2]] \in Range(list[p[1] - d.seq.item].tags)}
    OBVIOUS
  <2> QED BY <1>2, <2>2, <2>3, <2>4, <2>5 DEF Loaded
<1>4. ASSUME NEW k \in Nat, k \in S PROVE k + 1 \in S
  <2> SUFFICES ASSUME k + 1 <= n PROVE Loaded(d, h[k + 1], last, list, k + 1)
    OBVIOUS
  <2>1. k + 1 \in 1..n /\ (k + 1) - 1 = k /\ k <= n
    OBVIOUS
  <2>2. Loaded(d, h[k], last, list, k) /\ h[k + 1] = AddLine(h[k], last, list[k + 1])
    BY <1>2, <1>4, <2>1
  <2>3. PICK m \in Nat : DOMAIN list[k + 1].tags = 1..m
    BY <2>1
  <2> QED BY <2>2, <2>3, LoadedMore
<1>5. n \in S
  <2> HIDE DEF S
  <2> QED BY <1>3, <1>4, NatInd
<1> QED BY <1>1, <1>5

-----------------------------------------------------------------------------
(* What a transaction writes is the operation of module Inventory. *)

DbOK == Columns(db) /\ Inv!TypeOK /\ Inv!ForeignKeys /\ Inv!UniqueKeys

LEMMA DbFacts ==
    ASSUME DbOK
    PROVE  /\ Columns(db)
           /\ db.seq.container \in Nat /\ db.seq.item \in Nat /\ db.seq.tag \in Nat
           /\ Numbered(db.container, db.seq.container)
           /\ Numbered(db.item, db.seq.item) /\ Numbered(db.tag, db.seq.tag)
           /\ db.item_tag \subseteq (DOMAIN db.item) \X (DOMAIN db.tag)
<1>1. /\ db.seq.container \in Nat /\ db.seq.item \in Nat /\ db.seq.tag \in Nat
      /\ DOMAIN db.container \subseteq 1..db.seq.container
      /\ DOMAIN db.item \subseteq 1..db.seq.item /\ DOMAIN db.tag \subseteq 1..db.seq.tag
  BY BoundAssumption DEF DbOK, Inv!TypeOK, Inv!ContainerId, Inv!ItemId, Inv!TagId
<1>2. IsTable(db.container) /\ IsTable(db.item) /\ IsTable(db.tag)
  BY DEF DbOK, Inv!TypeOK, IsTable
<1> QED BY <1>1, <1>2 DEF DbOK, Numbered, Inv!ForeignKeys

LEMMA InsertTagsDone ==
    ASSUME NEW S, db.seq.tag \in Nat, NEW c \in Nat,
           NEW new \in Bijection(Ids(db.seq.tag, c), S \ Range(db.tag)),
           db'.tag = Inv!Extend(db.tag, new), db.seq.tag + c <= MaxTag
    PROVE  Inv!InsertTags(S) /\ Inv!Cardinality(Inv!NewNames(S)) = c
<1>1. Inv!NewNames(S) = S \ Range(db.tag)
  BY SameOperators DEF Inv!NewNames
<1>2. new \in Inv!Numbering(Inv!NewNames(S), db.seq.tag) /\ Inv!Cardinality(Inv!NewNames(S)) = c
  <2> DEFINE a == db.seq.tag
             T == S \ Range(db.tag)
  <2>1. a \in Nat /\ new \in Bijection((a + 1)..(a + c), T)
    BY DEF Ids
  <2> HIDE DEF a, T
  <2>2. new \in Inv!Numbering(T, a) /\ Inv!Cardinality(T) = c
    BY <2>1, NumberingIs
  <2> QED BY <1>1, <2>2 DEF a, T
<1> QED BY <1>2 DEF Inv!InsertTags

\* POST /api/items
LEMMA CreateIsCreateItem ==
    ASSUME DbOK, NEW c, NEW names \in Seq(LowerName), names # <<>>,
           c \in DOMAIN db.container, db' = AfterCreate(db, c, names),
           ~(db'.seq.item > MaxItem), ~(db'.seq.tag > MaxTag)
    PROVE  Inv!CreateItem(c, Range(names)) /\ Columns(db')
<1> DEFINE g == InsertItem(db, c)
           id == db.seq.item + 1
<1>1. /\ Columns(g) /\ g.shelf = db.shelf /\ g.container = db.container
      /\ g.tag = db.tag /\ g.item_tag = db.item_tag
      /\ g.item = Inv!Extend(db.item, [x \in {id} |-> c])
      /\ g.seq = [db.seq EXCEPT !.item = @ + 1]
  <2>1. Columns(db)
    BY DbFacts
  <2> QED BY <2>1 DEF InsertItem, AddRow, Columns, IsTable
<1>2. g.seq.tag = db.seq.tag /\ Numbered(g.tag, g.seq.tag)
  <2>1. g.seq.tag = db.seq.tag
    BY <1>1, DbFacts DEF Columns
  <2> HIDE DEF g
  <2> QED BY <1>1, <2>1, DbFacts
<1>3. PICK n \in Nat : DOMAIN names = 1..n /\ n # 0
  OBVIOUS
<1>4. db' = LinkTags(g, id, names)
  BY DEF AfterCreate
<1> HIDE DEF g
<1>5. Linked(g, db', id, Range(names))
  <2>1. Columns(g) /\ Numbered(g.tag, g.seq.tag)
    BY <1>1, <1>2
  <2> HIDE DEF id
  <2>2. Linked(g, LinkTags(g, id, names), id, Range(names))
    BY <1>3, <2>1, LinkTagsIs
  <2> QED BY <1>4, <2>2
<1>6. PICK k \in Nat : /\ db'.seq = [g.seq EXCEPT !.tag = @ + k]
                       /\ \E new \in Bijection(Ids(db.seq.tag, k), Range(names) \ Range(db.tag)) :
                              db'.tag = Inv!Extend(db.tag, new)
  BY <1>1, <1>2, <1>5 DEF Linked, Ids
<1>7. PICK new \in Bijection(Ids(db.seq.tag, k), Range(names) \ Range(db.tag)) :
          db'.tag = Inv!Extend(db.tag, new)
  BY <1>6
<1>8. /\ db'.seq = [db.seq EXCEPT !.item = id, !.tag = @ + k]
      /\ db'.seq.item = id /\ db'.seq.tag = db.seq.tag + k
      /\ db.seq.tag \in Nat /\ id \in Nat
  BY <1>1, <1>2, <1>6, DbFacts DEF Columns
<1>9. id <= MaxItem /\ db.seq.tag + k <= MaxTag
  BY <1>8, BoundAssumption
<1>10. Inv!InsertTags(Range(names)) /\ Inv!Cardinality(Inv!NewNames(Range(names))) = k
  <2> DEFINE S == Range(names)
  <2>1. new \in Bijection(Ids(db.seq.tag, k), S \ Range(db.tag))
    OBVIOUS
  <2> HIDE DEF S
  <2>2. Inv!InsertTags(S) /\ Inv!Cardinality(Inv!NewNames(S)) = k
    BY <1>7, <1>8, <1>9, <2>1, InsertTagsDone
  <2> QED BY <2>2 DEF S
<1>11. Range(names) # {}
  <2>1. 1 \in DOMAIN names
    BY <1>3
  <2> QED BY <2>1 DEF Range
<1>12. /\ Columns(db') /\ db'.shelf = db.shelf /\ db'.container = db.container
       /\ db'.item = g.item
       /\ db'.item_tag = db.item_tag \cup ({id} \X Inv!IdsOf(db'.tag, Range(names)))
  BY <1>1, <1>5 DEF Linked
<1> QED BY <1>1, <1>8, <1>9, <1>10, <1>11, <1>12 DEF Inv!CreateItem

\* POST /api/items/{id}/tags
LEMMA AddTagIsAddTagToItem ==
    ASSUME DbOK, NEW i \in DOMAIN db.item, NEW n, db' = LinkTag(db, i, n),
           ~(db'.seq.tag > MaxTag)
    PROVE  Inv!AddTagToItem(i, n) /\ Columns(db')
<1>1. Linked(db, db', i, {n})
  <2>1. Linked(db, db, i, {})
    BY DbFacts, LinkedNone
  <2>2. Linked(db, db', i, {} \cup {n})
    BY <2>1, DbFacts, LinkedMore
  <2>3. {} \cup {n} = {n}
    OBVIOUS
  <2> QED BY <2>2, <2>3
<1>2. PICK k \in Nat : /\ db'.seq = [db.seq EXCEPT !.tag = @ + k]
                       /\ \E new \in Bijection(Ids(db.seq.tag, k), {n} \ Range(db.tag)) :
                              db'.tag = Inv!Extend(db.tag, new)
  BY <1>1 DEF Linked, Ids
<1>3. PICK new \in Bijection(Ids(db.seq.tag, k), {n} \ Range(db.tag)) :
          db'.tag = Inv!Extend(db.tag, new)
  BY <1>2
<1>4. db'.seq.tag = db.seq.tag + k /\ db.seq.tag \in Nat /\ db.seq.tag + k <= MaxTag
  BY <1>2, DbFacts, BoundAssumption DEF Columns
<1>5. Inv!InsertTags({n}) /\ Inv!Cardinality(Inv!NewNames({n})) = k
  <2> DEFINE S == {n}
  <2>1. new \in Bijection(Ids(db.seq.tag, k), S \ Range(db.tag))
    OBVIOUS
  <2> HIDE DEF S
  <2>2. Inv!InsertTags(S) /\ Inv!Cardinality(Inv!NewNames(S)) = k
    BY <1>3, <1>4, <2>1, InsertTagsDone
  <2> QED BY <2>2 DEF S
<1>6. /\ Columns(db') /\ db'.shelf = db.shelf /\ db'.container = db.container
      /\ db'.item = db.item
      /\ db'.item_tag = db.item_tag \cup ({i} \X Inv!IdsOf(db'.tag, {n}))
  BY <1>1 DEF Linked
<1> QED BY <1>2, <1>5, <1>6 DEF Inv!AddTagToItem

\* PUT /api/items/{id}
LEMMA UpdateIsUpdateItem ==
    ASSUME DbOK, NEW i \in DOMAIN db.item, NEW c \in DOMAIN db.container,
           db' = AfterUpdate(db, i, c)
    PROVE  Inv!UpdateItem(i, c) /\ Columns(db')
<1>1. /\ Columns(db) /\ db'.item = [db.item EXCEPT ![i] = c]
      /\ db'.shelf = db.shelf /\ db'.container = db.container /\ db'.tag = db.tag
      /\ db'.item_tag = db.item_tag /\ db'.seq = db.seq
      /\ DOMAIN db' = DOMAIN db
  BY DbFacts DEF AfterUpdate, Columns
<1> QED BY <1>1 DEF Inv!UpdateItem, Columns

\* PUT /api/shelf/resize
LEMMA ResizeIsResizeShelf ==
    ASSUME DbOK, NEW rows \in Nat \ {0}, NEW cols \in Nat,
           ~Blocked(db, rows, cols), db' = AfterResize(db, rows, cols),
           ~(db'.seq.container > MaxContainer)
    PROVE  Inv!ResizeShelf(rows, cols) /\ Columns(db')
<1> DEFINE out == Outside(db, rows, cols)
           kept == Restrict(db.container, DOMAIN db.container \ out)
           left == {i \in DOMAIN db.item : db.item[i] \notin out}
           shelf == [db.shelf EXCEPT !.rows = rows, !.cols = cols]
           d == [DeleteContainers(db, out) EXCEPT !.shelf.rows = rows, !.shelf.cols = cols]
           missing == Inv!Cells(rows, cols) \ Range(kept)
<1>1. /\ Columns(d) /\ d.shelf = shelf
      /\ d.container = kept /\ d.item = Restrict(db.item, left)
      /\ d.tag = db.tag /\ d.item_tag = Inv!Cascade(db.item_tag, left, DOMAIN db.tag)
      /\ d.seq = db.seq
  <2>1. left = DOMAIN db.item \ {i \in DOMAIN db.item : db.item[i] \in out}
    OBVIOUS
  <2> HIDE DEF out, left
  <2> QED BY <2>1, DbFacts DEF DeleteContainers, DeleteItems, Columns
<1>2. Numbered(kept, db.seq.container) /\ DOMAIN Restrict(db.item, left) = left
  BY DbFacts DEF Numbered, Restrict, IsTable
<1>3. db' = FillGrid(d, rows, cols)
  BY DEF AfterResize
<1> HIDE DEF d, out, kept, left
<1>4. Filled(d, db', Inv!Cells(rows, cols))
  BY <1>1, <1>2, <1>3, FillGridFills
<1>5. PICK k \in Nat :
          /\ db'.seq = [db.seq EXCEPT !.container = @ + k]
          /\ \E new \in Bijection((db.seq.container + 1)..(db.seq.container + k), missing) :
                 Inv!InColumnOrder(new) /\ db'.container = Inv!Extend(kept, new)
  BY <1>1, <1>4 DEF Filled
<1>6. PICK new \in Bijection((db.seq.container + 1)..(db.seq.container + k), missing) :
          Inv!InColumnOrder(new) /\ db'.container = Inv!Extend(kept, new)
  BY <1>5
<1>7. /\ db'.seq.container = db.seq.container + k
      /\ db.seq.container + k <= MaxContainer
  BY <1>5, DbFacts, BoundAssumption DEF Columns
<1>8. new \in Inv!Numbering(missing, db.seq.container) /\ Inv!Cardinality(missing) = k
  <2> DEFINE a == db.seq.container
  <2>1. a \in Nat /\ new \in Bijection((a + 1)..(a + k), missing)
    BY DbFacts
  <2> HIDE DEF a, missing
  <2>2. new \in Inv!Numbering(missing, a) /\ Inv!Cardinality(missing) = k
    BY <2>1, NumberingIs
  <2> QED BY <2>2 DEF a
<1>9. /\ Columns(db') /\ db'.shelf = shelf
      /\ db'.item = Restrict(db.item, left) /\ db'.tag = db.tag
      /\ db'.item_tag = Inv!Cascade(db.item_tag, DOMAIN db'.item, DOMAIN db.tag)
  BY <1>1, <1>2, <1>4 DEF Filled
<1>10. Range(db.item) \cap out = {}
  BY DEF Blocked, out
<1>11. /\ kept = Inv!Restrict(db.container, DOMAIN db.container \ out)
       /\ missing = Inv!Cells(rows, cols) \ Inv!Range(kept)
       /\ db'.item = Inv!Restrict(db.item, left)
       /\ Inv!Range(db.item) \cap out = {}
  BY <1>9, <1>10, SameOperators DEF kept
<1> HIDE DEF missing
<1> QED BY <1>5, <1>6, <1>7, <1>8, <1>9, <1>11 DEF Inv!ResizeShelf, out, left, Outside

\* POST /api/tags/{id}/merge
LEMMA MergeIsMergeTags ==
    ASSUME DbOK, NEW source, NEW target, db' = AfterMerge(db, source, target),
           (\E p \in db.item_tag : p[2] = source) => target \in DOMAIN db.tag
    PROVE  Inv!MergeTags(source, target) /\ Columns(db')
<1> DEFINE copied == {<<p[1], target>> : p \in {q \in db.item_tag : q[2] = source}}
           moved  == {p \in db.item_tag \cup copied : p[2] # source}
           left   == DOMAIN db.tag \ {source}
           carried == {i \in DOMAIN db.item : <<i, source>> \in db.item_tag}
<1>1. /\ Columns(db') /\ db'.tag = Restrict(db.tag, left) /\ db'.item = db.item
      /\ db'.shelf = db.shelf /\ db'.container = db.container /\ db'.seq = db.seq
      /\ db'.item_tag = Inv!Cascade(moved, DOMAIN db.item, left)
  <2> DEFINE e == [db EXCEPT !.item_tag = moved]
  <2>1. /\ Columns(e) /\ e.tag = db.tag /\ e.item = db.item /\ e.shelf = db.shelf
        /\ e.container = db.container /\ e.seq = db.seq /\ e.item_tag = moved
    <3> HIDE DEF moved
    <3> QED BY DbFacts DEF Columns
  <2>2. db' = DeleteTag(e, source)
    BY DEF AfterMerge
  <2> HIDE DEF e, moved
  <2> QED BY <2>1, <2>2 DEF DeleteTag, Columns
<1>2. Inv!Cascade(moved, DOMAIN db.item, left) =
          Inv!Cascade(db.item_tag \cup (carried \X {target}), DOMAIN db.item, left)
  <2>1. \A p \in db.item_tag : p = <<p[1], p[2]>> /\ p[1] \in DOMAIN db.item
    BY DbFacts
  <2>2. copied = carried \X {target}
    <3>1. ASSUME NEW p \in copied PROVE p \in carried \X {target}
      <4>1. PICK q \in db.item_tag : q[2] = source /\ p = <<q[1], target>>
        OBVIOUS
      <4>2. q = <<q[1], source>> /\ q[1] \in carried
        BY <2>1, <4>1
      <4> QED BY <4>1, <4>2
    <3>2. ASSUME NEW i \in carried PROVE <<i, target>> \in copied
      <4>1. <<i, source>> \in {q \in db.item_tag : q[2] = source}
        OBVIOUS
      <4>2. <<<<i, source>>[1], target>> \in copied
        BY <4>1
      <4> QED BY <4>2
    <3> HIDE DEF copied, carried
    <3> QED BY <3>1, <3>2
  <2> HIDE DEF copied, carried
  <2> QED BY <2>2 DEF Inv!Cascade
<1>3. carried # {} => target \in DOMAIN db.tag
  <2> SUFFICES ASSUME NEW i \in carried PROVE \E p \in db.item_tag : p[2] = source
    OBVIOUS
  <2>1. <<i, source>> \in db.item_tag /\ <<i, source>>[2] = source
    OBVIOUS
  <2> QED BY <2>1
<1>4. db'.tag = Inv!Restrict(db.tag, left) /\ DOMAIN db'.tag = left
  BY <1>1 DEF Inv!Restrict, Restrict
<1> HIDE DEF copied, moved
<1> QED BY <1>1, <1>2, <1>3, <1>4 DEF Inv!MergeTags

LEMMA BackupFacts ==
    ASSUME NEW b \in Backups
    PROVE  /\ Len(b.containers) \in Nat /\ DOMAIN b.containers = 1..Len(b.containers)
           /\ Len(b.items) \in Nat /\ DOMAIN b.items = 1..Len(b.items)
           /\ \A k \in 1..Len(b.items) : \E m \in Nat : DOMAIN b.items[k].tags = 1..m
<1>1. b.containers \in Seq(Int \X Int) /\ b.items \in Seq([at : Nat \ {0}, tags : Seq(TagName)])
  BY BackupAssumption DEF Inv!Backup
<1>2. ASSUME NEW k \in 1..Len(b.items) PROVE \E m \in Nat : DOMAIN b.items[k].tags = 1..m
  <2> DEFINE list == b.items
             Line == [at : Nat \ {0}, tags : Seq(TagName)]
  <2>1. list[k] \in Line
    <3>1. list \in Seq(Line) /\ k \in 1..Len(list)
      BY <1>1
    <3> HIDE DEF list, Line
    <3> QED BY <3>1
  <2>2. b.items[k].tags \in Seq(TagName)
    BY <2>1
  <2>3. /\ Len(b.items[k].tags) \in Nat
        /\ DOMAIN b.items[k].tags = 1..Len(b.items[k].tags)
    BY <2>2
  <2> QED BY <2>3
<1> QED BY <1>1, <1>2

\* POST /api/import/confirm
LEMMA ImportIsImportAllData ==
    ASSUME DbOK, NEW b \in Backups, Inv!Insertable(b), db' = AfterImport(db, b),
           ~(db'.seq.container > MaxContainer), ~(db'.seq.item > MaxItem),
           ~(db'.seq.tag > MaxTag)
    PROVE  Inv!ImportAllData(b) /\ Columns(db')
<1> DEFINE lastC == db.seq.container
           lastI == db.seq.item
           lastT == db.seq.tag
           nC == Len(b.containers)
           nI == Len(b.items)
           names == NamesOf(b.items, nI)
           d == [db EXCEPT !.item_tag = {}, !.item = <<>>, !.tag = <<>>, !.container = <<>>,
                           !.shelf = [rows |-> b.rows, cols |-> b.cols, named |-> b.named]]
           e == AddContainers(d, b.containers)
<1>1. /\ Columns(d) /\ d.shelf = [rows |-> b.rows, cols |-> b.cols, named |-> b.named]
      /\ d.container = <<>> /\ d.item = <<>> /\ d.tag = <<>> /\ d.item_tag = {}
      /\ d.seq = db.seq /\ lastC \in Nat /\ lastI \in Nat /\ lastT \in Nat
  BY DbFacts DEF Columns
<1>2. /\ nC \in Nat /\ DOMAIN b.containers = 1..nC /\ nI \in Nat /\ DOMAIN b.items = 1..nI
      /\ \A k \in 1..nI : \E m \in Nat : DOMAIN b.items[k].tags = 1..m
  BY BackupFacts
<1>3. db' = AddLines(e, lastC, b.items)
  BY AfterImportIs
<1> HIDE DEF d, e, nC, nI
<1>4. Placed(d, e, b.containers, nC)
  <2>1. Placed(d, AddContainers(d, b.containers), b.containers, nC)
    <3>1. d.seq.container \in Nat
      BY <1>1
    <3> QED BY <1>1, <1>2, <3>1, ContainersPlaced
  <2> QED BY <2>1 DEF e
<1>5. /\ Columns(e) /\ e.shelf = d.shelf /\ e.item = <<>> /\ e.tag = <<>> /\ e.item_tag = {}
      /\ e.container = [c \in Ids(lastC, nC) |-> b.containers[c - lastC]]
      /\ e.seq = [db.seq EXCEPT !.container = @ + nC]
      /\ e.seq.item = lastI /\ e.seq.tag = lastT
  BY <1>1, <1>4 DEF Placed, Columns
<1>6. Loaded(e, db', lastC, b.items, nI)
  <2>1. e.seq.item \in Nat /\ e.seq.tag \in Nat
    BY <1>1, <1>5
  <2>2. Columns(e) /\ e.item = <<>> /\ e.tag = <<>> /\ e.item_tag = {}
    BY <1>5
  <2> HIDE DEF lastC
  <2>3. Loaded(e, AddLines(e, lastC, b.items), lastC, b.items, nI)
    BY <1>2, <2>1, <2>2, LinesLoaded
  <2> QED BY <1>3, <2>3
<1>7. PICK k \in Nat : /\ db'.seq = [e.seq EXCEPT !.item = @ + nI, !.tag = @ + k]
                       /\ db'.tag \in Bijection(Ids(lastT, k), names)
  BY <1>5, <1>6 DEF Loaded
<1>8. /\ db'.seq = [container |-> lastC + nC, item |-> lastI + nI, tag |-> lastT + k]
      /\ db'.seq.container = lastC + nC /\ db'.seq.item = lastI + nI
      /\ db'.seq.tag = lastT + k
  <2>1. DOMAIN db'.seq = {"container", "item", "tag"} /\ IsTable(db'.seq)
    BY <1>6 DEF Loaded, Columns
  <2>2. db'.seq.container = lastC + nC /\ db'.seq.item = lastI + nI /\ db'.seq.tag = lastT + k
    BY <1>1, <1>5, <1>7 DEF Columns
  <2> QED BY <2>1, <2>2 DEF IsTable
<1>9. lastC + nC <= MaxContainer /\ lastI + nI <= MaxItem /\ lastT + k <= MaxTag
  <2>1. /\ db'.seq.container = lastC + nC /\ db'.seq.item = lastI + nI
        /\ db'.seq.tag = lastT + k
        /\ lastC \in Nat /\ lastI \in Nat /\ lastT \in Nat /\ nC \in Nat /\ nI \in Nat
    BY <1>1, <1>2, <1>8
  <2> HIDE DEF lastC, lastI, lastT
  <2> QED BY <2>1, BoundAssumption
<1>10. names = Inv!BackupNames(b)
  BY <1>2, SameOperators DEF NamesOf, Inv!BackupNames
<1>11. db'.tag \in Inv!Numbering(names, lastT) /\ Inv!Cardinality(names) = k
  <2>1. lastT \in Nat /\ db'.tag \in Bijection((lastT + 1)..(lastT + k), names)
    BY <1>1, <1>7 DEF Ids
  <2> HIDE DEF lastT, names
  <2> QED BY <2>1, NumberingIs
<1>12. /\ Columns(db') /\ db'.shelf = [rows |-> b.rows, cols |-> b.cols, named |-> b.named]
       /\ db'.container = [c \in (lastC + 1)..(lastC + nC) |-> b.containers[c - lastC]]
       /\ db'.item = [i \in (lastI + 1)..(lastI + nI) |-> lastC + b.items[i - lastI].at]
       /\ db'.item_tag = {p \in (DOMAIN db'.item) \X (DOMAIN db'.tag) :
                             db'.tag[p[2]] \in Range(b.items[p[1] - lastI].tags)}
  BY <1>1, <1>5, <1>6 DEF Loaded, Ids
<1>13. nC = Inv!Len(b.containers) /\ nI = Inv!Len(b.items)
  BY DEF nC, nI
<1> HIDE DEF names
<1>14. db'.item_tag = {p \in (DOMAIN db'.item) \X (DOMAIN db'.tag) :
                           db'.tag[p[2]] \in Inv!Range(b.items[p[1] - lastI].tags)}
  BY <1>12, SameOperators
<1> QED BY <1>8, <1>9, <1>10, <1>11, <1>12, <1>13, <1>14 DEF Inv!ImportAllData

\* PUT /api/tags/{id}
LEMMA RenameIsRenameTag ==
    ASSUME DbOK, NEW t \in DOMAIN db.tag, NEW n,
           n \notin {db.tag[u] : u \in DOMAIN db.tag \ {t}},
           db' = [db EXCEPT !.tag[t] = n]
    PROVE  Inv!RenameTag(t, n) /\ Columns(db')
<1>1. /\ Columns(db) /\ db'.tag = [db.tag EXCEPT ![t] = n]
      /\ db'.shelf = db.shelf /\ db'.container = db.container /\ db'.item = db.item
      /\ db'.item_tag = db.item_tag /\ db'.seq = db.seq
      /\ DOMAIN db' = DOMAIN db
  BY DbFacts DEF Columns
<1> QED BY <1>1 DEF Inv!RenameTag, Columns

\* DELETE /api/tags/{id}
LEMMA DeleteTagIsDeleteUnusedTag ==
    ASSUME DbOK, NEW t \in DOMAIN db.tag, \A p \in db.item_tag : p[2] # t,
           db' = DeleteTag(db, t)
    PROVE  Inv!DeleteUnusedTag(t) /\ Columns(db')
<1> DEFINE left == DOMAIN db.tag \ {t}
<1>1. Inv!Cascade(db.item_tag, DOMAIN db.item, left) = db.item_tag
  BY DbFacts DEF Inv!Cascade
<1> HIDE DEF left
<1>2. /\ Columns(db) /\ db'.tag = Inv!Restrict(db.tag, left)
      /\ db'.shelf = db.shelf /\ db'.container = db.container /\ db'.item = db.item
      /\ db'.item_tag = db.item_tag /\ db'.seq = db.seq
      /\ DOMAIN db' = DOMAIN db
  BY <1>1, DbFacts, SameOperators DEF Columns, DeleteTag, left
<1> QED BY <1>2 DEF Inv!DeleteUnusedTag, Inv!Unused, Columns, left

\* DELETE /api/items/{id}
LEMMA DeleteIsDeleteItem ==
    ASSUME DbOK, NEW i \in DOMAIN db.item, db' = DeleteItems(db, {i})
    PROVE  Inv!DeleteItem(i) /\ Columns(db')
<1> DEFINE left == DOMAIN db.item \ {i}
<1>1. /\ Columns(db) /\ db'.item = Restrict(db.item, left)
      /\ db'.shelf = db.shelf /\ db'.container = db.container /\ db'.tag = db.tag
      /\ db'.item_tag = Inv!Cascade(db.item_tag, left, DOMAIN db.tag)
      /\ db'.seq = db.seq
      /\ DOMAIN db' = DOMAIN db
  BY DbFacts DEF Columns, DeleteItems
<1>2. DOMAIN db'.item = left /\ db'.item = Inv!Restrict(db.item, left)
  BY <1>1 DEF Restrict, Inv!Restrict
<1> HIDE DEF left
<1> QED BY <1>1, <1>2 DEF Inv!DeleteItem, Columns, left

\* DELETE /api/items/{id}/tags/{name}
LEMMA RemoveIsRemoveTagFromItem ==
    ASSUME DbOK, NEW i, NEW t, <<i, t>> \in db.item_tag,
           db' = [db EXCEPT !.item_tag = @ \ {<<i, t>>}]
    PROVE  Inv!RemoveTagFromItem(i, t) /\ Columns(db')
<1>1. /\ Columns(db) /\ db'.item_tag = db.item_tag \ {<<i, t>>}
      /\ db'.shelf = db.shelf /\ db'.container = db.container /\ db'.item = db.item
      /\ db'.tag = db.tag /\ db'.seq = db.seq
      /\ DOMAIN db' = DOMAIN db
  BY DbFacts DEF Columns
<1> QED BY <1>1 DEF Inv!RemoveTagFromItem, Columns

\* The statement after the transaction of a resize that brings a name.
LEMMA NameIsUpdateShelfName ==
    ASSUME DbOK, NEW named \in BOOLEAN, db' = [db EXCEPT !.shelf.named = named]
    PROVE  Inv!UpdateShelfName(named) /\ Columns(db')
<1>1. /\ Columns(db) /\ db'.shelf = [db.shelf EXCEPT !.named = named]
      /\ db'.container = db.container /\ db'.item = db.item /\ db'.tag = db.tag
      /\ db'.item_tag = db.item_tag /\ db'.seq = db.seq
      /\ DOMAIN db' = DOMAIN db
  BY DbFacts DEF Columns
<1> QED BY <1>1 DEF Inv!UpdateShelfName, Columns

\* The database that Open makes: the shelf, and a container for each cell.
LEMMA SeededIsInit ==
    ASSUME db = Seeded
    PROVE  Inv!Init /\ Columns(db)
<1> DEFINE rows == SeedGrid[1]
           cols == SeedGrid[2]
           d == [shelf |-> [rows |-> rows, cols |-> cols, named |-> TRUE],
                 container |-> <<>>, item |-> <<>>, tag |-> <<>>, item_tag |-> {},
                 seq |-> [container |-> 0, item |-> 0, tag |-> 0]]
<1>1. rows \in Nat \ {0} /\ cols \in Nat
  BY GridAssumption
<1>2. /\ Columns(d) /\ d.shelf = [rows |-> rows, cols |-> cols, named |-> TRUE]
      /\ d.container = <<>> /\ d.item = <<>> /\ d.tag = <<>> /\ d.item_tag = {}
      /\ d.seq = [container |-> 0, item |-> 0, tag |-> 0]
  BY DEF Columns, IsTable
<1>3. db = FillGrid(d, rows, cols)
  BY DEF Seeded
<1> HIDE DEF d, rows, cols
<1>4. Filled(d, db, Inv!Cells(rows, cols))
  <2>1. Numbered(d.container, d.seq.container)
    BY <1>2 DEF Numbered, IsTable
  <2> QED BY <1>1, <1>2, <1>3, <2>1, FillGridFills
<1>5. PICK k \in Nat :
          /\ db.seq = [d.seq EXCEPT !.container = @ + k]
          /\ \E new \in Bijection((0 + 1)..(0 + k), Inv!Cells(rows, cols)) :
                 Inv!InColumnOrder(new) /\ db.container = Inv!Extend(<<>>, new)
  <2>1. Range(<<>>) = {}
    BY DEF Range
  <2>2. Inv!Cells(rows, cols) \ Range(<<>>) = Inv!Cells(rows, cols)
    BY <2>1
  <2>3. d.seq.container = 0 /\ d.container = <<>>
    BY <1>2
  <2> QED BY <1>4, <2>2, <2>3 DEF Filled
<1>6. PICK new \in Bijection((0 + 1)..(0 + k), Inv!Cells(rows, cols)) :
          Inv!InColumnOrder(new) /\ db.container = Inv!Extend(<<>>, new)
  BY <1>5
<1>7. db.container = new
  <2>1. new = [x \in DOMAIN new |-> new[x]]
    BY BijectionFacts
  <2> QED BY <1>6, <2>1 DEF Inv!Extend
<1>8. /\ new \in Inv!Numbering(Inv!Cells(rows, cols), 0)
      /\ Inv!Cardinality(Inv!Cells(rows, cols)) = k
  BY NumberingIs
<1>9. Inv!Range(db.container) = Inv!Cells(rows, cols)
  <2>1. /\ DOMAIN new = (0 + 1)..(0 + k)
        /\ \A x \in DOMAIN new : new[x] \in Inv!Cells(rows, cols)
        /\ \A t \in Inv!Cells(rows, cols) : \E s \in DOMAIN new : new[s] = t
    BY BijectionFacts
  <2> QED BY <1>7, <2>1 DEF Inv!Range
<1>10. db.seq = [container |-> k, item |-> 0, tag |-> 0]
  BY <1>2, <1>5
<1> QED BY <1>2, <1>4, <1>6, <1>7, <1>8, <1>9, <1>10 DEF Inv!Init, Filled, rows, cols

-----------------------------------------------------------------------------
(* Module InventoryProofs, of the committed database. *)

LEMMA SameState ==
    /\ Inv!ContainerId = P!ContainerId /\ Inv!ItemId = P!ItemId /\ Inv!TagId = P!TagId
    /\ Inv!Init <=> P!Init
    /\ Inv!TypeOK <=> P!TypeOK
    /\ Inv!ForeignKeys <=> P!ForeignKeys
    /\ Inv!UniqueKeys <=> P!UniqueKeys
<1> USE DEF Inv!ContainerId, P!ContainerId, Inv!ItemId, P!ItemId, Inv!TagId, P!TagId,
        Inv!Range, P!Range, Inv!IsInjective, P!IsInjective
<1>1. Inv!TypeOK <=> P!TypeOK
  BY DEF Inv!TypeOK, P!TypeOK
<1>2. Inv!ForeignKeys <=> P!ForeignKeys
  BY DEF Inv!ForeignKeys, P!ForeignKeys
<1>3. Inv!UniqueKeys <=> P!UniqueKeys
  BY DEF Inv!UniqueKeys, P!UniqueKeys
<1>4. Inv!Init <=> P!Init
  BY DEF Inv!Init, P!Init, Inv!Numbering, P!Numbering, Inv!Bijection, P!Bijection,
     Inv!Injection, P!Injection, Inv!Surjection, P!Surjection, Inv!Cardinality,
     P!Cardinality, Inv!Cells, P!Cells, Inv!InColumnOrder, P!InColumnOrder,
     Inv!ColumnMajor, P!ColumnMajor
<1> QED BY <1>1, <1>2, <1>3, <1>4

LEMMA SameActions ==
    /\ \A c, S : Inv!CreateItem(c, S) <=> P!CreateItem(c, S)
    /\ \A i, c : Inv!UpdateItem(i, c) <=> P!UpdateItem(i, c)
    /\ \A i : Inv!DeleteItem(i) <=> P!DeleteItem(i)
    /\ \A i, n : Inv!AddTagToItem(i, n) <=> P!AddTagToItem(i, n)
    /\ \A i, t : Inv!RemoveTagFromItem(i, t) <=> P!RemoveTagFromItem(i, t)
    /\ \A t, n : Inv!RenameTag(t, n) <=> P!RenameTag(t, n)
    /\ \A s, t : Inv!MergeTags(s, t) <=> P!MergeTags(s, t)
    /\ \A t : Inv!DeleteUnusedTag(t) <=> P!DeleteUnusedTag(t)
    /\ \A m, n : Inv!ResizeShelf(m, n) <=> P!ResizeShelf(m, n)
    /\ \A named : Inv!UpdateShelfName(named) <=> P!UpdateShelfName(named)
    /\ \A b : Inv!ImportAllData(b) <=> P!ImportAllData(b)
<1> USE DEF Inv!Range, P!Range, Inv!Restrict, P!Restrict, Inv!Bijection, P!Bijection,
        Inv!Injection, P!Injection, Inv!Surjection, P!Surjection, Inv!IsInjective,
        P!IsInjective, Inv!Cardinality, P!Cardinality,
        Inv!Numbering, P!Numbering, Inv!Extend, P!Extend, Inv!Cascade, P!Cascade
<1>1. \A c, S : Inv!CreateItem(c, S) <=> P!CreateItem(c, S)
  BY DEF Inv!CreateItem, P!CreateItem, Inv!InsertTags, P!InsertTags, Inv!NewNames,
     P!NewNames, Inv!IdsOf, P!IdsOf
<1>2. \A i, n : Inv!AddTagToItem(i, n) <=> P!AddTagToItem(i, n)
  BY DEF Inv!AddTagToItem, P!AddTagToItem, Inv!InsertTags, P!InsertTags, Inv!NewNames,
     P!NewNames, Inv!IdsOf, P!IdsOf
<1>3. \A m, n : Inv!ResizeShelf(m, n) <=> P!ResizeShelf(m, n)
  BY DEF Inv!ResizeShelf, P!ResizeShelf, Inv!InColumnOrder, P!InColumnOrder, Inv!Cells,
     P!Cells, Inv!ColumnMajor, P!ColumnMajor
<1>4. \A b : Inv!ImportAllData(b) <=> P!ImportAllData(b)
  BY DEF Inv!ImportAllData, P!ImportAllData, Inv!Insertable, P!Insertable,
     Inv!BackupNames, P!BackupNames
<1>5. /\ \A i, c : Inv!UpdateItem(i, c) <=> P!UpdateItem(i, c)
      /\ \A i : Inv!DeleteItem(i) <=> P!DeleteItem(i)
      /\ \A i, t : Inv!RemoveTagFromItem(i, t) <=> P!RemoveTagFromItem(i, t)
      /\ \A t, n : Inv!RenameTag(t, n) <=> P!RenameTag(t, n)
      /\ \A s, t : Inv!MergeTags(s, t) <=> P!MergeTags(s, t)
      /\ \A t : Inv!DeleteUnusedTag(t) <=> P!DeleteUnusedTag(t)
      /\ \A named : Inv!UpdateShelfName(named) <=> P!UpdateShelfName(named)
  BY DEF Inv!UpdateItem, P!UpdateItem, Inv!DeleteItem, P!DeleteItem,
     Inv!RemoveTagFromItem, P!RemoveTagFromItem, Inv!RenameTag, P!RenameTag,
     Inv!MergeTags, P!MergeTags, Inv!DeleteUnusedTag, P!DeleteUnusedTag, Inv!Unused,
     P!Unused, Inv!UpdateShelfName, P!UpdateShelfName
<1> QED BY <1>1, <1>2, <1>3, <1>4, <1>5

LEMMA DbFromInv == P!IInv /\ Columns(db) => DbOK
BY SameState DEF DbOK, P!IInv

\* What an operation leaves of the committed database.
LEMMA OperationKeeps ==
    ASSUME DbOK, Inv!Next, Columns(db')
    PROVE  /\ DbOK'
           /\ DOMAIN db'.item \cap (1..db.seq.item) \subseteq DOMAIN db.item
           /\ db.seq.item <= db'.seq.item /\ db.seq.tag <= db'.seq.tag
<1>1. P!IInv
  BY SameState DEF DbOK, P!IInv
<1>2. P!Next
  BY SameActions, SameState DEF Inv!Next, P!Next, Inv!ItemStep, P!ItemStep, Inv!TagStep,
     P!TagStep, Inv!ShelfStep, P!ShelfStep
<1>3. P!IInv' /\ P!Fresh
  BY <1>1, <1>2, SameAssumptions, P!NextInv, P!NextFresh
<1>4. db.seq.item <= db'.seq.item /\ db.seq.tag <= db'.seq.tag
  BY <1>1, <1>2, SameAssumptions, P!NextIds
<1>5. DbOK'
  <2>1. P!IInv' /\ Columns(db)' => DbOK'
    BY DbFromInv, PTL
  <2>2. Columns(db)'
    BY DEF Columns
  <2> QED BY <1>3, <2>1, <2>2
<1> QED BY <1>3, <1>4, <1>5 DEF P!Fresh, P!ItemId

LEMMA InitialDb == db = Seeded => DbOK
<1> SUFFICES ASSUME db = Seeded PROVE DbOK
  OBVIOUS
<1>1. P!Init /\ Columns(db)
  BY SeededIsInit, SameState
<1>2. P!IInv
  BY <1>1, SameAssumptions, P!InitInv
<1> QED BY <1>1, <1>2, SameState DEF DbOK, P!IInv

-----------------------------------------------------------------------------
(* The inductive invariant: what each request may have done by its pc, and  *)
(* what it knows of the committed database.                                *)

\* What a client may have asked for, when the last ids of items and of tags
\* were those: an id it names, or one it has looked up, was handed out.
Ops(items, tags) ==
    [kind : {"none"}]
    \cup [kind : {"create"}, c : Nat, tags : TagLists, i : Nat]
    \cup [kind : {"update"}, i : 1..items, c : Nat]
    \cup [kind : {"delitem"}, i : 1..items]
    \cup [kind : {"addtag"}, i : Nat, n : LowerName]
    \cup [kind : {"untag"}, i : Nat, n : LowerName, t : Nat]
    \cup [kind : {"resize"}, size : ResizeTo, name : ResizeNames]
    \cup [kind : {"import"}, b : Backups]
    \cup [kind : {"deltag"}, t : Nat]
    \cup [kind : {"rename"}, t : 1..tags, n : LowerName, target : Nat, source : Nat]
    \cup [kind : {"merge"}, t : 1..tags, n : LowerName, target : 0..tags]

Transactions == {"create", "update", "addtag", "resize", "import"}

KindsAt(pc) ==
    CASE pc = "idle"               -> {"none"}
      [] pc = "read"               -> Transactions
      [] pc \in {"write", "commit"} -> Transactions \cup {"merge"}
      [] pc = "lookup"             -> {"merge", "delitem", "untag"}
      [] pc = "statement"          -> {"rename", "deltag", "delitem", "untag"}
      [] pc = "touch"              -> {"untag"}
      [] pc = "name"               -> {"resize"}
      [] pc \in {"row", "tags"}    -> {"create", "update", "addtag"}
      [] pc \in {"target", "source"} -> {"rename"}
      [] pc = "done"               -> Transactions \cup {"merge", "rename", "deltag",
                                                         "delitem", "untag"}

\* The answer of a request is true of database d.
Told(q, d) ==
    CASE q.status = "conflict" -> ~q.committed
      [] q.status = "notfound" ->
             q.committed => q.op.kind = "update" /\ q.op.i \notin DOMAIN d.item
      [] q.status = "error" -> q.op.kind \in {"import", "resize"} => ~q.committed
      [] q.status = "ok" -> \/ q.committed
                            \/ q.op.kind = "delitem" /\ q.op.i \notin DOMAIN d.item

Pcs == {"idle", "read", "lookup", "write", "commit", "statement", "touch", "name",
        "row", "tags", "target", "source", "done"}

RequestStates(items, tags) ==
    [pc : Pcs, op : Ops(items, tags), snap : {"none", "fresh", "stale"},
     committed : BOOLEAN, status : {"none", "ok", "notfound", "conflict", "error"}]

\* A request in state q stands well with database d.
Sound(q, d) ==
    /\ q \in RequestStates(d.seq.item, d.seq.tag)
    /\ q.op.kind \in KindsAt(q.pc)
    /\ q.committed => q.pc \in {"touch", "name", "row", "tags", "done"}
    /\ q.pc \in {"touch", "name", "row", "tags"} => q.committed
    /\ q.pc = "done" => q.status # "none" /\ Told(q, d)
    /\ q.pc = "write" => \/ q.snap = "stale"
                         \/ q.snap = "fresh" /\ Permitted(q.op, d)
                         \/ q.op.kind = "merge"
    /\ q.pc \in {"write", "commit"} /\ q.op.kind = "merge" => q.op.target # 0
    /\ q.pc = "commit" => Permitted(q.op, d) /\ ~Violates(q.op, d)

RInv ==
    /\ DbOK
    /\ req = [r \in Request |-> req[r]]
    /\ writer \in Request \cup {Nobody}
    /\ offered \subseteq (1..db.seq.tag) \X LowerName
    /\ \A r \in Request : Sound(req[r], db) /\ (req[r].pc = "commit" <=> writer = r)

LEMMA OpFacts ==
    ASSUME NEW items, NEW tags, NEW op \in Ops(items, tags)
    PROVE  /\ "kind" \in DOMAIN op
           /\ op.kind = "create" =>
                  op \in [kind : {"create"}, c : Nat, tags : TagLists, i : Nat]
           /\ op.kind = "update" => op \in [kind : {"update"}, i : 1..items, c : Nat]
           /\ op.kind = "delitem" => op \in [kind : {"delitem"}, i : 1..items]
           /\ op.kind = "addtag" => op \in [kind : {"addtag"}, i : Nat, n : LowerName]
           /\ op.kind = "untag" =>
                  op \in [kind : {"untag"}, i : Nat, n : LowerName, t : Nat]
           /\ op.kind = "resize" =>
                  op \in [kind : {"resize"}, size : ResizeTo, name : ResizeNames]
           /\ op.kind = "import" => op \in [kind : {"import"}, b : Backups]
           /\ op.kind = "rename" =>
                  op \in [kind : {"rename"}, t : 1..tags, n : LowerName,
                          target : Nat, source : Nat]
           /\ op.kind = "merge" =>
                  op \in [kind : {"merge"}, t : 1..tags, n : LowerName, target : 0..tags]
BY DEF Ops

LEMMA OpsGrow ==
    ASSUME NEW i \in Nat, NEW j \in Nat, NEW t \in Nat, NEW u \in Nat, i <= j, t <= u
    PROVE  Ops(i, t) \subseteq Ops(j, u) /\ RequestStates(i, t) \subseteq RequestStates(j, u)
<1>1. 1..i \subseteq 1..j /\ 1..t \subseteq 1..u /\ 0..t \subseteq 0..u
  OBVIOUS
<1>2. Ops(i, t) \subseteq Ops(j, u)
  BY <1>1 DEF Ops
<1> QED BY <1>2 DEF RequestStates

\* A step that commits nothing and changes what one request is doing.
LEMMA QuietStep ==
    ASSUME RInv, NEW r \in Request, NEW q, Sound(q, db), UNCHANGED db,
           req' = [req EXCEPT ![r] = q],
           offered' \subseteq (1..db.seq.tag) \X LowerName,
           writer' \in Request \cup {Nobody},
           q.pc = "commit" <=> writer' = r,
           \A s \in Request : s # r => (writer' = s <=> writer = s)
    PROVE  RInv'
<1>1. DbOK'
  BY DEF RInv, DbOK, Columns, Inv!TypeOK, Inv!ForeignKeys, Inv!UniqueKeys,
     Inv!ContainerId, Inv!ItemId, Inv!TagId
<1>2. DOMAIN req = Request
  BY DEF RInv
<1>3. ASSUME NEW s \in Request
      PROVE  Sound(req'[s], db') /\ (req'[s].pc = "commit" <=> writer' = s)
  BY <1>2, <1>3 DEF RInv
<1>4. req' = [s \in Request |-> req'[s]]
  BY <1>2
<1> QED BY <1>1, <1>3, <1>4 DEF RInv

\* The answer of a request that committed nothing at this step.
LEMMA AnswerStep ==
    ASSUME RInv, NEW r \in Request, req[r].pc \notin {"idle", "done"},
           NEW status \in {"ok", "notfound", "conflict", "error"}, Answer(r, status),
           Told([req[r] EXCEPT !.pc = "done", !.snap = "none", !.status = status], db),
           UNCHANGED <<db, offered>>,
           writer' = IF writer = r THEN Nobody ELSE writer
    PROVE  RInv'
<1> DEFINE q == [req[r] EXCEPT !.pc = "done", !.snap = "none", !.status = status]
<1>1. DOMAIN req = Request /\ Sound(req[r], db)
  BY DEF RInv
<1>2. req' = [req EXCEPT ![r] = q]
  BY <1>1 DEF Answer
<1>3. /\ q \in RequestStates(db.seq.item, db.seq.tag)
      /\ q.pc = "done" /\ q.status = status /\ q.op = req[r].op
  BY <1>1 DEF Sound, RequestStates, Pcs
<1>4. q.op.kind \in KindsAt("done")
  BY <1>1, <1>3 DEF Sound, KindsAt, Transactions, RequestStates, Pcs
<1>5. Sound(q, db)
  <2>1. Told(q, db)
    OBVIOUS
  <2> HIDE DEF q
  <2> QED BY <1>3, <1>4, <2>1 DEF Sound
<1> HIDE DEF q
<1>6. /\ writer' \in Request \cup {Nobody} /\ writer' # r
      /\ \A s \in Request : s # r => (writer' = s <=> writer = s)
  BY NobodyAssumption DEF RInv
<1>7. offered' \subseteq (1..db.seq.tag) \X LowerName
  BY DEF RInv
<1> QED BY <1>2, <1>3, <1>5, <1>6, <1>7, QuietStep

\* What the commit of one request means to another.
LEMMA SoundAfterCommit ==
    ASSUME NEW q, NEW d, NEW e, Sound(q, d), q.pc # "commit",
           d.seq.item \in Nat, d.seq.tag \in Nat, e.seq.item \in Nat, e.seq.tag \in Nat,
           d.seq.item <= e.seq.item, d.seq.tag <= e.seq.tag,
           DOMAIN e.item \cap (1..d.seq.item) \subseteq DOMAIN d.item
    PROVE  Sound([q EXCEPT !.snap = IF @ = "fresh" THEN "stale" ELSE @], e)
<1> DEFINE p == [q EXCEPT !.snap = IF @ = "fresh" THEN "stale" ELSE @]
<1>1. /\ p \in RequestStates(d.seq.item, d.seq.tag)
      /\ p.pc = q.pc /\ p.op = q.op /\ p.committed = q.committed /\ p.status = q.status
      /\ p.snap = IF q.snap = "fresh" THEN "stale" ELSE q.snap
  BY DEF Sound, RequestStates
<1>2. p \in RequestStates(e.seq.item, e.seq.tag)
  BY <1>1, OpsGrow
<1>3. q.pc = "done" => Told(p, e)
  <2> SUFFICES ASSUME q.pc = "done" PROVE Told(p, e)
    OBVIOUS
  <2>1. q.op.kind \in {"update", "delitem"} => q.op.i \in 1..d.seq.item
    <3>1. q.op \in Ops(d.seq.item, d.seq.tag)
      BY DEF Sound, RequestStates
    <3> QED BY <3>1, OpFacts
  <2>2. q.status \in {"ok", "notfound", "conflict", "error"} /\ Told(q, d)
    BY DEF Sound, RequestStates
  <2> HIDE DEF p
  <2> QED BY <1>1, <2>1, <2>2 DEF Told
<1> HIDE DEF p
<1>4. Sound(p, e)
  BY <1>1, <1>2, <1>3 DEF Sound
<1> QED BY <1>4 DEF p

\* A step that publishes a new database.
LEMMA PublishStep ==
    ASSUME RInv, NEW r \in Request, NEW new, NEW pc, NEW status,
           Publish(r, new, pc, status), DbOK', UNCHANGED offered, writer' = Nobody,
           writer \in {Nobody, r},
           DOMAIN db'.item \cap (1..db.seq.item) \subseteq DOMAIN db.item,
           db.seq.item <= db'.seq.item, db.seq.tag <= db'.seq.tag,
           \/ pc \in {"touch", "name", "row"} /\ status = "none"
           \/ pc = "done" /\ status = "ok",
           req[r].op.kind \in KindsAt(pc)
    PROVE  RInv'
<1>1. /\ DOMAIN req = Request /\ \A s \in Request : Sound(req[s], db)
      /\ db.seq.item \in Nat /\ db.seq.tag \in Nat
  BY DbFacts DEF RInv
<1>2. db'.seq.item \in Nat /\ db'.seq.tag \in Nat
  BY BoundAssumption DEF DbOK, Inv!TypeOK
<1>3. ASSUME NEW s \in Request, s # r
      PROVE  Sound(req'[s], db') /\ req'[s].pc # "commit"
  <2>1. req[s].pc # "commit"
    BY <1>3, NobodyAssumption DEF RInv
  <2>2. req'[s] = [req[s] EXCEPT !.snap = IF @ = "fresh" THEN "stale" ELSE @]
    BY <1>3 DEF Publish
  <2>3. req'[s].pc = req[s].pc
    BY <1>1, <2>2 DEF Sound, RequestStates
  <2>4. Sound([req[s] EXCEPT !.snap = IF @ = "fresh" THEN "stale" ELSE @], db')
    BY <1>1, <1>2, <2>1, SoundAfterCommit
  <2> QED BY <2>1, <2>2, <2>3, <2>4
<1>4. Sound(req'[r], db') /\ req'[r].pc # "commit"
  <2> DEFINE q == [req[r] EXCEPT !.pc = pc, !.snap = "none", !.committed = TRUE,
                                 !.status = status]
  <2>1. req'[r] = q
    BY DEF Publish
  <2>2. /\ q \in RequestStates(db.seq.item, db.seq.tag)
        /\ q.pc = pc /\ q.status = status /\ q.committed = TRUE /\ q.op = req[r].op
    BY <1>1 DEF Sound, RequestStates, Pcs
  <2>3. q \in RequestStates(db'.seq.item, db'.seq.tag)
    BY <1>1, <1>2, <2>2, OpsGrow
  <2> HIDE DEF q
  <2> QED BY <2>1, <2>2, <2>3 DEF Sound, Told
<1>5. req' = [s \in Request |-> req'[s]]
  BY DEF Publish
<1>6. offered' \subseteq (1..db'.seq.tag) \X LowerName
  <2>1. 1..db.seq.tag \subseteq 1..db'.seq.tag
    BY <1>1, <1>2
  <2> QED BY <2>1 DEF RInv
<1>7. \A s \in Request : writer' # s
  BY NobodyAssumption
<1> QED BY <1>3, <1>4, <1>5, <1>6, <1>7 DEF RInv

-----------------------------------------------------------------------------
(* The steps of a request. *)

\* The writes of a transaction whose checks still hold are the operation that
\* the client asked for.
LEMMA CommitIs ==
    ASSUME DbOK, NEW op \in Ops(db.seq.item, db.seq.tag),
           op.kind \in Transactions \cup {"merge"}, op.kind = "merge" => op.target # 0,
           Permitted(op, db), ~Violates(op, db), db' = After(op, db)
    PROVE  Requested(op) /\ Inv!Next /\ Columns(db')
<1>1. /\ ~(db'.seq.container > MaxContainer) /\ ~(db'.seq.item > MaxItem)
      /\ ~(db'.seq.tag > MaxTag)
      /\ op.kind = "import" => Inv!Insertable(op.b)
      /\ op.kind = "merge" =>
             ((\E p \in db.item_tag : p[2] = op.t) => op.target \in DOMAIN db.tag)
  BY DEF Violates
<1>2. /\ DOMAIN db.container \subseteq Inv!ContainerId /\ DOMAIN db.item \subseteq Inv!ItemId
      /\ db.seq.tag \in Nat
  BY DbFacts DEF DbOK, Inv!TypeOK
<1>3. CASE op.kind = "create"
  <2>1. op.tags \in TagLists /\ op.c \in DOMAIN db.container /\ db' = AfterCreate(db, op.c, op.tags)
    BY <1>3, OpFacts DEF Permitted, After
  <2>2. op.tags \in Seq(LowerName) /\ op.tags # <<>>
    BY <2>1, TagListAssumption
  <2>3. Inv!CreateItem(op.c, Range(op.tags)) /\ Columns(db')
    BY <1>1, <2>1, <2>2, CreateIsCreateItem
  <2>4. Range(op.tags) \in SUBSET LowerName
    BY <2>2 DEF Range
  <2> QED BY <1>2, <1>3, <2>1, <2>3, <2>4 DEF Requested, Inv!Next, Inv!ItemStep
<1>4. CASE op.kind = "update"
  <2>1. op.i \in DOMAIN db.item /\ op.c \in DOMAIN db.container /\ db' = AfterUpdate(db, op.i, op.c)
    BY <1>4 DEF Permitted, After
  <2>2. Inv!UpdateItem(op.i, op.c) /\ Columns(db')
    BY <2>1, UpdateIsUpdateItem
  <2> QED BY <1>2, <1>4, <2>1, <2>2 DEF Requested, Inv!Next, Inv!ItemStep
<1>5. CASE op.kind = "addtag"
  <2>1. op.i \in DOMAIN db.item /\ db' = LinkTag(db, op.i, op.n) /\ op.n \in LowerName
    BY <1>5, OpFacts DEF Permitted, After
  <2>2. Inv!AddTagToItem(op.i, op.n) /\ Columns(db')
    BY <1>1, <2>1, AddTagIsAddTagToItem
  <2> QED BY <1>2, <1>5, <2>1, <2>2 DEF Requested, Inv!Next, Inv!TagStep
<1>6. CASE op.kind = "resize"
  <2>1. /\ op.size \in ResizeTo /\ ~Blocked(db, op.size[1], op.size[2])
        /\ db' = AfterResize(db, op.size[1], op.size[2])
    BY <1>6, OpFacts DEF Permitted, After
  <2>2. op.size[1] \in Nat \ {0} /\ op.size[2] \in Nat
    BY <2>1, GridAssumption
  <2>3. Inv!ResizeShelf(op.size[1], op.size[2]) /\ Columns(db')
    BY <1>1, <2>1, <2>2, ResizeIsResizeShelf
  <2> QED BY <1>6, <2>1, <2>3 DEF Requested, Inv!Next, Inv!ShelfStep
<1>7. CASE op.kind = "import"
  <2>1. op.b \in Backups /\ db' = AfterImport(db, op.b)
    BY <1>7, OpFacts DEF After
  <2>2. Inv!ImportAllData(op.b) /\ Columns(db')
    BY <1>1, <1>7, <2>1, ImportIsImportAllData
  <2> QED BY <1>7, <2>1, <2>2 DEF Requested, Inv!Next, Inv!ShelfStep
<1>8. CASE op.kind = "merge"
  <2>1. /\ op.t \in Inv!TagId /\ op.target \in Inv!TagId
        /\ db' = AfterMerge(db, op.t, op.target)
    BY <1>2, <1>8, OpFacts DEF After, Inv!TagId
  <2>2. Inv!MergeTags(op.t, op.target) /\ Columns(db')
    BY <1>1, <1>8, <2>1, MergeIsMergeTags
  <2> QED BY <1>8, <2>1, <2>2 DEF Requested, Inv!Next, Inv!TagStep
<1> QED BY <1>3, <1>4, <1>5, <1>6, <1>7, <1>8 DEF Transactions

LEMMA ReqFacts ==
    ASSUME RInv, NEW r \in Request
    PROVE  /\ DbOK /\ DOMAIN req = Request /\ Sound(req[r], db)
           /\ req[r] \in RequestStates(db.seq.item, db.seq.tag)
           /\ req[r].op \in Ops(db.seq.item, db.seq.tag)
           /\ req[r].op.kind \in KindsAt(req[r].pc)
           /\ req[r].committed <=> req[r].pc \in {"touch", "name", "row", "tags"}
                                      \/ (req[r].pc = "done" /\ req[r].committed)
           /\ req[r].pc = "commit" <=> writer = r
BY DEF RInv, Sound, RequestStates

\* What a step may do to the committed database: nothing, or what one request
\* asked for and had not done, or the name that its resize brought.
Did ==
    \/ UNCHANGED db
    \/ /\ Inv!Next
       /\ \E r \in Request :
             \/ ~req[r].committed /\ req'[r].committed /\ Requested(req[r].op)
             \/ /\ req[r].pc = "name" /\ req'[r].pc = "done"
                /\ Inv!UpdateShelfName(req[r].op.name = "text")

LEMMA CommitStep ==
    ASSUME RInv, NEW r \in Request, Commit(r)
    PROVE  RInv' /\ Did
<1> DEFINE op == req[r].op
           reads == op.kind \in {"create", "update", "addtag"}
           names == op.kind = "resize" /\ op.name # "kept"
           pc == IF reads THEN "row" ELSE IF names THEN "name" ELSE "done"
           status == IF reads \/ names THEN "none" ELSE "ok"
<1>1. /\ DbOK /\ op \in Ops(db.seq.item, db.seq.tag) /\ writer = r /\ ~req[r].committed
      /\ op.kind \in Transactions \cup {"merge"} /\ (op.kind = "merge" => op.target # 0)
      /\ Permitted(op, db) /\ ~Violates(op, db)
  BY ReqFacts DEF Commit, Sound, KindsAt
<1>2. /\ Publish(r, After(op, db), pc, status) /\ db' = After(op, db) /\ writer' = Nobody
      /\ UNCHANGED offered
  BY DEF Commit, Publish
<1>3. Requested(op) /\ Inv!Next /\ Columns(db')
  <2> HIDE DEF op
  <2> QED BY <1>1, <1>2, CommitIs
<1>4. /\ DbOK' /\ DOMAIN db'.item \cap (1..db.seq.item) \subseteq DOMAIN db.item
      /\ db.seq.item <= db'.seq.item /\ db.seq.tag <= db'.seq.tag
  BY <1>1, <1>3, OperationKeeps
<1>5. /\ \/ pc \in {"touch", "name", "row"} /\ status = "none"
         \/ pc = "done" /\ status = "ok"
      /\ op.kind \in KindsAt(pc)
  BY <1>1 DEF KindsAt, Transactions
<1>6. RInv'
  <2> HIDE DEF pc, status
  <2> QED BY <1>1, <1>2, <1>4, <1>5, PublishStep DEF op
<1>7. req'[r].committed
  <2>1. req'[r] = [req[r] EXCEPT !.pc = pc, !.snap = "none", !.committed = TRUE,
                                 !.status = status]
    BY <1>2 DEF Publish
  <2> HIDE DEF pc, status
  <2> QED BY <2>1, ReqFacts DEF RequestStates
<1> QED BY <1>1, <1>3, <1>6, <1>7 DEF Did

\* A statement of its own that publishes what it wrote.
LEMMA StatementStep ==
    ASSUME RInv, NEW r \in Request, req[r].pc = "statement", writer = Nobody,
           NEW pc, NEW status, Publish(r, db', pc, status), UNCHANGED <<writer, offered>>,
           Requested(req[r].op), Inv!Next, Columns(db'),
           \/ pc = "touch" /\ status = "none" /\ req[r].op.kind = "untag"
           \/ pc = "done" /\ status = "ok"
    PROVE  RInv' /\ Did
<1>1. DbOK /\ ~req[r].committed
  BY ReqFacts
<1>2. /\ DbOK' /\ DOMAIN db'.item \cap (1..db.seq.item) \subseteq DOMAIN db.item
      /\ db.seq.item <= db'.seq.item /\ db.seq.tag <= db'.seq.tag
  BY <1>1, OperationKeeps
<1>3. req[r].op.kind \in KindsAt(pc)
  BY ReqFacts DEF KindsAt, Transactions
<1>4. \/ pc \in {"touch", "name", "row"} /\ status = "none"
      \/ pc = "done" /\ status = "ok"
  OBVIOUS
<1>5. RInv'
  BY <1>2, <1>3, <1>4, PublishStep
<1>6. req'[r].committed
  <2>1. req'[r] = [req[r] EXCEPT !.pc = pc, !.snap = "none", !.committed = TRUE,
                                 !.status = status]
    BY DEF Publish
  <2> QED BY <2>1, ReqFacts DEF RequestStates
<1> QED BY <1>1, <1>5, <1>6 DEF Did

\* An answer without a write, of a request that has committed nothing.
LEMMA RefusalStep ==
    ASSUME RInv, NEW r \in Request, req[r].pc \in {"read", "lookup", "write", "statement"},
           NEW status \in {"notfound", "conflict", "error"}, Answer(r, status),
           UNCHANGED <<db, writer, offered>>
    PROVE  RInv'
<1>1. Told([req[r] EXCEPT !.pc = "done", !.snap = "none", !.status = status], db)
  BY ReqFacts DEF Told, RequestStates
<1>2. writer' = IF writer = r THEN Nobody ELSE writer
  BY ReqFacts
<1> QED BY <1>1, <1>2, AnswerStep

\* The request goes on to state q and holds no lock before or after.
LEMMA OnStep ==
    ASSUME RInv, NEW r \in Request, req[r].pc # "commit",
           NEW op \in Ops(db.seq.item, db.seq.tag), NEW pc \in Pcs \ {"commit", "done"},
           NEW snap \in {"none", "fresh", "stale"},
           req' = [req EXCEPT ![r] = [@ EXCEPT !.op = op, !.pc = pc, !.snap = snap]],
           op.kind \in KindsAt(pc),
           req[r].committed <=> pc \in {"touch", "name", "row", "tags"},
           pc = "write" => IF op.kind = "merge" THEN op.target # 0
                           ELSE snap = "fresh" /\ Permitted(op, db),
           UNCHANGED <<db, writer, offered>>
    PROVE  RInv'
<1> DEFINE q == [req[r] EXCEPT !.op = op, !.pc = pc, !.snap = snap]
<1>1. /\ DOMAIN req = Request /\ req[r] \in RequestStates(db.seq.item, db.seq.tag)
      /\ writer # r
  BY ReqFacts
<1>2. /\ q \in RequestStates(db.seq.item, db.seq.tag)
      /\ q.op = op /\ q.pc = pc /\ q.snap = snap /\ q.committed = req[r].committed
  BY <1>1 DEF RequestStates
<1>3. req' = [req EXCEPT ![r] = q]
  BY <1>1
<1> HIDE DEF q
<1>4. Sound(q, db)
  BY <1>2 DEF Sound, Pcs
<1>5. /\ offered' \subseteq (1..db.seq.tag) \X LowerName
      /\ writer' \in Request \cup {Nobody}
  BY DEF RInv
<1> QED BY <1>1, <1>2, <1>3, <1>4, <1>5, QuietStep

LEMMA AcceptStep ==
    ASSUME RInv, NEW r \in Request, Accept(r)
    PROVE  RInv' /\ Did
<1>1. PICK op \in Asked :
          req' = [req EXCEPT ![r].op = op, ![r].pc = FirstPc(op.kind)]
  BY DEF Accept
<1>2. /\ DbOK /\ DOMAIN req = Request /\ req[r].pc = "idle" /\ ~req[r].committed
      /\ req[r] \in RequestStates(db.seq.item, db.seq.tag)
      /\ offered \subseteq (1..db.seq.tag) \X LowerName
  BY ReqFacts DEF Accept, RInv
<1>3. /\ db.seq.container \in Nat /\ db.seq.item \in Nat /\ db.seq.tag \in Nat
      /\ Inv!ContainerId \subseteq Nat /\ Inv!ItemId = 1..db.seq.item
      /\ Inv!TagId = 1..db.seq.tag
  BY <1>2, DbFacts DEF Inv!ContainerId, Inv!ItemId, Inv!TagId
<1>4. op \in Ops(db.seq.item, db.seq.tag) /\ op.kind \in KindsAt(FirstPc(op.kind))
      /\ FirstPc(op.kind) \in {"read", "lookup", "statement"}
  <2>1. CASE op \in ForceMergeRequest
    <3>1. PICK m \in offered : op = [kind |-> "merge", t |-> m[1], n |-> m[2], target |-> 0]
      BY <2>1 DEF ForceMergeRequest
    <3>2. m[1] \in 1..db.seq.tag /\ m[2] \in LowerName /\ 0 \in 0..db.seq.tag
      BY <1>2, <1>3
    <3> QED BY <3>1, <3>2 DEF Ops, FirstPc, KindsAt
  <2>2. CASE op \in CreateItemRequest
    BY <1>3, <2>2 DEF CreateItemRequest, Ops, FirstPc, KindsAt, Transactions
  <2>3. CASE op \in UpdateItemRequest
    BY <1>3, <2>3 DEF UpdateItemRequest, Ops, FirstPc, KindsAt, Transactions
  <2>4. CASE op \in DeleteItemRequest
    BY <1>3, <2>4 DEF DeleteItemRequest, Ops, FirstPc, KindsAt, Transactions
  <2>5. CASE op \in AddTagRequest
    BY <1>3, <2>5 DEF AddTagRequest, Ops, FirstPc, KindsAt, Transactions
  <2>6. CASE op \in RemoveTagRequest
    BY <1>3, <2>6 DEF RemoveTagRequest, Ops, FirstPc, KindsAt, Transactions
  <2>7. CASE op \in ResizeRequest
    BY <1>3, <2>7 DEF ResizeRequest, Ops, FirstPc, KindsAt, Transactions
  <2>8. CASE op \in ImportRequest
    BY <1>3, <2>8 DEF ImportRequest, Ops, FirstPc, KindsAt, Transactions
  <2>9. CASE op \in DeleteTagRequest
    BY <1>3, <2>9 DEF DeleteTagRequest, Ops, FirstPc, KindsAt, Transactions
  <2>10. CASE op \in RenameTagRequest
    BY <1>3, <2>10 DEF RenameTagRequest, Ops, FirstPc, KindsAt, Transactions
  <2> QED BY <2>1, <2>2, <2>3, <2>4, <2>5, <2>6, <2>7, <2>8, <2>9, <2>10 DEF Asked
<1>5. req' = [req EXCEPT ![r] = [@ EXCEPT !.op = op, !.pc = FirstPc(op.kind),
                                          !.snap = req[r].snap]]
  BY <1>1, <1>2 DEF RequestStates
<1>6. req[r].snap \in {"none", "fresh", "stale"} /\ UNCHANGED <<db, writer, offered>>
  BY <1>2 DEF RequestStates, Accept
<1>7. RInv'
  <2> DEFINE pc == FirstPc(op.kind)
  <2>1. /\ pc \in {"read", "lookup", "statement"} /\ op.kind \in KindsAt(pc)
        /\ req' = [req EXCEPT ![r] = [@ EXCEPT !.op = op, !.pc = pc, !.snap = req[r].snap]]
    BY <1>4, <1>5
  <2> HIDE DEF pc
  <2>2. pc \in Pcs \ {"commit", "done"}
    BY <2>1 DEF Pcs
  <2> QED BY <1>2, <1>4, <1>6, <2>1, <2>2, OnStep
<1> QED BY <1>6, <1>7 DEF Did

LEMMA ReadStep ==
    ASSUME RInv, NEW r \in Request, Read(r)
    PROVE  RInv' /\ Did
<1>1. /\ DOMAIN req = Request /\ req[r].pc = "read" /\ ~req[r].committed
      /\ req[r] \in RequestStates(db.seq.item, db.seq.tag)
      /\ req[r].op \in Ops(db.seq.item, db.seq.tag) /\ req[r].op.kind \in KindsAt("read")
      /\ UNCHANGED <<db, writer, offered>>
  BY ReqFacts DEF Read
<1>2. CASE Permitted(req[r].op, db)
  <2>1. req' = [req EXCEPT ![r] = [@ EXCEPT !.op = req[r].op, !.pc = "write",
                                            !.snap = "fresh"]]
    BY <1>1, <1>2 DEF Read, RequestStates
  <2>2. /\ req[r].op.kind \in KindsAt("write") /\ "write" \in Pcs \ {"commit", "done"}
        /\ req[r].op.kind # "merge"
    BY <1>1 DEF KindsAt, Pcs, Transactions
  <2>3. RInv'
    BY <1>1, <1>2, <2>1, <2>2, OnStep
  <2> QED BY <1>1, <2>3 DEF Did
<1>3. CASE ~Permitted(req[r].op, db)
  <2> DEFINE status == IF req[r].op.kind = "resize" THEN "conflict" ELSE "notfound"
  <2>1. Answer(r, status)
    BY <1>3 DEF Read
  <2>2. status \in {"notfound", "conflict", "error"}
    OBVIOUS
  <2> HIDE DEF status
  <2>3. RInv'
    BY <1>1, <2>1, <2>2, RefusalStep
  <2> QED BY <1>1, <2>3 DEF Did
<1> QED BY <1>2, <1>3

\* The ids under a name were handed out, and there is none if no row has it.
LEMMA IdsFacts ==
    ASSUME DbOK, NEW n
    PROVE  /\ Inv!IdsOf(db.tag, {n}) \subseteq 1..db.seq.tag
           /\ Inv!IdsOf(db.tag, {n}) \subseteq DOMAIN db.tag
BY DbFacts DEF Inv!IdsOf, Numbered

LEMMA FindTargetStep ==
    ASSUME RInv, NEW r \in Request, FindTarget(r)
    PROVE  RInv' /\ Did
<1>1. /\ DOMAIN req = Request /\ req[r].pc = "lookup" /\ ~req[r].committed
      /\ req[r] \in RequestStates(db.seq.item, db.seq.tag)
      /\ req[r].op \in Ops(db.seq.item, db.seq.tag) /\ req[r].op.kind = "merge"
      /\ UNCHANGED <<db, writer, offered>> /\ DbOK
  BY ReqFacts DEF FindTarget
<1>2. ASSUME NEW t \in Inv!IdsOf(db.tag, {req[r].op.n}),
             req' = [req EXCEPT ![r].op.target = t, ![r].pc = "write"]
      PROVE  RInv'
  <2> DEFINE op == [req[r].op EXCEPT !.target = t]
  <2>1. t \in 1..db.seq.tag /\ db.seq.tag \in Nat
    BY <1>1, IdsFacts, DbFacts
  <2>2. op \in Ops(db.seq.item, db.seq.tag) /\ op.kind = "merge" /\ op.target = t
    <3>1. req[r].op \in [kind : {"merge"}, t : 1..db.seq.tag, n : LowerName,
                         target : 0..db.seq.tag]
      BY <1>1, OpFacts
    <3>2. t \in 0..db.seq.tag
      BY <2>1
    <3>3. op \in [kind : {"merge"}, t : 1..db.seq.tag, n : LowerName,
                  target : 0..db.seq.tag] /\ op.kind = "merge" /\ op.target = t
      BY <3>1, <3>2
    <3> QED BY <3>3 DEF Ops
  <2>3. req' = [req EXCEPT ![r] = [@ EXCEPT !.op = op, !.pc = "write",
                                            !.snap = req[r].snap]]
    BY <1>1, <1>2 DEF RequestStates
  <2>4. /\ req[r].snap \in {"none", "fresh", "stale"} /\ op.kind \in KindsAt("write")
        /\ "write" \in Pcs \ {"commit", "done"} /\ t # 0
    BY <1>1, <2>1, <2>2 DEF RequestStates, KindsAt, Pcs
  <2> HIDE DEF op
  <2> QED BY <1>1, <2>2, <2>3, <2>4, OnStep
<1>3. RInv'
  BY <1>1, <1>2, RefusalStep DEF FindTarget
<1> QED BY <1>1, <1>3 DEF Did

LEMMA FindTagStep ==
    ASSUME RInv, NEW r \in Request, FindTag(r)
    PROVE  RInv' /\ Did
<1>1. /\ DOMAIN req = Request /\ req[r].pc = "lookup" /\ ~req[r].committed
      /\ req[r] \in RequestStates(db.seq.item, db.seq.tag)
      /\ req[r].op \in Ops(db.seq.item, db.seq.tag) /\ req[r].op.kind = "untag"
      /\ UNCHANGED <<db, writer, offered>> /\ DbOK
  BY ReqFacts DEF FindTag
<1>2. ASSUME NEW t \in Inv!IdsOf(db.tag, {req[r].op.n}),
             req' = [req EXCEPT ![r].op.t = t, ![r].pc = "statement"]
      PROVE  RInv'
  <2> DEFINE op == [req[r].op EXCEPT !.t = t]
  <2>1. t \in Nat
    <3>1. t \in 1..db.seq.tag /\ db.seq.tag \in Nat
      BY <1>1, IdsFacts, DbFacts
    <3> QED BY <3>1
  <2>2. op \in Ops(db.seq.item, db.seq.tag) /\ op.kind = "untag"
    <3>1. req[r].op \in [kind : {"untag"}, i : Nat, n : LowerName, t : Nat]
      BY <1>1, OpFacts
    <3>2. op \in [kind : {"untag"}, i : Nat, n : LowerName, t : Nat] /\ op.kind = "untag"
      BY <2>1, <3>1
    <3> QED BY <3>2 DEF Ops
  <2>3. req' = [req EXCEPT ![r] = [@ EXCEPT !.op = op, !.pc = "statement",
                                            !.snap = req[r].snap]]
    BY <1>1, <1>2 DEF RequestStates
  <2>4. /\ req[r].snap \in {"none", "fresh", "stale"} /\ op.kind \in KindsAt("statement")
        /\ "statement" \in Pcs \ {"commit", "done"}
    BY <1>1, <2>2 DEF RequestStates, KindsAt, Pcs
  <2> HIDE DEF op
  <2> QED BY <1>1, <2>2, <2>3, <2>4, OnStep
<1>3. RInv'
  BY <1>1, <1>2, RefusalStep DEF FindTag
<1> QED BY <1>1, <1>3 DEF Did

LEMMA FindItemStep ==
    ASSUME RInv, NEW r \in Request, FindItem(r)
    PROVE  RInv' /\ Did
<1>1. /\ DOMAIN req = Request /\ req[r].pc = "lookup" /\ ~req[r].committed
      /\ req[r] \in RequestStates(db.seq.item, db.seq.tag)
      /\ req[r].op \in Ops(db.seq.item, db.seq.tag) /\ req[r].op.kind = "delitem"
      /\ UNCHANGED <<db, writer, offered>>
  BY ReqFacts DEF FindItem
<1>2. ASSUME Step(r, "statement") PROVE RInv'
  <2>1. req' = [req EXCEPT ![r] = [@ EXCEPT !.op = req[r].op, !.pc = "statement",
                                            !.snap = req[r].snap]]
    BY <1>1, <1>2 DEF Step, RequestStates
  <2>2. /\ req[r].snap \in {"none", "fresh", "stale"} /\ req[r].op.kind \in KindsAt("statement")
        /\ "statement" \in Pcs \ {"commit", "done"}
    BY <1>1 DEF RequestStates, KindsAt, Pcs
  <2> QED BY <1>1, <2>1, <2>2, OnStep
<1>3. RInv'
  BY <1>1, <1>2, RefusalStep DEF FindItem
<1> QED BY <1>1, <1>3 DEF Did

LEMMA WriteStep ==
    ASSUME RInv, NEW r \in Request, Write(r)
    PROVE  RInv' /\ Did
<1>1. /\ DOMAIN req = Request /\ req[r].pc = "write" /\ ~req[r].committed
      /\ req[r] \in RequestStates(db.seq.item, db.seq.tag)
      /\ req[r].op \in Ops(db.seq.item, db.seq.tag) /\ req[r].op.kind \in KindsAt("write")
      /\ UNCHANGED <<db, offered>> /\ writer = Nobody /\ DbOK
  BY ReqFacts DEF Write
<1>2. CASE Violates(req[r].op, db)
  <2>1. Answer(r, "error") /\ UNCHANGED writer
    BY <1>2 DEF Write
  <2>2. RInv'
    BY <1>1, <2>1, RefusalStep
  <2> QED BY <1>1, <2>2 DEF Did
<1>3. CASE ~Violates(req[r].op, db)
  <2> DEFINE op == req[r].op
             id == db.seq.item + 1
             new == IF op.kind = "create" THEN [op EXCEPT !.i = id] ELSE op
             q == [req[r] EXCEPT !.pc = "commit", !.op = new]
  <2>1. /\ req' = [req EXCEPT ![r].pc = "commit",
                     ![r].op = IF @.kind = "create" THEN [@ EXCEPT !.i = id] ELSE @]
        /\ writer' = r
    BY <1>3 DEF Write
  <2>2. req' = [req EXCEPT ![r] = q]
    BY <1>1, <2>1 DEF RequestStates
  <2>3. Permitted(op, db) /\ (op.kind = "merge" => op.target # 0)
    <3>1. req[r].snap # "stale" /\ Sound(req[r], db)
      BY ReqFacts DEF Write
    <3>2. op.kind = "merge" => Permitted(op, db)
      BY DEF Permitted
    <3> QED BY <1>1, <3>1, <3>2 DEF Sound
  <2>4. /\ new \in Ops(db.seq.item, db.seq.tag) /\ new.kind = op.kind
        /\ op.kind # "create" => new = op
        /\ op.kind = "create" => new.c = op.c /\ new.tags = op.tags
    <3>1. CASE op.kind = "create"
      <4>1. op \in [kind : {"create"}, c : Nat, tags : TagLists, i : Nat]
        BY <1>1, <3>1, OpFacts
      <4>2. id \in Nat
        BY <1>1, DbFacts
      <4> HIDE DEF id
      <4>3. new \in [kind : {"create"}, c : Nat, tags : TagLists, i : Nat]
            /\ new.kind = "create" /\ new.c = op.c /\ new.tags = op.tags
        BY <3>1, <4>1, <4>2
      <4> HIDE DEF new
      <4> QED BY <3>1, <4>3 DEF Ops
    <3>2. CASE op.kind # "create"
      BY <1>1, <3>2
    <3> QED BY <3>1, <3>2
  <2>5. /\ q \in RequestStates(db.seq.item, db.seq.tag)
        /\ q.pc = "commit" /\ q.op = new /\ q.committed = FALSE
    <3> HIDE DEF new
    <3> QED BY <1>1, <2>4 DEF RequestStates, Pcs
  <2> HIDE DEF new, q, op
  <2>6. Permitted(new, db) /\ ~Violates(new, db)
    <3>1. CASE op.kind = "create"
      <4>1. After(new, db) = After(op, db)
        BY <2>4, <3>1 DEF After
      <4>2. ~Violates(op, db)
        BY <1>3 DEF op
      <4> QED BY <2>3, <2>4, <3>1, <4>1, <4>2 DEF Permitted, Violates
    <3>2. CASE op.kind # "create"
      BY <1>3, <2>3, <2>4, <3>2 DEF op
    <3> QED BY <3>1, <3>2
  <2>7. Sound(q, db)
    <3>1. new.kind \in KindsAt("commit") /\ (new.kind = "merge" => new.target # 0)
      BY <1>1, <2>3, <2>4 DEF KindsAt, op
    <3> QED BY <2>5, <2>6, <3>1 DEF Sound
  <2>8. /\ offered' \subseteq (1..db.seq.tag) \X LowerName
        /\ writer' \in Request \cup {Nobody}
        /\ \A s \in Request : s # r => (writer' = s <=> writer = s)
    BY <1>1, <2>1, NobodyAssumption DEF RInv
  <2>9. RInv'
    BY <1>1, <2>1, <2>2, <2>5, <2>7, <2>8, QuietStep
  <2> QED BY <1>1, <2>9 DEF Did
<1> QED BY <1>2, <1>3

\* An error changes nothing that an import or a resize did.
LEMMA ErrorStep ==
    ASSUME RInv, NEW r \in Request, req[r].pc \notin {"idle", "done", "name"},
           Answer(r, "error"),
           UNCHANGED <<db, offered>>, writer' = IF writer = r THEN Nobody ELSE writer
    PROVE  RInv' /\ Did
<1>1. req[r].committed => req[r].op.kind \in {"untag", "create", "update", "addtag"}
  BY ReqFacts DEF KindsAt
<1>2. Told([req[r] EXCEPT !.pc = "done", !.snap = "none", !.status = "error"], db)
  <2> DEFINE q == [req[r] EXCEPT !.pc = "done", !.snap = "none", !.status = "error"]
  <2>1. q.status = "error" /\ q.op = req[r].op /\ q.committed = req[r].committed
    BY ReqFacts DEF RequestStates
  <2> HIDE DEF q
  <2>2. Told(q, db)
    BY <1>1, <2>1 DEF Told
  <2> QED BY <2>2 DEF q
<1>3. RInv'
  BY <1>2, AnswerStep
<1> QED BY <1>3 DEF Did

\* Nor does the failure of the name, after a resize that was committed.
LEMMA FailedStep ==
    ASSUME RInv, NEW r \in Request, req[r].pc \notin {"idle", "done"}, Failed(r),
           UNCHANGED <<db, offered>>, writer' = IF writer = r THEN Nobody ELSE writer
    PROVE  RInv' /\ Did
<1>1. CASE req[r].pc # "name"
  BY <1>1, ErrorStep DEF Failed
<1>2. CASE req[r].pc = "name"
  <2> DEFINE q == [req[r] EXCEPT !.pc = "done", !.snap = "none", !.status = "ok"]
  <2>1. q.status = "ok" /\ q.committed
    BY <1>2, ReqFacts DEF RequestStates
  <2> HIDE DEF q
  <2>2. Told(q, db)
    BY <2>1 DEF Told
  <2>3. Answer(r, "ok")
    BY <1>2 DEF Failed
  <2>4. RInv'
    BY <1>2, <2>2, <2>3, AnswerStep DEF q
  <2> QED BY <2>4 DEF Did
<1> QED BY <1>1, <1>2

LEMMA BusyStep ==
    ASSUME RInv, NEW r \in Request, Busy(r)
    PROVE  RInv' /\ Did
<1>1. /\ req[r].pc \in {"write", "statement", "touch", "name"} /\ Failed(r)
      /\ UNCHANGED <<db, writer, offered>>
  BY DEF Busy
<1>2. writer' = IF writer = r THEN Nobody ELSE writer
  BY <1>1, ReqFacts
<1> QED BY <1>1, <1>2, FailedStep

LEMMA FailStep ==
    ASSUME RInv, NEW r \in Request, Fail(r)
    PROVE  RInv' /\ Did
BY FailedStep DEF Fail

LEMMA RenameTagStep ==
    ASSUME RInv, NEW r \in Request, RenameTag(r)
    PROVE  RInv' /\ Did
<1> DEFINE op == req[r].op
           others == {db.tag[u] : u \in DOMAIN db.tag \ {op.t}}
<1>1. /\ DOMAIN req = Request /\ req[r].pc = "statement" /\ ~req[r].committed /\ DbOK
      /\ req[r] \in RequestStates(db.seq.item, db.seq.tag)
      /\ op \in Ops(db.seq.item, db.seq.tag) /\ op.kind = "rename"
      /\ UNCHANGED <<writer, offered>> /\ writer = Nobody
  BY ReqFacts DEF RenameTag, Statement
<1>2. CASE op.t \notin DOMAIN db.tag
  <2>1. Answer(r, "error") /\ UNCHANGED db
    BY <1>2 DEF RenameTag
  <2>2. RInv'
    BY <1>1, <2>1, RefusalStep
  <2> QED BY <2>1, <2>2 DEF Did
<1>3. CASE op.t \in DOMAIN db.tag /\ op.n \in others
  <2>1. Step(r, "target") /\ UNCHANGED db
    BY <1>3 DEF RenameTag
  <2>2. req' = [req EXCEPT ![r] = [@ EXCEPT !.op = op, !.pc = "target",
                                            !.snap = req[r].snap]]
    BY <1>1, <2>1 DEF Step, RequestStates
  <2>3. /\ req[r].snap \in {"none", "fresh", "stale"} /\ op.kind \in KindsAt("target")
        /\ "target" \in Pcs \ {"commit", "done"}
    BY <1>1 DEF RequestStates, KindsAt, Pcs
  <2> HIDE DEF op
  <2>4. RInv'
    BY <1>1, <2>1, <2>2, <2>3, OnStep DEF op
  <2> QED BY <2>1, <2>4 DEF Did
<1>4. CASE op.t \in DOMAIN db.tag /\ op.n \notin others
  <2>1. Publish(r, [db EXCEPT !.tag[op.t] = op.n], "done", "ok")
    BY <1>4 DEF RenameTag
  <2>2. db' = [db EXCEPT !.tag[op.t] = op.n] /\ Publish(r, db', "done", "ok")
    BY <2>1 DEF Publish
  <2>3. op.n \in LowerName /\ op.t \in Inv!TagId
    BY <1>1, <1>4, OpFacts DEF DbOK, Inv!TypeOK
  <2>4. Inv!RenameTag(op.t, op.n) /\ Columns(db')
    <3> HIDE DEF op
    <3> QED BY <1>1, <1>4, <2>2, RenameIsRenameTag
  <2>5. Requested(op) /\ Inv!Next
    BY <1>1, <2>3, <2>4 DEF Requested, Inv!Next, Inv!TagStep
  <2> QED BY <1>1, <2>2, <2>4, <2>5, StatementStep
<1> QED BY <1>2, <1>3, <1>4

LEMMA DeleteUnusedTagStep ==
    ASSUME RInv, NEW r \in Request, DeleteUnusedTag(r)
    PROVE  RInv' /\ Did
<1> DEFINE t == req[r].op.t
           unused == t \in DOMAIN db.tag /\ \A p \in db.item_tag : p[2] # t
<1>1. /\ req[r].pc = "statement" /\ req[r].op.kind = "deltag" /\ DbOK
      /\ UNCHANGED <<writer, offered>> /\ writer = Nobody
  BY ReqFacts DEF DeleteUnusedTag, Statement
<1>2. CASE ~unused
  <2>1. Answer(r, "conflict") /\ UNCHANGED db
    BY <1>2 DEF DeleteUnusedTag
  <2>2. RInv'
    BY <1>1, <2>1, RefusalStep
  <2> QED BY <2>1, <2>2 DEF Did
<1>3. CASE unused
  <2>1. Publish(r, DeleteTag(db, t), "done", "ok")
    BY <1>3 DEF DeleteUnusedTag
  <2>2. db' = DeleteTag(db, t) /\ Publish(r, db', "done", "ok")
    BY <2>1 DEF Publish
  <2>3. t \in DOMAIN db.tag /\ t \in Inv!TagId
    BY <1>1, <1>3 DEF DbOK, Inv!TypeOK
  <2>4. Inv!DeleteUnusedTag(t) /\ Columns(db')
    <3>1. \A p \in db.item_tag : p[2] # t
      BY <1>3
    <3> HIDE DEF t
    <3> QED BY <1>1, <2>2, <2>3, <3>1, DeleteTagIsDeleteUnusedTag
  <2>5. Requested(req[r].op) /\ Inv!Next
    BY <1>1, <2>3, <2>4 DEF Requested, Inv!Next, Inv!TagStep
  <2> QED BY <1>1, <2>2, <2>4, <2>5, StatementStep
<1> QED BY <1>2, <1>3

LEMMA DeleteItemStep ==
    ASSUME RInv, NEW r \in Request, DeleteItem(r)
    PROVE  RInv' /\ Did
<1> DEFINE i == req[r].op.i
<1>1. /\ req[r].pc = "statement" /\ req[r].op.kind = "delitem" /\ DbOK
      /\ UNCHANGED <<writer, offered>> /\ writer = Nobody
      /\ req[r] \in RequestStates(db.seq.item, db.seq.tag)
  BY ReqFacts DEF DeleteItem, Statement
<1>2. CASE i \notin DOMAIN db.item
  <2>1. Answer(r, "ok") /\ UNCHANGED db
    BY <1>2 DEF DeleteItem
  <2>2. Told([req[r] EXCEPT !.pc = "done", !.snap = "none", !.status = "ok"], db)
    BY <1>1, <1>2 DEF Told, RequestStates
  <2>3. writer' = IF writer = r THEN Nobody ELSE writer
    BY <1>1
  <2>4. RInv'
    BY <1>1, <2>1, <2>2, <2>3, AnswerStep
  <2> QED BY <2>1, <2>4 DEF Did
<1>3. CASE i \in DOMAIN db.item
  <2>1. Publish(r, DeleteItems(db, {i}), "done", "ok")
    BY <1>3 DEF DeleteItem
  <2>2. db' = DeleteItems(db, {i}) /\ Publish(r, db', "done", "ok")
    BY <2>1 DEF Publish
  <2>3. i \in Inv!ItemId
    BY <1>1, <1>3 DEF DbOK, Inv!TypeOK
  <2>4. Inv!DeleteItem(i) /\ Columns(db')
    <3> HIDE DEF i
    <3> QED BY <1>1, <1>3, <2>2, DeleteIsDeleteItem
  <2>5. Requested(req[r].op) /\ Inv!Next
    BY <1>1, <2>3, <2>4 DEF Requested, Inv!Next, Inv!ItemStep
  <2> QED BY <1>1, <2>2, <2>4, <2>5, StatementStep
<1> QED BY <1>2, <1>3

LEMMA RemoveTagStep ==
    ASSUME RInv, NEW r \in Request, RemoveTag(r)
    PROVE  RInv' /\ Did
<1> DEFINE i == req[r].op.i
           t == req[r].op.t
<1>1. /\ req[r].pc = "statement" /\ req[r].op.kind = "untag" /\ DbOK
      /\ UNCHANGED <<writer, offered>> /\ writer = Nobody
  BY ReqFacts DEF RemoveTag, Statement
<1>2. CASE <<i, t>> \notin db.item_tag
  <2>1. Answer(r, "notfound") /\ UNCHANGED db
    BY <1>2 DEF RemoveTag
  <2>2. RInv'
    BY <1>1, <2>1, RefusalStep
  <2> QED BY <2>1, <2>2 DEF Did
<1>3. CASE <<i, t>> \in db.item_tag
  <2>1. Publish(r, [db EXCEPT !.item_tag = @ \ {<<i, t>>}], "touch", "none")
    BY <1>3 DEF RemoveTag
  <2>2. db' = [db EXCEPT !.item_tag = @ \ {<<i, t>>}] /\ Publish(r, db', "touch", "none")
    BY <2>1 DEF Publish
  <2>3. i \in Inv!ItemId /\ t \in Inv!TagId
    BY <1>1, <1>3 DEF DbOK, Inv!TypeOK
  <2>4. Inv!RemoveTagFromItem(i, t) /\ Columns(db')
    <3> HIDE DEF i, t
    <3> QED BY <1>1, <1>3, <2>2, RemoveIsRemoveTagFromItem
  <2>5. Requested(req[r].op) /\ Inv!Next
    BY <1>1, <2>3, <2>4 DEF Requested, Inv!Next, Inv!TagStep
  <2> QED BY <1>1, <2>2, <2>4, <2>5, StatementStep
<1> QED BY <1>2, <1>3

LEMMA TouchStep ==
    ASSUME RInv, NEW r \in Request, Touch(r)
    PROVE  RInv' /\ Did
<1>1. /\ req[r].pc = "touch" /\ writer = Nobody /\ Publish(r, db, "done", "ok")
      /\ UNCHANGED <<writer, offered>> /\ UNCHANGED db /\ DbOK
  BY ReqFacts DEF Touch, Publish
<1>2. DbOK'
  BY <1>1 DEF DbOK, Columns, Inv!TypeOK, Inv!ForeignKeys, Inv!UniqueKeys,
     Inv!ContainerId, Inv!ItemId, Inv!TagId
<1>3. /\ req[r].op.kind \in KindsAt("done")
      /\ DOMAIN db'.item \cap (1..db.seq.item) \subseteq DOMAIN db.item
      /\ db.seq.item <= db'.seq.item /\ db.seq.tag <= db'.seq.tag
  BY <1>1, DbFacts, ReqFacts DEF KindsAt
<1>4. RInv'
  BY <1>1, <1>2, <1>3, PublishStep
<1> QED BY <1>1, <1>4 DEF Did

LEMMA NameShelfStep ==
    ASSUME RInv, NEW r \in Request, NameShelf(r)
    PROVE  RInv' /\ Did
<1> DEFINE named == req[r].op.name = "text"
<1>1. /\ req[r].pc = "name" /\ writer = Nobody /\ UNCHANGED <<writer, offered>> /\ DbOK
      /\ Publish(r, [db EXCEPT !.shelf.named = named], "done", "ok")
  BY ReqFacts DEF NameShelf
<1>2. db' = [db EXCEPT !.shelf.named = named] /\ named \in BOOLEAN
  BY <1>1 DEF Publish
<1>3. req'[r] = [req[r] EXCEPT !.pc = "done", !.snap = "none", !.committed = TRUE,
                               !.status = "ok"]
  BY <1>1 DEF Publish
<1>4. req'[r].pc = "done"
  BY <1>3, ReqFacts DEF RequestStates
<1> HIDE DEF named
<1>5. Inv!UpdateShelfName(named) /\ Columns(db')
  BY <1>1, <1>2, NameIsUpdateShelfName
<1>6. Inv!Next
  BY <1>2, <1>5 DEF Inv!Next, Inv!ShelfStep
<1>7. /\ DbOK' /\ DOMAIN db'.item \cap (1..db.seq.item) \subseteq DOMAIN db.item
      /\ db.seq.item <= db'.seq.item /\ db.seq.tag <= db'.seq.tag
  BY <1>1, <1>5, <1>6, OperationKeeps
<1>8. req[r].op.kind \in KindsAt("done")
  BY <1>1, ReqFacts DEF KindsAt, Transactions
<1>9. RInv'
  BY <1>1, <1>7, <1>8, PublishStep
<1> QED BY <1>1, <1>4, <1>5, <1>6, <1>9 DEF Did, named

LEMMA GetItemStep ==
    ASSUME RInv, NEW r \in Request, GetItem(r)
    PROVE  RInv' /\ Did
<1>1. /\ DOMAIN req = Request /\ req[r].pc \in {"row", "tags"} /\ req[r].committed
      /\ req[r] \in RequestStates(db.seq.item, db.seq.tag)
      /\ req[r].op \in Ops(db.seq.item, db.seq.tag) /\ req[r].op.kind \in KindsAt("tags")
      /\ UNCHANGED <<db, writer, offered>> /\ writer # r
  BY ReqFacts DEF GetItem, KindsAt
<1>2. writer' = IF writer = r THEN Nobody ELSE writer
  BY <1>1
<1>3. ASSUME Answer(r, "ok") PROVE RInv'
  <2>1. Told([req[r] EXCEPT !.pc = "done", !.snap = "none", !.status = "ok"], db)
    BY <1>1 DEF Told, RequestStates
  <2> QED BY <1>1, <1>2, <1>3, <2>1, AnswerStep
<1>4. ASSUME Answer(r, "notfound"), req[r].op.kind = "update", req[r].op.i \notin DOMAIN db.item
      PROVE  RInv'
  <2>1. Told([req[r] EXCEPT !.pc = "done", !.snap = "none", !.status = "notfound"], db)
    BY <1>1, <1>4 DEF Told, RequestStates
  <2> QED BY <1>1, <1>2, <1>4, <2>1, AnswerStep
<1>5. ASSUME Step(r, "tags") PROVE RInv'
  <2>1. req' = [req EXCEPT ![r] = [@ EXCEPT !.op = req[r].op, !.pc = "tags",
                                            !.snap = req[r].snap]]
    BY <1>1, <1>5 DEF Step, RequestStates
  <2>2. /\ req[r].snap \in {"none", "fresh", "stale"}
        /\ "tags" \in Pcs \ {"commit", "done"}
    BY <1>1 DEF RequestStates, Pcs
  <2> QED BY <1>1, <2>1, <2>2, OnStep
<1>6. RInv'
  BY <1>3, <1>4, <1>5 DEF GetItem
<1> QED BY <1>1, <1>6 DEF Did

LEMMA TagNamedIsId ==
    ASSUME DbOK, NEW n
    PROVE  TagNamed(db, n) \in Nat
<1> DEFINE ids == Inv!IdsOf(db.tag, {n})
<1>1. ids \subseteq 1..db.seq.tag /\ db.seq.tag \in Nat
  BY IdsFacts, DbFacts
<1>2. TagNamed(db, n) = CHOOSE t \in ids \cup {0} : t = 0 => ids = {}
  BY DEF TagNamed
<1> HIDE DEF ids
<1>3. \A t \in ids : t \in Nat /\ t # 0
  BY <1>1
<1>4. \E t \in ids \cup {0} : t = 0 => ids = {}
  <2>1. CASE ids = {}
    BY <2>1
  <2>2. CASE ids # {}
    <3>1. PICK t \in ids : TRUE
      BY <2>2
    <3> QED BY <1>3, <3>1
  <2> QED BY <2>1, <2>2
<1>5. TagNamed(db, n) \in ids \cup {0}
  BY <1>2, <1>4
<1> QED BY <1>3, <1>5

LEMMA FindConflictingStep ==
    ASSUME RInv, NEW r \in Request, FindConflicting(r)
    PROVE  RInv' /\ Did
<1>1. /\ DOMAIN req = Request /\ req[r].pc = "target" /\ ~req[r].committed /\ DbOK
      /\ req[r] \in RequestStates(db.seq.item, db.seq.tag)
      /\ req[r].op \in Ops(db.seq.item, db.seq.tag) /\ req[r].op.kind = "rename"
      /\ UNCHANGED <<db, writer, offered>>
  BY ReqFacts DEF FindConflicting, KindsAt
<1> DEFINE named == TagNamed(db, req[r].op.n)
           op == [req[r].op EXCEPT !.target = named]
<1>2. req' = [req EXCEPT ![r].op.target = named, ![r].pc = "source"]
  BY DEF FindConflicting
<1>3. named \in Nat
  BY <1>1, TagNamedIsId
<1> HIDE DEF named
<1>4. op \in Ops(db.seq.item, db.seq.tag) /\ op.kind = "rename"
  <2>1. req[r].op \in [kind : {"rename"}, t : 1..db.seq.tag, n : LowerName,
                       target : Nat, source : Nat]
    BY <1>1, OpFacts
  <2>2. /\ op \in [kind : {"rename"}, t : 1..db.seq.tag, n : LowerName,
                   target : Nat, source : Nat]
        /\ op.kind = "rename"
    BY <1>3, <2>1
  <2> QED BY <2>2 DEF Ops
<1>5. req' = [req EXCEPT ![r] = [@ EXCEPT !.op = op, !.pc = "source",
                                          !.snap = req[r].snap]]
  BY <1>1, <1>2 DEF RequestStates
<1>6. /\ req[r].snap \in {"none", "fresh", "stale"} /\ op.kind \in KindsAt("source")
      /\ "source" \in Pcs \ {"commit", "done"}
  BY <1>1, <1>4 DEF RequestStates, KindsAt, Pcs
<1> HIDE DEF op
<1>7. RInv'
  BY <1>1, <1>4, <1>5, <1>6, OnStep
<1> QED BY <1>1, <1>7 DEF Did

LEMMA FindSourceStep ==
    ASSUME RInv, NEW r \in Request, FindSource(r)
    PROVE  RInv' /\ Did
<1>1. /\ DOMAIN req = Request /\ req[r].pc = "source" /\ ~req[r].committed /\ DbOK
      /\ req[r] \in RequestStates(db.seq.item, db.seq.tag)
      /\ req[r].op \in Ops(db.seq.item, db.seq.tag) /\ req[r].op.kind = "rename"
      /\ UNCHANGED <<db, writer>> /\ offered' = Offer(offered, req'[r].op)
      /\ offered \subseteq (1..db.seq.tag) \X LowerName /\ writer # r
  BY ReqFacts DEF FindSource, KindsAt, RInv
<1> DEFINE found == IF req[r].op.t \in DOMAIN db.tag THEN req[r].op.t ELSE 0
           op == [req[r].op EXCEPT !.source = found]
           q == [req[r] EXCEPT !.op = op, !.pc = "done", !.status = "conflict"]
<1>2. req' = [req EXCEPT ![r].op.source = found, ![r].pc = "done",
                         ![r].status = "conflict"]
  BY DEF FindSource
<1>3. /\ req[r].op \in [kind : {"rename"}, t : 1..db.seq.tag, n : LowerName,
                        target : Nat, source : Nat]
      /\ db.seq.tag \in Nat
  BY <1>1, OpFacts, DbFacts
<1>4. found \in Nat
  BY <1>3
<1> HIDE DEF found
<1>5. /\ op \in [kind : {"rename"}, t : 1..db.seq.tag, n : LowerName,
                 target : Nat, source : Nat]
      /\ op.kind = "rename" /\ op.t \in 1..db.seq.tag /\ op.n \in LowerName
  BY <1>3, <1>4
<1>6. req' = [req EXCEPT ![r] = q]
  BY <1>1, <1>2 DEF RequestStates
<1> HIDE DEF op
<1>7. op \in Ops(db.seq.item, db.seq.tag)
  BY <1>5 DEF Ops
<1>8. /\ q \in RequestStates(db.seq.item, db.seq.tag) /\ q.op = op
      /\ q.pc = "done" /\ q.status = "conflict" /\ q.committed = FALSE
  BY <1>1, <1>7 DEF RequestStates, Pcs
<1> HIDE DEF q
<1>9. Sound(q, db)
  BY <1>5, <1>8 DEF Sound, Told, KindsAt
<1>10. offered' \subseteq (1..db.seq.tag) \X LowerName
  <2>1. req'[r].op = op
    BY <1>1, <1>6, <1>8
  <2> QED BY <1>1, <1>5, <2>1 DEF Offer
<1>11. writer' \in Request \cup {Nobody}
  BY <1>1 DEF RInv
<1>12. RInv'
  BY <1>1, <1>6, <1>8, <1>9, <1>10, <1>11, QuietStep
<1> QED BY <1>1, <1>12 DEF Did

LEMMA IdleSound == ASSUME DbOK PROVE Sound(Idle, db)
<1>1. [kind |-> "none"] \in Ops(db.seq.item, db.seq.tag)
  BY DEF Ops
<1> QED BY <1>1 DEF Sound, Idle, RequestStates, Pcs, KindsAt

LEMMA ReturnStep ==
    ASSUME RInv, NEW r \in Request, Return(r)
    PROVE  RInv' /\ Did
<1>1. /\ req[r].pc = "done" /\ req' = [req EXCEPT ![r] = Idle] /\ DbOK /\ writer # r
      /\ UNCHANGED <<db, writer, offered>>
      /\ offered \subseteq (1..db.seq.tag) \X LowerName /\ writer \in Request \cup {Nobody}
  BY ReqFacts DEF Return, RInv
<1>2. Sound(Idle, db) /\ Idle.pc = "idle"
  BY <1>1, IdleSound DEF Idle
<1>3. RInv'
  BY <1>1, <1>2, QuietStep
<1> QED BY <1>1, <1>3 DEF Did

\* A restart leaves the committed database, and nothing of the requests.
LEMMA RestartStep ==
    ASSUME RInv, Restart
    PROVE  RInv' /\ Did
<1>1. /\ req' = [r \in Request |-> Idle] /\ writer' = Nobody /\ UNCHANGED <<db, offered>>
      /\ DbOK /\ offered \subseteq (1..db.seq.tag) \X LowerName
  BY DEF Restart, RInv
<1>2. DbOK'
  BY <1>1 DEF DbOK, Columns, Inv!TypeOK, Inv!ForeignKeys, Inv!UniqueKeys,
     Inv!ContainerId, Inv!ItemId, Inv!TagId
<1>3. Sound(Idle, db) /\ Idle.pc = "idle"
  BY <1>1, IdleSound DEF Idle
<1>4. ASSUME NEW r \in Request
      PROVE  Sound(req'[r], db') /\ (req'[r].pc = "commit" <=> writer' = r)
  BY <1>1, <1>3, NobodyAssumption
<1> QED BY <1>1, <1>2, <1>4 DEF RInv, Did

-----------------------------------------------------------------------------
(* The invariant holds, and what follows. *)

LEMMA InitRInv == Init => RInv
<1> SUFFICES ASSUME Init PROVE RInv
  OBVIOUS
<1>1. DbOK
  BY InitialDb DEF Init
<1>2. Sound(Idle, db) /\ Idle.pc = "idle"
  BY <1>1, IdleSound DEF Idle
<1> QED BY <1>1, <1>2, NobodyAssumption DEF Init, RInv

LEMMA NextRInv ==
    ASSUME RInv, [Next]_vars
    PROVE  RInv' /\ Did
<1>1. ASSUME NEW r \in Request, Accept(r) \/ Run(r) \/ Fail(r) \/ Return(r)
      PROVE  RInv' /\ Did
  <2>1. CASE Accept(r)
    BY <2>1, AcceptStep
  <2>2. CASE Read(r)
    BY <2>2, ReadStep
  <2>3. CASE FindTarget(r)
    BY <2>3, FindTargetStep
  <2>4. CASE FindTag(r)
    BY <2>4, FindTagStep
  <2>5. CASE FindItem(r)
    BY <2>5, FindItemStep
  <2>6. CASE Write(r)
    BY <2>6, WriteStep
  <2>7. CASE Busy(r)
    BY <2>7, BusyStep
  <2>8. CASE Commit(r)
    BY <2>8, CommitStep
  <2>9. CASE RenameTag(r)
    BY <2>9, RenameTagStep
  <2>10. CASE DeleteUnusedTag(r)
    BY <2>10, DeleteUnusedTagStep
  <2>11. CASE DeleteItem(r)
    BY <2>11, DeleteItemStep
  <2>12. CASE RemoveTag(r)
    BY <2>12, RemoveTagStep
  <2>13. CASE Touch(r)
    BY <2>13, TouchStep
  <2>19. CASE NameShelf(r)
    BY <2>19, NameShelfStep
  <2>14. CASE GetItem(r)
    BY <2>14, GetItemStep
  <2>15. CASE FindConflicting(r)
    BY <2>15, FindConflictingStep
  <2>16. CASE FindSource(r)
    BY <2>16, FindSourceStep
  <2>17. CASE Fail(r)
    BY <2>17, FailStep
  <2>18. CASE Return(r)
    BY <2>18, ReturnStep
  <2> QED BY <1>1, <2>1, <2>2, <2>3, <2>4, <2>5, <2>6, <2>7, <2>8, <2>9, <2>10, <2>11,
             <2>12, <2>13, <2>14, <2>15, <2>16, <2>17, <2>18, <2>19 DEF Run
<1>2. CASE Restart
  BY <1>2, RestartStep
<1>3. CASE UNCHANGED vars
  <2>1. UNCHANGED <<db, writer, req, offered>>
    BY <1>3 DEF vars
  <2>2. DbOK'
    BY <2>1 DEF RInv, DbOK, Columns, Inv!TypeOK, Inv!ForeignKeys, Inv!UniqueKeys,
       Inv!ContainerId, Inv!ItemId, Inv!TagId
  <2> QED BY <2>1, <2>2 DEF RInv, Did
<1> QED BY <1>1, <1>2, <1>3 DEF Next

LEMMA AlwaysRInv == Spec => []RInv
<1>1. RInv /\ [Next]_vars => RInv'
  BY NextRInv
<1> QED BY InitRInv, <1>1, PTL DEF Spec

\* Each statement, commit, crash and retry of any number of requests leaves
\* the committed database as it was or does one whole operation of the store
\* on it: the interleaving of the handlers' statements implements Inventory.
THEOREM RequestsImplementInventory == Spec => OperationsAreAtomic
<1>1. Init => Inv!Init
  BY SeededIsInit DEF Init
<1>2. RInv /\ [Next]_vars => [Inv!Next]_(Inv!vars)
  <2> SUFFICES ASSUME RInv, [Next]_vars PROVE [Inv!Next]_(Inv!vars)
    OBVIOUS
  <2>1. Did
    BY NextRInv
  <2> QED BY <2>1 DEF Did, Inv!vars
<1> QED BY <1>1, <1>2, AlwaysRInv, PTL DEF Spec, OperationsAreAtomic, Inv!Spec

\* The rows and the state of every request have the types of their columns
\* and fields, and a merge is only ever offered of a tag that existed.
THEOREM RequestsTypeCorrect == Spec => []TypeOK
<1>1. RInv => TypeOK
  <2> SUFFICES ASSUME RInv PROVE TypeOK
    OBVIOUS
  <2>1. 1..db.seq.tag \subseteq 1..MaxTag
    BY BoundAssumption DEF RInv, DbOK, Inv!TypeOK
  <2>2. ASSUME NEW r \in Request
        PROVE  req[r] \in RequestStates(db.seq.item, db.seq.tag)
    BY ReqFacts
  <2> QED BY <2>1, <2>2 DEF RInv, DbOK, TypeOK, RequestStates, Pcs
<1> QED BY <1>1, AlwaysRInv, PTL

\* No association or item outlives the row it refers to, and no name or cell is
\* there twice, whatever the requests interleave and wherever one is cut off.
THEOREM CommittedKeysHold == Spec => [](Inv!ForeignKeys /\ Inv!UniqueKeys)
<1>1. RInv => Inv!ForeignKeys /\ Inv!UniqueKeys
  BY DEF RInv, DbOK
<1> QED BY <1>1, AlwaysRInv, PTL

\* What a transaction found by its SELECTs is still so when it commits, since
\* SQLite refuses the lock to a snapshot that missed a commit.
THEOREM TransactionChecksHold == Spec => []ChecksStillHold
<1>1. RInv => ChecksStillHold
  BY ReqFacts DEF ChecksStillHold, Sound
<1> QED BY <1>1, AlwaysRInv, PTL

\* A 404 or a 409 means that nothing was changed, a failed import or resize
\* changed nothing, and a success was committed.
THEOREM AnswersTrue == Spec => []AnswersAreTrue
<1>1. RInv => AnswersAreTrue
  <2> SUFFICES ASSUME RInv, NEW r \in Request, req[r].pc = "done"
               PROVE  Told(req[r], db)
    BY DEF AnswersAreTrue, Told
  <2> QED BY ReqFacts DEF Sound
<1> QED BY <1>1, AlwaysRInv, PTL

\* The committed database changes only by what one request asked for, on the
\* rows it named or looked up, and once for each request, but for the name that
\* a resize brings, which is committed by a statement of its own.
THEOREM CommitsRequested == Spec => CommitsAreRequested
<1> DEFINE Asking ==
        db' # db => \E r \in Request :
            \/ ~req[r].committed /\ req'[r].committed /\ Requested(req[r].op)
            \/ /\ req[r].pc = "name" /\ req'[r].pc = "done"
               /\ Inv!UpdateShelfName(req[r].op.name = "text")
<1>1. RInv /\ [Next]_vars => [Asking]_vars
  <2> SUFFICES ASSUME RInv, [Next]_vars PROVE Asking
    OBVIOUS
  <2>1. Did
    BY NextRInv
  <2> QED BY <2>1 DEF Did
<1> QED BY <1>1, AlwaysRInv, PTL DEF Spec, CommitsAreRequested

\* The safety half of AllAnswered: no requests wait for each other's lock and no
\* error, answer or restart leaves it behind; its holder need only COMMIT.
THEOREM LockIsReleased == Spec => []HolderCommits
<1>1. RInv => HolderCommits
  BY DEF RInv, HolderCommits
<1> QED BY <1>1, AlwaysRInv, PTL

-----------------------------------------------------------------------------
(* What module InventoryProofs proves of atomic operations, of the database *)
(* that concurrent requests commit to.                                      *)

LEMMA SameNext == Inv!Next <=> P!Next
BY SameActions, SameState DEF Inv!Next, P!Next, Inv!ItemStep, P!ItemStep, Inv!TagStep,
   P!TagStep, Inv!ShelfStep, P!ShelfStep

LEMMA CommittedIsInventory == Spec => P!Spec
<1>1. Inv!Init => P!Init
  BY SameState
<1>2. [Inv!Next]_(Inv!vars) => [P!Next]_(P!vars)
  BY SameNext DEF Inv!vars, P!vars
<1> QED BY <1>1, <1>2, RequestsImplementInventory, PTL
        DEF OperationsAreAtomic, Inv!Spec, P!Spec

LEMMA SameGrid == Inv!GridComplete <=> P!GridComplete
BY DEF Inv!GridComplete, P!GridComplete, Inv!Range, P!Range, Inv!Cells, P!Cells

LEMMA SameBackups ==
    ASSUME NEW b
    PROVE  /\ Inv!CompleteBackup(b) <=> P!CompleteBackup(b)
           /\ Inv!BackupNames(b) = P!BackupNames(b)
BY DEF Inv!CompleteBackup, P!CompleteBackup, Inv!Range, P!Range, Inv!Cells, P!Cells,
   Inv!BackupNames, P!BackupNames

LEMMA SameNamesOn ==
    ASSUME NEW i, NEW pairs, NEW table
    PROVE  Inv!NamesOn(i, pairs, table) = P!NamesOn(i, pairs, table)
BY DEF Inv!NamesOn, P!NamesOn

\* The grid page finds one container for each cell whatever requests resize the
\* shelf, create, move, fail and retry at the same time: only the import of a
\* file that lacks a cell, or has one too many, makes the grid incomplete.
THEOREM RequestsKeepGrid == Spec => Inv!GridKept
<1>1. P!Spec => P!GridKept
  BY SameAssumptions, P!GridIsKept
<1>2. [P!GridComplete => \/ P!GridComplete'
                         \/ \E b \in Backups :
                                P!ImportAllData(b) /\ ~P!CompleteBackup(b)]_(P!vars)
      => [Inv!GridComplete => \/ Inv!GridComplete'
                              \/ \E b \in Backups :
                                     Inv!ImportAllData(b) /\ ~Inv!CompleteBackup(b)]_(Inv!vars)
  <2>1. (Inv!GridComplete <=> P!GridComplete)'
    BY SameGrid, PTL
  <2> QED BY <2>1, SameGrid, SameBackups, SameActions DEF Inv!vars, P!vars
<1> QED BY <1>1, <1>2, CommittedIsInventory, PTL DEF P!GridKept, Inv!GridKept

\* While only complete files are imported, the containers are exactly the cells
\* of the grid after every commit, of whatever mix of concurrent requests.
THEOREM RequestsGridComplete ==
    ASSUME \A b \in Backups : Inv!CompleteBackup(b)
    PROVE  Spec => []Inv!GridComplete
<1>1. \A b \in Backups : P!CompleteBackup(b)
  BY SameBackups
<1>2. P!Spec => []P!GridComplete
  BY <1>1, SameAssumptions, P!GridStaysComplete
<1> QED BY <1>2, CommittedIsInventory, SameGrid, PTL

\* No resize that is answered, retried or raced by creations and moves loses an
\* item, moves one to another position or untags one.
THEOREM RequestsResizeKeeps == Spec => Inv!ResizeKeepsItems
<1>1. P!Spec => P!ResizeKeepsItems
  BY SameAssumptions, P!ResizeLosesNothing
<1> DEFINE Keeps(resize) ==
        resize => /\ DOMAIN db.item' = DOMAIN db.item
                  /\ \A i \in DOMAIN db.item :
                         db.container'[db.item'[i]] = db.container[db.item[i]]
                  /\ db.item_tag' = db.item_tag
<1>2. [\A size \in ResizeTo : Keeps(P!ResizeShelf(size[1], size[2]))]_(P!vars)
      => [\A size \in ResizeTo : Keeps(Inv!ResizeShelf(size[1], size[2]))]_(Inv!vars)
  <2> HIDE DEF Keeps
  <2>1. \A size \in ResizeTo : Inv!ResizeShelf(size[1], size[2])
                                <=> P!ResizeShelf(size[1], size[2])
    BY SameActions
  <2> QED BY <2>1 DEF Inv!vars, P!vars, Keeps
<1> QED BY <1>1, <1>2, CommittedIsInventory, PTL
        DEF P!ResizeKeepsItems, Inv!ResizeKeepsItems

\* A page that was open while others deleted, resized and imported holds ids
\* that find nothing: no commit gives one of them to another row.
THEOREM RequestsReuseNoIds == Spec => Inv!StaleIdsFindNothing
<1>1. P!Spec => P!StaleIdsFindNothing
  BY SameAssumptions, P!IdsNotReused
<1>2. Inv!ContainerId = P!ContainerId /\ Inv!ItemId = P!ItemId /\ Inv!TagId = P!TagId
  BY SameState
<1>3. [/\ DOMAIN db.container' \cap P!ContainerId \subseteq DOMAIN db.container
       /\ DOMAIN db.item' \cap P!ItemId \subseteq DOMAIN db.item
       /\ DOMAIN db.tag' \cap P!TagId \subseteq DOMAIN db.tag]_(P!vars)
      => [/\ DOMAIN db.container' \cap Inv!ContainerId \subseteq DOMAIN db.container
          /\ DOMAIN db.item' \cap Inv!ItemId \subseteq DOMAIN db.item
          /\ DOMAIN db.tag' \cap Inv!TagId \subseteq DOMAIN db.tag]_(Inv!vars)
  BY <1>2 DEF Inv!vars, P!vars
<1> QED BY <1>1, <1>3, CommittedIsInventory, PTL
        DEF P!StaleIdsFindNothing, Inv!StaleIdsFindNothing

\* A merge that is committed replaces the source's name by the target's on every
\* item, also on those that other requests tagged since the page was loaded.
THEOREM RequestsMergeRenames == Spec => Inv!MergeReplacesName
<1>1. P!Spec => P!MergeReplacesName
  BY SameAssumptions, P!MergeIsRenaming
<1>2. [\A source, target \in DOMAIN db.tag :
           source # target /\ P!MergeTags(source, target) =>
               \A i \in DOMAIN db.item :
                   P!NamesOn(i, db.item_tag', db.tag') =
                       {IF n = db.tag[source] THEN db.tag[target] ELSE n :
                            n \in P!NamesOn(i, db.item_tag, db.tag)}]_(P!vars)
      => [\A source, target \in DOMAIN db.tag :
              source # target /\ Inv!MergeTags(source, target) =>
                  \A i \in DOMAIN db.item :
                      Inv!NamesOn(i, db.item_tag', db.tag') =
                          {IF n = db.tag[source] THEN db.tag[target] ELSE n :
                               n \in Inv!NamesOn(i, db.item_tag, db.tag)}]_(Inv!vars)
  <2>1. \A s, t : Inv!MergeTags(s, t) <=> P!MergeTags(s, t)
    BY SameActions
  <2> QED BY <2>1, SameNamesOn DEF Inv!vars, P!vars
<1> QED BY <1>1, <1>2, CommittedIsInventory, PTL
        DEF P!MergeReplacesName, Inv!MergeReplacesName

\* A confirmed import that is committed leaves exactly what the file lists: the
\* shelf, the cells, the items where it lists them and the tags, under new ids,
\* and nothing that requests wrote before or meanwhile.
THEOREM RequestsImportReplaces == Spec => Inv!ImportReplacesAll
<1>1. P!Spec => P!ImportReplacesAll
  BY SameAssumptions, P!ImportIsReplacing
<1>2. [\A b \in Backups : P!ImportAllData(b) =>
           /\ db.shelf' = [rows |-> b.rows, cols |-> b.cols, named |-> b.named]
           /\ DOMAIN db.container' \cap DOMAIN db.container = {}
           /\ DOMAIN db.item' \cap DOMAIN db.item = {}
           /\ DOMAIN db.tag' \cap DOMAIN db.tag = {}
           /\ P!Range(db.container') = P!Range(b.containers)
           /\ P!Range(db.tag') = P!BackupNames(b)
           /\ DOMAIN db.item' = {db.seq.item + k : k \in DOMAIN b.items}
           /\ \A k \in DOMAIN b.items :
                  LET i == db.seq.item + k
                  IN  /\ db.container'[db.item'[i]] = b.containers[b.items[k].at]
                      /\ P!NamesOn(i, db.item_tag', db.tag') = P!Range(b.items[k].tags)]_(P!vars)
      => [\A b \in Backups : Inv!ImportAllData(b) =>
              /\ db.shelf' = [rows |-> b.rows, cols |-> b.cols, named |-> b.named]
              /\ DOMAIN db.container' \cap DOMAIN db.container = {}
              /\ DOMAIN db.item' \cap DOMAIN db.item = {}
              /\ DOMAIN db.tag' \cap DOMAIN db.tag = {}
              /\ Inv!Range(db.container') = Inv!Range(b.containers)
              /\ Inv!Range(db.tag') = Inv!BackupNames(b)
              /\ DOMAIN db.item' = {db.seq.item + k : k \in DOMAIN b.items}
              /\ \A k \in DOMAIN b.items :
                     LET i == db.seq.item + k
                     IN  /\ db.container'[db.item'[i]] = b.containers[b.items[k].at]
                         /\ Inv!NamesOn(i, db.item_tag', db.tag') = Inv!Range(b.items[k].tags)]_(Inv!vars)
  <2>1. \A b : Inv!ImportAllData(b) <=> P!ImportAllData(b)
    BY SameActions
  <2>2. \A f : Inv!Range(f) = P!Range(f)
    BY DEF Inv!Range, P!Range
  <2> QED BY <2>1, <2>2, SameNamesOn, SameBackups DEF Inv!vars, P!vars
<1> QED BY <1>1, <1>2, CommittedIsInventory, PTL
        DEF P!ImportReplacesAll, Inv!ImportReplacesAll

\* No create, tag or rename request brings in a name that the handlers do not
\* lowercase: without a file that holds one, every tag can be removed by name.
THEOREM RequestsNormalizeTags ==
    ASSUME \A b \in Backups : Inv!BackupNames(b) \subseteq LowerName
    PROVE  Spec => []Inv!TagsNormalized
<1>1. \A b \in Backups : P!BackupNames(b) \subseteq LowerName
  BY SameBackups
<1>2. P!Spec => []P!TagsNormalized
  BY <1>1, SameAssumptions, P!NamesStayNormalized
<1>3. P!TagsNormalized => Inv!TagsNormalized
  BY DEF P!TagsNormalized, Inv!TagsNormalized, P!Range, Inv!Range
<1> QED BY <1>2, <1>3, CommittedIsInventory, PTL

=============================================================================
