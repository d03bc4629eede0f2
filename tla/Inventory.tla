------------------------------ MODULE Inventory ------------------------------
(***************************************************************************)
(* What the store of screws-box promises: the shelf, its containers, the   *)
(* items in them and the tags on the items, as committed in the database,  *)
(* and one atomic action for every operation that changes them.  Module    *)
(* Requests shows how concurrent HTTP requests carry these actions out.    *)
(*                                                                         *)
(* The tables of internal/store/store.go:46-98 are functions from the id   *)
(* of a row to what the properties need of it; of the shelf's name that is *)
(* whether there is one, and names, descriptions and time stamps of items  *)
(* are left out.                                                           *)
(***************************************************************************)
EXTENDS Integers, Sequences, FiniteSets, Functions

CONSTANTS
    SeedGrid,      \* <<rows, cols>> of the shelf a new database is seeded with
    ResizeTo,      \* the <<rows, cols>> a validated resize request asks for
    TagName,       \* the names a row of table tag may carry
    LowerName,     \* those that a handler's trimming and lowercasing produces
    Backups,       \* the uploaded files that pass handleImportValidate
    MaxContainer,  \* bounds on the ids handed out, so that TLC's state space
    MaxItem,       \*   is finite; SQLite's own bound is 2^63 - 1
    MaxTag

(***************************************************************************)
(* A backup lists its containers and its items in the order of the file;   *)
(* "at" is the index of the container that an item is listed under.        *)
(* Nothing checks that positions are on the grid or names are lowercase.   *)
(***************************************************************************)
Backup == [named : BOOLEAN, rows : Int, cols : Int,
           containers : Seq(Int \X Int),
           items : Seq([at : Nat \ {0}, tags : Seq(TagName)])]

\* What handleImportValidate asks of a file: a name and a size for the shelf.
Accepted(b) == b.named /\ b.rows > 0 /\ b.cols > 0

ASSUME GridAssumption ==
    /\ SeedGrid \in (1..26) \X (1..30)
    /\ ResizeTo \subseteq (1..26) \X (1..30)

\* A handler accepts names of at most 50 bytes (handler.go:135), hence finitely
\* many; the names in a backup may have any length.
ASSUME NameAssumption == LowerName \subseteq TagName /\ IsFiniteSet(LowerName)

ASSUME BackupAssumption ==
    \A b \in Backups :
        /\ b \in Backup /\ Accepted(b)
        /\ \A k \in DOMAIN b.items : b.items[k].at \in DOMAIN b.containers


VARIABLES
    shelf,            \* the one shelf: [rows, cols, and whether it is named]
    container,        \* container id -> <<col, row>>
    item,             \* item id -> id of its container
    tag,              \* tag id -> name
    item_tag,         \* the pairs <<item id, tag id>>
    sqlite_sequence   \* the last id AUTOINCREMENT handed out, per table

vars == <<shelf, container, item, tag, item_tag, sqlite_sequence>>

-----------------------------------------------------------------------------
Cells(rows, cols) == (1..cols) \X (1..rows)

ASSUME BoundAssumption ==
    /\ MaxContainer \in Nat /\ MaxItem \in Nat /\ MaxTag \in Nat
    /\ Cardinality(Cells(SeedGrid[1], SeedGrid[2])) <= MaxContainer

\* The order in which the loops over columns, then rows, visit two cells.
ColumnMajor(p, q) == p[1] < q[1] \/ (p[1] = q[1] /\ p[2] < q[2])

\* Rows inserted one by one after id "last": the ids, each with its value.
Numbering(S, last) == Bijection((last + 1)..(last + Cardinality(S)), S)

InColumnOrder(f) == \A m, n \in DOMAIN f : m < n => ColumnMajor(f[m], f[n])

\* Table f with the rows of g inserted.
Extend(f, g) ==
    [x \in DOMAIN f \cup DOMAIN g |-> IF x \in DOMAIN f THEN f[x] ELSE g[x]]

\* Bug: the foreign_keys pragma is missing from the DSN.
Cascade_Off(pairs, items, tags) == pairs

\* ON DELETE CASCADE from item and from tag to item_tag.
Cascade(pairs, items, tags) == {p \in pairs : p[1] \in items /\ p[2] \in tags}

\* INSERT OR IGNORE INTO tag for each name of a list: the names that are new
\* get ids in the order of the list, which may be any order.
NewNames(names) == names \ Range(tag)

InsertTags(names) ==
    /\ \E new \in Numbering(NewNames(names), sqlite_sequence.tag) :
           tag' = Extend(tag, new)
    /\ sqlite_sequence.tag + Cardinality(NewNames(names)) <= MaxTag

\* The ids under which the names are found, SELECT id FROM tag WHERE name = ?
IdsOf(table, names) == {t \in DOMAIN table : table[t] \in names}

-----------------------------------------------------------------------------
Init ==
    /\ shelf = [rows |-> SeedGrid[1], cols |-> SeedGrid[2], named |-> TRUE]
    /\ container \in {f \in Numbering(Cells(SeedGrid[1], SeedGrid[2]), 0) :
                          InColumnOrder(f)}
    /\ item = <<>>
    /\ tag = <<>>
    /\ item_tag = {}
    /\ sqlite_sequence = [container |-> Cardinality(Range(container)),
                          item |-> 0, tag |-> 0]

\* A new item in container c, tagged with the names (validateCreateItem asks
\* for at least one and normalizes them).
CreateItem(c, names) ==
    LET id == sqlite_sequence.item + 1
    IN  /\ c \in DOMAIN container
        /\ names # {}
        /\ id <= MaxItem
        /\ InsertTags(names)
        /\ item' = Extend(item, [i \in {id} |-> c])
        /\ item_tag' = item_tag \cup ({id} \X IdsOf(tag', names))
        /\ sqlite_sequence' = [sqlite_sequence EXCEPT
               !.item = id, !.tag = @ + Cardinality(NewNames(names))]
        /\ UNCHANGED <<shelf, container>>

\* The item moves to container c.
UpdateItem(i, c) ==
    /\ i \in DOMAIN item
    /\ c \in DOMAIN container
    /\ item' = [item EXCEPT ![i] = c]
    /\ UNCHANGED <<shelf, container, tag, item_tag, sqlite_sequence>>

DeleteItem(i) ==
    /\ i \in DOMAIN item
    /\ item' = Restrict(item, DOMAIN item \ {i})
    /\ item_tag' = Cascade(item_tag, DOMAIN item', DOMAIN tag)
    /\ UNCHANGED <<shelf, container, tag, sqlite_sequence>>

\* Bug: the tag's id is the insert's LastInsertId, 0 when it was ignored.
AddTagToItem_LastInsertId(i, n) ==
    /\ i \in DOMAIN item
    /\ InsertTags({n})
    /\ item_tag' = item_tag \cup
           {<<i, IF NewNames({n}) = {} THEN 0 ELSE sqlite_sequence.tag + 1>>}
    /\ sqlite_sequence' = [sqlite_sequence EXCEPT
           !.tag = @ + Cardinality(NewNames({n}))]
    /\ UNCHANGED <<shelf, container, item>>

AddTagToItem(i, n) ==
    /\ i \in DOMAIN item
    /\ InsertTags({n})
    /\ item_tag' = item_tag \cup ({i} \X IdsOf(tag', {n}))
    /\ sqlite_sequence' = [sqlite_sequence EXCEPT
           !.tag = @ + Cardinality(NewNames({n}))]
    /\ UNCHANGED <<shelf, container, item>>

\* The association goes; the tag stays, orphaned or not.
RemoveTagFromItem(i, t) ==
    /\ <<i, t>> \in item_tag
    /\ item_tag' = item_tag \ {<<i, t>>}
    /\ UNCHANGED <<shelf, container, item, tag, sqlite_sequence>>

\* Bug: the name has no UNIQUE index.
RenameTag_Unchecked(t, n) ==
    /\ t \in DOMAIN tag
    /\ tag' = [tag EXCEPT ![t] = n]
    /\ UNCHANGED <<shelf, container, item, item_tag, sqlite_sequence>>

\* UNIQUE(tag.name) refuses a name that another tag carries.
RenameTag(t, n) ==
    /\ t \in DOMAIN tag
    /\ n \notin {tag[u] : u \in DOMAIN tag \ {t}}
    /\ tag' = [tag EXCEPT ![t] = n]
    /\ UNCHANGED <<shelf, container, item, item_tag, sqlite_sequence>>

\* Bug: the source is deleted without copying its associations.
MergeTags_NoCopy(source, target) ==
    /\ tag' = Restrict(tag, DOMAIN tag \ {source})
    /\ item_tag' = Cascade(item_tag, DOMAIN item, DOMAIN tag')
    /\ UNCHANGED <<shelf, container, item, sqlite_sequence>>

\* Copy the source's associations to the target, delete them, delete the
\* source.  A missing target fails the copy, if there is anything to copy;
\* nothing tells a source from a target that is the same tag.
MergeTags(source, target) ==
    LET carried == {i \in DOMAIN item : <<i, source>> \in item_tag}
    IN  /\ carried # {} => target \in DOMAIN tag
        /\ tag' = Restrict(tag, DOMAIN tag \ {source})
        /\ item_tag' = Cascade(item_tag \cup (carried \X {target}),
                               DOMAIN item, DOMAIN tag')
        /\ UNCHANGED <<shelf, container, item, sqlite_sequence>>

\* What the one DELETE statement asks of the tag that it deletes.
Unused(t) == t \in DOMAIN tag /\ \A p \in item_tag : p[2] # t

DeleteUnusedTag(t) ==
    /\ Unused(t)
    /\ tag' = Restrict(tag, DOMAIN tag \ {t})
    /\ UNCHANGED <<shelf, container, item, item_tag, sqlite_sequence>>

\* Bug: the containers beyond the new edges stay.
ResizeShelf_NeverShrinks(rows, cols) ==
    LET missing == Cells(rows, cols) \ Range(container)
    IN  /\ sqlite_sequence.container + Cardinality(missing) <= MaxContainer
        /\ shelf' = [shelf EXCEPT !.rows = rows, !.cols = cols]
        /\ \E new \in Numbering(missing, sqlite_sequence.container) :
               InColumnOrder(new) /\ container' = Extend(container, new)
        /\ sqlite_sequence' = [sqlite_sequence EXCEPT
               !.container = @ + Cardinality(missing)]
        /\ UNCHANGED <<item, item_tag, tag>>

\* Bug: no look at what is in the containers before they are deleted.
ResizeShelf_Unblocked(rows, cols) ==
    LET kept    == Restrict(container, {c \in DOMAIN container :
                       container[c][1] <= cols /\ container[c][2] <= rows})
        missing == Cells(rows, cols) \ Range(kept)
    IN  /\ sqlite_sequence.container + Cardinality(missing) <= MaxContainer
        /\ shelf' = [shelf EXCEPT !.rows = rows, !.cols = cols]
        /\ \E new \in Numbering(missing, sqlite_sequence.container) :
               InColumnOrder(new) /\ container' = Extend(kept, new)
        /\ item' = Restrict(item, {i \in DOMAIN item : item[i] \in DOMAIN kept})
        /\ item_tag' = Cascade(item_tag, DOMAIN item', DOMAIN tag)
        /\ sqlite_sequence' = [sqlite_sequence EXCEPT
               !.container = @ + Cardinality(missing)]
        /\ UNCHANGED tag

\* Containers beyond the new edges go, with whatever is in them; a resize is
\* refused when that is anything.  Then every missing cell gets a container.
ResizeShelf(rows, cols) ==
    LET outside == {c \in DOMAIN container :
                        container[c][1] > cols \/ container[c][2] > rows}
        kept    == Restrict(container, DOMAIN container \ outside)
        missing == Cells(rows, cols) \ Range(kept)
    IN  /\ Range(item) \cap outside = {}
        /\ sqlite_sequence.container + Cardinality(missing) <= MaxContainer
        /\ shelf' = [shelf EXCEPT !.rows = rows, !.cols = cols]
        /\ \E new \in Numbering(missing, sqlite_sequence.container) :
               InColumnOrder(new) /\ container' = Extend(kept, new)
        /\ item' = Restrict(item, {i \in DOMAIN item : item[i] \notin outside})
        /\ item_tag' = Cascade(item_tag, DOMAIN item', DOMAIN tag)
        /\ sqlite_sequence' = [sqlite_sequence EXCEPT
               !.container = @ + Cardinality(missing)]
        /\ UNCHANGED tag

\* A resize request may bring a name, which may be empty.
UpdateShelfName(named) ==
    /\ shelf' = [shelf EXCEPT !.named = named]
    /\ UNCHANGED <<container, item, tag, item_tag, sqlite_sequence>>

BackupNames(b) == UNION {Range(b.items[k].tags) : k \in DOMAIN b.items}

\* What the UNIQUE(shelf_id, col, row) and PRIMARY KEY(item_id, tag_id)
\* constraints let through; anything else rolls the import back.
Insertable(b) ==
    /\ IsInjective(b.containers)
    /\ \A k \in DOMAIN b.items : IsInjective(b.items[k].tags)

\* Bug: sqlite_sequence is emptied with the tables.
ImportAllData_ReusesIds(b) ==
    LET lastC == 0
        lastI == 0
        lastT == 0
    IN  /\ Insertable(b)
        /\ lastC + Len(b.containers) <= MaxContainer
        /\ lastI + Len(b.items) <= MaxItem
        /\ lastT + Cardinality(BackupNames(b)) <= MaxTag
        /\ shelf' = [rows |-> b.rows, cols |-> b.cols, named |-> b.named]
        /\ container' = [c \in (lastC + 1)..(lastC + Len(b.containers)) |->
                             b.containers[c - lastC]]
        /\ item' = [i \in (lastI + 1)..(lastI + Len(b.items)) |->
                        lastC + b.items[i - lastI].at]
        /\ tag' \in Numbering(BackupNames(b), lastT)
        /\ item_tag' = {p \in (DOMAIN item') \X (DOMAIN tag') :
                            tag'[p[2]] \in Range(b.items[p[1] - lastI].tags)}
        /\ sqlite_sequence' =
               [container |-> lastC + Len(b.containers),
                item |-> lastI + Len(b.items),
                tag |-> lastT + Cardinality(BackupNames(b))]

\* Bug: every item goes to the first container of the file.
ImportAllData_OneContainer(b) ==
    LET lastC == sqlite_sequence.container
        lastI == sqlite_sequence.item
        lastT == sqlite_sequence.tag
    IN  /\ Insertable(b)
        /\ lastC + Len(b.containers) <= MaxContainer
        /\ lastI + Len(b.items) <= MaxItem
        /\ lastT + Cardinality(BackupNames(b)) <= MaxTag
        /\ shelf' = [rows |-> b.rows, cols |-> b.cols, named |-> b.named]
        /\ container' = [c \in (lastC + 1)..(lastC + Len(b.containers)) |->
                             b.containers[c - lastC]]
        /\ item' = [i \in (lastI + 1)..(lastI + Len(b.items)) |->
                        lastC + 1]
        /\ tag' \in Numbering(BackupNames(b), lastT)
        /\ item_tag' = {p \in (DOMAIN item') \X (DOMAIN tag') :
                            tag'[p[2]] \in Range(b.items[p[1] - lastI].tags)}
        /\ sqlite_sequence' =
               [container |-> lastC + Len(b.containers),
                item |-> lastI + Len(b.items),
                tag |-> lastT + Cardinality(BackupNames(b))]

\* Everything is deleted and the file inserted in its place, under new ids.
ImportAllData(b) ==
    LET lastC == sqlite_sequence.container
        lastI == sqlite_sequence.item
        lastT == sqlite_sequence.tag
    IN  /\ Insertable(b)
        /\ lastC + Len(b.containers) <= MaxContainer
        /\ lastI + Len(b.items) <= MaxItem
        /\ lastT + Cardinality(BackupNames(b)) <= MaxTag
        /\ shelf' = [rows |-> b.rows, cols |-> b.cols, named |-> b.named]
        /\ container' = [c \in (lastC + 1)..(lastC + Len(b.containers)) |->
                             b.containers[c - lastC]]
        /\ item' = [i \in (lastI + 1)..(lastI + Len(b.items)) |->
                        lastC + b.items[i - lastI].at]
        /\ tag' \in Numbering(BackupNames(b), lastT)
        /\ item_tag' = {p \in (DOMAIN item') \X (DOMAIN tag') :
                            tag'[p[2]] \in Range(b.items[p[1] - lastI].tags)}
        /\ sqlite_sequence' =
               [container |-> lastC + Len(b.containers),
                item |-> lastI + Len(b.items),
                tag |-> lastT + Cardinality(BackupNames(b))]

-----------------------------------------------------------------------------
\* Clients name rows by the ids they saw, which may be gone by now.
ContainerId == 1..sqlite_sequence.container
ItemId      == 1..sqlite_sequence.item
TagId       == 1..sqlite_sequence.tag

ItemStep ==
    \/ \E c \in ContainerId, names \in SUBSET LowerName : CreateItem(c, names)
    \/ \E i \in ItemId, c \in ContainerId : UpdateItem(i, c)
    \/ \E i \in ItemId : DeleteItem(i)

TagStep ==
    \/ \E i \in ItemId, n \in LowerName : AddTagToItem(i, n)
    \/ \E i \in ItemId, t \in TagId : RemoveTagFromItem(i, t)
    \/ \E t \in TagId, n \in LowerName : RenameTag(t, n)
    \/ \E source, target \in TagId : MergeTags(source, target)
    \/ \E t \in TagId : DeleteUnusedTag(t)

ShelfStep ==
    \/ \E size \in ResizeTo : ResizeShelf(size[1], size[2])
    \/ \E named \in BOOLEAN : UpdateShelfName(named)
    \/ \E b \in Backups : ImportAllData(b)

Next == ItemStep \/ TagStep \/ ShelfStep

Spec == Init /\ [][Next]_vars

-----------------------------------------------------------------------------
\* Every row has an id that was handed out, and the columns their types.
TypeOK ==
    /\ shelf \in [rows : Nat \ {0}, cols : Nat \ {0}, named : BOOLEAN]
    /\ sqlite_sequence \in [container : 0..MaxContainer, item : 0..MaxItem,
                            tag : 0..MaxTag]
    /\ DOMAIN container \subseteq ContainerId
    /\ container \in [DOMAIN container -> Int \X Int]
    /\ DOMAIN item \subseteq ItemId
    /\ item \in [DOMAIN item -> ContainerId]
    /\ DOMAIN tag \subseteq TagId
    /\ tag \in [DOMAIN tag -> TagName]
    /\ item_tag \subseteq ItemId \X TagId

\* No item is in a container that is gone and no association names an item or
\* a tag that is gone, whatever was deleted, merged, resized or imported.
ForeignKeys ==
    /\ Range(item) \subseteq DOMAIN container
    /\ item_tag \subseteq (DOMAIN item) \X (DOMAIN tag)

\* No position has two containers and no name two tags: a container of the
\* old grid never survives into a new one beside its replacement.
UniqueKeys == IsInjective(container) /\ IsInjective(tag)

\* docs/ARCHITECTURE.md:113 of table container: "one per grid cell".  The grid
\* page draws rows x cols cells and finds each one's container by its position.
GridComplete == Range(container) = Cells(shelf.rows, shelf.cols)

CompleteBackup(b) == Range(b.containers) = Cells(b.rows, b.cols)

\* However the grid is resized, no operation but the import of a backup that
\* lacks a cell or has one too many makes it incomplete.
GridKept ==
    [][GridComplete => \/ GridComplete'
                       \/ \E b \in Backups : ImportAllData(b) /\ ~CompleteBackup(b)]_vars

\* An id that is not in use is never used again, so that a request carrying
\* a stale id finds nothing, never another row than the one the client saw.
StaleIdsFindNothing ==
    [][/\ DOMAIN container' \cap ContainerId \subseteq DOMAIN container
       /\ DOMAIN item' \cap ItemId \subseteq DOMAIN item
       /\ DOMAIN tag' \cap TagId \subseteq DOMAIN tag]_vars

\* docs/ARCHITECTURE.md:115 of table tag: "lowercase-normalized labels".  A tag
\* with another name can be neither removed from an item nor filtered by, since
\* the handlers lowercase the name that they are asked for.
TagsNormalized == Range(tag) \subseteq LowerName

NamesOn(i, pairs, table) == {table[p[2]] : p \in {q \in pairs : q[1] = i}}

\* A resize loses no item, moves none to another position and untags none,
\* although deleting containers deletes what is in them.
ResizeKeepsItems ==
    [][\A size \in ResizeTo : ResizeShelf(size[1], size[2]) =>
           /\ DOMAIN item' = DOMAIN item
           /\ \A i \in DOMAIN item : container'[item'[i]] = container[item[i]]
           /\ item_tag' = item_tag]_vars

\* Merging one tag into another leaves every item tagged as if the source's
\* name had been replaced by the target's.
MergeReplacesName ==
    [][\A source, target \in DOMAIN tag :
           source # target /\ MergeTags(source, target) =>
               \A i \in DOMAIN item :
                   LET before == NamesOn(i, item_tag, tag)
                   IN  NamesOn(i, item_tag', tag') =
                           {IF n = tag[source] THEN tag[target] ELSE n :
                                n \in before}]_vars

\* The shelf is never left in the middle of an import: a step that hands a
\* file to the store drops every older container, item and tag, and leaves
\* the shelf, the cells, the items and the tags of the file and no others.
ImportReplacesAll ==
    [][\A b \in Backups : ImportAllData(b) =>
           /\ shelf' = [rows |-> b.rows, cols |-> b.cols, named |-> b.named]
           /\ DOMAIN container' \cap DOMAIN container = {}
           /\ DOMAIN item' \cap DOMAIN item = {}
           /\ DOMAIN tag' \cap DOMAIN tag = {}
           /\ Range(container') = Range(b.containers)
           /\ Range(tag') = BackupNames(b)
           /\ DOMAIN item' = {sqlite_sequence.item + k : k \in DOMAIN b.items}
           /\ \A k \in DOMAIN b.items :
                  LET i == sqlite_sequence.item + k
                  IN  /\ container'[item'[i]] = b.containers[b.items[k].at]
                      /\ NamesOn(i, item_tag', tag') = Range(b.items[k].tags)]_vars
=============================================================================
