------------------------------ MODULE Queries ------------------------------
(***************************************************************************)
(* What the store reads from the tables of module Inventory: the grid      *)
(* page, the search, the duplicates and the export, each on one snapshot.  *)
(* An operator is the query with what the Go code around it makes of the   *)
(* rows, and depends on the constraints that Inventory keeps: it joins by  *)
(* ids, groups by keys and indexes by positions.                           *)
(*                                                                         *)
(* The text of names and descriptions is left out: of a query, "hits" is   *)
(* the set of the items whose name or description contains it, any set     *)
(* being possible, and n the name of a tag that equals it.                 *)
(*                                                                         *)
(* Tags are put together with '|' and taken apart again, and filters with  *)
(* ',', though a name may contain either.  A text made of tags is written  *)
(* as what splitting it at '|' gives, which determines it: Pieces[n] for   *)
(* the name n, and the pieces of the names, one after the other, for their *)
(* GROUP_CONCAT.                                                           *)
(***************************************************************************)
EXTENDS Inventory, SequencesExt

CONSTANTS
    ResultLimits,  \* the most results of a search; 50 in the code
    Pieces,        \* a tag's name -> what splitting it at '|' gives
    Terms,         \* a tag to filter by -> what splitting it at ',',
                   \*   trimming and dropping what is empty gives
    FilterLists    \* the lists of tags to filter by, to be joined with ','

ASSUME LimitAssumption == ResultLimits \subseteq Nat \ {0}

Null   == 0    \* no row has this id
NoText == ""   \* the query of a search by tags alone, which all texts contain

\* validateAddTag and its like refuse an empty name (handler.go:166).
ASSUME TextAssumption == NoText \notin LowerName

ASSUME SeparatorAssumption ==
    /\ Pieces \in [TagName -> Seq(STRING) \ {<<>>}]
    /\ Terms \in [DOMAIN Terms -> Seq(STRING)]
    /\ FilterLists \subseteq Seq(DOMAIN Terms)

-----------------------------------------------------------------------------
(* Joins. *)

\* item JOIN container
Placed == {i \in DOMAIN item : item[i] \in DOMAIN container}

\* item_tag JOIN tag, for one item
LinkedTags(i) == {p[2] : p \in {q \in item_tag : q[1] = i /\ q[2] \in DOMAIN tag}}

Position(i) == container[item[i]]

\* item LEFT JOIN item_tag LEFT JOIN tag: a row for each tag, or one with NULL.
TagRows(i) == {i} \X (IF LinkedTags(i) = {} THEN {Null} ELSE LinkedTags(i))

-----------------------------------------------------------------------------
(* The search for a text or tag, or for a text among the items that have   *)
(* all of "tags", a list of terms.                                         *)

\* handleSearch: the filters of the page, joined with ',' and taken apart.
TermsOf(filters) == FlattenSeq([k \in DOMAIN filters |-> Terms[filters[k]]])

\* WHERE ... LIKE ... OR t.name = ...: the rows that are left to be grouped.
TextRows(hits, n) ==
    {row \in UNION {TagRows(i) : i \in Placed} :
        row[1] \in hits \/ (row[2] # Null /\ tag[row[2]] = n)}

\* HAVING COUNT(DISTINCT t.name) = len(tags), AND the text.
FilteredItems(items, hits, n, tags) ==
    {i \in items :
        /\ n = NoText \/ i \in hits
        /\ Cardinality({tag[t] : t \in LinkedTags(i)} \cap Range(tags)) = Len(tags)}

\* Grouped by item.
Matched(hits, n, tags) ==
    IF tags = <<>> THEN {row[1] : row \in TextRows(hits, n)}
    ELSE FilteredItems(Placed, hits, n, tags)

\* Bug: rows are counted, not items.
searchBatchCount_Rows(hits, n, tags) ==
    IF tags = <<>> THEN Cardinality(TextRows(hits, n))
    ELSE Cardinality(FilteredItems(DOMAIN item, hits, n, tags))

\* The second query, which counts what the first did not return.
searchBatchCount(hits, n, tags) ==
    IF tags = <<>> THEN Cardinality({row[1] : row \in TextRows(hits, n)})
    ELSE Cardinality(FilteredItems(DOMAIN item, hits, n, tags))

\* The tags of the rows of the group, or all the tags of the item.
ResultRows(i, hits, n, tags) ==
    IF tags = <<>> THEN {row[2] : row \in {q \in TextRows(hits, n) : q[1] = i /\ q[2] # Null}}
    ELSE LinkedTags(i)

\* Their GROUP_CONCAT, taken apart and without doubles; an empty text is none.
ResultTags(i, hits, n, tags) ==
    LET names == {tag[t] : t \in ResultRows(i, hits, n, tags)}
    IN  IF names = {NoText} THEN {} ELSE UNION {Range(Pieces[m]) : m \in names}

\* Bug: tagsActive the wrong way round.
computeMatchedOn_Swapped(i, found, hits, n, tags) ==
    {why \in {"text", "tag"} :
        /\ n # NoText
        /\ why = "text" => i \in hits
        /\ why = "tag"  => tags # <<>> /\ n \in found}

computeMatchedOn(i, found, hits, n, tags) ==
    {why \in {"text", "tag"} :
        /\ n # NoText
        /\ why = "text" => i \in hits
        /\ why = "tag"  => tags = <<>> /\ n \in found}

Result(i, hits, n, tags) ==
    LET found == ResultTags(i, hits, n, tags)
    IN  [id |-> i, tags |-> found,
         matched_on |-> computeMatchedOn(i, found, hits, n, tags)]

\* ORDER BY c.col, c.row: in any order within a container.
Ordered(ids) ==
    {s \in SetToSeqs(ids) :
        \A j, k \in DOMAIN s : j < k => ~ColumnMajor(Position(s[k]), Position(s[j]))}

\* LIMIT one more than are shown, so as to know whether to count.
SearchItemsBatch(hits, n, tags, limit) ==
    {LET more == Len(ids) > limit
         shown == IF more THEN SubSeq(ids, 1, limit) ELSE ids
     IN  [results |-> [k \in DOMAIN shown |-> Result(shown[k], hits, n, tags)],
          total |-> IF more THEN searchBatchCount(hits, n, tags) ELSE Len(ids)] :
        ids \in Ordered(IF n = NoText /\ tags = <<>> THEN {} ELSE Matched(hits, n, tags))}

-----------------------------------------------------------------------------
(* The grid page. *)

\* Bug: JOIN in place of LEFT JOIN: an empty container is not found.
GetGridData_Inner ==
    [p \in Cells(shelf.rows, shelf.cols) |->
        LET at == {c \in Range(item) : container[c] = p}
            c  == IF at = {} THEN Null ELSE CHOOSE d \in at : TRUE
        IN  [id |-> c, count |-> Cardinality({i \in DOMAIN item : item[i] = c})]]

\* For each cell of the shelf the container at that position, if any, with
\* the number of items in it.
GetGridData ==
    [p \in Cells(shelf.rows, shelf.cols) |->
        LET at == {c \in DOMAIN container : container[c] = p}
            c  == IF at = {} THEN Null ELSE CHOOSE d \in at : TRUE
        IN  [id |-> c, count |-> Cardinality({i \in DOMAIN item : item[i] = c})]]

-----------------------------------------------------------------------------
(* The tags page. *)

\* Bug: JOIN in place of LEFT JOIN: unused tags are not listed.
ListTags_Inner ==
    [t \in {p[2] : p \in item_tag} \cap DOMAIN tag |->
        [name |-> tag[t], count |-> Cardinality({p \in item_tag : p[2] = t})]]

\* Every tag with the number of its associations.
ListTags ==
    [t \in DOMAIN tag |->
        [name |-> tag[t], count |-> Cardinality({p \in item_tag : p[2] = t})]]

-----------------------------------------------------------------------------
(* Duplicates, given the trimmed lowercase name of each item. *)

\* The members of S in an order that is total on S.
InOrder(S, before(_, _)) ==
    CHOOSE s \in SetToSeqs(S) : \A j, k \in DOMAIN s : j < k => before(s[j], s[k])

\* GROUP_CONCAT(t.name, '|').  The ORDER BY beside it orders the one row that
\* results; what it joins comes in the order of the primary key of item_tag.
\* Without tags it is NULL, which COALESCE makes the empty text.
Concatenation(i) ==
    LET ids == InOrder(LinkedTags(i), LAMBDA s, t : s < t)
    IN  IF LinkedTags(i) = {} THEN <<NoText>>
        ELSE FlattenSeq([k \in DOMAIN ids |-> Pieces[tag[ids[k]]]])

Fingerprint(name, i) == <<name[i], Concatenation(i)>>

\* Bug: COUNT(container_id) without DISTINCT.
FindDuplicates_Indistinct(name) ==
    LET group(i) == {j \in DOMAIN item : Fingerprint(name, j) = Fingerprint(name, i)}
    IN  {g \cap Placed : g \in {h \in {group(i) : i \in DOMAIN item} :
                                   Cardinality(h) >= 2}}

\* The groups of at least two containers, as the items found in them.
FindDuplicates(name) ==
    LET group(i) == {j \in DOMAIN item : Fingerprint(name, j) = Fingerprint(name, i)}
    IN  {g \cap Placed : g \in {h \in {group(i) : i \in DOMAIN item} :
                                   Cardinality({item[j] : j \in h}) >= 2}}

-----------------------------------------------------------------------------
(* The export. *)

\* By row, then column.
RowMajor(p, q) == p[2] < q[2] \/ (p[2] = q[2] /\ p[1] < q[1])

IndexOf(s, x) == CHOOSE k \in DOMAIN s : s[k] = x

ContainerList(conts) ==
    InOrder(DOMAIN conts, LAMBDA c, d : RowMajor(conts[c], conts[d]))

\* An item whose container was not found is in no file.  The order by name, of
\* items in a container and of tags on an item, is left out: it is any fixed
\* order here.
ItemList(conts, items) ==
    LET at(i) == IndexOf(ContainerList(conts), items[i])
    IN  InOrder({i \in DOMAIN items : items[i] \in DOMAIN conts},
                LAMBDA i, j : at(i) < at(j) \/ (at(i) = at(j) /\ i < j))

\* The names of tags that are found for an item.
ExportTags(i) ==
    LET ids == SetToSeq(LinkedTags(i)) IN [k \in DOMAIN ids |-> tag[ids[k]]]

\* The file made of the rows that were read: the shelf, the tables of containers
\* and items, and the tags as they are now.
ExportOf(row, conts, items) ==
    LET containers == ContainerList(conts)
        listed == ItemList(conts, items)
    IN  [named |-> row.named, rows |-> row.rows, cols |-> row.cols,
         containers |-> [k \in DOMAIN containers |-> conts[containers[k]]],
         items |-> [k \in DOMAIN listed |->
                       [at |-> IndexOf(containers, items[listed[k]]),
                        tags |-> ExportTags(listed[k])]]]

\* Bug: containers without items are left out.
ExportAllData_EmptyLeftOut ==
    ExportOf(shelf, Restrict(container, Range(item)), item)

\* All read in one snapshot; module ExportImport reads them one by one.
ExportAllData == ExportOf(shelf, container, item)

-----------------------------------------------------------------------------
Queried(Holds(_, _, _, _)) ==
    \A hits \in SUBSET DOMAIN item, filters \in FilterLists, limit \in ResultLimits :
        /\ \A n \in LowerName : Holds(hits, n, filters, limit)
        /\ Holds(DOMAIN item, NoText, filters, limit)

\* README.md:228 and 232: a search finds the items with the text in their name
\* or description or with the tag, and among "ALL selected tags" those that
\* have each of them.  That is so if no selected name contains ',' and none is
\* selected twice; otherwise each part of each name must be a tag of the item,
\* and nothing is found if a part occurs twice.  The results come in the order
\* of the grid, no item twice, none that is left out before one that is shown,
\* with the true number of all, though a second query counts them.
SearchFindsItems ==
    Queried(LAMBDA hits, n, filters, limit :
        LET plain == \A f \in Range(filters) : Terms[f] = <<f>>
            asked == IF plain THEN filters ELSE TermsOf(filters)
            wanted == {i \in DOMAIN item :
                LET names == NamesOn(i, item_tag, tag)
                IN  IF asked = <<>> THEN n # NoText /\ (i \in hits \/ n \in names)
                    ELSE i \in hits /\ IsInjective(asked) /\ Range(asked) \subseteq names}
        IN  \A answer \in SearchItemsBatch(hits, n, TermsOf(filters), limit) :
                LET r == answer.results
                    shown == {r[k].id : k \in DOMAIN r}
                IN  /\ shown \subseteq wanted
                    /\ \A j, k \in DOMAIN r : j < k =>
                          /\ r[j].id # r[k].id
                          /\ ~ColumnMajor(Position(r[k].id), Position(r[j].id))
                    /\ \A i \in wanted \ shown, k \in DOMAIN r :
                          ~ColumnMajor(Position(i), Position(r[k].id))
                    /\ answer.total = Cardinality(wanted)
                    /\ Len(r) = IF answer.total > limit THEN limit ELSE answer.total)

\* store.go:994: "which fields matched the search query".  A result says so, with
\* one exception: an item found by its tag alone whose name contains '|'.  It
\* says "tag" truly if no tag on the item is such a name.
SearchSaysWhy ==
    Queried(LAMBDA hits, n, filters, limit :
        \A answer \in SearchItemsBatch(hits, n, TermsOf(filters), limit) :
            \A k \in DOMAIN answer.results :
                LET r == answer.results[k]
                    names == NamesOn(r.id, item_tag, tag)
                IN  /\ n # NoText /\ r.matched_on = {} =>
                          n \in names /\ Pieces[n] # <<n>>
                    /\ "text" \in r.matched_on <=> n # NoText /\ r.id \in hits
                    /\ (\A m \in names : Pieces[m] = <<m>>) =>
                          ("tag" \in r.matched_on <=> TermsOf(filters) = <<>> /\ n \in names))

\* On a complete grid every cell can take items, and every item is counted in
\* one cell, the one that its container is at.
GridShowsItems ==
    GridComplete =>
        /\ \A p \in DOMAIN GetGridData : GetGridData[p].id # Null
        /\ \A i \in DOMAIN item : GetGridData[Position(i)].id = item[i]
        /\ \A p \in DOMAIN GetGridData :
              GetGridData[p].count = Cardinality({i \in DOMAIN item : Position(i) = p})

\* The tags page counts for each name the items that carry it, and offers to
\* delete exactly those tags that DeleteUnusedTag will delete.
TagsPageIsTrue ==
    /\ {ListTags[t].name : t \in DOMAIN ListTags} = Range(tag)
    /\ \A t \in DOMAIN ListTags :
          ListTags[t].count = Cardinality({i \in DOMAIN item :
                                 ListTags[t].name \in NamesOn(i, item_tag, tag)})
    /\ \A t \in DOMAIN tag :
          ListTags[t].count = 0 <=> Unused(t)

\* A name that GROUP_CONCAT and strings.Split leave as it is.
Plain(n) == n # NoText /\ Pieces[n] = <<n>>

\* store.go:1411-1412: a group of duplicates is "items that share the same
\* normalized name and identical tag set across multiple containers".  Items
\* that do are reported, all of them in one group, wherever renaming, merging
\* and moving have put them.  Those of a group have identical tags if none of
\* the tags contains '|' or is empty; otherwise they may differ.
DuplicatesFound ==
    \A name \in [DOMAIN item -> 1..2] :
        LET names(i) == NamesOn(i, item_tag, tag)
            copies(i) == {j \in DOMAIN item : name[i] = name[j] /\ names(i) = names(j)}
            groups == FindDuplicates(name)
        IN  /\ \A i \in DOMAIN item : (\E j \in copies(i) : item[j] # item[i]) =>
                  \E g \in groups : copies(i) \subseteq g
            /\ \A g \in groups :
                  /\ \E i, j \in g : item[i] # item[j]
                  /\ \A h \in groups \ {g} : g \cap h = {}
                  /\ \A i, j \in g :
                        /\ name[i] = name[j]
                        /\ (\A n \in names(i) \cup names(j) : Plain(n)) =>
                              names(i) = names(j)

\* What handleImportValidate lets through and the constraints then accept.
Importable(b) == Accepted(b) /\ Insertable(b)

\* README.md:236: an export is a "backup": whatever the store has become, the
\* file can be imported again, unless the shelf was given an empty name, and
\* puts as many items with the same tags at the same position, on a grid that
\* is as complete.
ExportIsBackup ==
    LET b == ExportAllData
        Held(p, names) == {i \in DOMAIN item :
            Position(i) = p /\ NamesOn(i, item_tag, tag) = names}
        Listed(p, names) == {k \in DOMAIN b.items :
            b.containers[b.items[k].at] = p /\ Range(b.items[k].tags) = names}
    IN  /\ Importable(b) <=> shelf.named
        /\ [rows |-> b.rows, cols |-> b.cols, named |-> b.named] = shelf
        /\ CompleteBackup(b) <=> GridComplete
        /\ Range(b.containers) = Range(container)
        /\ \A p \in Range(container), names \in SUBSET TagName :
              Cardinality(Listed(p, names)) = Cardinality(Held(p, names))
=============================================================================
