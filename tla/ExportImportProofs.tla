------------------------- MODULE ExportImportProofs -------------------------
(***************************************************************************)
(* Proofs about module ExportImport, for any sets of requests and tokens   *)
(* and any files: nobody imports what another is importing, and an export  *)
(* that is read while others change the store can be imported again, if    *)
(* the shelf had a name, and has what they left alone.                     *)
(***************************************************************************)
EXTENDS ExportImport, QueriesProofs

-----------------------------------------------------------------------------
(* A validation is good for one import. *)

LEMMA KeptTokens ==
    ASSUME NEW f, NEW S \in SUBSET DOMAIN f
    PROVE  DOMAIN Restrict(f, S) = S
BY DEF Restrict

LEMMA AddedToken ==
    ASSUME NEW f, NEW t, NEW v
    PROVE  DOMAIN Put(f, t, v) = DOMAIN f \cup {t}
BY DEF Put

\* ConfirmedOnce is inductive: a token is in pendingImports or held by one
\* request, and a new one is neither.
CInv == /\ DOMAIN confirm = Request
        /\ ConfirmedOnce

LEMMA StepKeeps == CInv /\ [ExportNext]_allVars => CInv'
<1> SUFFICES ASSUME CInv, [ExportNext]_allVars PROVE CInv'
  OBVIOUS
<1> USE DEF CInv, ConfirmedOnce
\* Requests may let go of files, and pendingImports of tokens.
<1>1. ASSUME DOMAIN confirm' = Request, DOMAIN pending' \subseteq DOMAIN pending,
             \A r \in Request : confirm'[r] \subseteq confirm[r]
      PROVE  CInv'
  BY <1>1
<1>2. CASE Others \/ ExportStep \/ UNCHANGED allVars
  BY <1>1, <1>2 DEF Others, ExportStep, Began, ReadContainers, ReadItems, ReadTags,
                    allVars, backupVars
<1>3. ASSUME NEW t \in Token, NEW b \in Backups, Validate(t, b) PROVE CInv'
  <2> DEFINE live == {u \in DOMAIN pending : ~pending[u].expired}
             kept == Restrict(pending, live)
  <2>1. DOMAIN kept = live
    BY KeptTokens
  <2>2. /\ pending' = Put(kept, t, [data |-> b, expired |-> FALSE])
        /\ confirm' = confirm
        /\ \A r \in Request : \A c \in confirm[r] : c.token # t
    BY <1>3 DEF Validate
  <2>3. DOMAIN pending' = DOMAIN kept \cup {t}
    BY <2>2, AddedToken
  <2>4. DOMAIN pending' \subseteq DOMAIN pending \cup {t}
    BY <2>1, <2>3
  <2> HIDE DEF live, kept
  <2>5. \A r \in Request : \A c \in confirm[r] : c.token \notin DOMAIN pending'
    BY <2>2, <2>4, Zenon
  <2>6. confirm' = confirm
    BY <2>2
  <2>7. DOMAIN confirm' = Request
    BY <2>6
  <2>8. \A r \in Request : \A c \in confirm'[r] :
            \A s \in Request \ {r} : \A d \in confirm'[s] : d.token # c.token
    BY <2>6
  <2>9. \A r \in Request : \A c \in confirm'[r] : c.token \notin DOMAIN pending'
    BY <2>5, <2>6
  <2> QED
    BY <2>7, <2>8, <2>9
<1>4. ASSUME NEW t \in Token, Expire(t) PROVE CInv'
  BY <1>1, <1>4 DEF Expire
<1>5. ASSUME NEW r \in Request, NEW t \in Token, Take(r, t) PROVE CInv'
  <2>1. DOMAIN pending' = DOMAIN pending \ {t}
    BY <1>5, KeptTokens DEF Take
  <2>2. /\ \A x \in Request \ {r} : confirm'[x] = confirm[x]
        /\ \A c \in confirm'[r] : c.token = t
        /\ DOMAIN confirm' = Request
    BY <1>5 DEF Take
  <2>3. \A x \in Request : \A c \in confirm[x] : c.token # t
    BY <1>5 DEF Take
  <2> QED
    BY <2>1, <2>2, <2>3
<1>6. ASSUME NEW r \in Request, Import(r) \/ Fail(r) PROVE CInv'
  BY <1>1, <1>6 DEF Import, Fail
<1>7. CASE Restart
  BY <1>7 DEF Restart
<1> QED
  BY <1>2, <1>3, <1>4, <1>5, <1>6, <1>7 DEF ExportNext, ImportStep

\* A validation is good for one import: while a request holds the file of a
\* token, no other request can have or get it.
THEOREM TokensConfirmedOnce == ExportSpec => []ConfirmedOnce
<1>1. ExportInit => CInv
  BY DEF ExportInit, CInv, ConfirmedOnce
<1>2. CInv => ConfirmedOnce
  BY DEF CInv
<1> QED
  BY <1>1, <1>2, StepKeeps, PTL DEF ExportSpec
-----------------------------------------------------------------------------
(* The store under the other requests is the one of module Inventory. *)

\* A file that a request holds was validated, and is held alone.
PInv ==
    /\ DOMAIN pending \subseteq Token
    /\ \A t \in DOMAIN pending : pending[t] \in [data : Backups, expired : BOOLEAN]
    /\ DOMAIN confirm = Request
    /\ \A r \in Request :
           confirm[r] = {} \/ \E c \in [token : Token, data : Backups] : confirm[r] = {c}

LEMMA InitPInv == ExportInit => PInv
BY DEF ExportInit, PInv

LEMMA StepPInv == PInv /\ [ExportNext]_allVars => PInv'
<1> SUFFICES ASSUME PInv, [ExportNext]_allVars PROVE PInv'
  OBVIOUS
\* Requests may let go of files.
<1>1. ASSUME DOMAIN confirm' = Request, pending' = pending,
             \A r \in Request : confirm'[r] = confirm[r] \/ confirm'[r] = {}
      PROVE  PInv'
  <2>1. \A r \in Request : confirm'[r] = {}
            \/ \E c \in [token : Token, data : Backups] : confirm'[r] = {c}
    BY <1>1 DEF PInv
  <2> QED BY <1>1, <2>1 DEF PInv
<1>2. CASE Others \/ ExportStep \/ UNCHANGED allVars
  <2>1. pending' = pending /\ confirm' = confirm
    BY <1>2 DEF Others, ExportStep, Began, ReadContainers, ReadItems, ReadTags,
                allVars, backupVars
  <2> QED BY <1>1, <2>1 DEF PInv
<1>3. ASSUME NEW t \in Token, NEW b \in Backups, Validate(t, b) PROVE PInv'
  <2> DEFINE live == {u \in DOMAIN pending : ~pending[u].expired}
             kept == Restrict(pending, live)
             new == [data |-> b, expired |-> FALSE]
  <2>1. DOMAIN kept = live /\ \A u \in live : kept[u] = pending[u]
    BY DEF Restrict
  <2>2. pending' = Put(kept, t, new) /\ confirm' = confirm
    BY <1>3 DEF Validate
  <2>3. new \in [data : Backups, expired : BOOLEAN]
    OBVIOUS
  <2>4. \A u \in live : u \in DOMAIN pending
    OBVIOUS
  <2> HIDE DEF live, kept, new
  <2>5. DOMAIN pending' = live \cup {t}
        /\ \A u \in DOMAIN pending' : pending'[u] = IF u = t THEN new ELSE kept[u]
    BY <2>1, <2>2 DEF Put
  <2>6. \A u \in DOMAIN pending' : pending'[u] \in [data : Backups, expired : BOOLEAN]
    BY <2>1, <2>3, <2>4, <2>5 DEF PInv
  <2>7. DOMAIN pending' \subseteq Token
    BY <2>4, <2>5 DEF PInv
  <2> QED BY <2>2, <2>6, <2>7 DEF PInv
<1>4. ASSUME NEW t \in Token, Expire(t) PROVE PInv'
  <2>1. /\ DOMAIN pending' = DOMAIN pending /\ confirm' = confirm
        /\ \A u \in DOMAIN pending :
               pending'[u] = IF u = t THEN [pending[t] EXCEPT !.expired = TRUE]
                             ELSE pending[u]
    BY <1>4 DEF Expire
  <2>2. [pending[t] EXCEPT !.expired = TRUE] \in [data : Backups, expired : BOOLEAN]
    BY <1>4 DEF PInv, Expire
  <2>3. \A u \in DOMAIN pending' : pending'[u] \in [data : Backups, expired : BOOLEAN]
    BY <2>1, <2>2 DEF PInv
  <2> QED BY <2>1, <2>3 DEF PInv
<1>5. ASSUME NEW r \in Request, NEW t \in Token, Take(r, t) PROVE PInv'
  <2> DEFINE c == [token |-> t, data |-> pending[t].data]
  <2>1. /\ t \in DOMAIN pending /\ pending' = Restrict(pending, DOMAIN pending \ {t})
        /\ DOMAIN confirm' = Request
        /\ \A x \in Request \ {r} : confirm'[x] = confirm[x]
        /\ confirm'[r] = {} \/ confirm'[r] = {c}
    BY <1>5 DEF Take, PInv
  <2>2. c \in [token : Token, data : Backups]
    BY <2>1 DEF PInv
  <2> HIDE DEF c
  <2>3. \A x \in Request : confirm'[x] = {}
            \/ \E d \in [token : Token, data : Backups] : confirm'[x] = {d}
    BY <2>1, <2>2 DEF PInv
  <2>4. /\ DOMAIN pending' \subseteq DOMAIN pending
        /\ \A u \in DOMAIN pending' : pending'[u] = pending[u]
    BY <2>1 DEF Restrict
  <2> QED BY <2>1, <2>3, <2>4 DEF PInv
<1>6. ASSUME NEW r \in Request, Import(r) \/ Fail(r) PROVE PInv'
  <2>1. pending' = pending /\ confirm' = [confirm EXCEPT ![r] = {}]
    BY <1>6 DEF Import, Fail
  <2>2. DOMAIN confirm' = Request
        /\ \A x \in Request : confirm'[x] = confirm[x] \/ confirm'[x] = {}
    BY <2>1 DEF PInv
  <2> QED BY <1>1, <2>1, <2>2
<1>7. CASE Restart
  BY <1>7 DEF Restart, PInv
<1> QED
  BY <1>2, <1>3, <1>4, <1>5, <1>6, <1>7 DEF ExportNext, ImportStep

\* Exporting and validating leave the tables alone, and a confirmed import is
\* one of the store's.
LEMMA StoreSteps ==
    ASSUME PInv, [ExportNext]_allVars
    PROVE  [Next]_vars
<1>1. CASE Others
  BY <1>1 DEF Others, Next, ShelfStep
<1>2. ASSUME NEW r \in Request, Import(r) PROVE Next
  <2>1. PICK c \in confirm[r] : ImportAllData(c.data)
    BY <1>2 DEF Import
  <2>2. c.data \in Backups
    BY DEF PInv
  <2> QED BY <2>1, <2>2 DEF Next, ShelfStep
<1>3. ASSUME NEW r \in Request, Fail(r) PROVE UNCHANGED vars
  BY <1>3 DEF Fail
<1>4. CASE ExportStep
  BY <1>4 DEF ExportStep, Began, ReadContainers, ReadItems, ReadTags
<1>5. ASSUME NEW t \in Token, NEW b \in Backups, Validate(t, b) PROVE UNCHANGED vars
  BY <1>5 DEF Validate
<1>6. ASSUME NEW t \in Token, Expire(t) PROVE UNCHANGED vars
  BY <1>6 DEF Expire
<1>7. ASSUME NEW r \in Request, NEW t \in Token, Take(r, t) PROVE UNCHANGED vars
  BY <1>7 DEF Take
<1>8. CASE Restart
  BY <1>8 DEF Restart
<1>9. CASE UNCHANGED allVars
  BY <1>9 DEF allVars
<1> QED
  BY <1>1, <1>2, <1>3, <1>4, <1>5, <1>6, <1>7, <1>8, <1>9 DEF ExportNext, ImportStep

\* handleImportConfirm and ExportAllData implement the store: whatever requests
\* confirm and export, the tables change as in module Inventory.
THEOREM ExportsImplementInventory == ExportSpec => Spec
<1>1. ExportInit => Init
  BY DEF ExportInit
<1>2. PInv /\ [ExportNext]_allVars => [Next]_vars
  BY StoreSteps
<1> QED BY <1>1, <1>2, InitPInv, StepPInv, PTL DEF ExportSpec, Spec

-----------------------------------------------------------------------------
(* An export, statement by statement. *)

\* A container that is still there is where it was: none moves, and the id of
\* one that is gone is not used again.
LEMMA SamePlace ==
    ASSUME IInv, Next
    PROVE  /\ ContainerId \subseteq ContainerId'
           /\ \A c \in DOMAIN container' \cap ContainerId :
                  c \in DOMAIN container /\ container'[c] = container[c]
<1>1. sqlite_sequence.container \in Nat
      /\ DOMAIN container \subseteq ContainerId
  BY StateFacts DEF IInv, TypeOK
<1>2. ASSUME container' = container, sqlite_sequence'.container = sqlite_sequence.container
      PROVE  /\ ContainerId \subseteq ContainerId'
             /\ \A c \in DOMAIN container' \cap ContainerId :
                    c \in DOMAIN container /\ container'[c] = container[c]
  BY <1>2 DEF ContainerId
<1>3. CASE ItemStep \/ TagStep
  <2>1. container' = container /\ sqlite_sequence'.container = sqlite_sequence.container
    BY <1>3, StateFacts DEF ItemStep, TagStep, CreateItem, UpdateItem, DeleteItem,
       AddTagToItem, RemoveTagFromItem, RenameTag, MergeTags, DeleteUnusedTag
  <2> QED BY <1>2, <2>1
<1>4. ASSUME NEW size \in ResizeTo, ResizeShelf(size[1], size[2])
      PROVE  /\ ContainerId \subseteq ContainerId'
             /\ \A c \in DOMAIN container' \cap ContainerId :
                    c \in DOMAIN container /\ container'[c] = container[c]
  <2> DEFINE rows == size[1]
             cols == size[2]
             outside == {c \in DOMAIN container :
                            container[c][1] > cols \/ container[c][2] > rows}
             missing == Cells(rows, cols) \
                            Range(Restrict(container, DOMAIN container \ outside))
  <2>1. rows \in Nat \ {0} /\ cols \in Nat \ {0} /\ ResizeShelf(rows, cols)
    BY <1>4, GridAssumption
  <2>2. sqlite_sequence'.container = sqlite_sequence.container + Cardinality(missing)
    BY <1>1, <2>1, StateFacts DEF ResizeShelf
  <2> HIDE DEF rows, cols
  <2>3. Cardinality(missing) \in Nat
    <3>1. missing \in SUBSET Cells(rows, cols)
      OBVIOUS
    <3> HIDE DEF missing
    <3>2. IsFiniteSet(missing)
      BY <2>1, <3>1, CellsFacts, FS_Subset
    <3> QED BY <3>2, FS_CardinalityType
  <2>4. ContainerId \subseteq ContainerId'
    <3> HIDE DEF missing
    <3> QED BY <1>1, <2>2, <2>3 DEF ContainerId
  <2>5. /\ DOMAIN container' \cap ContainerId = DOMAIN container \ outside
        /\ \A c \in DOMAIN container \ outside : container'[c] = container[c]
    BY <2>1, ResizeFacts
  <2> QED BY <2>4, <2>5
<1>5. CASE \E named \in BOOLEAN : UpdateShelfName(named)
  BY <1>2, <1>5 DEF UpdateShelfName
<1>6. ASSUME NEW b \in Backups, ImportAllData(b)
      PROVE  /\ ContainerId \subseteq ContainerId'
             /\ DOMAIN container' \cap ContainerId = {}
  <2>1. Len(b.containers) \in Nat
    BY BackupFacts
  <2>2. /\ sqlite_sequence'.container = sqlite_sequence.container + Len(b.containers)
        /\ DOMAIN container' = (sqlite_sequence.container + 1)..
               (sqlite_sequence.container + Len(b.containers))
    BY <1>6 DEF ImportAllData
  <2> QED BY <1>1, <2>1, <2>2 DEF ContainerId
<1> QED BY <1>3, <1>4, <1>5, <1>6 DEF Next, ShelfStep

\* The container of an item that stays where it is stays where it is.
LEMMA StillPlaced ==
    ASSUME IInv, IInv', Next, NEW i \in DOMAIN item, i \in DOMAIN item', item'[i] = item[i]
    PROVE  container'[item[i]] = container[item[i]]
<1>1. item[i] \in ContainerId
  BY DEF IInv, TypeOK
<1>2. item'[i] \in DOMAIN container'
  BY DEF IInv, ForeignKeys, Range
<1> QED BY <1>1, <1>2, SamePlace

\* The containers that were read and are still there are where they were.
Agrees(conts) ==
    /\ DOMAIN conts \subseteq ContainerId
    /\ \A c \in DOMAIN conts \cap DOMAIN container : conts[c] = container[c]

\* What has been read is a table as it was committed, and agrees with the tables
\* of now on what nobody has touched.
XInv ==
    /\ export = [pc |-> export.pc, shelf |-> export.shelf,
                 containers |-> export.containers, items |-> export.items,
                 still |-> export.still, grid |-> export.grid]
    /\ export.pc \in {"idle", "containers", "items", "tags"}
    /\ export.pc = "idle" => export.still = {}
    /\ export.still \subseteq DOMAIN item
    /\ export.pc # "idle" =>
           export.shelf \in [rows : Nat \ {0}, cols : Nat \ {0}, named : BOOLEAN]
    /\ export.pc \in {"items", "tags"} =>
           /\ IsContainers(export.containers)
           /\ Agrees(export.containers)
           /\ \A i \in export.still :
                  /\ item[i] \in DOMAIN export.containers
                  /\ export.containers[item[i]] = Position(i)
    /\ export.pc = "tags" =>
           /\ IsItems(export.items)
           /\ \A i \in export.still :
                  i \in DOMAIN export.items /\ export.items[i] = item[i]
    /\ export.pc # "idle" /\ export.grid =>
           /\ export.shelf = shelf
           /\ export.pc # "containers" => export.containers = container

LEMMA InitXInv == ExportInit => XInv
BY DEF ExportInit, NoExport, XInv

\* A step of the store: what stays in "still" is as it was.
LEMMA WatchXInv ==
    ASSUME IInv, IInv', XInv, Next, Watch
    PROVE  XInv'
<1> DEFINE S == export.still
<1>1. CASE export.pc = "idle"
  BY <1>1 DEF Watch, XInv
<1>2. CASE export.pc # "idle"
  <2> DEFINE stay == {i \in S : Unmoved(i)}
             whole == export.grid /\ shelf' = shelf /\ container' = container
  <2>1. export' = [pc |-> export.pc, shelf |-> export.shelf,
                   containers |-> export.containers, items |-> export.items,
                   still |-> stay, grid |-> whole]
    <3>1. export' = [export EXCEPT !.still = stay, !.grid = whole]
      BY <1>2 DEF Watch
    <3> HIDE DEF stay, whole
    <3> QED BY <3>1 DEF XInv
  <2>2. /\ export'.pc = export.pc /\ export'.shelf = export.shelf
        /\ export'.containers = export.containers /\ export'.items = export.items
        /\ export'.still = stay /\ export'.grid = whole
    <3> HIDE DEF stay, whole
    <3> QED BY <2>1
  <2>3. ASSUME NEW i \in stay
        PROVE  /\ i \in S /\ i \in DOMAIN item /\ i \in DOMAIN item' /\ item'[i] = item[i]
               /\ Position(i)' = Position(i)
    <3>1. i \in S /\ i \in DOMAIN item /\ i \in DOMAIN item' /\ item'[i] = item[i]
      BY DEF Unmoved, XInv
    <3>2. container'[item[i]] = container[item[i]]
      BY <3>1, StillPlaced
    <3> QED BY <3>1, <3>2 DEF Position
  <2> HIDE DEF stay
  <2>4. stay \subseteq DOMAIN item'
    BY <2>3
  <2>5. ASSUME export.pc \in {"items", "tags"}
        PROVE  /\ IsContainers(export.containers)
               /\ Agrees(export.containers)'
               /\ \A i \in stay : /\ item'[i] \in DOMAIN export.containers
                                  /\ export.containers[item'[i]] = Position(i)'
    <3>1. Agrees(export.containers)
      BY <2>5 DEF XInv
    <3>2. \A c \in DOMAIN export.containers \cap DOMAIN container' :
              export.containers[c] = container'[c]
      BY <3>1, SamePlace DEF Agrees
    <3>3. DOMAIN export.containers \subseteq ContainerId'
      BY <3>1, SamePlace DEF Agrees
    <3>4. Agrees(export.containers)'
      BY <2>2, <3>2, <3>3 DEF Agrees
    <3> QED BY <2>3, <2>5, <3>4 DEF XInv
  <2>6. ASSUME export.pc = "tags"
        PROVE  /\ IsItems(export.items)
               /\ \A i \in stay : i \in DOMAIN export.items /\ export.items[i] = item'[i]
    BY <2>3, <2>6 DEF XInv
  <2>7. ASSUME whole
        PROVE  /\ export.shelf = shelf'
               /\ export.pc # "containers" => export.containers = container'
    BY <1>2, <2>7 DEF XInv
  <2>8. export'.pc \in {"idle", "containers", "items", "tags"} /\ export'.pc # "idle"
    BY <1>2, <2>2 DEF XInv
  <2>9. export' = [pc |-> export'.pc, shelf |-> export'.shelf,
                   containers |-> export'.containers, items |-> export'.items,
                   still |-> export'.still, grid |-> export'.grid]
    BY <2>1, <2>2
  <2> HIDE DEF whole
  <2>10. export'.pc \in {"items", "tags"} =>
           /\ IsContainers(export'.containers)
           /\ Agrees(export.containers)'
           /\ \A i \in export'.still :
                  /\ item'[i] \in DOMAIN export'.containers
                  /\ export'.containers[item'[i]] = Position(i)'
    BY <2>2, <2>5
  <2>11. export'.pc = "tags" =>
           /\ IsItems(export'.items)
           /\ \A i \in export'.still : i \in DOMAIN export'.items /\ export'.items[i] = item'[i]
    BY <2>2, <2>6
  <2>12. export'.pc # "idle" /\ export'.grid =>
           /\ export'.shelf = shelf'
           /\ export'.pc # "containers" => export'.containers = container'
    BY <2>2, <2>7
  <2>13. export'.pc # "idle" =>
             export'.shelf \in [rows : Nat \ {0}, cols : Nat \ {0}, named : BOOLEAN]
    BY <1>2, <2>2 DEF XInv
  <2> QED
    BY <2>2, <2>4, <2>8, <2>9, <2>10, <2>11, <2>12, <2>13 DEF XInv, IsContainers, IsItems
<1> QED BY <1>1, <1>2

\* A statement reads one committed table.
LEMMA ExportStepXInv ==
    ASSUME IInv, XInv, ExportStep
    PROVE  XInv'
<1> USE DEF XInv
<1>1. /\ shelf' = shelf /\ container' = container /\ item' = item
      /\ \A i : Position(i)' = Position(i)
      /\ ContainerId' = ContainerId
  <2>1. vars' = vars
    BY DEF ExportStep, Began, ReadContainers, ReadItems, ReadTags
  <2>2. /\ shelf' = shelf /\ container' = container /\ item' = item
        /\ sqlite_sequence' = sqlite_sequence
    BY <2>1 DEF vars
  <2> QED BY <2>2 DEF Position, ContainerId
<1>2. /\ IsContainers(container) /\ IsItems(item)
      /\ \A i \in DOMAIN item : item[i] \in DOMAIN container
      /\ DOMAIN container \subseteq ContainerId
      /\ shelf \in [rows : Nat \ {0}, cols : Nat \ {0}, named : BOOLEAN]
  BY CommittedListable, Positions DEF IInv, TypeOK
<1>3. CASE Began
  <2>1. export' = [pc |-> "containers", shelf |-> shelf, containers |-> <<>>,
                   items |-> <<>>, still |-> DOMAIN item, grid |-> TRUE]
    BY <1>3 DEF Began, NoExport
  <2>2. /\ export'.pc = "containers" /\ export'.shelf = shelf
        /\ export'.still = DOMAIN item /\ export'.grid = TRUE
        /\ export' = [pc |-> export'.pc, shelf |-> export'.shelf,
                      containers |-> export'.containers, items |-> export'.items,
                      still |-> export'.still, grid |-> export'.grid]
    BY <2>1
  <2> QED BY <1>1, <1>2, <2>2
<1>4. CASE ReadContainers
  <2>1. export.pc = "containers"
        /\ export' = [pc |-> "items", shelf |-> export.shelf,
                      containers |-> container, items |-> export.items,
                      still |-> export.still, grid |-> export.grid]
    BY <1>4 DEF ReadContainers
  <2>2. \A i \in export.still : item[i] \in DOMAIN container /\ container[item[i]] = Position(i)
    BY <1>2 DEF Position
  <2>3. DOMAIN container' \subseteq ContainerId'
    BY <1>1, <1>2
  <2>4. /\ export'.pc = "items" /\ export'.containers = container
        /\ export'.still = export.still /\ export'.shelf = export.shelf
        /\ export'.grid = export.grid /\ container' = container
    BY <1>1, <2>1
  <2>5. Agrees(export.containers)'
    BY <2>3, <2>4 DEF Agrees
  <2>6. export' = [pc |-> export'.pc, shelf |-> export'.shelf,
                   containers |-> export'.containers, items |-> export'.items,
                   still |-> export'.still, grid |-> export'.grid]
    BY <2>1
  <2>7. IsContainers(export.containers)'
    BY <1>2, <2>4 DEF IsContainers
  <2>8. \A i \in export'.still : /\ item'[i] \in DOMAIN export'.containers
                                 /\ export'.containers[item'[i]] = Position(i)'
    BY <1>1, <2>2, <2>4
  <2> QED BY <1>1, <2>1, <2>4, <2>5, <2>6, <2>7, <2>8
<1>5. CASE ReadItems
  <2>1. export.pc = "items"
        /\ export' = [pc |-> "tags", shelf |-> export.shelf,
                      containers |-> export.containers, items |-> item,
                      still |-> export.still, grid |-> export.grid]
    BY <1>5 DEF ReadItems
  <2> QED BY <1>1, <1>2, <2>1 DEF IsContainers, IsItems, Agrees
<1>6. CASE ReadTags
  <2>1. export' = [pc |-> "idle", shelf |-> [rows |-> 0, cols |-> 0, named |-> FALSE],
                   containers |-> <<>>, items |-> <<>>, still |-> {}, grid |-> FALSE]
    BY <1>6 DEF ReadTags, NoExport
  <2> QED BY <1>1, <2>1
<1> QED BY <1>3, <1>4, <1>5, <1>6 DEF ExportStep

LEMMA StepXInv == IInv /\ IInv' /\ PInv /\ XInv /\ [ExportNext]_allVars => XInv'
<1> SUFFICES ASSUME IInv, IInv', PInv, XInv, [ExportNext]_allVars PROVE XInv'
  OBVIOUS
<1>1. ASSUME vars' = vars, export' = export PROVE XInv'
  <2>1. /\ shelf' = shelf /\ container' = container /\ item' = item
        /\ sqlite_sequence' = sqlite_sequence
    BY <1>1 DEF vars
  <2> QED BY <1>1, <2>1 DEF XInv, Position, Agrees, ContainerId
<1>2. CASE Others
  <2>1. Next /\ Watch
    BY <1>2 DEF Others, Next, ShelfStep
  <2> QED BY <2>1, WatchXInv
<1>3. ASSUME NEW r \in Request, Import(r) PROVE XInv'
  <2>1. PICK c \in confirm[r] : ImportAllData(c.data)
    BY <1>3 DEF Import
  <2>2. c.data \in Backups
    BY DEF PInv
  <2>3. Next /\ Watch
    BY <1>3, <2>1, <2>2 DEF Import, Next, ShelfStep
  <2> QED BY <2>3, WatchXInv
<1>4. CASE ExportStep
  BY <1>4, ExportStepXInv
<1>5. CASE Restart
  <2>1. /\ export' = [pc |-> "idle", shelf |-> [rows |-> 0, cols |-> 0, named |-> FALSE],
                      containers |-> <<>>, items |-> <<>>, still |-> {}, grid |-> FALSE]
        /\ item' = item
    BY <1>5 DEF Restart, NoExport, vars
  <2> QED BY <2>1 DEF XInv
<1>6. ASSUME NEW t \in Token, NEW b \in Backups, Validate(t, b) PROVE XInv'
  BY <1>1, <1>6 DEF Validate, vars
<1>7. ASSUME NEW t \in Token, Expire(t) PROVE XInv'
  BY <1>1, <1>7 DEF Expire, vars
<1>8. ASSUME NEW r \in Request, NEW t \in Token, Take(r, t) PROVE XInv'
  BY <1>1, <1>8 DEF Take, vars
<1>9. ASSUME NEW r \in Request, Fail(r) PROVE XInv'
  BY <1>1, <1>9 DEF Fail, vars
<1>10. CASE UNCHANGED allVars
  BY <1>1, <1>10 DEF allVars, backupVars, vars
<1> QED
  BY <1>2, <1>3, <1>4, <1>5, <1>6, <1>7, <1>8, <1>9, <1>10 DEF ExportNext, ImportStep

\* The inductive invariant of exports and imports.
EInv == IInv /\ PInv /\ XInv

LEMMA AlwaysEInv == ExportSpec => []EInv
<1>1. ExportInit => EInv
  BY InitInv, InitPInv, InitXInv DEF ExportInit, EInv
<1>2. EInv /\ [ExportNext]_allVars => EInv'
  <2> SUFFICES ASSUME EInv, [ExportNext]_allVars PROVE EInv'
    OBVIOUS
  <2>1. IInv /\ PInv /\ XInv
    BY DEF EInv
  <2>2. PInv'
    BY <2>1, StepPInv
  <2>3. IInv'
    BY <2>1, StoreSteps, NextInv
  <2>4. XInv'
    BY <2>1, <2>3, StepXInv
  <2> QED BY <2>2, <2>3, <2>4 DEF EInv
<1> QED BY <1>1, <1>2, PTL DEF ExportSpec

\* Each goroutine took at most one validated file out of pendingImports.
THEOREM ExportTypeCorrect == ExportSpec => []ExportTypeOK
<1>1. EInv => ExportTypeOK
  <2> SUFFICES ASSUME EInv PROVE ExportTypeOK
    OBVIOUS
  <2>1. export.pc \in {"idle", "containers", "items", "tags"}
        /\ export.still \subseteq ItemId
    BY DEF EInv, XInv, IInv, TypeOK
  <2>2. ASSUME NEW r \in Request
        PROVE  confirm[r] \subseteq [token : Token, data : Backups]
               /\ Cardinality(confirm[r]) <= 1
    <3>1. CASE confirm[r] = {}
      BY <3>1, FS_EmptySet
    <3>2. CASE confirm[r] # {}
      <4>1. PICK c \in [token : Token, data : Backups] : confirm[r] = {c}
        BY <3>2 DEF EInv, PInv
      <4>2. Cardinality(confirm[r]) = 1
        BY <4>1, FS_Singleton
      <4> QED BY <4>1, <4>2
    <3> QED BY <3>1, <3>2
  <2> QED BY <2>1, <2>2 DEF EInv, PInv, ExportTypeOK
<1> QED BY <1>1, AlwaysEInv, PTL

\* The file that is being written, if the last statement has yet to run.
LEMMA ExportedFacts ==
    ASSUME EInv, export.pc = "tags"
    PROVE  IsExport(Exported, export.shelf, export.containers, export.items,
                    ItemList(export.containers, export.items))
<1>1. IsContainers(export.containers) /\ IsItems(export.items)
  BY DEF EInv, XInv
<1> QED BY <1>1, ExportFacts DEF Exported

\* The import's checks let it through if and only if the shelf that was read had
\* a name.
LEMMA ExportImportable ==
    ASSUME EInv, export.pc = "tags"
    PROVE  Importable(Exported) <=> export.shelf.named
<1> DEFINE b == Exported
<1>1. IsExport(b, export.shelf, export.containers, export.items,
               ItemList(export.containers, export.items))
  BY ExportedFacts
<1>2. IInv /\ export.shelf \in [rows : Nat \ {0}, cols : Nat \ {0}, named : BOOLEAN]
  BY DEF EInv, XInv
<1> HIDE DEF b
<1>3. Insertable(b)
  BY <1>1, <1>2, ExportInsertable
<1>4. /\ b.rows = export.shelf.rows /\ b.cols = export.shelf.cols
      /\ b.named = export.shelf.named
  BY <1>1 DEF IsExport
<1>5. export.shelf.rows > 0 /\ export.shelf.cols > 0
  BY <1>2
<1> QED BY <1>3, <1>4, <1>5 DEF b, Importable, Accepted

\* Items that were read in the container where they are now, and the container
\* at its position, are listed once each, there and with their tags.
LEMMA ReadIsListed ==
    ASSUME EInv, export.pc = "tags", NEW S,
           \A i \in S : /\ item[i] \in DOMAIN export.containers
                        /\ export.containers[item[i]] = Position(i)
                        /\ i \in DOMAIN export.items /\ export.items[i] = item[i],
           NEW p, NEW names
    PROVE  Cardinality({i \in S : Position(i) = p /\ NamesOn(i, item_tag, tag) = names})
               <= Cardinality(Entries(Exported, p, names))
<1> DEFINE b == Exported
           I == ItemList(export.containers, export.items)
           H == {i \in S : Position(i) = p /\ NamesOn(i, item_tag, tag) = names}
           E == Entries(b, p, names)
           place(i) == CHOOSE k \in DOMAIN I : I[k] = i
           f == [i \in H |-> place(i)]
<1>1. IsExport(b, export.shelf, export.containers, export.items, I)
  BY ExportedFacts
<1> HIDE DEF b, I
<1>2. ASSUME NEW k \in DOMAIN I
      PROVE  /\ k \in DOMAIN b.items
             /\ b.containers[b.items[k].at] = export.containers[export.items[I[k]]]
             /\ Range(b.items[k].tags) = NamesOn(I[k], item_tag, tag)
  BY <1>1, ExportTagsFacts DEF IsExport, EInv
<1>3. ASSUME NEW i \in H PROVE place(i) \in DOMAIN I /\ I[place(i)] = i
  <2>1. i \in Listable(export.containers, export.items)
    BY DEF Listable
  <2>2. \E k \in DOMAIN I : I[k] = i
    BY <1>1, <2>1 DEF IsExport, Range
  <2> QED BY <2>2
<1>4. ASSUME NEW i \in H PROVE place(i) \in E
  <2> DEFINE k == place(i)
  <2>1. k \in DOMAIN I /\ I[k] = i
    BY <1>3
  <2> HIDE DEF k
  <2>2. /\ k \in DOMAIN b.items
        /\ b.containers[b.items[k].at] = export.containers[export.items[i]]
        /\ Range(b.items[k].tags) = NamesOn(i, item_tag, tag)
    BY <1>2, <2>1
  <2>3. /\ export.containers[export.items[i]] = p
        /\ NamesOn(i, item_tag, tag) = names
    OBVIOUS
  <2>4. k \in E
    BY <2>2, <2>3 DEF Entries
  <2> QED BY <2>4 DEF k
<1> HIDE DEF H, E, place
<1>5. f \in Injection(H, E)
  <2>1. f \in [H -> E]
    BY <1>4
  <2>2. IsInjective(f)
    BY <1>3 DEF IsInjective
  <2> QED BY <2>1, <2>2 DEF Injection
<1>6. IsFiniteSet(E)
  <2>1. E \subseteq DOMAIN I
    BY <1>1 DEF E, Entries, IsExport
  <2> QED BY <1>1, <2>1, FS_Subset DEF IsExport
<1> HIDE DEF f
<1>7. Cardinality(H) <= Cardinality(E)
  BY <1>5, <1>6, FS_Injection
<1> QED BY <1>7 DEF H, E, b

\* ExportAllData, read in four statements while items move, tags are merged or
\* the grid is resized: the file can be imported if and only if the shelf had a
\* name when it was read, and lists every item that is still in the container
\* it was read in, at that container's place and with the tags it has now.
THEOREM TornExportsAreTrue == ExportSpec => []TornFileIsTrue
<1>1. EInv => TornFileIsTrue
  <2> SUFFICES ASSUME EInv, export.pc = "tags" PROVE TornFileIsTrue
    BY DEF TornFileIsTrue
  <2> DEFINE b == Exported
             S == {i \in DOMAIN export.items \cap DOMAIN item :
                      export.items[i] = item[i] /\ item[i] \in DOMAIN export.containers}
             Held(p, names) == {i \in S :
                      Position(i) = p /\ NamesOn(i, item_tag, tag) = names}
  <2>1. Importable(b) <=> export.shelf.named
    BY ExportImportable
  <2>2. ASSUME NEW i \in S
        PROVE  /\ item[i] \in DOMAIN export.containers
               /\ export.containers[item[i]] = Position(i)
               /\ i \in DOMAIN export.items /\ export.items[i] = item[i]
    <3>1. item[i] \in DOMAIN export.containers /\ i \in DOMAIN item
      OBVIOUS
    <3>2. item[i] \in DOMAIN container
      BY <3>1, Positions DEF EInv
    <3>3. Agrees(export.containers)
      BY DEF EInv, XInv
    <3> QED BY <3>1, <3>2, <3>3 DEF Agrees, Position
  <2> HIDE DEF S, b
  <2>3. \A p, names : Cardinality(Held(p, names)) <= Cardinality(Entries(b, p, names))
    BY <2>2, ReadIsListed DEF b
  <2> HIDE DEF Held
  <2>4. \A p \in Range(container), names \in SUBSET TagName :
            Cardinality(Held(p, names)) <= Cardinality(Entries(b, p, names))
    BY <2>3
  <2> QED BY <2>1, <2>4 DEF TornFileIsTrue, b, S, Held, Entries
<1> QED BY <1>1, AlwaysEInv, PTL

\* An item that is "still" as it was is listed once, at its position and with
\* its tags: the entries with a position and names are at least as many.
LEMMA UntouchedListed == EInv => UntouchedExported
<1> SUFFICES ASSUME EInv, export.pc = "tags" PROVE UntouchedExported
  BY DEF UntouchedExported
<1> DEFINE b == Exported
           I == ItemList(export.containers, export.items)
           Held(p, names) == {i \in export.still :
               Position(i) = p /\ NamesOn(i, item_tag, tag) = names}
<1>1. IsExport(b, export.shelf, export.containers, export.items, I)
  BY ExportedFacts
<1>2. Importable(b) <=> export.shelf.named
  BY ExportImportable
<1> HIDE DEF b, I
<1>3. /\ \A i \in export.still :
            /\ item[i] \in DOMAIN export.containers
            /\ export.containers[item[i]] = Position(i)
            /\ i \in DOMAIN export.items /\ export.items[i] = item[i]
      /\ export.grid => export.shelf = shelf /\ export.containers = container
  BY DEF EInv, XInv
<1>4. \A p, names : Cardinality(Held(p, names)) <= Cardinality(Entries(b, p, names))
  BY <1>3, ReadIsListed DEF b
<1> HIDE DEF Held
<1>5. \A p \in Range(container), names \in SUBSET TagName :
          Cardinality(Held(p, names)) <= Cardinality(Entries(b, p, names))
  BY <1>4
<1>6. ASSUME export.grid
      PROVE  /\ Range(b.containers) = Range(container)
             /\ CompleteBackup(b) <=> GridComplete
             /\ Importable(b) <=> shelf.named
  <2>1. /\ Range(b.containers) = Range(container)
        /\ b.rows = shelf.rows /\ b.cols = shelf.cols
    BY <1>1, <1>3, <1>6 DEF IsExport
  <2>2. Importable(b) <=> shelf.named
    BY <1>2, <1>3, <1>6
  <2> QED BY <2>1, <2>2 DEF CompleteBackup, GridComplete
<1> QED BY <1>5, <1>6 DEF UntouchedExported, b, Held, Entries

\* ExportAllData: an item that nobody moved, deleted or retagged since the export
\* began is in the file, whatever happened to the others meanwhile; and the cells,
\* the size and the name of the shelf are, unless it was resized, renamed or
\* replaced.
THEOREM UntouchedIsExported == ExportSpec => []UntouchedExported
BY UntouchedListed, AlwaysEInv, PTL

=============================================================================
