---------------------------- MODULE ExportImport ----------------------------
(***************************************************************************)
(* Backups: the export, which reads the tables in four statements of their *)
(* own while other requests change them, and the import, which is uploaded *)
(* and validated by one request and confirmed by another, with a token for *)
(* which the server keeps the file in memory.                              *)
(*                                                                         *)
(* Everybody else is module Inventory, an operation at a time (module      *)
(* Requests shows why).  One export at a time is followed; "still" and     *)
(* "grid" keep track of what nobody has touched since it began.            *)
(***************************************************************************)
EXTENDS Queries

CONSTANTS
    Request,   \* the goroutines that confirm imports
    Token      \* the tokens generateImportToken returns, all different

VARIABLES
    export,    \* how far the export is and what it has read
    pending,   \* pendingImports: token -> [data, and whether it has expired]
    confirm    \* token and file that each goroutine took out of "pending"

backupVars == <<export, pending, confirm>>
allVars    == <<vars, backupVars>>

-----------------------------------------------------------------------------
NoExport == [pc |-> "idle", shelf |-> [rows |-> 0, cols |-> 0, named |-> FALSE],
             containers |-> <<>>, items |-> <<>>, still |-> {}, grid |-> FALSE]

ExportInit ==
    /\ Init
    /\ export = NoExport
    /\ pending = [t \in {} |-> <<>>]
    /\ confirm = [r \in Request |-> {}]

-----------------------------------------------------------------------------
(* ExportAllData, a statement at a time.                                   *)

Began ==
    /\ export.pc = "idle"
    /\ export' = [NoExport EXCEPT !.pc = "containers", !.shelf = shelf,
                      !.still = DOMAIN item, !.grid = TRUE]
    /\ UNCHANGED <<vars, pending, confirm>>

\* Bug: containers without items are left out.
ReadContainers_Occupied ==
    /\ export.pc = "containers"
    /\ export' = [export EXCEPT !.pc = "items",
                      !.containers = Restrict(container, Range(item))]
    /\ UNCHANGED <<vars, pending, confirm>>

ReadContainers ==
    /\ export.pc = "containers"
    /\ export' = [export EXCEPT !.pc = "items", !.containers = container]
    /\ UNCHANGED <<vars, pending, confirm>>

ReadItems ==
    /\ export.pc = "items"
    /\ export' = [export EXCEPT !.pc = "tags", !.items = item]
    /\ UNCHANGED <<vars, pending, confirm>>

\* The file, with the tags as they are now.
Exported == ExportOf(export.shelf, export.containers, export.items)

\* The last statement; the rest is done in memory.
ReadTags ==
    /\ export.pc = "tags"
    /\ export' = NoExport
    /\ UNCHANGED <<vars, pending, confirm>>

\* What others do to the inventory meanwhile.
Unmoved(i) ==
    /\ i \in DOMAIN item'
    /\ item'[i] = item[i]
    /\ NamesOn(i, item_tag', tag') = NamesOn(i, item_tag, tag)

Watch ==
    export' = IF export.pc = "idle" THEN export
              ELSE [export EXCEPT !.still = {i \in @ : Unmoved(i)},
                        !.grid = @ /\ shelf' = shelf /\ container' = container]

Others ==
    /\ \/ ItemStep
       \/ TagStep
       \/ \E size \in ResizeTo : ResizeShelf(size[1], size[2])
       \/ \E named \in BOOLEAN : UpdateShelfName(named)
    /\ Watch
    /\ UNCHANGED <<pending, confirm>>

-----------------------------------------------------------------------------
(* handleImportValidate and handleImportConfirm                            *)

Put(f, t, v) == [x \in DOMAIN f \cup {t} |-> IF x = t THEN v ELSE f[x]]

\* Expired imports are dropped when another one is added; a token of the model
\* that nobody holds stands for the new one's.
Validate(t, b) ==
    LET kept == Restrict(pending, {u \in DOMAIN pending : ~pending[u].expired})
    IN  /\ t \notin DOMAIN kept
        /\ \A r \in Request : \A c \in confirm[r] : c.token # t
        /\ pending' = Put(kept, t, [data |-> b, expired |-> FALSE])
        /\ UNCHANGED <<vars, export, confirm>>

\* pendingImportTTL passes.
Expire(t) ==
    /\ t \in DOMAIN pending
    /\ pending' = [pending EXCEPT ![t].expired = TRUE]
    /\ UNCHANGED <<vars, export, confirm>>

\* Bug: the token stays until the import is done.
Take_Keep(r, t) ==
    /\ confirm[r] = {}
    /\ t \in DOMAIN pending
    /\ confirm' = [confirm EXCEPT ![r] =
           IF pending[t].expired THEN {} ELSE {[token |-> t, data |-> pending[t].data]}]
    /\ UNCHANGED <<vars, export, pending>>

\* In one critical section; its age is looked at after that.
Take(r, t) ==
    /\ confirm[r] = {}
    /\ t \in DOMAIN pending
    /\ pending' = Restrict(pending, DOMAIN pending \ {t})
    /\ confirm' = [confirm EXCEPT ![r] =
           IF pending[t].expired THEN {} ELSE {[token |-> t, data |-> pending[t].data]}]
    /\ UNCHANGED <<vars, export>>

\* The token is spent whether the import succeeds or not.
Import(r) ==
    /\ \E c \in confirm[r] : ImportAllData(c.data)
    /\ Watch
    /\ confirm' = [confirm EXCEPT ![r] = {}]
    /\ UNCHANGED pending

Fail(r) ==
    /\ confirm[r] # {}
    /\ confirm' = [confirm EXCEPT ![r] = {}]
    /\ UNCHANGED <<vars, export, pending>>

\* Pending imports are lost, and an export in progress.
Restart ==
    /\ export' = NoExport
    /\ pending' = [t \in {} |-> <<>>]
    /\ confirm' = [r \in Request |-> {}]
    /\ UNCHANGED vars

ExportStep == Began \/ ReadContainers \/ ReadItems \/ ReadTags

ImportStep ==
    \/ \E t \in Token, b \in Backups : Validate(t, b)
    \/ \E t \in Token : Expire(t)
    \/ \E r \in Request, t \in Token : Take(r, t)
    \/ \E r \in Request : Import(r) \/ Fail(r)

ExportNext == Others \/ ExportStep \/ ImportStep \/ Restart

ExportSpec == ExportInit /\ [][ExportNext]_allVars

-----------------------------------------------------------------------------
\* Each goroutine took at most one file out of pendingImports.
ExportTypeOK ==
    /\ export.pc \in {"idle", "containers", "items", "tags"}
    /\ export.still \subseteq ItemId
    /\ DOMAIN pending \subseteq Token
    /\ \A t \in DOMAIN pending : pending[t] \in [data : Backups, expired : BOOLEAN]
    /\ \A r \in Request : confirm[r] \subseteq [token : Token, data : Backups]
                          /\ Cardinality(confirm[r]) <= 1

\* README.md:236: a "backup" even when it was written while others worked.  The
\* file can be imported unless the shelf had an empty name when the export
\* began, and every item that is still in the container in which the export
\* found it is listed, at that container's place and with its present tags,
\* although containers, items and tags were read at different times, and other
\* rows have come in their place since.
TornFileIsTrue ==
    export.pc = "tags" =>
        LET b == Exported
            Found == {i \in DOMAIN export.items \cap DOMAIN item :
                export.items[i] = item[i] /\ item[i] \in DOMAIN export.containers}
            Held(p, names) == {i \in Found :
                Position(i) = p /\ NamesOn(i, item_tag, tag) = names}
            Listed(p, names) == {k \in DOMAIN b.items :
                b.containers[b.items[k].at] = p /\ Range(b.items[k].tags) = names}
        IN  /\ Importable(b) <=> export.shelf.named
            /\ \A p \in Range(container), names \in SUBSET TagName :
                  Cardinality(Held(p, names)) <= Cardinality(Listed(p, names))

\* An item that nobody moved, deleted or retagged, and none of whose tags was
\* renamed or merged since the export began, is in the file, at its position
\* and with its tags, whatever happened to others.  If nobody resized or renamed
\* the shelf or imported either, the file has its cells, its size and its name.
UntouchedExported ==
    export.pc = "tags" =>
        LET b == Exported
            Held(p, names) == {i \in export.still :
                Position(i) = p /\ NamesOn(i, item_tag, tag) = names}
            Listed(p, names) == {k \in DOMAIN b.items :
                b.containers[b.items[k].at] = p /\ Range(b.items[k].tags) = names}
        IN  /\ \A p \in Range(container), names \in SUBSET TagName :
                  Cardinality(Held(p, names)) <= Cardinality(Listed(p, names))
            /\ export.grid => /\ Range(b.containers) = Range(container)
                              /\ CompleteBackup(b) <=> GridComplete
                              /\ Importable(b) <=> shelf.named

\* "Import session expired. Please validate the file again.": a validation is
\* good for one import, however often and by however many it is confirmed; the
\* second would erase what was done after the first.
ConfirmedOnce ==
    \A r \in Request : \A c \in confirm[r] :
        /\ c.token \notin DOMAIN pending
        /\ \A s \in Request \ {r} : \A d \in confirm[s] : d.token # c.token
=============================================================================
