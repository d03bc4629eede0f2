------------------------------ MODULE Requests ------------------------------
(***************************************************************************)
(* The HTTP requests that change the inventory, as goroutines interleaved  *)
(* at the statements they send to SQLite: the handlers of                  *)
(* internal/server/handler.go with the store methods they call             *)
(* (internal/store/store.go, export.go).                                   *)
(*                                                                         *)
(* The database is opened with journal_mode(WAL), busy_timeout(5000) and   *)
(* deferred transactions on as many connections as there are requests.     *)
(* What SQLite does about it is external to the repository:                *)
(*   - a transaction reads the snapshot of its first SELECT, and its first *)
(*     write is refused at once (SQLITE_BUSY) when another connection has  *)
(*     committed since or holds the write lock;                            *)
(*   - a transaction that begins with a write, and a statement of its own, *)
(*     wait for the write lock, for at most five seconds;                  *)
(*   - what is written is seen by others only after COMMIT, and is gone    *)
(*     after an error, a cancelled request context or a crash.             *)
(* So the reads of a transaction before its first write are one step, its  *)
(* writes, made under the lock, are one step, and COMMIT is one step.      *)
(***************************************************************************)
EXTENDS Integers, Sequences, FiniteSets, Functions, SequencesExt

CONSTANTS
    Request,    \* the goroutines net/http serves requests on
    Kinds,      \* the kinds of request that clients send in this instance
    ResizeNames,\* what a resize says of the shelf's name: kept, or a new one
    TagLists,   \* lists of tag names in a create request, after validation
    Nobody,     \* no request holds the write lock
    SeedGrid, ResizeTo, TagName, LowerName, Backups,
    MaxContainer, MaxItem, MaxTag

ASSUME KindAssumption ==
    Kinds \subseteq {"create", "update", "addtag", "resize", "import", "merge",
                     "rename", "deltag", "delitem", "untag"}

ASSUME ResizeNameAssumption == ResizeNames \subseteq {"kept", "text", "empty"}

ASSUME TagListAssumption ==
    \A names \in TagLists : /\ names \in Seq(LowerName)
                            /\ names # <<>> /\ IsInjective(names)

ASSUME NobodyAssumption == Nobody \notin Request

VARIABLES
    db,      \* the committed database: the six tables of module Inventory
    writer,  \* the request whose transaction holds SQLite's write lock
    req,     \* what each goroutine is doing
    offered  \* the merges <<tag id, name>> that the tags page asks to confirm

vars == <<db, writer, req, offered>>

Inv == INSTANCE Inventory WITH
    shelf <- db.shelf, container <- db.container, item <- db.item,
    tag <- db.tag, item_tag <- db.item_tag, sqlite_sequence <- db.seq

\* The assumptions of module Inventory about the constants that it shares.
ASSUME GridAssumption ==
    SeedGrid \in (1..26) \X (1..30) /\ ResizeTo \subseteq (1..26) \X (1..30)

ASSUME NameAssumption == LowerName \subseteq TagName /\ IsFiniteSet(LowerName)

ASSUME BackupAssumption ==
    \A b \in Backups :
        /\ b \in Inv!Backup /\ Inv!Accepted(b)
        /\ \A k \in DOMAIN b.items : b.items[k].at \in DOMAIN b.containers

ASSUME BoundAssumption ==
    /\ MaxContainer \in Nat /\ MaxItem \in Nat /\ MaxTag \in Nat
    /\ Cardinality(Inv!Cells(SeedGrid[1], SeedGrid[2])) <= MaxContainer

-----------------------------------------------------------------------------
(* The statements the store sends, each a function from database to database. *)

AddRow(table, id, row) == Inv!Extend(table, [x \in {id} |-> row])

InsertContainer(d, cell) ==
    [d EXCEPT !.container = AddRow(@, d.seq.container + 1, cell),
              !.seq.container = @ + 1]

InsertItem(d, c) ==
    [d EXCEPT !.item = AddRow(@, d.seq.item + 1, c), !.seq.item = @ + 1]

\* INSERT OR IGNORE INTO tag
InsertTag(d, n) ==
    IF n \in Range(d.tag) THEN d
    ELSE [d EXCEPT !.tag = AddRow(@, d.seq.tag + 1, n), !.seq.tag = @ + 1]

\* The tag is created if need be, looked up by name and linked to the item.
LinkTag(d, i, n) ==
    LET e == InsertTag(d, n)
    IN  [e EXCEPT !.item_tag = @ \cup ({i} \X Inv!IdsOf(e.tag, {n}))]

LinkTags(d, i, names) == FoldLeft(LAMBDA e, n : LinkTag(e, i, n), d, names)

DeleteItems(d, gone) ==
    LET left == DOMAIN d.item \ gone
    IN  [d EXCEPT !.item = Restrict(@, left),
                  !.item_tag = Inv!Cascade(@, left, DOMAIN d.tag)]

DeleteTag(d, t) ==
    LET left == DOMAIN d.tag \ {t}
    IN  [d EXCEPT !.tag = Restrict(@, left),
                  !.item_tag = Inv!Cascade(@, DOMAIN d.item, left)]

Outside(d, rows, cols) ==
    {c \in DOMAIN d.container :
        d.container[c][1] > cols \/ d.container[c][2] > rows}

DeleteContainers(d, gone) ==
    LET e == DeleteItems(d, {i \in DOMAIN d.item : d.item[i] \in gone})
    IN  [e EXCEPT !.container = Restrict(@, DOMAIN @ \ gone)]

\* INSERT OR IGNORE INTO container, for each column, for each row
FillGrid(d, rows, cols) ==
    LET cells == [k \in 1..(rows * cols) |->
                     <<((k - 1) \div rows) + 1, ((k - 1) % rows) + 1>>]
    IN  FoldLeft(LAMBDA e, cell :
                    IF cell \in Range(e.container) THEN e
                    ELSE InsertContainer(e, cell), d, cells)

-----------------------------------------------------------------------------
(* What the writes of each transaction make of the database it locked.     *)

\* Bug: the cells of the new grid are not filled after the shelf is updated.
AfterResize_NoFill(d, rows, cols) ==
    [DeleteContainers(d, Outside(d, rows, cols)) EXCEPT
        !.shelf.rows = rows, !.shelf.cols = cols]

\* The out-of-bounds containers go, the shelf is updated, the grid is filled.
AfterResize(d, rows, cols) ==
    FillGrid([DeleteContainers(d, Outside(d, rows, cols)) EXCEPT
                 !.shelf.rows = rows, !.shelf.cols = cols], rows, cols)

\* Bug: the source is deleted without copying its associations.
AfterMerge_NoCopy(d, source, target) == DeleteTag(d, source)

\* Associations copied to the target, then deleted, then the source deleted.
AfterMerge(d, source, target) ==
    LET copied == {<<p[1], target>> : p \in {q \in d.item_tag : q[2] = source}}
        moved  == {p \in d.item_tag \cup copied : p[2] # source}
    IN  DeleteTag([d EXCEPT !.item_tag = moved], source)

AfterImport(d, b) ==
    LET empty == [d EXCEPT !.item_tag = {}, !.item = <<>>, !.tag = <<>>,
                           !.container = <<>>,
                           !.shelf = [rows |-> b.rows, cols |-> b.cols,
                                      named |-> b.named]]
        placed == FoldLeft(InsertContainer, empty, b.containers)
    IN  FoldLeft(LAMBDA e, line :
                    LinkTags(InsertItem(e, d.seq.container + line.at),
                             e.seq.item + 1, line.tags),
                 placed, b.items)

AfterCreate(d, c, names) == LinkTags(InsertItem(d, c), d.seq.item + 1, names)

AfterUpdate(d, i, c) == [d EXCEPT !.item[i] = c]

After(op, d) ==
    CASE op.kind = "create" -> AfterCreate(d, op.c, op.tags)
      [] op.kind = "update" -> AfterUpdate(d, op.i, op.c)
      [] op.kind = "addtag" -> LinkTag(d, op.i, op.n)
      [] op.kind = "resize" -> AfterResize(d, op.size[1], op.size[2])
      [] op.kind = "import" -> AfterImport(d, op.b)
      [] op.kind = "merge"  -> AfterMerge(d, op.t, op.target)

\* The writes fail, and the transaction is rolled back: a row violates a
\* UNIQUE, PRIMARY KEY or FOREIGN KEY constraint, or no id is left to hand out
\* (SQLITE_FULL at the last id; the bounds stand for it).
Violates(op, d) ==
    \/ op.kind = "import" /\ ~Inv!Insertable(op.b)
    \/ /\ op.kind = "merge"
       /\ op.target \notin DOMAIN d.tag
       /\ \E p \in d.item_tag : p[2] = op.t
    \/ LET e == After(op, d)
       IN  \/ e.seq.container > MaxContainer
           \/ e.seq.item > MaxItem
           \/ e.seq.tag > MaxTag

-----------------------------------------------------------------------------
Idle == [pc |-> "idle", op |-> [kind |-> "none"], snap |-> "none",
         committed |-> FALSE, status |-> "none"]

\* The database after Open: one shelf, and a container for each of its cells.
Seeded ==
    FillGrid([shelf |-> [rows |-> SeedGrid[1], cols |-> SeedGrid[2], named |-> TRUE],
              container |-> <<>>, item |-> <<>>, tag |-> <<>>, item_tag |-> {},
              seq |-> [container |-> 0, item |-> 0, tag |-> 0]],
             SeedGrid[1], SeedGrid[2])

Init ==
    /\ db = Seeded
    /\ writer = Nobody
    /\ req = [r \in Request |-> Idle]
    /\ offered = {}

\* What clients ask for, after validation: rows are named by ids seen earlier,
\* tags by name.  A 0 stands for an id the request has yet to look up or is given.
CreateItemRequest ==
    [kind : {"create"}, c : Inv!ContainerId, tags : TagLists, i : {0}]
UpdateItemRequest == [kind : {"update"}, i : Inv!ItemId, c : Inv!ContainerId]
DeleteItemRequest == [kind : {"delitem"}, i : Inv!ItemId]
AddTagRequest     == [kind : {"addtag"}, i : Inv!ItemId, n : LowerName]
RemoveTagRequest  == [kind : {"untag"}, i : Inv!ItemId, n : LowerName, t : {0}]
ResizeRequest     == [kind : {"resize"}, size : ResizeTo, name : ResizeNames]
ImportRequest     == [kind : {"import"}, b : Backups]
DeleteTagRequest  == [kind : {"deltag"}, t : Inv!TagId]
RenameTagRequest  ==
    [kind : {"rename"}, t : Inv!TagId, n : LowerName, target : {0}, source : {0}]

\* A merge is one that an answer to a rename offered, however long ago.
ForceMergeRequest ==
    {[kind |-> "merge", t |-> m[1], n |-> m[2], target |-> 0] : m \in offered}

Asked ==
    CreateItemRequest \cup UpdateItemRequest \cup DeleteItemRequest
    \cup AddTagRequest \cup RemoveTagRequest \cup ResizeRequest \cup ImportRequest
    \cup DeleteTagRequest \cup RenameTagRequest \cup ForceMergeRequest

\* The first statement: a SELECT, or the only statement there is.
FirstPc(kind) ==
    CASE kind \in {"create", "update", "addtag", "resize", "import"} -> "read"
      [] kind \in {"merge", "delitem", "untag"} -> "lookup"
      [] OTHER -> "statement"

Accept(r) ==
    /\ req[r].pc = "idle"
    /\ \E op \in {o \in Asked : o.kind \in Kinds} :
           req' = [req EXCEPT ![r].op = op, ![r].pc = FirstPc(op.kind)]
    /\ UNCHANGED <<db, writer, offered>>

Step(r, pc) == req' = [req EXCEPT ![r].pc = pc]

\* The end of a request that holds no lock; its snapshot is released.
Answer(r, status) ==
    req' = [req EXCEPT ![r].pc = "done", ![r].snap = "none",
                       ![r].status = status]

\* There are items in the containers that a resize would delete.
Blocked(d, rows, cols) == Range(d.item) \cap Outside(d, rows, cols) # {}

\* What the transaction's SELECTs must find, else it is rolled back.
Permitted(op, d) ==
    CASE op.kind = "create" -> op.c \in DOMAIN d.container
      [] op.kind = "update" -> op.i \in DOMAIN d.item /\ op.c \in DOMAIN d.container
      [] op.kind = "addtag" -> op.i \in DOMAIN d.item
      [] op.kind = "resize" -> ~Blocked(d, op.size[1], op.size[2])
      [] op.kind \in {"import", "merge"} -> TRUE

\* Bug: the SELECTs are sent on s.conn instead of the transaction.
Read_OutsideTx(r) ==
    /\ req[r].pc = "read"
    /\ IF Permitted(req[r].op, db)
       THEN req' = [req EXCEPT ![r].pc = "write"]
       ELSE Answer(r, IF req[r].op.kind = "resize" THEN "conflict" ELSE "notfound")
    /\ UNCHANGED <<db, writer, offered>>

\* Everything a transaction reads before its first write, in one snapshot.
Read(r) ==
    /\ req[r].pc = "read"
    /\ IF Permitted(req[r].op, db)
       THEN req' = [req EXCEPT ![r].pc = "write", ![r].snap = "fresh"]
       ELSE Answer(r, IF req[r].op.kind = "resize" THEN "conflict" ELSE "notfound")
    /\ UNCHANGED <<db, writer, offered>>

\* findTagByName of a merge: the target's id, to be used in MergeTags.
FindTarget(r) ==
    /\ req[r].pc = "lookup" /\ req[r].op.kind = "merge"
    /\ \/ \E t \in Inv!IdsOf(db.tag, {req[r].op.n}) :
              req' = [req EXCEPT ![r].op.target = t, ![r].pc = "write"]
       \/ req[r].op.n \notin Range(db.tag) /\ Answer(r, "notfound")
    /\ UNCHANGED <<db, writer, offered>>

\* RemoveTagFromItem's SELECT, on a connection of its own, of the tag's id.
FindTag(r) ==
    /\ req[r].pc = "lookup" /\ req[r].op.kind = "untag"
    /\ \/ \E t \in Inv!IdsOf(db.tag, {req[r].op.n}) :
              req' = [req EXCEPT ![r].op.t = t, ![r].pc = "statement"]
       \/ req[r].op.n \notin Range(db.tag) /\ Answer(r, "notfound")
    /\ UNCHANGED <<db, writer, offered>>

\* DeleteItem's SELECT, on a connection of its own.
FindItem(r) ==
    /\ req[r].pc = "lookup" /\ req[r].op.kind = "delitem"
    /\ IF req[r].op.i \in DOMAIN db.item THEN Step(r, "statement")
       ELSE Answer(r, "notfound")
    /\ UNCHANGED <<db, writer, offered>>

\* The first write takes the lock and the rest is done under it.
Write(r) ==
    /\ req[r].pc = "write"
    /\ writer = Nobody
    /\ req[r].snap # "stale"
    /\ \/ /\ Violates(req[r].op, db)
          /\ Answer(r, "error")
          /\ UNCHANGED writer
       \/ /\ ~Violates(req[r].op, db)
          /\ req' = [req EXCEPT ![r].pc = "commit",
                 ![r].op = IF @.kind = "create"
                           THEN [@ EXCEPT !.i = db.seq.item + 1] ELSE @]
          /\ writer' = r
    /\ UNCHANGED <<db, offered>>

\* Bug: busy_timeout is so long that a waiting statement never gives up.
Busy_NoTimeout(r) ==
    /\ req[r].pc = "write" /\ req[r].snap # "none"
    /\ req[r].snap = "stale" \/ writer # Nobody
    /\ Answer(r, "error")
    /\ UNCHANGED <<db, writer, offered>>

\* Whatever fails is an error to the client, but for the shelf's name, whose
\* failure is only logged.
Failed(r) == Answer(r, IF req[r].pc = "name" THEN "ok" ELSE "error")

\* SQLITE_BUSY: a stale snapshot at once, a held lock at once for a
\* transaction that has read and after busy_timeout for one that has not.
Busy(r) ==
    /\ \/ req[r].pc = "write" /\ (req[r].snap = "stale" \/ writer # Nobody)
       \/ req[r].pc \in {"statement", "touch", "name"} /\ writer # Nobody
    /\ Failed(r)
    /\ UNCHANGED <<db, writer, offered>>

\* Every other open snapshot now misses a commit.
Publish(r, new, pc, status) ==
    /\ db' = new
    /\ req' = [q \in Request |->
          IF q = r
          THEN [req[r] EXCEPT !.pc = pc, !.snap = "none", !.committed = TRUE,
                              !.status = status]
          ELSE [req[q] EXCEPT !.snap = IF @ = "fresh" THEN "stale" ELSE @]]

\* Bug: the method returns without tx.Commit, and the deferred Rollback runs.
Commit_Forgotten(r) ==
    /\ req[r].pc = "commit"
    /\ Answer(r, "ok")
    /\ writer' = Nobody
    /\ UNCHANGED <<db, offered>>

Commit(r) ==
    /\ req[r].pc = "commit"
    /\ LET op == req[r].op
       IN  CASE op.kind \in {"create", "update", "addtag"} ->
                    Publish(r, After(op, db), "row", "none")
             [] op.kind = "resize" /\ op.name # "kept" ->
                    Publish(r, After(op, db), "name", "none")
             [] OTHER -> Publish(r, After(op, db), "done", "ok")
    /\ writer' = Nobody
    /\ UNCHANGED offered

\* A statement outside a transaction reads, writes and commits at once.
Statement(r, kind) ==
    /\ req[r].pc = "statement" /\ req[r].op.kind = kind
    /\ writer = Nobody
    /\ UNCHANGED <<writer, offered>>

\* UPDATE tag: no row is an error, a name that another tag has is a conflict.
RenameTag(r) ==
    LET op == req[r].op
        others == {db.tag[u] : u \in DOMAIN db.tag \ {op.t}}
    IN  /\ Statement(r, "rename")
        /\ \/ /\ op.t \notin DOMAIN db.tag
              /\ Answer(r, "error") /\ UNCHANGED db
           \/ /\ op.t \in DOMAIN db.tag /\ op.n \in others
              /\ Step(r, "target") /\ UNCHANGED db
           \/ /\ op.t \in DOMAIN db.tag /\ op.n \notin others
              /\ Publish(r, [db EXCEPT !.tag[op.t] = op.n], "done", "ok")

\* DELETE FROM tag ... AND NOT EXISTS: a tag that is gone counts as in use.
DeleteUnusedTag(r) ==
    LET t == req[r].op.t
        unused == t \in DOMAIN db.tag /\ \A p \in db.item_tag : p[2] # t
    IN  /\ Statement(r, "deltag")
        /\ \/ unused /\ Publish(r, DeleteTag(db, t), "done", "ok")
           \/ ~unused /\ Answer(r, "conflict") /\ UNCHANGED db

\* DELETE FROM item, no row being no error.
DeleteItem(r) ==
    LET i == req[r].op.i
    IN  /\ Statement(r, "delitem")
        /\ \/ /\ i \in DOMAIN db.item
              /\ Publish(r, DeleteItems(db, {i}), "done", "ok")
           \/ i \notin DOMAIN db.item /\ Answer(r, "ok") /\ UNCHANGED db

\* DELETE FROM item_tag, no row being a 404.
RemoveTag(r) ==
    LET pair == <<req[r].op.i, req[r].op.t>>
    IN  /\ Statement(r, "untag")
        /\ \/ /\ pair \in db.item_tag
              /\ Publish(r, [db EXCEPT !.item_tag = @ \ {pair}], "touch", "none")
           \/ pair \notin db.item_tag /\ Answer(r, "notfound") /\ UNCHANGED db

\* RemoveTagFromItem stamps the item in a statement of its own.
Touch(r) ==
    /\ req[r].pc = "touch"
    /\ writer = Nobody
    /\ Publish(r, db, "done", "ok")
    /\ UNCHANGED <<writer, offered>>

\* handleResizeShelf hands the name to UpdateShelfName, one more statement.
NameShelf(r) ==
    /\ req[r].pc = "name"
    /\ writer = Nobody
    /\ Publish(r, [db EXCEPT !.shelf.named = req[r].op.name = "text"], "done", "ok")
    /\ UNCHANGED <<writer, offered>>

\* GetItem after the commit: the row, then its tags, each as of now.  An item
\* deleted meanwhile is a 404 to an update, and no error to the others.
GetItem(r) ==
    /\ \/ /\ req[r].pc = "row"
          /\ IF req[r].op.i \in DOMAIN db.item THEN Step(r, "tags")
             ELSE Answer(r, IF req[r].op.kind = "update" THEN "notfound" ELSE "ok")
       \/ req[r].pc = "tags" /\ Answer(r, "ok")
    /\ UNCHANGED <<db, writer, offered>>

\* The id of the tag with this name, 0 if there is none (any more).
TagNamed(d, n) == CHOOSE t \in Inv!IdsOf(d.tag, {n}) \cup {0} :
                      t = 0 => Inv!IdsOf(d.tag, {n}) = {}

\* The page asks whether to merge if the answer names both tags.
Offer(pages, op) ==
    pages \cup (IF op.source # 0 /\ op.target # 0 THEN {<<op.t, op.n>>} ELSE {})

\* The name was taken: both tags are looked up, by name and by id, for the
\* answer that offers to merge them.  Either may be gone by then.
FindConflicting(r) ==
    /\ req[r].pc = "target"
    /\ req' = [req EXCEPT ![r].op.target = TagNamed(db, req[r].op.n),
                          ![r].pc = "source"]
    /\ UNCHANGED <<db, writer, offered>>

FindSource(r) ==
    /\ req[r].pc = "source"
    /\ req' = [req EXCEPT
          ![r].op.source = IF req[r].op.t \in DOMAIN db.tag THEN req[r].op.t ELSE 0,
          ![r].pc = "done", ![r].status = "conflict"]
    /\ offered' = Offer(offered, req'[r].op)
    /\ UNCHANGED <<db, writer>>

\* Bug: the method has no deferred tx.Rollback.
Fail_NoRollback(r) ==
    /\ req[r].pc \notin {"idle", "done"}
    /\ Failed(r)
    /\ UNCHANGED <<db, writer, offered>>

\* The client cancels, the disk fails, a statement is interrupted: whatever is
\* not committed is rolled back.
Fail(r) ==
    /\ req[r].pc \notin {"idle", "done"}
    /\ Failed(r)
    /\ writer' = IF writer = r THEN Nobody ELSE writer
    /\ UNCHANGED <<db, offered>>

Return(r) ==
    /\ req[r].pc = "done"
    /\ req' = [req EXCEPT ![r] = Idle]
    /\ UNCHANGED <<db, writer, offered>>

\* The process dies and is started again: Open finds the schema and the shelf
\* in place and changes nothing.  The pages stay open in the browsers.
Restart ==
    /\ \E r \in Request : req[r].pc # "idle"
    /\ req' = [r \in Request |-> Idle]
    /\ writer' = Nobody
    /\ UNCHANGED <<db, offered>>

Run(r) ==
    \/ Read(r) \/ FindTarget(r) \/ FindTag(r) \/ FindItem(r)
    \/ Write(r) \/ Busy(r) \/ Commit(r)
    \/ RenameTag(r) \/ DeleteUnusedTag(r) \/ DeleteItem(r) \/ RemoveTag(r) \/ Touch(r)
    \/ NameShelf(r) \/ GetItem(r) \/ FindConflicting(r) \/ FindSource(r)

Next ==
    \/ \E r \in Request : Accept(r) \/ Run(r) \/ Fail(r) \/ Return(r)
    \/ Restart

Spec == Init /\ [][Next]_vars

\* A goroutine with a statement to send is scheduled, and SQLite answers it:
\* with a result, or with SQLITE_BUSY when its patience is at an end.
Fairness == \A r \in Request : WF_vars(Run(r))

LiveSpec == Spec /\ Fairness

-----------------------------------------------------------------------------
TypeOK ==
    /\ Inv!TypeOK
    /\ writer \in Request \cup {Nobody}
    /\ offered \subseteq (1..MaxTag) \X LowerName
    /\ \A r \in Request :
          /\ req[r].pc \in {"idle", "read", "lookup", "write", "commit", "statement",
                            "touch", "name", "row", "tags", "target", "source", "done"}
          /\ req[r].snap \in {"none", "fresh", "stale"}
          /\ req[r].committed \in BOOLEAN
          /\ req[r].status \in {"none", "ok", "notfound", "conflict", "error"}

\* What a transaction decided by its reads is still so when it commits: the
\* container is still there, no item has come into a column about to go.  The
\* check and the writes are statements apart, and other requests commit
\* between them.
ChecksStillHold ==
    \A r \in Request :
        req[r].pc = "commit" =>
            writer = r /\ Permitted(req[r].op, db) /\ ~Violates(req[r].op, db)

\* busy_timeout(5000) of the DSN (store.go:174) bounds a wait for the write lock
\* only because nobody keeps it: whoever holds it has nothing but its COMMIT
\* left to do, waits for nobody else's, and has not been answered, however its
\* request ended.
HolderCommits == writer # Nobody => req[writer].pc = "commit"

\* An answer that refuses (404 or 409) means that the request changed nothing
\* -- except that an update may have moved an item that was deleted before the
\* answer read it back -- and so does a failed import, whose answer says
\* "Existing data was not modified."  An answer of success means that the
\* request was committed, or that the item to delete was gone already.
AnswersAreTrue ==
    \A r \in Request :
        LET kind == req[r].op.kind
            committed == req[r].committed
        IN  req[r].pc = "done" =>
            CASE req[r].status = "conflict" -> ~committed
              [] req[r].status = "notfound" ->
                     committed => kind = "update" /\ req[r].op.i \notin DOMAIN db.item
              [] req[r].status = "error" -> kind \in {"import", "resize"} => ~committed
              [] req[r].status = "ok" ->
                     \/ committed
                     \/ kind = "delitem" /\ req[r].op.i \notin DOMAIN db.item

\* store.go:1268 of a merge a client confirmed: MergeTags "moves all item
\* associations from sourceID to targetID (deduplicating), then deletes the
\* source tag".
MergeMovesAssociations ==
    [][\A r \in Request :
          /\ req[r].pc = "commit" /\ req[r].op.kind = "merge"
          /\ req'[r].status = "ok"
          => \A p \in db.item_tag :
                p[2] = req[r].op.t => <<p[1], req[r].op.target>> \in db'.item_tag]_vars

\* The operation of the inventory that a request asks for.
Requested(op) ==
    CASE op.kind = "create"  -> Inv!CreateItem(op.c, Range(op.tags))
      [] op.kind = "update"  -> Inv!UpdateItem(op.i, op.c)
      [] op.kind = "addtag"  -> Inv!AddTagToItem(op.i, op.n)
      [] op.kind = "resize"  -> Inv!ResizeShelf(op.size[1], op.size[2])
      [] op.kind = "import"  -> Inv!ImportAllData(op.b)
      [] op.kind = "merge"   -> Inv!MergeTags(op.t, op.target)
      [] op.kind = "rename"  -> Inv!RenameTag(op.t, op.n)
      [] op.kind = "deltag"  -> Inv!DeleteUnusedTag(op.t)
      [] op.kind = "delitem" -> Inv!DeleteItem(op.i)
      [] op.kind = "untag"   -> Inv!RemoveTagFromItem(op.i, op.t)

\* The committed database changes only by what one request asked for, on the
\* rows it named or looked up, and once for each request: nothing is half done,
\* done twice, or done with what another request wrote meanwhile.  A resize
\* that brings a name commits a second time, the name alone.
CommitsAreRequested ==
    [][db' # db => \E r \in Request :
          \/ ~req[r].committed /\ req'[r].committed /\ Requested(req[r].op)
          \/ /\ req[r].pc = "name" /\ req'[r].pc = "done"
             /\ Inv!UpdateShelfName(req[r].op.name = "text")]_vars

\* Every step of every interleaving, crash and retry is one of the atomic
\* operations of module Inventory on the committed database, or none of them.
OperationsAreAtomic == Inv!Spec

\* A request that was accepted is answered, however the others behave.
AllAnswered == \A r \in Request : req[r].pc # "idle" ~> req[r].pc \in {"done", "idle"}
=============================================================================
