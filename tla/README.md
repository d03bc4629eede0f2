# A TLA+ model of screws-box

screws-box is a web application that keeps the inventory of one shelf of small
parts: a grid of containers, the items in them and the tags on the items. It is
a Go server over SQLite (`src/internal`), with sessions in memory or in Redis,
and two pages of plain JavaScript.

This directory models its core: what the store promises, how concurrent
requests carry that out on SQLite, what the queries make of the tables, how
sessions live and are revoked, who may sign in while the settings change, what
an export and an import make of a moving inventory, and how the search box of
the grid page orders the answers it gets. TLC checks small instances; TLAPS
proves, for every size, the invariants of the store and that the concurrent
requests implement it, that what the queries and the exports read of it is true,
and the invariants of the session stores, of access and of the search box.

## The system

| Component | State it keeps | Operations | Where it is hard | What makes it correct |
|---|---|---|---|---|
| Inventory store (`store/store.go`, `store/export.go`) | tables `shelf`, `container`, `item`, `tag`, `item_tag`, `sqlite_sequence` | create, update, delete item; add, remove, rename, merge, delete tag; resize; import; queries; export | cascades; a grid that shrinks and grows; ids that outlive rows | references and keys hold; one container per cell; an id never means another row; resizing loses nothing; merging is renaming |
| Request handlers (`server/handler.go`, `handler_export.go`) | none but the goroutine's | validate, one to four statements or transactions, read back, answer | checks and writes are statements apart; snapshots, `SQLITE_BUSY`, cancellation, crash; look-ups outside the transaction that uses them | every commit is one requested operation; what was checked still holds; answers are true; nobody waits for ever |
| SQLite (external) | the file, its WAL, one write lock | statements, transactions | a deferred transaction upgrades from reader to writer | as its documentation says, for the DSN of `Open` |
| Queries (`store.go`, `export.go`) | none | search with count, duplicates, grid, tags page, export | joins that multiply or lose rows; two queries that must agree | an item is found if and only if it should be; the export can be imported again |
| Session manager (`session/manager.go`), `handler_session.go`, `middleware.go` | none; the store's | create at login, get and touch at each request, revoke one, revoke others, logout, sweep SSO sessions | every request makes several calls of the store, others in between | revoked stays revoked; one's own session survives; the TTL slides |
| Memory session store (`session/memory.go`) | a map under a RWMutex | each method one or two critical sections, a cleanup goroutine | an unlocked read; check and delete apart | expired sessions go |
| Redis session store (`session/redis.go`) | keys with TTLs | GET, SET, DEL, SCAN | Touch is GET and SET; any command may fail; SCAN is weak | as above |
| Grid page (`static/js/grid.js`) | search text, filters, timer, two AbortControllers, the list rendered | type, add or remove a filter, clear, answers | promises settle after the next search began | what is shown is of what is asked |
| Tags page (`static/js/settings.js`) | merges offered and not yet confirmed | rename, merge, delete | ids and names of one moment are used at another | what is confirmed is what happens |
| Authentication settings, login (`handler.go`, `cmd/screwsbox`) | columns of `shelf` | enable, set password, `--disable-auth` | checked and updated in different statements, by two processes | no mix of updates locks the user out |
| SSO (`internal/oidc`, `handler.go`) | columns of `shelf`, table `oidc_user`, the encryption key, a state cookie | configure, seed from the environment, start, callback, disable | saves and callbacks that act on a configuration read before; two first uses of the key | enabled implies configured; disabled signs out; one key remains |
| Export, pending imports (`export.go`, `handler_export.go`) | token -> file, five minutes | export, validate, confirm | four reads torn by writes; expiry against confirmation | what nobody touched is exported; a token imports its own file, once |
| Process start (`cmd/screwsbox`, `store.go`) | the file | open, migrate, seed shelf and SSO configuration | two processes on a new file; a crash while seeding | one shelf |
| Rate limiter (`middleware.go`) | token bucket per address | allow, clean up | buckets dropped while in use | low |
| Router, templates | none | wiring | - | - |

Components interact thus: the router puts `authMiddleware`, `csrfProtect` and
the rate limiter before the handlers; handlers call the session manager, which
calls one of the two session stores, and the inventory store, which sends SQL on
connections of a pool; the pages call the handlers, keep ids and names of what
they were told, and use them later.

`PROJECT.json` lists every component with how much of it is modelled, and every
hazard with the line where it bites.

## The modules

```
Inventory ---- InventoryProofs            the promise of the store, and proofs
    |  \------ Queries ---- QueriesProofs, MCInventory   what the store reads
    |               \--- ExportImport --- ExportImportProofs, MCExportImport
    |                                     exports and imports in steps
    | (refinement)
Requests ----- RequestsProofs, MCRequests handlers over SQLite, concurrent

Sessions                                  manager, middleware, handlers
    |--------- MemorySessions ---- MemorySessionsProofs
    \--------- RedisSessions ----- RedisSessionsProofs

Access ------- AccessProofs, MCAccess     settings, SSO, start-up

LiveSearch --- LiveSearchProofs           the search box
```

### Inventory - the abstract specification

A table is a function from ids to what the properties need of a row:
`container[id] = <<col, row>>`, `item[id]` is its container, `tag[id]` its name,
`item_tag` a set of pairs; `shelf` has the grid's size and whether the shelf has
a name; `sqlite_sequence` is AUTOINCREMENT's memory. Each
store method that changes something is one action, named as in Go. Its guards
are the method's checks and SQLite's constraints (`UNIQUE`, `PRIMARY KEY`,
foreign keys with `ON DELETE CASCADE`); an operation that fails is no step.

`Backups` is the set of files that pass `handleImportValidate`. That function
asks for a version, a name and a positive size only (`Accepted`), so that the
model imports files with positions off the grid, cells missing, a position twice, an
item tagged twice, and names with capitals.

### Requests - the handlers over SQLite

A request is a record in `req[r]` with a program counter. A transaction of the
store is: all its reads before the first write, in one snapshot (`Read`); its
writes, under the write lock (`Write`); `COMMIT` (`Commit`). A statement outside
a transaction is one step. What other goroutines can tell apart is kept:
a stale snapshot or a held lock refuses the first write (`Busy`), a request can
fail anywhere (`Fail`: client gone, disk, interrupt), the process can die
(`Restart`), and ids are looked up before the statements that use them
(`FindTarget`, `FindTag`, `FindItem`). The writes themselves are functions from
database to database, statement by statement as in the code, and folded in the
order of its loops. A resize may bring a name, which is a statement of its own
after the commit (`NameShelf`), whose failure is only logged (`Failed`). The name
may be empty, which `ResizeNames` tells from one that is not. `offered` holds the
merges that the tags page could still confirm.

The module implements Inventory: `Inv == INSTANCE Inventory WITH shelf <-
db.shelf, ...`, the property `OperationsAreAtomic` is `Inv!Spec`, and
`CommitsAreRequested` adds that a change is the operation its request asked for,
once.

### Queries

Operators over the tables of Inventory, one for each query with the Go code
around it. Text is left out: a search has the set `hits` of the items whose name
or description contains the query, any set being possible, and the name of a tag
that equals it. Sets of joined rows, grouping and limits are kept, since that is
where these queries go wrong. `ResultLimits` are the limits to check; the code
has 50.

Tags are joined with `|` and split again (store.go:893), or compared as joined
(store.go:1420), and filters are joined and split with `,` (handler.go:542),
though a name may contain either. A joined text is written as the sequence of
its pieces, which determines it: `Pieces[n]` is what splitting the name `n` at
`|` gives, and a `GROUP_CONCAT` of names (`Concatenation`) the pieces of one after
those of the other. `Terms[n]` is what splitting at `,`, trimming and dropping
the empty give; `TermsOf` makes the list of which the query takes the length.
The order in which `GROUP_CONCAT` joins is that of tag ids: its `ORDER BY` (store.go:1424)
stands beside the aggregate and orders the one row that results, and SQLite's
plan visits the associations of an item by their primary key. The properties use
of it only that items with the same tags are joined in the same order.

### ExportImport

`ExportAllData` in the four statements it is, with the store's operations
(actions of Inventory, which Requests shows them to be) in between, and the
import in its two requests: `Validate` puts a file under a new token into
`pendingImports`, dropping those that have expired; `Take` removes it in one
critical section and looks at its age after that; `Import` is Inventory's.
`export` holds what the export has read; its fields `still` and `grid` are
bookkeeping of the model: the items nobody touched since the export began, and
whether anybody resized or renamed the shelf or imported. `Exported` is the file that the last
statement completes, made by the operator `ExportOf` of Queries from whatever
was read.

### Sessions, MemorySessions, RedisSessions

Sessions has what both stores share: the requests of users (`visit`, `revoke`,
`revokeAll`, `disableSSO`, `logout`), each a walk through the middleware and the
handler with one step for each call of the store, and the properties.
`disableSSO` is the save of a configuration that turns SSO off while it was on.
The two stores extend it with their own steps: critical sections of the map, or
single Redis commands, each of which may fail before or after it had its effect.
`age` is the time since a session's last activity, in units of which the TTL is
a number; `ended` remembers what the store was told to delete. `req[r].failed`
says whether the store gave the request an error; `handleRevokeAllOthers`
answers alike when a deletion failed. `steady` is a history variable: of each
request that signs sessions out, the sessions that were there when it began its
list or sweep and have been there ever since. `Remember` says what becomes of it
at each step; no action reads it.

A visit makes one `GetSession` after the middleware's `GetUser`; `handleGrid`
makes two, which adds no new kind of step. Authentication is assumed enabled.

### Access

The columns of `shelf` that say who may sign in, and all that reads and writes
them: `auth` is `auth_enabled` and whether there is a password; `sso` whether
SSO is enabled, has an issuer with a client id, and a secret; `key` is the
encryption key. A request of the server is `handleUpdateAuthSettings`
(kind `auth`), `handleUpdateOIDCConfig` (`save`), `handleOIDCStart` (`start`) or
`handleOIDCCallback` (`callback`), with a step for each statement, for the
provider, and for the scan and the deletions of `DeleteByAuthMethod`. Beside the
server runs `--disable-auth`; both open the file, count its shelves, seed one,
and may end anywhere; the server then seeds the SSO configuration from the
environment, at every start.

`session` has the SSO sessions. The mark on each is bookkeeping: `"in"` while
SSO is enabled; when a save disables it, `"owed"` its deletion by that request,
or `"excused"` where the code does not know of it. `DisabledSignsOut` lists the
cases. `cookies` holds the keys under which browsers have a state cookie.

### LiveSearch

The search box. `restoreSearchFromURL` is the back button: the URL returned to
may hold any search asked for before, or none, and so it is chosen freely.
`adrift` is bookkeeping: such a return left the page without a search for what
is in the box (see below). An event handler runs to its end; then come the
promises that are settled (`Then`, for which `Next` gives precedence); then the
next handler. `search[s]` is a search in flight: its text, filters and how each
of its two requests ended. `searchAbort` and `tagAbort` are the controllers, by
the search whose request they abort. `list` is the search whose results are on
the page.

## What the runs check

| Run | Result | Instance |
|---|---|---|
| `Inventory` | pass, 62,000 states | grids of 1 x 1, 1 x 2, 2 x 1; ids up to 5 containers, 2 items, 3 tags; the typed names `red` and `red\|blue`, and `blue` and the empty one, which only files bring; five files; four lists of filters; one result or two |
| `RequestsShelf` | pass, 1.1 million states | 2 requests at a time, any number in a row; create, update, delete, resize with a name, an empty one or none, import; two files, one of which fails half way |
| `RequestsTags` | pass | 2 requests; create, delete, tag, untag, rename, merge, delete tag; two names, two tag ids |
| `RequestsAnswered` | pass, liveness, 103,000 states | 2 requests; create, update, delete, resize |
| `RequestsSelfMerge` | `MergeMovesAssociations` violated | 2 requests, three tag ids |
| `MemorySessions` | pass, with liveness, 513,000 states | 2 requests, 2 sessions of which one SSO, TTL of one unit |
| `RedisSessions` | pass, 1.6 million states | the same |
| `RedisRevoked` | `RevokedStayRevoked` violated | the same |
| `LiveSearch` | pass, 1.2 million states | a text of one letter, one of two, one tag, two searches in flight |
| `LiveSearchFilters` | `FiltersRespected` violated | the same with two tags |
| `Access` | pass, 1.7 million states | 2 requests, 2 keys, 2 SSO sessions, the server and `--disable-auth`, from a new file on |
| `ExportImport` | pass, 706,000 states | 2 requests that confirm, 1 token at a time, one export at a time; a grid of one or two cells, 2 items, 2 tags, one uploaded file |

**Inventory.** `TypeOK`; `ForeignKeys` and `UniqueKeys`, which the schema should
enforce and the code relies on; `GridKept`, that no operation but the import of
an incomplete file makes the grid incomplete; `StaleIdsFindNothing`, that an id
a page remembers finds its row or none, even after an import;
`ResizeKeepsItems`; `MergeReplacesName`; `ImportReplacesAll`, that a file is all
that an import leaves. In every state also the queries:

- `SearchFindsItems`: what is found, in the order of the grid, none twice, with
  the true number of all; which items those are when a selected name has a
  comma or is selected twice is said apart.
- `SearchSaysWhy`: every result has a reason, but for an item found by a tag
  whose name contains `|`.
- `GridShowsItems`; `TagsPageIsTrue`: the page offers to delete exactly what the
  store will delete.
- `DuplicatesFound`, for every naming of the items: those that agree are always
  reported, in one group; those of a group have the same tags if no tag on them
  is empty or contains `|`. Whatever order the concatenation has must be the same
  for items with the same tags, which holds since names are unique.
- `ExportIsBackup`: an export has what the store has, and validation and the
  constraints let it in again if and only if the shelf has a name.

**RequestsShelf, RequestsTags.** `ChecksStillHold` (RequestsShelf): what a
transaction read is still so when it commits, the classical check-then-act
hazard of a resize that deletes containers while items are created in them. It
holds because SQLite refuses a write on a stale snapshot; the mutant that sends
the reads outside the transaction breaks it. `HolderCommits` (RequestsShelf):
the write lock is held only by a request that has nothing but its `COMMIT`
before it; the mutant is an error path without the deferred `Rollback`.
`AnswersAreTrue` (RequestsShelf) relates answers to commits and says exactly how
far they go: an update may be answered 404 though it was committed, if the item
was deleted before it was read back; an error promises nothing but to an import
and a resize; a success of a resize says nothing of the name that came with it.
`OperationsAreAtomic` (RequestsShelf) and `CommitsAreRequested` (RequestsTags)
are the refinement.

**RequestsAnswered.** Every accepted request ends.

**MemorySessions, RedisSessions.** Both check `SignedOutEverywhere`: when revoking
all others, or the sweep of a disabled SSO, ends without an error of the store,
none of the sessions that were there all along is left but the current one, or
those that are not of SSO. MemorySessions checks
`RevokedStayRevoked`, `CurrentSessionKept` and `ExpiredAreReclaimed`,
RedisSessions `SlidingWindow`; what else holds on Redis where `RevokedStayRevoked`
and `CurrentSessionKept` do not are `RevocationSettles` and `KnownSessionKept`:
a revoked session is gone for good once no touch that had read it is in flight,
and a revocation that could look up its own session does not delete it.

**LiveSearch.** `TextNeverStale`, `TextIsAnswered`: once nothing is in flight,
the results in the dropdown are of the text in the box, or of filters alone,
unless the page is adrift.

**Access.** `NeverLockedOut`: as long as nobody is locked out, no update makes
it so, though the check for a password and the update are two statements; only
`--disable-auth`, which clears the password, can come between them and does it.
`SsoIsConfigured`: no save leaves SSO enabled without issuer and secret, whatever
was saved while the provider was asked; the seed does, and only when the
environment has a client id and no secret, which is one of the environments of
the run. `DisabledSignsOut`: once the request that disabled SSO is over, every SSO session that is left is one the code lets
through: of a callback that had read the enabled configuration; of users whom a
save signs out that had read a configuration since enabled by another, or could
not read it; or one whose deletion failed or was cut short. The property is what
the code does guarantee: nobody else is left. `KeySettles`: keys may be lost in
a race of first uses, but once there is one under which everything at hand is
sealed, it stays for ever. `SeededOnce`: the same of the shelf.

**ExportImport.** `TornFileIsTrue`: whatever happened between the statements, the
file can be imported if and only if the shelf had a name when it was read, and
it lists every item that is still in the container in which the export found
it, at that container's place and with the tags it has now. This needs that no
id of an item, container or tag read earlier has come to name another row; the
mutant empties `sqlite_sequence` in an import. `UntouchedExported`: an item that
nobody touched since the export began is in the file, at its position and with its tags; items are counted by
position and tags, since that is all a file knows of them. `ConfirmedOnce`: a
file taken to be imported is pending no more, and nobody else has it.

### Where the code disagrees with what is said of it

1. `RequestsSelfMerge`: a merge confirmed after its source was renamed to the
   target's name merges a tag into itself. `MergeTags` (store.go:1268-1270) then
   deletes the associations and the tag, and the answer is ok.
2. `RedisRevoked`: `Touch` (redis.go:71-89) reads and writes back; a session
   revoked in between is signed in again (README.md:298-299 of the repository).
   `RevocationSettles` says what does hold.
3. `LiveSearchFilters`: an aborted search forgets the controllers of the next
   (grid.js:1302-1303), whose results can then stand under filters that they
   do not respect (README.md:232).

More are known from the models and have no run of their own.

- The grid. Files are imported that leave cells without a container or items off
  the grid (handler_export.go:105 validates its size alone), where
  docs/ARCHITECTURE.md:113 says "one per grid cell". `GridKept` and
  `GridStaysComplete` say that nothing else makes the grid incomplete.
- Tag names. docs/ARCHITECTURE.md:115 and model.go:38 call them
  lowercase-normalized, and every handler lowercases the name it is given, but
  nobody does so with those of a file (export.go:208). A tag imported with a
  capital can be neither removed from an item (handler.go:488) nor filtered by
  (store.go:845). `TagsNormalized` is false, therefore, of the instance of the
  Inventory run, which imports such a file; `NamesStayNormalized` proves that
  only a file does this.
- The search. A result found by its tag shows no other tag (store.go:831),
  where README.md:230 says that results show tags.
- Separators. Handlers accept `|` and `,` in tag names (handler.go:113-145,
  164-173). A result shows the pieces of a name with a `|` as tags of their own
  (store.go:892-900) and, if it was found by that name, no reason at all, where
  store.go:994 speaks of "which fields matched the search query". Items are
  called duplicates although their tags differ, `a|b` and the two `a` and `b`
  (store.go:1420-1424), where store.go:1411-1412 says "identical tag set"; the
  empty name, which a file may bring, is taken for no tag. A filter with a comma
  is looked for in parts, and one given twice finds nothing (handler.go:542-547,
  store.go:859), where README.md:232 says "only items matching ALL selected tags".
  `SearchFindsItems`, `SearchSaysWhy` and `DuplicatesFound` say what does hold.
- The shelf's name. A resize request may bring an empty one
  (handler.go:183-189, 214-216), which is exported and which the import then
  refuses (handler_export.go:102): the "backup" of README.md:236 cannot be
  restored. `ExportIsBackup` and `TornFileIsTrue` make it a condition. An upload
  of more than 10 MB (handler_export.go:71) is outside the model.
- The name that comes with a resize may be lost with an answer of success
  (handler.go:214-218).
- The export. An item moved, after the containers were read, into a container
  that an enlarged grid has since got is in no file. `UntouchedExported` speaks
  of the others.
- The memory store breaks `SlidingWindow`. `Get` reads the age unlocked and
  deletes in a later critical section (memory.go:49-54); a touch by another
  request in between is lost (docs/CONFIGURATION.md:66). The cleanup goroutine
  is sound: it does both under one lock.
- The Redis store breaks `CurrentSessionKept`. The handlers of revocations look
  up their own session once more (handler_session.go:108-112, 127-131); if that
  GET fails the current session is unknown and deleted with the others. No
  document speaks of failing Redis commands. Otherwise it is kept
  (`KnownSessionKept`).
- The seed of the SSO configuration asks for `OIDC_CLIENT_ID` but not for a
  secret (main.go:219): without one it enables a configuration that the settings
  page would refuse (handler.go:1020, 1027). The documents call the secret
  optional (README.md:74, docs/CONFIGURATION.md:84). `SsoIsConfigured` names it as
  the one exception.
- The seed looks for an issuer (main.go:207), not for a first run: after the
  issuer is cleared on the settings page, the next start enables SSO again,
  where docs/CONFIGURATION.md:81 says that the variables have no effect.
- SSO sessions outlive disabling in the cases that `DisabledSignsOut` excuses
  (handler.go:1013-1060). Saving again does not help: SSO was disabled before.
- `--disable-auth` between the check of a password and the update
  (handler.go:1139-1145) locks everybody out; running it once more helps.
- Two first uses of the encryption key each store one (store.go:1510); the login
  begun under the key that lost fails at its callback.
- `createSchema` ignores every error of a migration (store.go:228), not only that of
  a column that exists.
- A password is trimmed when it is set (handler.go:1125) but not when it is
  presented (handler.go:793).

- The back button. Returning to a URL without a search empties the box but
  neither hides the dropdown nor aborts anything (grid.js:1453-1455), so that
  the results of the last text stay. Returning to a text while the timer of
  another is running lets that timer abort its search, and nothing is rendered
  for the text in the box. No document speaks of it; `TextNeverStale` and
  `TextIsAnswered` except these two cases (`adrift`) and hold in all others.

And in LiveSearch a filter chosen while the debounce timer of a typed text is
set is searched for, aborted when the timer fires, and rendered as "No items
match all selected tags"; the text's own answer is discarded, for the box is
empty by then. A `q` of the URL is put into the box untrimmed and searched for so
(grid.js:1440-1458), while the guard compares with the trimmed box (grid.js:1309):
the answer to a `q` with spaces around it is discarded. The page writes trimmed
ones; texts of LiveSearch are trimmed.

### The bounds, and why they are enough

- *Ids.* `MaxContainer`, `MaxItem`, `MaxTag` bound the ids ever handed out, since
  AUTOINCREMENT never reuses one. Five containers allow a grid of two cells to
  shrink and grow again, or to be replaced by an import and resized; two items
  are what a duplicate, a page of results with one more behind it, or two
  containers need; three tags allow a merge and a new tag after it.
- *Names.* `red` and `red|blue` are what handlers make of what is typed, and
  `blue` comes with a file, so that items can differ in tags and agree in their
  concatenation; the empty name comes with a file too. `red,blue` is only asked
  for, as a filter: in a tag's name the comma does nothing. `FilterLists` has no
  filter, two, one twice, and the one with the comma.
- *Requests.* Races here are between a request and what one other commits
  between two of its statements; two goroutines, each serving any number of
  requests one after another, show them, and a third with a lock would only
  wait. Symmetry of the goroutines is used in `RequestsShelf` and
  `RequestsTags`, whose properties are all safety properties that name none.
- *Access.* Two requests: every race there is between one request's read and its
  write, with another request, a process or a restart in between. Two keys: one
  may be lost; a key that nobody holds any more counts as new again, as random
  keys never meet. Two sessions: one that a scan finds and one created while it
  runs. `AccessProofs` has no such bounds. Requests, keys and sessions are
  symmetric.
- *ExportImport.* Four containers allow a grid to grow and to be replaced by an
  import between two statements of the export. A token that nobody holds stands
  for the next new one, so one suffices for any number of validations in a row;
  two goroutines confirm it. `MaxTag = 2` leaves no new tag after the import of
  the file that has two, but merges and renames of them. Requests and tokens are
  symmetric.
- *TTL.* One unit: a session is fresh, at the limit, or expired; longer TTLs add
  only waiting.
- *Searches in flight.* Two slots, and one tag where none is told from another;
  `LiveSearchProofs` has no such bounds. The third search of the counterexample
  begins when the first has been forgotten. In the browser more can be in
  flight; a search that finds no slot has to wait here.
- *TagAnswers.* An error response for tags (`"refused"`) is left out of both
  runs: it ends `.then` with an exception and leaves the old results standing,
  so that `TextNeverStale` and `TextIsAnswered` fail of the code when the server
  refuses (with `"refused"` in `TagAnswers` TLC shows it). The runs say what
  holds while it answers.
- *ResultLimits.* 1 and 2 in place of 50: two items exceed the one, so that they
  are counted, and are both shown within the other, in order.

### Fairness

`Requests!Fairness` is weak fairness of each goroutine's next step, `Fail`,
`Accept` and `Restart` excluded: the Go scheduler runs a goroutine that can run,
and SQLite answers every statement, with a result or, after
`busy_timeout(5000)`, with `SQLITE_BUSY`. Weak fairness suffices since `Busy` is
enabled whenever the lock is not free, so that a waiting statement always has a
step. `MemorySessions!LiveSpec` is weak fairness of `Cleanup`: the ticker of the
cleanup goroutine fires until the process ends, and never of any request.
`LiveSearch`, `RedisSessions`, `Access` and `ExportImport` state safety only:
that a login ends is the provider's to decide, and a confirmation the user's.

## What is proved

`InventoryProofs` proves about every instance of Inventory: any grid, any finite
set of names a handler accepts, any backups, any bounds. From the assumptions
named in Inventory (`GridAssumption`, `NameAssumption`, `BackupAssumption`,
`BoundAssumption`):

- `TypeCorrect`, `ReferencesHold`, `KeysUnique`. The inductive invariant is
  `IInv == TypeOK /\ ForeignKeys /\ UniqueKeys`: none of the three is inductive
  alone. Fresh ids are fresh because ids in use are below the sequence (types);
  a resize keeps references because it is refused when an item is outside; a
  filled cell has no second container because positions were unique. One lemma
  for each action; the work is in the lemmas on rows inserted (`NumberingFacts`,
  `InsertTagsFacts`), the resize (`ResizeFacts`) and the import (`BackupFacts`).
- `GridIsKept` and `GridStaysComplete`: the grid is complete for ever if all
  imported files are.
- `ResizeLosesNothing`, `IdsNotReused`, `MergeIsRenaming`, `ImportIsReplacing`
  (`ImportReplacesAll`): action properties, from the same invariant.
- `NamesStayNormalized`: if the files have only names that the handlers would
  make of them, so has the table (`TagsNormalized`).

`RequestsProofs` proves, for any number of requests and any lists of tags, from
the assumptions of Requests (those of Inventory, and `TagListAssumption` and
`NobodyAssumption`), that the handlers implement the store:

- `RequestsImplementInventory` (`OperationsAreAtomic`): every statement, commit,
  failure and restart is an action of Inventory on the committed database, or
  leaves it as it is. `CommitsRequested` (`CommitsAreRequested`),
  `RequestsTypeCorrect` (`TypeOK`), `CommittedKeysHold`, `TransactionChecksHold`
  (`ChecksStillHold`), `AnswersTrue` (`AnswersAreTrue`).
- `LockIsReleased` (`HolderCommits`), the safety half of `AllAnswered`, for any
  number of requests: whoever holds the lock waits for nobody.
- *Through the refinement*, what InventoryProofs proves of the store holds of the
  committed database under concurrent requests (`CommittedIsInventory`):
  `RequestsKeepGrid`, `RequestsGridComplete`, `RequestsResizeKeeps`,
  `RequestsReuseNoIds`, `RequestsMergeRenames`, `RequestsImportReplaces`,
  `RequestsNormalizeTags`.
- *The loops.* `INSERT` in a loop is a fold. The fold over a list of any length
  is what it leaves after each member (`LoopPrefixes`), and induction over Nat
  (`NatInd`, which InventoryProofs gets from the least element of a set, the
  library's theorem of induction having an operator as a parameter) shows that
  the rows inserted one by one are the numbering of Inventory: `LinkTagsIs`,
  `FillGridFills`, `ContainersPlaced`, `LinesLoaded`.
- *The writes.* What each kind of request writes is the action of Inventory of
  the same name (`CreateIsCreateItem` to `RemoveIsRemoveTagFromItem`), and so the
  invariant of InventoryProofs, used through an instance, holds of the committed
  database (`OperationKeeps`).
- *The invariant* `RInv`: that invariant of the database, the lock being held by
  the one request at its commit, and for each request `Sound`, which relates its
  state to the database of now. A request about to write has a stale snapshot,
  which will be refused, or a fresh one and then its checks still hold; one about
  to commit holds the lock, its checks hold and its writes violate no constraint;
  an answer is true of the database (`Told`). Every commit makes the other
  snapshots stale, which is why it may change what they checked. An id that was
  looked up was handed out, and since ids are not reused a 404 stays true. TLC
  checked `RInv` on the instances of the Requests runs before it was proved.

`QueriesProofs` proves of every state of Inventory, for any limits on results,
any names and whatever splitting makes of them, with `LimitAssumption`,
`TextAssumption` (handlers refuse an empty name) and `SeparatorAssumption` (types;
splitting at `|` gives one piece at least):

- `SearchIsComplete` (`SearchFindsItems`): the joins lose no item and multiply
  only rows that are grouped again; as many names in common with a list as the
  list is long are all of it, and none is in it twice; the first rows of a list
  in order without repetition name different items, and none before them is
  left out. `SearchReasonsAreTrue` (`SearchSaysWhy`).
- `DuplicatesAreTrue` (`DuplicatesFound`). What is put together from pieces is a
  flattened sequence: `FlattenSeq` is a recursive function, and what it contains
  (`FlattenIsFlat`), when it is a given sequence of single pieces
  (`FlattenSingles`) and when it is empty are proved by induction over Nat
  (`NatInd` of InventoryProofs). Items with the same names have the same tags, and
  so the same concatenation; plain names can be read off it again.
- `GridPageIsTrue` (`GridShowsItems`).
- `TagsPageCounts` (`TagsPageIsTrue`): the outer join counts each association
  once, and a count of zero is the condition of `DeleteUnusedTag` (`Unused`).
- `ExportsAreBackups` (`ExportIsBackup`), "can be imported" being what validation
  and the constraints ask, if and only if the shelf has a name. That a finite set
  can be listed in any order that is total on it (`SortingExists`) is proved by
  induction on its size; an export is then a bijection between items and entries (`IsExport`).

These need `IInv` of InventoryProofs: each of the queries relies on unique names
or positions, or on references that lead somewhere.

`MemorySessionsProofs` proves about any sets of requests and sessions and any
TTL, from `SessionAssumption`:

- `MemoryTypes`, `MemoryRevokes` (`RevokedStayRevoked`), `MemoryKeepsCurrent`
  (`CurrentSessionKept`). The inductive invariant `MInv` adds to the types what
  stage of which handler a request can be in (`Staged`), and that a revocation
  under way knows its own session or its own is gone and, tokens being minted
  once, stays away (`Spared`).
- `MemorySignsOut` (`SignedOutEverywhere`). `HInv` adds the history: while a revocation
  deletes, every session that is still steady is on its list or is its own. What
  other requests do only takes sessions out of `steady`.

`AccessProofs` proves about any sets of requests, keys and session tokens and
any environment, one without a secret included, from `EnvAssumption`, which gives
its type, and `KeyAssumption`:

- `AccessTypes`, `SsoConfigured` (`SsoIsConfigured`), `DisablingSignsOut`
  (`DisabledSignsOut`). The inductive invariant `AInv` has four parts. `Seeding`:
  processes that are about to seed found no shelf, or one that the other has
  just inserted. `Legal` relates what a request knows to the configuration as it
  is by now: a save about to enable SSO has a secret, its own or the stored one,
  which no save clears; a save about to disable it without revoking knows it
  disabled or is excused; a login about to end has SSO enabled or is excused.
  `SessionOK`: sessions are `"in"` exactly while SSO is enabled, and each that
  is `"owed"` has a request that will delete it. The last needs that nothing but
  a sweep drops a target.
- `NobodyLockedOut` (`NeverLockedOut`), `KeyIsKept` (`KeySettles`),
  `ShelfSeededOnce` (`SeededOnce`): action properties, from the same invariant.
  A key is stored only by a request that read none; once all agree on one there
  is none such, and every new request takes its key from the row.

`RedisSessionsProofs` proves about any sets of requests and sessions and any TTL,
from `SessionAssumption`, `RedisTypes`, `RedisSlides` (`SlidingWindow`),
`RedisSignsOut` (`SignedOutEverywhere`), `RedisKeepsKnown` (`KnownSessionKept`) and
`RedisSettles` (`RevocationSettles`). The
inductive invariant `RInv` adds to the types that what is left of a key's TTL and
the session's age make up a TTL at least (`Lasting`): SET restores both at once.
`Staged` keeps each request within its handler, so that no command names a
session that was never created. For `RedisSignsOut` the history again: what is
steady and was seen by the SCAN is still to delete, unless it is the current
session or not of SSO (`Listed`); a SCAN that ends has seen all that was steady. `RedisSettles` needs one look at each step: the
SET of a touch is the only one that stores a session that was not there, except
that of a login, whose token is new. That a sweep without an error leaves no SSO
session which was there before is what Access assumes of its own.

`LiveSearchProofs` proves about any texts and tags and any number of searches in
flight, from `SearchAssumption` and that the server does not refuse to list tags
(a hypothesis of each theorem; `ThenKeeps` fails without it): `SearchTypes`,
`TextStaysTrue` (`TextNeverStale`), `TextAlwaysAnswered` (`TextIsAnswered`). The
inductive invariant `LInv` says that while results of another text are shown,
those of the text in the box are `Coming`: by the timer, or by a search whose
answers will not be discarded. Only a later search aborts one; that is for the
text in the box too, or, after a filter emptied the box, for one that the timer
still had, and then the search in flight asked for no tags and survives.

`ExportImportProofs` proves for any numbers of requests and tokens and any files:

- `TokensConfirmedOnce` (`ConfirmedOnce`): `CInv` needs, beyond the property,
  only that every goroutine has an entry in `confirm`.
- `ExportsImplementInventory`: whatever is exported, validated, confirmed or lost
  by a restart, the tables change as in Inventory, whose invariant they inherit.
- `ExportTypeCorrect` (`ExportTypeOK`), `TornExportsAreTrue` (`TornFileIsTrue`)
  and `UntouchedIsExported` (`UntouchedExported`). The invariant `XInv` says that
  what was read is a table as it was committed, and that an item nobody touched
  since is in the container it was in, at the position that was read. It is kept
  because a resize never moves a container under an item (`StillPlaced`, from
  `ResizeFacts`) and an import leaves no item untouched, its ids being new. TLC
  checked `XInv` on the instance of the run before it was proved.

Every safety property that a run checks and finds to hold is stated by a theorem.
The type invariants of Requests, MemorySessions, LiveSearch and ExportImport are
proved and in no run. Only model-checked are `AllAnswered` and `ExpiredAreReclaimed`, which are liveness
under fairness and out of the prover's reach. Properties that a run refutes are
not proved, nor `SlidingWindow` of the memory store and `CurrentSessionKept` of the
Redis store, which the code breaks (above).

## What is not modelled

- Names, descriptions and time stamps of items; of the shelf's name all but
  whether there is one.
- The matching of text: `LIKE`, SQLite's `LOWER`, which lowers ASCII only where
  Go lowers all of Unicode. The limit of 10 MB on an upload.
- Of reads in several statements only the export is followed (ExportImport).
  The grid page and lists of items are one snapshot in Queries.
- Of access: rules for passwords and their hashing, the sessions of password
  logins (they are those of Sessions), the user's record that a callback writes
  (`UpsertOIDCUser`), claims, PKCE and nonce. Module Access and module Sessions
  are not composed: the sweep in Access stands for `DeleteByAuthMethod` of
  either store.
- The rate limiter: a bucket per address under one mutex, whose refill is that
  of a library.
- Requests starts from a seeded database and restarts on one; seeding is in
  Access. Migrations of a file of an older version are left out.
- In the pages everything that is not named above: panels, highlights, focus,
  the spinner; of the URL all but what the back button returns to.
- `SearchItems` and `SearchItemsByTags`, which no handler calls.

## Plan

The order follows what would hurt most if it went wrong: the data, then access
to it, then what is shown of it. Done: Inventory, Requests, the session stores,
Queries, LiveSearch, Access with start-up, ExportImport, the proofs above. Next:

1. **Reads in several statements**, as more kinds of request in Requests: the
   grid page and the lists.
2. **Access over Sessions**: the sweep of disabled SSO step by step on each of
   the two stores, in place of Access's own.
3. **LiveSearch**: highlights, and the property that an aborted request is not
   shown as an empty answer.
4. **Rate limiter**: buckets dropped by the clean-up while in use.
5. **Proofs**: of whatever the items above add.

## Running

```
tlc -config Inventory.cfg MCInventory.tla
tlc -config RequestsShelf.cfg MCRequests.tla
tlc -config MemorySessions.cfg MemorySessions.tla
tlc -config Access.cfg MCAccess.tla
tlc -config ExportImport.cfg MCExportImport.tla
tlapm InventoryProofs.tla
tlapm RequestsProofs.tla
tlapm QueriesProofs.tla
```

Each `.cfg` is named after its run; `PROJECT.json` gives the module of each,
the mutant that shows each property can fail, and the source lines of each
definition. Definitions commented `Bug:` are those mutants; no specification
uses them.
