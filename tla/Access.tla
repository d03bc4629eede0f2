------------------------------- MODULE Access -------------------------------
(***************************************************************************)
(* Who may sign in: the authentication settings, the configuration of      *)
(* single sign-on (SSO) and the key of its state cookies, which are        *)
(* columns of the one row of table shelf, and the processes and requests   *)
(* that read and write them in statements of their own.                    *)
(*                                                                         *)
(* Two processes use the database file: the server, and the program run    *)
(* with --disable-auth, which exits when it is done.  A request is a       *)
(* goroutine of the server that updates the settings ("auth"), saves the   *)
(* SSO configuration ("save"), begins an SSO login ("start") or ends one   *)
(* ("callback").  SSO sessions are those of module Sessions; the provider  *)
(* is external and may refuse or be out of reach at any time.              *)
(***************************************************************************)
EXTENDS FiniteSets, Naturals

CONSTANTS
    Request,   \* the goroutines net/http serves requests on
    Key,       \* the keys that rand.Read yields
    NoKey,     \* the empty encryption_key of a new shelf
    Id,        \* the tokens of SSO sessions
    Env        \* what OIDC_CLIENT_ID and OIDC_CLIENT_SECRET may be set to,
               \*   given that OIDC_ISSUER is set

\* Only the client id is asked for; it may come without its secret.
ASSUME EnvAssumption == Env \subseteq [client : BOOLEAN, secret : BOOLEAN]

ASSUME KeyAssumption == NoKey \notin Key

VARIABLES
    shelves,   \* the number of rows of table shelf
    auth,      \* auth_enabled, and whether auth_pass is set
    sso,       \* oidc_enabled, and whether the issuer with the client id, and
               \*   the secret, are set
    key,       \* encryption_key
    proc,      \* how far each process is
    req,       \* what each goroutine is doing
    cookies,   \* the keys that browsers hold a state cookie sealed under
    session    \* the SSO sessions, each "in", or "owed" its deletion because
               \*   SSO was disabled, or "excused" from it (see DisabledSignsOut)

row  == <<auth, sso, key>>
vars == <<shelves, auth, sso, key, proc, req, cookies, session>>

-----------------------------------------------------------------------------
Idle == [kind |-> "none", pc |-> "idle", enabled |-> FALSE, fields |-> FALSE,
         secret |-> FALSE, revoke |-> FALSE, excused |-> FALSE, key |-> NoKey,
         cookie |-> NoKey, targets |-> {}]

Init ==
    /\ shelves = 0
    /\ auth = [enabled |-> FALSE, pass |-> FALSE]
    /\ sso = [enabled |-> FALSE, issuer |-> FALSE, secret |-> FALSE]
    /\ key = NoKey
    /\ proc = [p \in {"server", "cli"} |-> "down"]
    /\ req = [r \in Request |-> Idle]
    /\ cookies = {}
    /\ session = [s \in {} |-> "in"]

Becomes(r, q) == req' = [req EXCEPT ![r] = q]
Goto(r, pc)   == req' = [req EXCEPT ![r].pc = pc]

\* The request is answered.
Done(r) == Becomes(r, Idle)

-----------------------------------------------------------------------------
(* Processes.  createSchema and its migrations change nothing here.        *)

Enter(p, pc) == proc' = [proc EXCEPT ![p] = pc]

\* Opened: the server goes on with seedOIDCFromEnv, the other with DisableAuth.
Opened(p) == IF p = "server" THEN "env" ELSE "disable"

\* Bug: the count is not looked at.
Open_Uncounted(p) ==
    /\ proc[p] = "down"
    /\ Enter(p, "seed")
    /\ UNCHANGED <<shelves, row, req, cookies, session>>

\* seedDefaultShelf counts the shelves outside of its transaction.
Open(p) ==
    /\ proc[p] = "down"
    /\ Enter(p, IF shelves > 0 THEN Opened(p) ELSE "seed")
    /\ UNCHANGED <<shelves, row, req, cookies, session>>

\* The transaction begins with its INSERT.  All queries read the first row.
Seed(p) ==
    /\ proc[p] = "seed"
    /\ shelves' = shelves + 1
    /\ Enter(p, Opened(p))
    /\ UNCHANGED <<row, req, cookies, session>>

\* The variables are saved unless an issuer is configured, as far as the read
\* that asks for it succeeds; the save may fail.
seedOIDCFromEnv ==
    /\ proc["server"] = "env"
    /\ \/ UNCHANGED sso
       \/ \E e \in Env, read \in BOOLEAN :
              /\ e.client
              /\ ~(read /\ sso.issuer)
              /\ sso' = [enabled |-> TRUE, issuer |-> TRUE,
                         secret |-> sso.secret \/ e.secret]
    /\ session' = [s \in DOMAIN session |-> IF sso'.enabled THEN "in" ELSE session[s]]
    /\ Enter("server", "up")
    /\ UNCHANGED <<shelves, auth, key, req, cookies>>

DisableAuth ==
    /\ proc["cli"] = "disable"
    /\ auth' = [enabled |-> FALSE, pass |-> FALSE]
    /\ Enter("cli", "down")
    /\ UNCHANGED <<shelves, sso, key, req, cookies, session>>

\* A process ends anywhere, and with the server its requests; its sessions
\* live on if they are in Redis, the ones it was about to delete included.
Crash(p) ==
    /\ proc[p] # "down"
    /\ Enter(p, "down")
    /\ IF p = "server"
       THEN /\ req' = [r \in Request |-> Idle]
            /\ \/ session' = [s \in {} |-> "in"]
               \/ session' = [s \in DOMAIN session |->
                                 IF session[s] = "owed" THEN "excused" ELSE session[s]]
       ELSE UNCHANGED <<req, session>>
    /\ UNCHANGED <<shelves, row, cookies>>

-----------------------------------------------------------------------------
(* Requests.  One arrives at a server that is up, with its first statement. *)

Accept(r, q) ==
    /\ proc["server"] = "up"
    /\ req[r].pc = "idle"
    /\ Becomes(r, q)
    /\ UNCHANGED <<shelves, row, proc, cookies, session>>

\* A statement or the provider fails, or refuses: the request is answered with
\* an error.  (Sweep goes on after its failure.)
Fail(r) ==
    /\ req[r].pc \notin {"idle", "scan", "sweep"}
    /\ Done(r)
    /\ UNCHANGED <<shelves, row, proc, cookies, session>>

-----------------------------------------------------------------------------
(* handleUpdateAuthSettings                                                *)

\* Can one who knows the stored user name and password sign in with them?  No
\* password matches an empty hash.
ValidateCredentials == ~auth.enabled \/ auth.pass

\* Enabling without a new password asks whether there is one already.
UpdateAuthSettingsRequest(r) ==
    \E enabled, secret \in BOOLEAN :
        /\ enabled => secret \/ auth.pass
        /\ Accept(r, [Idle EXCEPT !.kind = "auth", !.pc = "update",
                          !.enabled = enabled, !.secret = secret])

\* Bug: an empty password is stored like any other.
UpdateAuthSettings_Overwrite(r) ==
    /\ req[r].pc = "update"
    /\ auth' = [enabled |-> req[r].enabled, pass |-> req[r].secret]
    /\ Done(r)
    /\ UNCHANGED <<shelves, sso, key, proc, cookies, session>>

\* An empty password keeps the one that is set.
UpdateAuthSettings(r) ==
    /\ req[r].pc = "update"
    /\ auth' = [enabled |-> req[r].enabled, pass |-> auth.pass \/ req[r].secret]
    /\ Done(r)
    /\ UNCHANGED <<shelves, sso, key, proc, cookies, session>>

-----------------------------------------------------------------------------
(* handleUpdateOIDCConfig                                                  *)

\* Was SSO enabled before?  An error of this read counts as no, and excuses a
\* request that disables it.  Enabling takes an issuer and a client id, and a
\* secret if none is stored.
UpdateOIDCConfigRequest(r) ==
    \E enabled, fields, secret, read \in BOOLEAN :
        /\ enabled => fields
        /\ Accept(r, [Idle EXCEPT !.kind = "save", !.enabled = enabled,
               !.fields = fields, !.secret = secret,
               !.pc = IF enabled /\ ~secret THEN "secret" ELSE "save",
               !.revoke = read /\ sso.enabled /\ ~enabled, !.excused = ~read /\ ~enabled])

\* Bug: an enabled configuration is taken to be complete.
ExistingSecret_Assumed(r) ==
    /\ req[r].pc = "secret"
    /\ Goto(r, "save")
    /\ UNCHANGED <<shelves, row, proc, cookies, session>>

ExistingSecret(r) ==
    /\ req[r].pc = "secret"
    /\ IF sso.secret THEN Goto(r, "save") ELSE Done(r)
    /\ UNCHANGED <<shelves, row, proc, cookies, session>>

\* What becomes of the sessions: while SSO is enabled all are "in"; disabling
\* it makes them "owed", or "excused" if the request cannot know that it does.
Fate(q) ==
    IF q.enabled THEN "in"
    ELSE IF q.excused /\ ~q.revoke THEN "excused" ELSE "owed"

\* The requests that acted on a configuration that this save changes: logins
\* that were let through while SSO was enabled, and saves about to disable it.
Overtaken(q, enabled) ==
    IF enabled THEN q.kind = "save" /\ q.pc = "save" /\ ~q.enabled
    ELSE q.kind = "callback" /\ q.pc \in {"exchange", "create"}

\* An empty secret keeps the one that is set.  The sessions are revoked if SSO
\* was enabled before and is not any more.
SaveOIDCConfig(r) ==
    LET q == req[r]
    IN  /\ q.pc = "save"
        /\ sso' = [enabled |-> q.enabled, issuer |-> q.fields,
                   secret |-> sso.secret \/ q.secret]
        /\ session' = [s \in DOMAIN session |->
                          IF sso.enabled \/ q.enabled THEN Fate(q) ELSE session[s]]
        /\ req' = [x \in Request |->
               IF x = r THEN IF q.revoke THEN [q EXCEPT !.pc = "scan"] ELSE Idle
               ELSE [req[x] EXCEPT !.excused = @ \/ Overtaken(req[x], q.enabled)]]
        /\ UNCHANGED <<shelves, auth, key, proc, cookies>>

\* DeleteByAuthMethod is sure to find the sessions that are there when it
\* begins; whether it finds one created meanwhile depends on the store.
Scan(r) ==
    /\ req[r].pc = "scan"
    /\ req' = [req EXCEPT ![r].pc = "sweep", ![r].targets = DOMAIN session]
    /\ UNCHANGED <<shelves, row, proc, cookies, session>>

Without(gone) == [s \in DOMAIN session \ gone |-> session[s]]

\* Its failure, half way or at once, is only logged.
Sweep(r) ==
    /\ req[r].pc = "sweep"
    /\ \E gone \in SUBSET DOMAIN session :
           \/ /\ req[r].targets \cap DOMAIN session \subseteq gone
              /\ session' = Without(gone)
           \/ session' = [s \in DOMAIN session \ gone |->
                             IF session[s] = "owed" THEN "excused" ELSE session[s]]
    /\ Done(r)
    /\ UNCHANGED <<shelves, row, proc, cookies>>

-----------------------------------------------------------------------------
(* handleOIDCStart and handleOIDCCallback                                  *)

\* A login begins if SSO is enabled.
OIDCStartRequest(r) ==
    sso.enabled /\ Accept(r, [Idle EXCEPT !.kind = "start", !.pc = "key"])

\* The provider sent a browser back, with whatever state cookie it holds.
OIDCCallbackRequest(r) ==
    \E k \in cookies :
        Accept(r, [Idle EXCEPT !.kind = "callback", !.pc = "key", !.cookie = k])

\* rand.Read: a key that nobody has ever held.
Fresh(k) == k # key /\ k \notin cookies /\ \A r \in Request : k # req[r].key /\ k # req[r].cookie

HasKey(q, k) == [q EXCEPT !.key = k, !.pc = IF q.kind = "start" THEN "seal" ELSE "open"]

\* Bug: a key is generated whether or not there is one.
GetOrCreateEncryptionKey_Create(r) ==
    /\ req[r].pc = "key"
    /\ \E k \in Key : Fresh(k) /\ Becomes(r, [req[r] EXCEPT !.key = k, !.pc = "store"])
    /\ UNCHANGED <<shelves, row, proc, cookies, session>>

\* The key is read; if there is none, a new one is generated ...
GetOrCreateEncryptionKey(r) ==
    /\ req[r].pc = "key"
    /\ IF key # NoKey THEN Becomes(r, HasKey(req[r], key))
       ELSE \E k \in Key : Fresh(k) /\ Becomes(r, [req[r] EXCEPT !.key = k, !.pc = "store"])
    /\ UNCHANGED <<shelves, row, proc, cookies, session>>

\* ... and stored by a statement that does not look at what is there by now.
StoreEncryptionKey(r) ==
    /\ req[r].pc = "store"
    /\ key' = req[r].key
    /\ Becomes(r, HasKey(req[r], req[r].key))
    /\ UNCHANGED <<shelves, auth, sso, proc, cookies, session>>

\* The provider was discovered: the browser gets its cookie and is redirected.
EncryptStateCookie(r) ==
    /\ req[r].pc = "seal"
    /\ cookies' = cookies \cup {req[r].key}
    /\ Done(r)
    /\ UNCHANGED <<shelves, row, proc, session>>

\* A cookie lives for ten minutes; it is cleared by the callback that opens it.
Expire(k) ==
    /\ k \in cookies
    /\ cookies' = cookies \ {k}
    /\ UNCHANGED <<shelves, row, proc, req, session>>

\* The cookie must open under the key (and hold the state of this login, not
\* of one that another tab began: Fail stands for that).
DecryptStateCookie(r) ==
    /\ req[r].pc = "open"
    /\ IF req[r].cookie = req[r].key THEN Goto(r, "load") ELSE Done(r)
    /\ UNCHANGED <<shelves, row, proc, cookies, session>>

\* Bug: whether SSO is enabled was looked at when the login began.
CallbackConfig_Unread(r) ==
    /\ req[r].pc = "load"
    /\ Goto(r, "exchange")
    /\ UNCHANGED <<shelves, row, proc, cookies, session>>

\* The configuration as the login ends.
CallbackConfig(r) ==
    /\ req[r].pc = "load"
    /\ IF sso.enabled THEN Goto(r, "exchange") ELSE Done(r)
    /\ UNCHANGED <<shelves, row, proc, cookies, session>>

\* The provider takes the code for a token that verifies.
ExchangeAndVerify(r) ==
    /\ req[r].pc = "exchange"
    /\ Goto(r, "create")
    /\ UNCHANGED <<shelves, row, proc, cookies, session>>

\* The user's record is written, or not; then the session.
CreateWithMethod(r) ==
    /\ req[r].pc = "create"
    /\ \E id \in Id \ DOMAIN session :
           /\ \A x \in Request : id \notin req[x].targets
           /\ session' = [s \in DOMAIN session \cup {id} |->
                  IF s # id THEN session[s]
                  ELSE IF req[r].excused /\ ~sso.enabled THEN "excused" ELSE "in"]
    /\ Done(r)
    /\ UNCHANGED <<shelves, row, proc, cookies>>

-----------------------------------------------------------------------------
Process ==
    \/ \E p \in {"server", "cli"} : Open(p) \/ Seed(p) \/ Crash(p)
    \/ seedOIDCFromEnv
    \/ DisableAuth

Arrive(r) ==
    \/ UpdateAuthSettingsRequest(r) \/ UpdateOIDCConfigRequest(r)
    \/ OIDCStartRequest(r) \/ OIDCCallbackRequest(r)

Settings(r) ==
    \/ UpdateAuthSettings(r)
    \/ ExistingSecret(r) \/ SaveOIDCConfig(r) \/ Scan(r) \/ Sweep(r)

Login(r) ==
    \/ GetOrCreateEncryptionKey(r) \/ StoreEncryptionKey(r)
    \/ EncryptStateCookie(r) \/ DecryptStateCookie(r)
    \/ CallbackConfig(r) \/ ExchangeAndVerify(r) \/ CreateWithMethod(r)

Next ==
    \/ Process
    \/ \E r \in Request : Arrive(r) \/ Settings(r) \/ Login(r) \/ Fail(r)
    \/ \E k \in cookies : Expire(k)

Spec == Init /\ [][Next]_vars

-----------------------------------------------------------------------------
Pcs == {"idle", "update", "secret", "save", "scan", "sweep", "key", "store",
        "seal", "open", "load", "exchange", "create"}

Record == [kind : {"none", "auth", "save", "start", "callback"}, pc : Pcs,
           enabled : BOOLEAN, fields : BOOLEAN, secret : BOOLEAN,
           revoke : BOOLEAN, excused : BOOLEAN, key : Key \cup {NoKey},
           cookie : Key \cup {NoKey}, targets : SUBSET Id]

\* At most the two processes that found the file empty have seeded it.
TypeOK ==
    /\ shelves \in 0..2
    /\ auth \in [enabled : BOOLEAN, pass : BOOLEAN]
    /\ sso \in [enabled : BOOLEAN, issuer : BOOLEAN, secret : BOOLEAN]
    /\ key \in Key \cup {NoKey}
    /\ proc \in [{"server", "cli"} -> {"down", "seed", "env", "up", "disable"}]
    /\ req \in [Request -> Record]
    /\ cookies \subseteq Key
    /\ DOMAIN session \subseteq Id
    /\ session \in [DOMAIN session -> {"in", "owed", "excused"}]

\* handler.go:1137: "When enabling auth, require a password if none has been set
\* yet".  Enabled without a password nobody could sign in.  The check and the
\* update are two statements: only --disable-auth, which clears the password,
\* can come in between; no mix of updates locks the user out.
Sound ==
    /\ ValidateCredentials
    /\ \A r \in Request : req[r].pc = "update" /\ req[r].enabled
                              => req[r].secret \/ auth.pass

NeverLockedOut ==
    [][Sound => \/ Sound'
                \/ proc["cli"] = "disable" /\ ~auth'.pass /\ auth.pass]_vars

\* handler.go:1020 and 1027: "Issuer URL, Client ID, and Client Secret are
\* required" of an enabled configuration.  No save enables SSO without them,
\* though a secret is looked for in one statement and the configuration saved
\* in a later one, and other saves, seeds and restarts come in between.  Only
\* the environment may, and only if it has a client id and no secret.
SeedsNoSecret == seedOIDCFromEnv /\ [client |-> TRUE, secret |-> FALSE] \in Env

SsoIsConfigured ==
    [][sso' # sso /\ sso'.enabled => sso'.issuer /\ (sso'.secret \/ SeedsNoSecret)]_vars

\* store.go:1502-1503: the key is generated "if it doesn't exist yet".  Once
\* first uses that raced are over, and the logins begun under the key that lost
\* are too, every login can open its cookie again, across restarts, saves and
\* --disable-auth, and no other key is ever stored.
Settled ==
    /\ key # NoKey
    /\ cookies \subseteq {key}
    /\ \A r \in Request : {req[r].key, req[r].cookie} \subseteq {key, NoKey}

KeySettles == [][Settled => Settled' /\ key' = key]_vars

\* handler.go:1053: "If OIDC was disabled (was enabled, now not), revoke OIDC
\* sessions".  Once the request that disabled SSO is over, nobody stays signed
\* in by SSO, but for whom the code lets through: a login that had read the
\* enabled configuration before; those whom a save signs out that had read the
\* configuration before another save enabled it, or could not read it; and
\* those whose deletion failed or was cut short by the end of the process.
DisabledSignsOut ==
    ~sso.enabled /\ (\A r \in Request : req[r].pc \notin {"scan", "sweep"})
        => \A s \in DOMAIN session : session[s] = "excused"

\* store.go:171-172: "seeds the default shelf if needed".  Two processes that
\* open a new file at once may both find it empty; once there is a shelf and
\* nobody is about to insert one, no start and no crash adds another.
SeedSettled == shelves > 0 /\ \A p \in {"server", "cli"} : proc[p] # "seed"

SeededOnce == [][SeedSettled => SeedSettled' /\ shelves' = shelves]_vars
=============================================================================
