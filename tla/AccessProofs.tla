---------------------------- MODULE AccessProofs ----------------------------
(***************************************************************************)
(* Proofs about module Access, for any sets of requests, keys and session  *)
(* tokens and any environment.                                             *)
(***************************************************************************)
EXTENDS Access, TLAPS

(***************************************************************************)
(* The inductive invariant AInv.  Two processes seed a file only if both   *)
(* found it empty (Seeding); what a request does next is in keeping with   *)
(* the configuration c as it is by now, or the request knows no better     *)
(* (Legal); a session that SSO's disabling owes its deletion has a request *)
(* that is about to delete it (SessionOK).                                 *)
(***************************************************************************)
DataOK ==
    /\ shelves \in 0..2
    /\ auth \in [enabled : BOOLEAN, pass : BOOLEAN]
    /\ sso \in [enabled : BOOLEAN, issuer : BOOLEAN, secret : BOOLEAN]
    /\ key \in Key \cup {NoKey}
    /\ proc \in [{"server", "cli"} -> {"down", "seed", "env", "up", "disable"}]
    /\ cookies \subseteq Key

Seeding ==
    /\ \A p \in {"server", "cli"} : proc[p] = "seed" => shelves \in 0..1
    /\ proc["server"] = "seed" /\ proc["cli"] = "seed" => shelves = 0

Staged(q) ==
    /\ q.pc \in {"secret", "save"} => q.kind = "save"
    /\ q.pc \in {"key", "store"} => q.kind \in {"start", "callback"}
    /\ q.pc \in {"open", "load", "exchange", "create"} => q.kind = "callback"
    /\ q.pc \in {"store", "seal"} => q.key # NoKey
    /\ q.pc = "secret" => q.enabled /\ q.fields

Current(q, c) ==
    /\ q.pc = "save" /\ q.enabled => q.fields /\ (q.secret \/ c.secret)
    /\ q.pc = "save" /\ ~q.enabled /\ ~q.excused /\ ~q.revoke => ~c.enabled
    /\ q.pc \in {"exchange", "create"} /\ ~c.enabled => q.excused

Legal(q, c) == q \in Record /\ Staged(q) /\ Current(q, c)

\* Will this request delete session s?
Deletes(q, s) == q.pc = "scan" \/ (q.pc = "sweep" /\ s \in q.targets)

ReqOK ==
    /\ req \in [Request -> Record]
    /\ \A r \in Request : Legal(req[r], sso)
    /\ proc["server"] # "up" => \A r \in Request : req[r].pc = "idle"

SessionOK ==
    /\ DOMAIN session \subseteq Id
    /\ session \in [DOMAIN session -> {"in", "owed", "excused"}]
    /\ \A s \in DOMAIN session :
          /\ sso.enabled <=> session[s] = "in"
          /\ session[s] = "owed" => \E r \in Request : Deletes(req[r], s)

AInv == DataOK /\ Seeding /\ ReqOK /\ SessionOK

-----------------------------------------------------------------------------
(* Requests. *)

LEMMA IdleIsLegal == ASSUME NEW c PROVE Legal(Idle, c)
BY DEF Legal, Idle, Record, Pcs, Staged, Current

\* A request that deletes nothing takes a step that changes no more than the
\* password, the key or the cookies.
LEMMA MoveKeeps ==
    ASSUME AInv, NEW r \in Request, NEW q, Becomes(r, q), Legal(q, sso),
           req[r].pc \notin {"scan", "sweep"}, proc["server"] = "up",
           UNCHANGED <<shelves, sso, proc, session>>,
           auth' \in [enabled : BOOLEAN, pass : BOOLEAN],
           key' \in Key \cup {NoKey}, cookies' \subseteq Key
    PROVE  AInv'
<1>1. DataOK' /\ Seeding'
  BY DEF AInv, DataOK, Seeding
<1>2. ReqOK'
  <2>1. req' \in [Request -> Record]
    BY DEF AInv, ReqOK, Becomes, Legal
  <2>2. \A x \in Request : Legal(req'[x], sso')
    BY DEF AInv, ReqOK, Becomes
  <2> QED
    BY <2>1, <2>2 DEF ReqOK
<1>3. SessionOK'
  <2>1. \A x \in Request : \A s : Deletes(req[x], s) => Deletes(req'[x], s)
    BY DEF Deletes, Becomes, AInv, ReqOK
  <2> QED
    BY <2>1 DEF AInv, SessionOK
<1> QED
  BY <1>1, <1>2, <1>3 DEF AInv

\* What a request needs to know to take such a step.
LEMMA Busy ==
    ASSUME AInv, NEW r \in Request, req[r].pc # "idle"
    PROVE  /\ proc["server"] = "up"
           /\ Legal(req[r], sso)
           /\ auth \in [enabled : BOOLEAN, pass : BOOLEAN]
           /\ key \in Key \cup {NoKey}
           /\ cookies \subseteq Key
BY DEF AInv, ReqOK, DataOK

LEMMA DoneKeeps ==
    ASSUME AInv, NEW r \in Request, Done(r),
           req[r].pc \notin {"idle", "scan", "sweep"},
           UNCHANGED <<shelves, sso, proc, session>>,
           auth' \in [enabled : BOOLEAN, pass : BOOLEAN],
           key' \in Key \cup {NoKey}, cookies' \subseteq Key
    PROVE  AInv'
BY MoveKeeps, IdleIsLegal, Busy DEF Done

LEMMA GotoKeeps ==
    ASSUME AInv, NEW r \in Request, NEW pc, Goto(r, pc), req[r].pc \notin {"idle", "scan", "sweep"},
           Legal([req[r] EXCEPT !.pc = pc], sso),
           UNCHANGED <<shelves, sso, proc, session, auth, key, cookies>>
    PROVE  AInv'
<1>1. Becomes(r, [req[r] EXCEPT !.pc = pc])
  BY DEF Goto, Becomes, AInv, ReqOK
<1> QED
  BY <1>1, MoveKeeps, Busy

LEMMA AcceptKeeps ==
    ASSUME AInv, NEW r \in Request, NEW q, Accept(r, q), Legal(q, sso)
    PROVE  AInv'
BY MoveKeeps DEF Accept, AInv, DataOK, row

-----------------------------------------------------------------------------
(* The settings. *)

LEMMA FailKeeps ==
    ASSUME AInv, NEW r \in Request, Fail(r)
    PROVE  AInv'
BY DoneKeeps, Busy DEF Fail, row

LEMMA UpdateAuthKeeps ==
    ASSUME AInv, NEW r \in Request, UpdateAuthSettingsRequest(r) \/ UpdateAuthSettings(r)
    PROVE  AInv'
<1>1. CASE UpdateAuthSettingsRequest(r)
  <2>1. PICK enabled \in BOOLEAN, secret \in BOOLEAN :
            Accept(r, [Idle EXCEPT !.kind = "auth", !.pc = "update",
                           !.enabled = enabled, !.secret = secret])
    BY <1>1 DEF UpdateAuthSettingsRequest
  <2>2. Legal([Idle EXCEPT !.kind = "auth", !.pc = "update",
                   !.enabled = enabled, !.secret = secret], sso)
    BY DEF Legal, Idle, Record, Pcs, Staged, Current
  <2> QED
    BY <2>1, <2>2, AcceptKeeps
<1>2. CASE UpdateAuthSettings(r)
  <2>1. auth' \in [enabled : BOOLEAN, pass : BOOLEAN]
    BY <1>2, Busy DEF UpdateAuthSettings, Legal, Record
  <2> QED
    BY <1>2, <2>1, DoneKeeps, Busy DEF UpdateAuthSettings
<1> QED
  BY <1>1, <1>2

\* A save that disables SSO and is not excused has read that it was enabled,
\* or will find it disabled.
LEMMA UpdateOIDCConfigKeeps ==
    ASSUME AInv, NEW r \in Request, UpdateOIDCConfigRequest(r) \/ ExistingSecret(r)
    PROVE  AInv'
<1>1. CASE UpdateOIDCConfigRequest(r)
  <2> DEFINE Asked(enabled, fields, secret, read) ==
                 [Idle EXCEPT !.kind = "save", !.enabled = enabled,
                     !.fields = fields, !.secret = secret,
                     !.pc = IF enabled /\ ~secret THEN "secret" ELSE "save",
                     !.revoke = read /\ sso.enabled /\ ~enabled,
                     !.excused = ~read /\ ~enabled]
  <2>1. PICK enabled \in BOOLEAN, fields \in BOOLEAN, secret \in BOOLEAN, read \in BOOLEAN :
            /\ enabled => fields
            /\ Accept(r, Asked(enabled, fields, secret, read))
    BY <1>1 DEF UpdateOIDCConfigRequest
  <2> DEFINE q == Asked(enabled, fields, secret, read)
  <2>2. sso.enabled \in BOOLEAN /\ sso.secret \in BOOLEAN
    BY DEF AInv, DataOK
  <2>3. /\ q.kind = "save" /\ q.enabled = enabled /\ q.fields = fields
        /\ q.secret = secret /\ q.pc = (IF enabled /\ ~secret THEN "secret" ELSE "save")
        /\ q.revoke = (read /\ sso.enabled /\ ~enabled)
        /\ q.excused = (~read /\ ~enabled)
    BY DEF Idle
  <2>4. q \in Record
    <3>1. (IF enabled /\ ~secret THEN "secret" ELSE "save") \in Pcs
      BY DEF Pcs
    <3>2. Idle \in Record
      BY IdleIsLegal DEF Legal
    <3>3. (read /\ sso.enabled /\ ~enabled) \in BOOLEAN /\ (~read /\ ~enabled) \in BOOLEAN
      OBVIOUS
    <3>4. \A pc \in Pcs, revoke, excused \in BOOLEAN :
             [Idle EXCEPT !.kind = "save", !.enabled = enabled, !.fields = fields,
                 !.secret = secret, !.pc = pc, !.revoke = revoke,
                 !.excused = excused] \in Record
      BY <3>2 DEF Record
    <3> QED
      BY <3>1, <3>3, <3>4, Zenon
  <2>5. Staged(q)
    BY <2>1, <2>3 DEF Staged
  <2>6. Current(q, sso)
    <3>1. CASE enabled
      BY <2>1, <2>2, <2>3, <3>1 DEF Current
    <3>2. CASE ~enabled
      BY <2>1, <2>2, <2>3, <3>2 DEF Current
    <3> QED
      BY <3>1, <3>2
  <2>7. Legal(q, sso)
    BY <2>4, <2>5, <2>6 DEF Legal
  <2> HIDE DEF Asked
  <2> QED
    BY <2>1, <2>7, AcceptKeeps
<1>2. CASE ExistingSecret(r) /\ sso.secret
  <2>1. Legal([req[r] EXCEPT !.pc = "save"], sso)
    BY <1>2, Busy DEF ExistingSecret, Legal, Record, Pcs, Staged, Current
  <2> QED
    BY <1>2, <2>1, GotoKeeps, Busy DEF ExistingSecret, row
<1>3. CASE ExistingSecret(r) /\ ~sso.secret
  BY <1>3, DoneKeeps, Busy DEF ExistingSecret, row
<1> QED
  BY <1>1, <1>2, <1>3

LEMMA SaveKeeps ==
    ASSUME AInv, NEW r \in Request, SaveOIDCConfig(r)
    PROVE  AInv'
<1> DEFINE q == req[r]
<1> USE DEF SaveOIDCConfig
<1>1. q \in Record /\ Staged(q) /\ Current(q, sso) /\ q.pc = "save" /\ proc["server"] = "up"
  BY Busy DEF Legal
<1>2. /\ sso \in [enabled : BOOLEAN, issuer : BOOLEAN, secret : BOOLEAN]
      /\ sso' = [enabled |-> q.enabled, issuer |-> q.fields, secret |-> sso.secret \/ q.secret]
  BY DEF AInv, DataOK
<1>3. DataOK' /\ Seeding'
  <2>1. sso' \in [enabled : BOOLEAN, issuer : BOOLEAN, secret : BOOLEAN]
    BY <1>1, <1>2 DEF Record
  <2> QED
    BY <2>1 DEF AInv, DataOK, Seeding
<1>4. ReqOK'
  <2>1. \A x \in Request : Legal(req'[x], sso')
    <3> SUFFICES ASSUME NEW x \in Request PROVE Legal(req'[x], sso')
      OBVIOUS
    <3>1. Legal(req[x], sso)
      BY DEF AInv, ReqOK
    <3>2. CASE x # r
      <4>1. req'[x] = [req[x] EXCEPT !.excused = @ \/ Overtaken(req[x], q.enabled)]
        BY <3>2
      <4>2. Overtaken(req[x], q.enabled) \in BOOLEAN
        BY DEF Overtaken
      <4>3. req'[x] \in Record /\ Staged(req'[x])
        BY <3>1, <4>1, <4>2 DEF Legal, Record, Pcs, Staged
      <4>4. /\ req'[x].excused = (req[x].excused \/ Overtaken(req[x], q.enabled))
            /\ req'[x].kind = req[x].kind /\ req'[x].pc = req[x].pc
            /\ req'[x].enabled = req[x].enabled /\ req'[x].revoke = req[x].revoke
            /\ req'[x].fields = req[x].fields /\ req'[x].secret = req[x].secret
        BY <3>1, <4>1 DEF Legal, Record
      <4>5. sso'.enabled = q.enabled /\ (sso.secret => sso'.secret)
        BY <1>2
      <4>6. Current(req'[x], sso')
        <5>1. CASE q.enabled
          BY <3>1, <4>4, <4>5, <5>1 DEF Legal, Staged, Current, Overtaken
        <5>2. CASE ~q.enabled
          BY <3>1, <4>4, <4>5, <5>2 DEF Legal, Staged, Current, Overtaken
        <5> QED
          BY <5>1, <5>2
      <4> QED
        BY <4>3, <4>6 DEF Legal
    <3>3. CASE x = r /\ q.revoke
      <4>1. req'[r] = [q EXCEPT !.pc = "scan"]
        BY <3>3
      <4> QED
        BY <1>1, <3>3, <4>1 DEF Legal, Record, Pcs, Staged, Current
    <3>4. CASE x = r /\ ~q.revoke
      BY <3>4, IdleIsLegal
    <3> QED
      BY <3>2, <3>3, <3>4
  <2>2. DOMAIN req' = Request /\ \A x \in Request : req'[x] \in Record
    BY <2>1 DEF Legal
  <2>3. req' \in [Request -> Record]
    BY <2>2
  <2> QED
    BY <1>1, <2>1, <2>3 DEF ReqOK
<1>5. SessionOK'
  <2>1. \A x \in Request : \A s : Deletes(req[x], s) => Deletes(req'[x], s)
    BY <1>1 DEF Deletes, AInv, ReqOK, Record
  <2>2. /\ session' = [s \in DOMAIN session |->
                          IF sso.enabled \/ q.enabled THEN Fate(q) ELSE session[s]]
        /\ Fate(q) \in {"in", "owed", "excused"}
    BY DEF Fate
  <2>3. ASSUME NEW s \in DOMAIN session'
        PROVE  sso'.enabled <=> session'[s] = "in"
    BY <1>1, <1>2, <2>2 DEF Fate, AInv, SessionOK, Record
  <2>4. ASSUME NEW s \in DOMAIN session', session'[s] = "owed"
        PROVE  \E x \in Request : Deletes(req'[x], s)
    <3>1. CASE sso.enabled \/ q.enabled
      <4>1. q.revoke
        BY <1>1, <1>2, <2>2, <2>4, <3>1 DEF Fate, Current, Record
      <4>2. req'[r] = [q EXCEPT !.pc = "scan"]
        BY <4>1
      <4> QED
        BY <1>1, <4>2 DEF Deletes, Record
    <3>2. CASE ~(sso.enabled \/ q.enabled)
      BY <2>1, <2>2, <2>4, <3>2 DEF AInv, SessionOK
    <3> QED
      BY <3>1, <3>2
  <2> QED
    BY <2>2, <2>3, <2>4 DEF AInv, SessionOK
<1> QED
  BY <1>3, <1>4, <1>5 DEF AInv

LEMMA ScanKeeps ==
    ASSUME AInv, NEW r \in Request, Scan(r)
    PROVE  AInv'
<1> DEFINE q == [req[r] EXCEPT !.pc = "sweep", !.targets = DOMAIN session]
<1>1. req' = [req EXCEPT ![r] = q] /\ req[r].pc = "scan"
  BY DEF Scan, AInv, ReqOK
<1>2. Legal(q, sso)
  <2>1. req[r] \in Record /\ DOMAIN session \subseteq Id
    BY <1>1, Busy DEF AInv, SessionOK, Legal
  <2>2. q \in Record
    BY <2>1 DEF Record, Pcs
  <2>3. q.pc = "sweep"
    BY <2>1 DEF Record
  <2>4. Staged(q) /\ Current(q, sso)
    BY <2>3 DEF Staged, Current
  <2> QED
    BY <2>2, <2>4 DEF Legal
<1>3. ReqOK'
  <2>1. \A x \in Request : Legal(req'[x], sso')
    BY <1>1, <1>2 DEF Scan, AInv, ReqOK, row
  <2>2. req' \in [Request -> Record]
    BY <1>1, <1>2 DEF Legal, AInv, ReqOK
  <2>3. proc["server"]' = "up"
    BY <1>1, Busy DEF Scan
  <2> QED
    BY <2>1, <2>2, <2>3 DEF ReqOK
<1>4. SessionOK'
  <2>1. \A x \in Request, s \in DOMAIN session : Deletes(req[x], s) => Deletes(req'[x], s)
    BY <1>1, <1>2 DEF Deletes, AInv, ReqOK, Legal, Record
  <2> QED
    BY <2>1 DEF Scan, row, AInv, SessionOK
<1>5. DataOK' /\ Seeding'
  BY DEF Scan, row, AInv, DataOK, Seeding
<1> QED
  BY <1>3, <1>4, <1>5 DEF AInv

LEMMA SweepKeeps ==
    ASSUME AInv, NEW r \in Request, Sweep(r)
    PROVE  AInv'
<1>1. req' = [req EXCEPT ![r] = Idle] /\ req[r].pc = "sweep" /\ Legal(Idle, sso)
  BY IdleIsLegal DEF Sweep, Done, Becomes
<1>2. ReqOK'
  <2>1. \A x \in Request : Legal(req'[x], sso')
    BY <1>1 DEF Sweep, AInv, ReqOK, row
  <2>2. req' \in [Request -> Record]
    BY <1>1 DEF Legal, AInv, ReqOK
  <2>3. proc["server"]' = "up"
    BY <1>1, Busy DEF Sweep
  <2> QED
    BY <2>1, <2>2, <2>3 DEF ReqOK
<1>3. SessionOK'
  <2>1. PICK gone \in SUBSET DOMAIN session :
            \/ /\ req[r].targets \cap DOMAIN session \subseteq gone
               /\ session' = Without(gone)
            \/ session' = [s \in DOMAIN session \ gone |->
                              IF session[s] = "owed" THEN "excused" ELSE session[s]]
    BY DEF Sweep
  <2>2. sso' = sso
    BY DEF Sweep, row
  <2>3. CASE session' = Without(gone) /\ req[r].targets \cap DOMAIN session \subseteq gone
    <3>1. session' = [s \in DOMAIN session \ gone |-> session[s]]
      BY <2>3 DEF Without
    <3>2. \A x \in Request, s \in DOMAIN session \ gone :
              Deletes(req[x], s) => Deletes(req'[x], s)
      BY <1>1, <2>3 DEF Deletes, AInv, ReqOK
    <3> QED
      BY <2>2, <3>1, <3>2 DEF AInv, SessionOK
  <2>4. CASE session' = [s \in DOMAIN session \ gone |->
                            IF session[s] = "owed" THEN "excused" ELSE session[s]]
    BY <2>2, <2>4 DEF AInv, SessionOK
  <2> QED
    BY <2>1, <2>3, <2>4
<1>4. DataOK' /\ Seeding'
  BY DEF Sweep, row, AInv, DataOK, Seeding
<1> QED
  BY <1>2, <1>3, <1>4 DEF AInv

-----------------------------------------------------------------------------
(* Logins. *)

LEMMA LoginRequestKeeps ==
    ASSUME AInv, NEW r \in Request, OIDCStartRequest(r) \/ OIDCCallbackRequest(r)
    PROVE  AInv'
<1>1. CASE OIDCStartRequest(r)
  <2>1. Legal([Idle EXCEPT !.kind = "start", !.pc = "key"], sso)
    BY DEF Legal, Idle, Record, Pcs, Staged, Current
  <2> QED
    BY <1>1, <2>1, AcceptKeeps DEF OIDCStartRequest
<1>2. CASE OIDCCallbackRequest(r)
  <2>1. PICK k \in cookies :
            Accept(r, [Idle EXCEPT !.kind = "callback", !.pc = "key", !.cookie = k])
    BY <1>2 DEF OIDCCallbackRequest
  <2>2. k \in Key
    BY DEF AInv, DataOK
  <2>3. Legal([Idle EXCEPT !.kind = "callback", !.pc = "key", !.cookie = k], sso)
    BY <2>2 DEF Legal, Idle, Record, Pcs, Staged, Current
  <2> QED
    BY <2>1, <2>3, AcceptKeeps
<1> QED
  BY <1>1, <1>2

\* A key that is used or about to be stored is never the empty one.
LEMMA KeyKeeps ==
    ASSUME AInv, NEW r \in Request, GetOrCreateEncryptionKey(r) \/ StoreEncryptionKey(r)
    PROVE  AInv'
<1>1. Legal(req[r], sso) /\ key \in Key \cup {NoKey} /\ proc["server"] = "up"
  BY Busy DEF GetOrCreateEncryptionKey, StoreEncryptionKey
<1>2. ASSUME NEW k \in Key, req[r].kind \in {"start", "callback"}
      PROVE  /\ Legal(HasKey(req[r], k), sso)
             /\ Legal([req[r] EXCEPT !.key = k, !.pc = "store"], sso)
  <2>1. k # NoKey
    BY KeyAssumption
  <2>2. Legal([req[r] EXCEPT !.key = k, !.pc = "store"], sso)
    BY <1>1, <1>2, <2>1 DEF Legal, Record, Pcs, Staged, Current
  <2>3. CASE req[r].kind = "start"
    <3>1. HasKey(req[r], k) = [req[r] EXCEPT !.key = k, !.pc = "seal"]
      BY <2>3 DEF HasKey
    <3>2. Legal([req[r] EXCEPT !.key = k, !.pc = "seal"], sso)
      BY <1>1, <1>2, <2>1 DEF Legal, Record, Pcs, Staged, Current
    <3> QED
      BY <2>2, <3>1, <3>2
  <2>4. CASE req[r].kind = "callback"
    <3>1. HasKey(req[r], k) = [req[r] EXCEPT !.key = k, !.pc = "open"]
      BY <2>4 DEF HasKey
    <3>2. Legal([req[r] EXCEPT !.key = k, !.pc = "open"], sso)
      BY <1>1, <2>4 DEF Legal, Record, Pcs, Staged, Current
    <3> QED
      BY <2>2, <3>1, <3>2
  <2> QED
    BY <1>2, <2>3, <2>4
<1>3. CASE GetOrCreateEncryptionKey(r)
  <2>1. req[r].kind \in {"start", "callback"}
    BY <1>1, <1>3 DEF GetOrCreateEncryptionKey, Legal, Staged
  <2>2. \E q : Becomes(r, q) /\ Legal(q, sso)
    BY <1>1, <1>2, <1>3, <2>1 DEF GetOrCreateEncryptionKey
  <2> QED
    BY <1>1, <1>3, <2>2, MoveKeeps, Busy DEF GetOrCreateEncryptionKey, row
<1>4. CASE StoreEncryptionKey(r)
  <2>1. req[r].kind \in {"start", "callback"} /\ req[r].key \in Key
    BY <1>1, <1>4 DEF StoreEncryptionKey, Legal, Staged, Record
  <2>2. Becomes(r, HasKey(req[r], req[r].key)) /\ Legal(HasKey(req[r], req[r].key), sso)
    BY <1>2, <1>4, <2>1 DEF StoreEncryptionKey
  <2> QED
    BY <1>1, <1>4, <2>1, <2>2, MoveKeeps, Busy DEF StoreEncryptionKey
<1> QED
  BY <1>3, <1>4

LEMMA CookieKeeps ==
    ASSUME AInv, NEW r \in Request,
           \/ EncryptStateCookie(r) \/ DecryptStateCookie(r)
           \/ CallbackConfig(r) \/ ExchangeAndVerify(r)
    PROVE  AInv'
<1>1. Legal(req[r], sso)
  BY Busy DEF EncryptStateCookie, DecryptStateCookie, CallbackConfig, ExchangeAndVerify
<1>2. CASE EncryptStateCookie(r)
  <2>1. cookies \cup {req[r].key} \subseteq Key
    BY <1>1, <1>2, Busy DEF EncryptStateCookie, Legal, Staged, Record
  <2> QED
    BY <1>2, <2>1, DoneKeeps, Busy DEF EncryptStateCookie, row
<1>3. CASE DecryptStateCookie(r) /\ Goto(r, "load")
  <2>1. Legal([req[r] EXCEPT !.pc = "load"], sso)
    BY <1>1, <1>3 DEF DecryptStateCookie, Legal, Record, Pcs, Staged, Current
  <2> QED
    BY <1>3, <2>1, GotoKeeps DEF DecryptStateCookie, row
<1>4. CASE CallbackConfig(r) /\ sso.enabled
  <2>1. Legal([req[r] EXCEPT !.pc = "exchange"], sso)
    BY <1>1, <1>4 DEF CallbackConfig, Legal, Record, Pcs, Staged, Current
  <2> QED
    BY <1>4, <2>1, GotoKeeps DEF CallbackConfig, row
<1>5. CASE ExchangeAndVerify(r)
  <2>1. Legal([req[r] EXCEPT !.pc = "create"], sso)
    BY <1>1, <1>5 DEF ExchangeAndVerify, Legal, Record, Pcs, Staged, Current
  <2> QED
    BY <1>5, <2>1, GotoKeeps DEF ExchangeAndVerify, row
<1>6. CASE (DecryptStateCookie(r) \/ CallbackConfig(r)) /\ Done(r)
  BY <1>6, DoneKeeps, Busy DEF DecryptStateCookie, CallbackConfig, row
<1> QED
  BY <1>2, <1>3, <1>4, <1>5, <1>6 DEF DecryptStateCookie, CallbackConfig

LEMMA CreateKeeps ==
    ASSUME AInv, NEW r \in Request, CreateWithMethod(r)
    PROVE  AInv'
<1>1. req' = [req EXCEPT ![r] = Idle] /\ req[r].pc = "create" /\ Legal(Idle, sso)
  BY IdleIsLegal DEF CreateWithMethod, Done, Becomes
<1>2. ReqOK'
  <2>1. \A x \in Request : Legal(req'[x], sso')
    BY <1>1 DEF CreateWithMethod, AInv, ReqOK, row
  <2>2. req' \in [Request -> Record]
    BY <1>1 DEF Legal, AInv, ReqOK
  <2>3. proc["server"]' = "up"
    BY <1>1, Busy DEF CreateWithMethod
  <2> QED
    BY <2>1, <2>2, <2>3 DEF ReqOK
<1>3. SessionOK'
  <2>1. PICK id \in Id \ DOMAIN session :
            session' = [s \in DOMAIN session \cup {id} |->
                  IF s # id THEN session[s]
                  ELSE IF req[r].excused /\ ~sso.enabled THEN "excused" ELSE "in"]
    BY DEF CreateWithMethod
  <2>2. sso' = sso
    BY DEF CreateWithMethod, row
  <2>3. ~sso.enabled => req[r].excused
    BY <1>1 DEF AInv, ReqOK, Legal, Current
  <2>4. \A x \in Request : \A s : Deletes(req[x], s) => Deletes(req'[x], s)
    BY <1>1 DEF Deletes, AInv, ReqOK
  <2> QED
    BY <2>1, <2>2, <2>3, <2>4 DEF AInv, SessionOK
<1>4. DataOK' /\ Seeding'
  BY DEF CreateWithMethod, row, AInv, DataOK, Seeding
<1> QED
  BY <1>2, <1>3, <1>4 DEF AInv

-----------------------------------------------------------------------------
(* Processes. *)

\* A process that was not serving goes on, and changes no more than the
\* shelves, the password or the cookies.
LEMMA EnterKeeps ==
    ASSUME AInv, NEW p \in {"server", "cli"},
           NEW pc \in {"down", "seed", "env", "up", "disable"}, Enter(p, pc),
           p = "server" => proc[p] # "up",
           UNCHANGED <<sso, key, req, cookies, session>>,
           auth' \in [enabled : BOOLEAN, pass : BOOLEAN],
           shelves' \in 0..2, Seeding'
    PROVE  AInv'
<1>1. DataOK'
  BY DEF Enter, AInv, DataOK
<1>2. ReqOK'
  BY DEF Enter, AInv, ReqOK, DataOK
<1>3. SessionOK'
  BY DEF AInv, SessionOK
<1> QED
  BY <1>1, <1>2, <1>3 DEF AInv

LEMMA StartKeeps ==
    ASSUME AInv, NEW p \in {"server", "cli"}, Open(p) \/ Seed(p)
    PROVE  AInv'
<1>1. Opened(p) \in {"env", "disable"}
  BY DEF Opened
<1>2. /\ shelves \in 0..2
      /\ proc \in [{"server", "cli"} -> {"down", "seed", "env", "up", "disable"}]
      /\ Seeding
      /\ auth \in [enabled : BOOLEAN, pass : BOOLEAN]
  BY DEF AInv, DataOK
<1>3. CASE Open(p) /\ shelves > 0
  <2>1. Enter(p, Opened(p)) /\ shelves' = shelves
    BY <1>3 DEF Open
  <2>2. Seeding'
    BY <1>1, <1>2, <2>1 DEF Enter, Seeding
  <2> QED
    BY <1>1, <1>2, <1>3, <2>1, <2>2, EnterKeeps DEF Open, row
<1>4. CASE Open(p) /\ ~(shelves > 0)
  <2>1. Enter(p, "seed") /\ shelves' = shelves /\ shelves = 0
    BY <1>2, <1>4 DEF Open
  <2>2. Seeding'
    BY <1>2, <2>1 DEF Enter, Seeding
  <2> QED
    BY <1>2, <1>4, <2>1, <2>2, EnterKeeps DEF Open, row
<1>5. CASE Seed(p)
  <2>1. Enter(p, Opened(p)) /\ shelves' = shelves + 1 /\ proc[p] = "seed"
    BY <1>5 DEF Seed
  <2>2. shelves' \in 0..2
    BY <1>2, <2>1 DEF Seeding
  <2>3. Seeding'
    BY <1>1, <1>2, <2>1 DEF Enter, Seeding
  <2> QED
    BY <1>1, <1>2, <1>5, <2>1, <2>2, <2>3, EnterKeeps DEF Seed, row
<1> QED
  BY <1>3, <1>4, <1>5

LEMMA DisableAuthKeeps ==
    ASSUME AInv, DisableAuth
    PROVE  AInv'
<1>1. Seeding'
  BY DEF DisableAuth, Enter, AInv, DataOK, Seeding
<1> QED
  BY <1>1, EnterKeeps DEF DisableAuth, AInv, DataOK

\* The environment is read before the first request comes.
LEMMA SeedOIDCKeeps ==
    ASSUME AInv, seedOIDCFromEnv
    PROVE  AInv'
<1>1. /\ proc["server"] = "env"
      /\ proc' = [proc EXCEPT !["server"] = "up"]
      /\ \A r \in Request : req[r].pc = "idle"
  BY DEF seedOIDCFromEnv, Enter, AInv, ReqOK
<1>2. /\ sso' \in [enabled : BOOLEAN, issuer : BOOLEAN, secret : BOOLEAN]
      /\ sso.enabled => sso'.enabled
  <2>1. CASE UNCHANGED sso
    BY <2>1 DEF AInv, DataOK
  <2>2. CASE \E e \in Env : /\ e.client
                           /\ sso' = [enabled |-> TRUE, issuer |-> TRUE,
                                      secret |-> sso.secret \/ e.secret]
    <3>1. PICK e \in Env : /\ e.client
                           /\ sso' = [enabled |-> TRUE, issuer |-> TRUE,
                                      secret |-> sso.secret \/ e.secret]
      BY <2>2
    <3>2. e.secret \in BOOLEAN /\ sso.secret \in BOOLEAN
      BY EnvAssumption DEF AInv, DataOK
    <3>3. (sso.secret \/ e.secret) \in BOOLEAN
      BY <3>2
    <3> QED
      BY <3>1, <3>3
  <2> QED
    BY <2>1, <2>2 DEF seedOIDCFromEnv
<1>3. DataOK' /\ Seeding'
  BY <1>1, <1>2 DEF seedOIDCFromEnv, AInv, DataOK, Seeding
<1>4. ReqOK'
  <2>1. \A r \in Request : Legal(req[r], sso')
    BY <1>1 DEF AInv, ReqOK, Legal, Current
  <2> QED
    BY <1>1, <2>1 DEF seedOIDCFromEnv, AInv, ReqOK, DataOK
<1>5. SessionOK'
  <2>1. /\ session' = [s \in DOMAIN session |-> IF sso'.enabled THEN "in" ELSE session[s]]
        /\ req' = req
    BY DEF seedOIDCFromEnv
  <2> QED
    BY <1>2, <2>1 DEF AInv, SessionOK
<1> QED
  BY <1>3, <1>4, <1>5 DEF AInv

LEMMA CrashKeeps ==
    ASSUME AInv, NEW p \in {"server", "cli"}, Crash(p)
    PROVE  AInv'
<1>1. Seeding'
  BY DEF Crash, Enter, AInv, DataOK, Seeding
<1>2. CASE p = "cli"
  BY <1>1, <1>2, EnterKeeps DEF Crash, AInv, DataOK, row
<1>3. CASE p = "server"
  <2>1. /\ proc' = [proc EXCEPT !["server"] = "down"]
        /\ req' = [r \in Request |-> Idle]
        /\ sso' = sso
        /\ \/ session' = [s \in {} |-> "in"]
           \/ session' = [s \in DOMAIN session |->
                             IF session[s] = "owed" THEN "excused" ELSE session[s]]
    BY <1>3 DEF Crash, Enter, row
  <2>2. DataOK'
    BY <2>1 DEF Crash, row, AInv, DataOK
  <2>3. ReqOK'
    BY <2>1, IdleIsLegal DEF ReqOK, Legal, Idle
  <2>4. SessionOK'
    BY <2>1 DEF AInv, SessionOK
  <2> QED
    BY <1>1, <2>2, <2>3, <2>4 DEF AInv
<1> QED
  BY <1>2, <1>3

-----------------------------------------------------------------------------
(* The invariant. *)

LEMMA InitHolds == Init => AInv
<1> SUFFICES ASSUME Init PROVE AInv
  OBVIOUS
<1>1. DataOK /\ Seeding
  BY DEF Init, DataOK, Seeding
<1>2. ReqOK
  BY IdleIsLegal DEF Init, ReqOK, Legal, Idle
<1>3. SessionOK
  BY DEF Init, SessionOK
<1> QED
  BY <1>1, <1>2, <1>3 DEF AInv

LEMMA NextKeeps == AInv /\ [Next]_vars => AInv'
<1> SUFFICES ASSUME AInv, [Next]_vars PROVE AInv'
  OBVIOUS
<1>1. CASE Process
  BY <1>1, StartKeeps, CrashKeeps, SeedOIDCKeeps, DisableAuthKeeps DEF Process
<1>2. ASSUME NEW r \in Request, Arrive(r) PROVE AInv'
  BY <1>2, UpdateAuthKeeps, UpdateOIDCConfigKeeps, LoginRequestKeeps DEF Arrive
<1>3. ASSUME NEW r \in Request, Settings(r) PROVE AInv'
  BY <1>3, UpdateAuthKeeps, UpdateOIDCConfigKeeps, SaveKeeps, ScanKeeps, SweepKeeps
     DEF Settings
<1>4. ASSUME NEW r \in Request, Login(r) PROVE AInv'
  BY <1>4, KeyKeeps, CookieKeeps, CreateKeeps DEF Login
<1>5. ASSUME NEW r \in Request, Fail(r) PROVE AInv'
  BY <1>5, FailKeeps
<1>6. ASSUME NEW k \in cookies, Expire(k) PROVE AInv'
  BY <1>6 DEF Expire, row, AInv, DataOK, Seeding, ReqOK, SessionOK
<1>7. CASE UNCHANGED vars
  BY <1>7 DEF vars, row, AInv, DataOK, Seeding, ReqOK, SessionOK
<1> QED
  BY <1>1, <1>2, <1>3, <1>4, <1>5, <1>6, <1>7 DEF Next

LEMMA AlwaysAInv == Spec => []AInv
BY InitHolds, NextKeeps, PTL DEF Spec

-----------------------------------------------------------------------------
(* The theorems. *)

\* Every variable keeps its type; at most two processes seed the file.
THEOREM AccessTypes == Spec => []TypeOK
<1>1. AInv => TypeOK
  BY DEF AInv, DataOK, ReqOK, SessionOK, TypeOK
<1> QED
  BY <1>1, AlwaysAInv, PTL

\* Whatever saves, seeds and crashes there are, SSO is never enabled without an
\* issuer, a client id and a secret, but by an environment with a client id and
\* no secret: a request that found the secret set finds it set when it saves,
\* for no statement clears it.
THEOREM SsoConfigured == Spec => SsoIsConfigured
<1> DEFINE Complete == sso' # sso /\ sso'.enabled
                           => sso'.issuer /\ (sso'.secret \/ SeedsNoSecret)
<1>1. AInv /\ [Next]_vars => [Complete]_vars
  <2> SUFFICES ASSUME AInv, Next, sso' # sso, sso'.enabled
               PROVE  sso'.issuer /\ (sso'.secret \/ SeedsNoSecret)
    OBVIOUS
  <2>1. CASE seedOIDCFromEnv
    <3>1. PICK e \in Env : /\ e.client
                           /\ sso' = [enabled |-> TRUE, issuer |-> TRUE,
                                      secret |-> sso.secret \/ e.secret]
      BY <2>1 DEF seedOIDCFromEnv
    <3>2. sso'.issuer /\ sso'.secret = (sso.secret \/ e.secret)
      BY <3>1
    <3>3. CASE e.secret
      BY <3>2, <3>3
    <3>4. CASE ~e.secret
      <4>1. e = [client |-> TRUE, secret |-> FALSE]
        BY <3>1, <3>4, EnvAssumption
      <4> QED
        BY <2>1, <3>2, <4>1 DEF SeedsNoSecret
    <3> QED
      BY <3>3, <3>4
  <2>2. ASSUME NEW r \in Request, SaveOIDCConfig(r)
        PROVE  sso'.issuer /\ sso'.secret
    <3>1. sso' = [enabled |-> req[r].enabled, issuer |-> req[r].fields,
                  secret |-> sso.secret \/ req[r].secret]
      BY <2>2 DEF SaveOIDCConfig
    <3>2. /\ sso'.enabled = req[r].enabled
          /\ sso'.issuer = req[r].fields
          /\ sso'.secret = (sso.secret \/ req[r].secret)
      BY <3>1
    <3>3. Current(req[r], sso) /\ req[r].pc = "save"
      BY <2>2, Busy DEF SaveOIDCConfig, Legal
    <3> QED
      BY <3>2, <3>3 DEF Current
  <2>3. CASE Process
    <3>1. ASSUME NEW p \in {"server", "cli"}, Open(p) \/ Seed(p) \/ Crash(p)
          PROVE  sso' = sso
      BY <3>1 DEF Open, Seed, Crash, row
    <3>2. DisableAuth => sso' = sso
      BY DEF DisableAuth
    <3> QED
      BY <2>1, <2>3, <3>1, <3>2 DEF Process
  <2>4. ASSUME NEW r \in Request, Arrive(r) \/ Login(r) \/ Fail(r)
        PROVE  sso' = sso
    <3>1. Arrive(r) => sso' = sso
      BY DEF Arrive, UpdateAuthSettingsRequest, UpdateOIDCConfigRequest,
             OIDCStartRequest, OIDCCallbackRequest, Accept, row
    <3>2. Login(r) => sso' = sso
      BY DEF Login, GetOrCreateEncryptionKey, StoreEncryptionKey,
             EncryptStateCookie, DecryptStateCookie, CallbackConfig,
             ExchangeAndVerify, CreateWithMethod, row
    <3>3. Fail(r) => sso' = sso
      BY DEF Fail, row
    <3> QED
      BY <2>4, <3>1, <3>2, <3>3
  <2>5. ASSUME NEW r \in Request, Settings(r)
        PROVE  sso' = sso \/ SaveOIDCConfig(r)
    BY <2>5 DEF Settings, UpdateAuthSettings, ExistingSecret, Scan, Sweep, row
  <2>6. ASSUME NEW k \in cookies, Expire(k) PROVE sso' = sso
    BY <2>6 DEF Expire, row
  <2> QED
    BY <2>2, <2>3, <2>4, <2>5, <2>6 DEF Next
<1>2. Spec => [][Complete]_vars
  BY <1>1, AlwaysAInv, PTL DEF Spec
<1> QED
  BY <1>2 DEF SsoIsConfigured

\* Once SSO is disabled and no request is deleting sessions any more, those that
\* are left are the excused ones.
THEOREM DisablingSignsOut == Spec => []DisabledSignsOut
<1>1. AInv => DisabledSignsOut
  <2> SUFFICES ASSUME AInv, ~sso.enabled,
                      \A r \in Request : req[r].pc \notin {"scan", "sweep"},
                      NEW s \in DOMAIN session
               PROVE  session[s] = "excused"
    BY DEF DisabledSignsOut
  <2>1. session[s] \in {"in", "owed", "excused"}
    BY DEF AInv, SessionOK
  <2>2. session[s] # "in" /\ session[s] # "owed"
    BY DEF AInv, SessionOK, Deletes
  <2> QED
    BY <2>1, <2>2
<1> QED
  BY <1>1, AlwaysAInv, PTL

\* What every request begins with: no key, a cookie that a browser holds, and
\* an update that enables authentication with a password.
LEMMA Arrivals ==
    ASSUME NEW r \in Request, Arrive(r)
    PROVE  \E q : /\ Accept(r, q)
                  /\ q.key = NoKey /\ q.cookie \in cookies \cup {NoKey}
                  /\ q.pc = "update" /\ q.enabled => q.secret \/ auth.pass
<1> DEFINE Good(q) == /\ q.key = NoKey /\ q.cookie \in cookies \cup {NoKey}
                      /\ q.pc = "update" /\ q.enabled => q.secret \/ auth.pass
<1>1. CASE UpdateAuthSettingsRequest(r)
  <2> DEFINE Asked(enabled, secret) ==
                 [Idle EXCEPT !.kind = "auth", !.pc = "update",
                     !.enabled = enabled, !.secret = secret]
  <2>1. PICK enabled, secret \in BOOLEAN :
            /\ enabled => secret \/ auth.pass
            /\ Accept(r, Asked(enabled, secret))
    BY <1>1 DEF UpdateAuthSettingsRequest
  <2>2. Good(Asked(enabled, secret))
    BY <2>1 DEF Idle
  <2> QED
    BY <2>1, <2>2, Zenon
<1>2. CASE UpdateOIDCConfigRequest(r)
  <2> DEFINE Asked(enabled, fields, secret, read) ==
                 [Idle EXCEPT !.kind = "save", !.enabled = enabled,
                     !.fields = fields, !.secret = secret,
                     !.pc = IF enabled /\ ~secret THEN "secret" ELSE "save",
                     !.revoke = read /\ sso.enabled /\ ~enabled,
                     !.excused = ~read /\ ~enabled]
  <2>1. PICK enabled, fields, secret, read \in BOOLEAN :
            /\ enabled => fields
            /\ Accept(r, Asked(enabled, fields, secret, read))
    BY <1>2 DEF UpdateOIDCConfigRequest
  <2>2. Good(Asked(enabled, fields, secret, read))
    BY DEF Idle
  <2> QED
    BY <2>1, <2>2, Zenon
<1>3. CASE OIDCStartRequest(r)
  <2> DEFINE Started == [Idle EXCEPT !.kind = "start", !.pc = "key"]
  <2>1. Accept(r, Started)
    BY <1>3 DEF OIDCStartRequest
  <2>2. Good(Started)
    BY DEF Idle
  <2> QED
    BY <2>1, <2>2, Zenon
<1>4. CASE OIDCCallbackRequest(r)
  <2> DEFINE Returned(k) == [Idle EXCEPT !.kind = "callback", !.pc = "key", !.cookie = k]
  <2>1. PICK k \in cookies : Accept(r, Returned(k))
    BY <1>4 DEF OIDCCallbackRequest
  <2>2. Good(Returned(k))
    BY DEF Idle
  <2> QED
    BY <2>1, <2>2, Zenon
<1> QED
  BY <1>1, <1>2, <1>3, <1>4 DEF Arrive

\* Only --disable-auth can come between the check for a password and the update
\* that enables authentication.
LEMMA SoundStep ==
    ASSUME AInv, Sound, [Next]_vars
    PROVE  Sound' \/ (proc["cli"] = "disable" /\ ~auth'.pass /\ auth.pass)
<1> DEFINE Updates(x) == req[x].pc = "update" /\ req[x].enabled
<1>1. /\ auth \in [enabled : BOOLEAN, pass : BOOLEAN]
      /\ req \in [Request -> Record]
      /\ auth.enabled => auth.pass
      /\ \A x \in Request : Updates(x) => req[x].secret \/ auth.pass
  BY DEF AInv, DataOK, ReqOK, Sound, ValidateCredentials
\* No new update is accepted, and the password stays.
<1>2. ASSUME auth' = auth,
             \A x \in Request : /\ Updates(x)' => Updates(x)
                                /\ Updates(x)' => req'[x].secret = req[x].secret
      PROVE  Sound'
  BY <1>1, <1>2 DEF Sound, ValidateCredentials
<1>3. ASSUME NEW r \in Request, NEW q, Becomes(r, q), q.pc # "update", auth' = auth
      PROVE  Sound'
  BY <1>1, <1>2, <1>3 DEF Becomes
<1>4. ASSUME NEW r \in Request, NEW pc, Goto(r, pc), pc # "update", auth' = auth
      PROVE  Sound'
  <2>1. Becomes(r, [req[r] EXCEPT !.pc = pc])
    BY <1>1, <1>4 DEF Goto, Becomes
  <2>2. [req[r] EXCEPT !.pc = pc].pc # "update"
    BY <1>1, <1>4 DEF Record
  <2> QED
    BY <1>3, <1>4, <2>1, <2>2
<1>5. ASSUME NEW r \in Request, Done(r), auth' = auth
      PROVE  Sound'
  BY <1>3, <1>5 DEF Done, Idle
<1>6. CASE Process
  <2>1. CASE DisableAuth
    <3>1. CASE auth.pass
      BY <2>1, <3>1 DEF DisableAuth
    <3>2. CASE ~auth.pass
      BY <1>1, <2>1, <3>2 DEF DisableAuth, Sound, ValidateCredentials
    <3> QED
      BY <3>1, <3>2
  <2>2. CASE seedOIDCFromEnv \/ \E p \in {"server", "cli"} : Open(p) \/ Seed(p)
    BY <1>2, <2>2 DEF seedOIDCFromEnv, Open, Seed, row
  <2>3. CASE \E p \in {"server", "cli"} : Crash(p)
    BY <1>2, <2>3 DEF Crash, Idle, row
  <2> QED
    BY <1>6, <2>1, <2>2, <2>3 DEF Process
<1>7. ASSUME NEW r \in Request, Arrive(r) PROVE Sound'
  <2>1. PICK q : /\ Accept(r, q)
                 /\ q.pc = "update" /\ q.enabled => q.secret \/ auth.pass
    BY <1>7, Arrivals
  <2>2. req' = [req EXCEPT ![r] = q] /\ auth' = auth
    BY <2>1 DEF Accept, Becomes, row
  <2> QED
    BY <1>1, <2>1, <2>2 DEF Sound, ValidateCredentials
<1>8. ASSUME NEW r \in Request, Settings(r) PROVE Sound'
  <2>1. CASE UpdateAuthSettings(r)
    <3>1. /\ auth' = [enabled |-> req[r].enabled, pass |-> auth.pass \/ req[r].secret]
          /\ req' = [req EXCEPT ![r] = Idle]
          /\ req[r].pc = "update"
      BY <2>1 DEF UpdateAuthSettings, Done, Becomes
    <3>2. auth'.enabled => auth'.pass
      BY <1>1, <3>1 DEF Record
    <3>3. auth.pass => auth'.pass
      BY <1>1, <3>1 DEF Record
    <3>4. \A x \in Request : Updates(x)' => Updates(x) /\ req'[x].secret = req[x].secret
      BY <1>1, <3>1 DEF Idle
    <3> QED
      BY <1>1, <3>2, <3>3, <3>4 DEF Sound, ValidateCredentials
  <2>2. CASE ExistingSecret(r)
    BY <1>4, <1>5, <2>2 DEF ExistingSecret, row
  <2>3. CASE SaveOIDCConfig(r)
    <3>1. auth' = auth /\ req[r].pc = "save"
      BY <2>3 DEF SaveOIDCConfig
    <3>2. ASSUME NEW x \in Request, x # r
          PROVE  /\ req'[x].pc = req[x].pc /\ req'[x].enabled = req[x].enabled
                 /\ req'[x].secret = req[x].secret
      BY <1>1, <2>3, <3>2 DEF SaveOIDCConfig, Record
    <3>3. req'[r].pc # "update"
      BY <1>1, <2>3 DEF SaveOIDCConfig, Record, Idle
    <3> QED
      BY <1>2, <3>1, <3>2, <3>3
  <2>4. CASE Scan(r)
    <3>1. auth' = auth /\ req' = [req EXCEPT ![r].pc = "sweep", ![r].targets = DOMAIN session]
      BY <2>4 DEF Scan, row
    <3> QED
      BY <1>1, <1>2, <3>1 DEF Record
  <2>5. CASE Sweep(r)
    BY <1>5, <2>5 DEF Sweep, row
  <2> QED
    BY <1>8, <2>1, <2>2, <2>3, <2>4, <2>5 DEF Settings
<1>9. ASSUME NEW r \in Request, Login(r) PROVE Sound'
  <2>1. auth' = auth
    BY <1>9 DEF Login, GetOrCreateEncryptionKey, StoreEncryptionKey, EncryptStateCookie,
                DecryptStateCookie, CallbackConfig, ExchangeAndVerify, CreateWithMethod, row
  <2>2. CASE GetOrCreateEncryptionKey(r) \/ StoreEncryptionKey(r)
    <3>1. \A k : /\ HasKey(req[r], k).pc # "update"
                  /\ [req[r] EXCEPT !.key = k, !.pc = "store"].pc # "update"
      BY <1>1 DEF HasKey, Record
    <3>2. \E k : \/ Becomes(r, HasKey(req[r], k))
                 \/ Becomes(r, [req[r] EXCEPT !.key = k, !.pc = "store"])
      BY <2>2 DEF GetOrCreateEncryptionKey, StoreEncryptionKey
    <3> QED
      BY <1>3, <2>1, <3>1, <3>2
  <2>3. CASE DecryptStateCookie(r) \/ CallbackConfig(r) \/ ExchangeAndVerify(r)
    BY <1>4, <1>5, <2>1, <2>3 DEF DecryptStateCookie, CallbackConfig, ExchangeAndVerify
  <2>4. CASE EncryptStateCookie(r) \/ CreateWithMethod(r)
    BY <1>5, <2>1, <2>4 DEF EncryptStateCookie, CreateWithMethod
  <2> QED
    BY <1>9, <2>2, <2>3, <2>4 DEF Login
<1>10. ASSUME NEW r \in Request, Fail(r) PROVE Sound'
  BY <1>5, <1>10 DEF Fail, row
<1>11. CASE UNCHANGED vars \/ \E k \in cookies : Expire(k)
  BY <1>2, <1>11 DEF vars, row, Expire
<1> QED
  BY <1>6, <1>7, <1>8, <1>9, <1>10, <1>11 DEF Next

\* No mix of updates, whatever they checked and when, enables authentication
\* for nobody.
THEOREM NobodyLockedOut == Spec => NeverLockedOut
<1>1. AInv /\ [Next]_vars =>
          [Sound => Sound' \/ (proc["cli"] = "disable" /\ ~auth'.pass /\ auth.pass)]_vars
  BY SoundStep
<1> QED
  BY <1>1, AlwaysAInv, PTL DEF Spec, NeverLockedOut

\* Once everybody who holds a key holds the one that is stored, nobody stores
\* or uses another.
LEMMA KeyStep ==
    ASSUME AInv, Settled, [Next]_vars
    PROVE  Settled' /\ key' = key
<1> DEFINE Holds(q) == {q.key, q.cookie} \subseteq {key, NoKey}
<1>1. /\ key # NoKey /\ cookies \subseteq {key}
      /\ req \in [Request -> Record]
      /\ \A x \in Request : Holds(req[x])
      /\ Holds(Idle)
  BY DEF Settled, AInv, ReqOK, Idle
<1>2. ASSUME NEW r \in Request, NEW q, Becomes(r, q), Holds(q),
             key' = key, cookies' \subseteq cookies
      PROVE  Settled' /\ key' = key
  BY <1>1, <1>2 DEF Settled, Becomes
<1>3. ASSUME NEW r \in Request, NEW pc, Goto(r, pc), key' = key, cookies' = cookies
      PROVE  Settled' /\ key' = key
  BY <1>1, <1>3 DEF Settled, Goto, Record
<1>4. ASSUME NEW r \in Request, Done(r), key' = key, cookies' = cookies
      PROVE  Settled' /\ key' = key
  BY <1>1, <1>2, <1>4 DEF Done
<1>5. ASSUME key' = key, cookies' \subseteq cookies, req' = req
      PROVE  Settled' /\ key' = key
  BY <1>1, <1>5 DEF Settled
<1>6. CASE Process
  <2>1. key' = key /\ cookies' = cookies
    BY <1>6 DEF Process, Open, Seed, Crash, seedOIDCFromEnv, DisableAuth, row
  <2>2. CASE req' = req
    BY <1>5, <2>1, <2>2
  <2>3. CASE req' = [r \in Request |-> Idle]
    BY <1>1, <2>1, <2>3 DEF Settled
  <2> QED
    BY <1>6, <2>2, <2>3 DEF Process, Open, Seed, Crash, seedOIDCFromEnv, DisableAuth
<1>7. ASSUME NEW r \in Request, Arrive(r) PROVE Settled' /\ key' = key
  <2>1. PICK q : Accept(r, q) /\ q.key = NoKey /\ q.cookie \in cookies \cup {NoKey}
    BY <1>7, Arrivals
  <2> QED
    BY <1>1, <1>2, <2>1 DEF Accept, row
<1>8. ASSUME NEW r \in Request, Settings(r) PROVE Settled' /\ key' = key
  <2>1. key' = key /\ cookies' = cookies
    BY <1>8 DEF Settings, UpdateAuthSettings, ExistingSecret, SaveOIDCConfig, Scan, Sweep, row
  <2>2. CASE UpdateAuthSettings(r) \/ ExistingSecret(r) \/ Sweep(r)
    BY <1>3, <1>4, <2>1, <2>2 DEF UpdateAuthSettings, ExistingSecret, Sweep
  <2>3. CASE SaveOIDCConfig(r)
    <3>1. ASSUME NEW x \in Request PROVE Holds(req'[x])
      BY <1>1, <2>3 DEF SaveOIDCConfig, Record
    <3> QED
      BY <1>1, <2>1, <3>1 DEF Settled
  <2>4. CASE Scan(r)
    <3>1. ASSUME NEW x \in Request PROVE Holds(req'[x])
      BY <1>1, <2>4 DEF Scan, Record
    <3> QED
      BY <1>1, <2>1, <3>1 DEF Settled
  <2> QED
    BY <1>8, <2>2, <2>3, <2>4 DEF Settings
<1>9. ASSUME NEW r \in Request, Login(r) PROVE Settled' /\ key' = key
  <2>1. CASE GetOrCreateEncryptionKey(r) \/ StoreEncryptionKey(r)
    <3>1. HasKey(req[r], key).key = key /\ HasKey(req[r], key).cookie = req[r].cookie
      BY <1>1 DEF HasKey, Record
    <3>2. CASE GetOrCreateEncryptionKey(r)
      BY <1>1, <1>2, <3>1, <3>2 DEF GetOrCreateEncryptionKey, row
    <3>3. CASE StoreEncryptionKey(r)
      <4>1. req[r].key = key
        BY <1>1, <3>3 DEF StoreEncryptionKey, AInv, ReqOK, Legal, Staged
      <4> QED
        BY <1>1, <1>2, <3>1, <3>3, <4>1 DEF StoreEncryptionKey
    <3> QED
      BY <2>1, <3>2, <3>3
  <2>2. CASE EncryptStateCookie(r)
    <3>1. req[r].key = key
      BY <1>1, <2>2 DEF EncryptStateCookie, AInv, ReqOK, Legal, Staged
    <3>2. /\ key' = key /\ cookies' \subseteq {key}
          /\ \A x \in Request : Holds(req'[x])
      BY <1>1, <2>2, <3>1 DEF EncryptStateCookie, Done, Becomes, row
    <3> QED
      BY <1>1, <3>2 DEF Settled
  <2>3. CASE DecryptStateCookie(r) \/ CallbackConfig(r) \/ ExchangeAndVerify(r)
    BY <1>3, <1>4, <2>3 DEF DecryptStateCookie, CallbackConfig, ExchangeAndVerify, row
  <2>4. CASE CreateWithMethod(r)
    BY <1>4, <2>4 DEF CreateWithMethod, row
  <2> QED
    BY <1>9, <2>1, <2>2, <2>3, <2>4 DEF Login
<1>10. ASSUME NEW r \in Request, Fail(r) PROVE Settled' /\ key' = key
  BY <1>4, <1>10 DEF Fail, row
<1>11. CASE UNCHANGED vars \/ \E k \in cookies : Expire(k)
  BY <1>5, <1>11 DEF vars, row, Expire
<1> QED
  BY <1>6, <1>7, <1>8, <1>9, <1>10, <1>11 DEF Next

\* After the first uses every login, however many at once, is sealed and opened
\* under one key for ever.
THEOREM KeyIsKept == Spec => KeySettles
<1>1. AInv /\ [Next]_vars => [Settled => Settled' /\ key' = key]_vars
  BY KeyStep
<1> QED
  BY <1>1, AlwaysAInv, PTL DEF Spec, KeySettles

\* No start, crash or restart adds a shelf to a file that has one, once the
\* processes that found it empty are done.
THEOREM ShelfSeededOnce == Spec => SeededOnce
<1>1. ASSUME AInv, SeedSettled, [Next]_vars
      PROVE  SeedSettled' /\ shelves' = shelves
  <2>1. /\ shelves > 0 /\ \A p \in {"server", "cli"} : proc[p] # "seed"
        /\ proc \in [{"server", "cli"} -> {"down", "seed", "env", "up", "disable"}]
    BY <1>1 DEF SeedSettled, AInv, DataOK
  <2>2. CASE Process
    <3>1. shelves' = shelves
      BY <2>1, <2>2 DEF Process, Open, Seed, Crash, seedOIDCFromEnv, DisableAuth
    <3>2. \A p \in {"server", "cli"} : proc'[p] # "seed"
      BY <2>1, <2>2 DEF Process, Open, Opened, Seed, Crash, seedOIDCFromEnv, DisableAuth, Enter
    <3> QED
      BY <2>1, <3>1, <3>2 DEF SeedSettled
  <2>3. CASE ~Process
    <3>1. shelves' = shelves /\ proc' = proc
      BY <1>1, <2>3 DEF Next, vars, Arrive, Settings, Login, Accept, Fail,
           UpdateAuthSettingsRequest, UpdateOIDCConfigRequest, OIDCStartRequest,
           OIDCCallbackRequest, UpdateAuthSettings, ExistingSecret, SaveOIDCConfig, Scan,
           Sweep, GetOrCreateEncryptionKey, StoreEncryptionKey, EncryptStateCookie,
           DecryptStateCookie, CallbackConfig, ExchangeAndVerify, CreateWithMethod, Expire
    <3> QED
      BY <2>1, <3>1 DEF SeedSettled
  <2> QED
    BY <2>2, <2>3
<1>2. AInv /\ [Next]_vars => [SeedSettled => SeedSettled' /\ shelves' = shelves]_vars
  BY <1>1
<1> QED
  BY <1>2, AlwaysAInv, PTL DEF Spec, SeededOnce
=============================================================================
