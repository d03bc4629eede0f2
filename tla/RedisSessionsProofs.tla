------------------------ MODULE RedisSessionsProofs ------------------------
(***************************************************************************)
(* Proofs about module RedisSessions, for any sets of requests and of      *)
(* session ids and any TTL.                                                *)
(***************************************************************************)
EXTENDS RedisSessions, TLAPS

(***************************************************************************)
(* The inductive invariant.  What is left of a key's TTL and the time      *)
(* since its session's last activity make up a TTL at least (Lasting).  A  *)
(* request reaches the store calls of its own handler only, with the       *)
(* cookie of a session that was created, and when it is to delete other    *)
(* sessions and knows its own, that is not among them (Staged).            *)
(***************************************************************************)
Lasting == \A id \in stored : pttl[id] + age[id] >= TTL

StoreInv ==
    /\ minted \subseteq Id
    /\ stored \subseteq minted
    /\ age \in [Id -> 0..(TTL + 1)]
    /\ ended \subseteq minted
    /\ pttl \in [Id -> 0..TTL]
    /\ Lasting

Staged(q, ids) ==
    /\ q.pc \notin {"idle", "done"} => q.cookie \in ids
    /\ q.pc \notin {"idle", "done", "delete"} => q.kind \notin {"none", "logout"}
    /\ q.kind = "revoke" => q.target \in ids
    /\ q.at = "csrf" => q.kind # "visit"
    /\ q.at = "self" => q.kind # "disableSSO"
    /\ q.pc = "list" => q.kind = "revokeAll"
    /\ q.pc = "sweep" => q.kind = "disableSSO"
    /\ q.pc = "scan" => q.kind \in {"revokeAll", "disableSSO"}
    /\ q.pc \notin {"scan", "delete"} => q.left = {}
    /\ q.pc = "scan" /\ q.kind = "disableSSO" => q.left = {}
    /\ q.pc = "delete" /\ q.kind = "disableSSO" => \A x, y \in q.left : x = y
    /\ q.kind \in {"revoke", "revokeAll"} /\ q.current = q.cookie =>
           q.cookie \notin q.left

Sound(q, ids) == q \in RequestRecord(ids) /\ Staged(q, ids)

ReqInv ==
    /\ req \in [Request -> RequestRecord(minted)]
    /\ \A r \in Request : Sound(req[r], minted)

RInv == StoreInv /\ ReqInv

-----------------------------------------------------------------------------
(* The handlers between two calls of the store. *)

LEMMA IdleIsSound ==
    ASSUME NEW ids
    PROVE  /\ Sound(Idle, ids) /\ Sound(Done, ids)
           /\ \A b \in BOOLEAN : Sound([Done EXCEPT !.failed = b], ids)
BY DEF Sound, Idle, Done, RequestRecord, Pcs, Staged

LEMMA ActIsSound ==
    ASSUME NEW ids, NEW q, Sound(q, ids), q.at = "self",
           q.pc \in {"lookup", "touch", "set"}
    PROVE  Sound(Act(q), ids)
<1>1. CASE q.kind = "visit"
  BY <1>1, IdleIsSound DEF Act
<1>2. CASE q.kind = "revokeAll"
  BY <1>2 DEF Act, Goto, Sound, RequestRecord, Pcs, Staged
<1>3. CASE q.kind = "revoke" /\ q.target = q.current
  BY <1>3, IdleIsSound DEF Act
<1>4. CASE q.kind = "revoke" /\ q.target # q.current
  BY <1>4 DEF Act, Sound, RequestRecord, Pcs, Staged
<1> QED
  BY <1>1, <1>2, <1>3, <1>4 DEF Sound, Staged, RequestRecord

LEMMA FoundIsSound ==
    ASSUME NEW ids, NEW q, Sound(q, ids), q.pc = "lookup"
    PROVE  Sound(Found(q), ids)
<1>1. CASE q.at = "auth"
  BY <1>1 DEF Found, Goto, Sound, RequestRecord, Pcs, Staged
<1>2. CASE q.at = "self"
  BY <1>2 DEF Found, Goto, Sound, RequestRecord, Pcs, Staged
<1>3. CASE q.at = "csrf" /\ q.kind = "disableSSO"
  BY <1>3 DEF Found, Goto, Sound, RequestRecord, Pcs, Staged
<1>4. CASE q.at = "csrf" /\ q.kind # "disableSSO"
  BY <1>4 DEF Found, Goto, Sound, RequestRecord, Pcs, Staged
<1> QED
  BY <1>1, <1>2, <1>3, <1>4 DEF Sound, RequestRecord

LEMMA NotFoundIsSound ==
    ASSUME NEW ids, NEW q, Sound(q, ids), q.pc = "lookup"
    PROVE  Sound(NotFound(q), ids)
BY ActIsSound, IdleIsSound DEF NotFound

LEMMA TouchedIsSound ==
    ASSUME NEW ids, NEW q, Sound(q, ids), q.pc \in {"touch", "set"}
    PROVE  Sound(Touched(q), ids)
<1>1. CASE q.at = "self"
  BY <1>1, ActIsSound DEF Touched
<1>2. CASE q.at # "self"
  BY <1>2 DEF Touched, Sound, RequestRecord, Pcs, Staged
<1> QED
  BY <1>1, <1>2

-----------------------------------------------------------------------------
(* Steps. *)

LEMMA StepIsSound ==
    ASSUME ReqInv, NEW r \in Request, NEW q, Becomes(r, q), minted' = minted,
           Sound(q, minted)
    PROVE  ReqInv'
<1>1. req' = [req EXCEPT ![r] = q] /\ req \in [Request -> RequestRecord(minted)]
  BY DEF Becomes, ReqInv
<1>2. q \in RequestRecord(minted)
  BY DEF Sound
<1> QED
  BY <1>1, <1>2 DEF ReqInv

\* A step of a request that leaves the store alone.
LEMMA MoveKeeps ==
    ASSUME RInv, NEW r \in Request, NEW q, Becomes(r, q), Sound(q, minted),
           UNCHANGED <<minted, stored, age, ended, pttl>>
    PROVE  RInv'
<1>1. ReqInv'
  BY StepIsSound DEF RInv
<1>2. StoreInv'
  BY DEF RInv, StoreInv, Lasting
<1> QED
  BY <1>1, <1>2 DEF RInv

LEMMA CreateKeeps ==
    ASSUME RInv, Create
    PROVE  RInv'
<1>1. PICK id \in Id \ minted :
        /\ minted' = minted \cup {id}
        /\ stored' = stored \cup {id}
        /\ age' = [age EXCEPT ![id] = 0]
  BY DEF Create, CreateWithMethod
<1>2. /\ ended' = ended /\ req' = req
      /\ pttl' = [x \in Id |-> IF x = id THEN TTL ELSE pttl[x]]
  <2>1. minted' \ minted = {id}
    BY <1>1
  <2> QED
    BY <2>1 DEF Create, CreateWithMethod
<1>3. StoreInv'
  <2>1. \A x \in stored' : pttl'[x] + age'[x] >= TTL
    BY <1>1, <1>2, SessionAssumption DEF RInv, StoreInv, Lasting
  <2> QED
    BY <1>1, <1>2, <2>1, SessionAssumption DEF RInv, StoreInv, Lasting
<1>4. ASSUME NEW r \in Request
      PROVE  Sound(req[r], minted')
  BY <1>1 DEF RInv, ReqInv, Sound, Staged, RequestRecord
<1> QED
  BY <1>2, <1>3, <1>4 DEF RInv, ReqInv, Sound

LEMMA AcceptKeeps ==
    ASSUME RInv, NEW r \in Request, Accept(r), UNCHANGED pttl
    PROVE  RInv'
<1>1. PICK cookie \in minted,
           kind \in {"visit", "revoke", "revokeAll", "disableSSO", "logout"},
           target \in minted \cup {NoId} :
        /\ kind = "revoke" => target \in minted
        /\ Becomes(r, [Idle EXCEPT !.kind = kind, !.cookie = cookie,
                         !.target = target,
                         !.pc = IF kind = "logout" THEN "delete" ELSE "lookup",
                         !.left = IF kind = "logout" THEN {cookie} ELSE {}])
  BY DEF Accept, Becomes
<1> DEFINE q == [Idle EXCEPT !.kind = kind, !.cookie = cookie,
                    !.target = target,
                    !.pc = IF kind = "logout" THEN "delete" ELSE "lookup",
                    !.left = IF kind = "logout" THEN {cookie} ELSE {}]
<1>2. Sound(q, minted)
  BY <1>1 DEF Idle, Sound, RequestRecord, Pcs, Staged
<1> HIDE DEF q
<1>3. Becomes(r, q)
  BY <1>1 DEF q
<1> QED
  BY <1>2, <1>3, MoveKeeps DEF Accept

LEMMA LookupKeeps ==
    ASSUME RInv, NEW r \in Request, Lookup(r)
    PROVE  RInv'
<1>1. Sound(Found(req[r]), minted) /\ Sound(NotFound(req[r]), minted)
  BY FoundIsSound, NotFoundIsSound DEF Lookup, RInv, ReqInv
<1> QED
  BY <1>1, MoveKeeps DEF Lookup

LEMMA TouchGetKeeps ==
    ASSUME RInv, NEW r \in Request, TouchGet(r)
    PROVE  RInv'
<1>1. Sound(req[r], minted) /\ req[r].pc = "touch"
  BY DEF RInv, ReqInv, TouchGet
<1>2. Sound(Goto(req[r], "set"), minted)
  BY <1>1 DEF Goto, Sound, RequestRecord, Pcs, Staged
<1>3. Sound(Touched(req[r]), minted)
  BY <1>1, TouchedIsSound
<1> QED
  BY <1>2, <1>3, MoveKeeps DEF TouchGet

LEMMA TouchSetKeeps ==
    ASSUME RInv, NEW r \in Request, TouchSet(r)
    PROVE  RInv'
<1>1. Sound(req[r], minted) /\ req[r].pc = "set"
  BY DEF RInv, ReqInv, TouchSet
<1>2. Sound(Touched(req[r]), minted)
  BY <1>1, TouchedIsSound
<1>3. ReqInv'
  BY <1>2, StepIsSound DEF TouchSet, RInv
<1>4. StoreInv'
  <2>1. CASE UNCHANGED <<stored, age, pttl>>
    BY <2>1 DEF TouchSet, RInv, StoreInv, Lasting
  <2>2. CASE /\ stored' = stored \cup {req[r].cookie}
             /\ age' = [age EXCEPT ![req[r].cookie] = 0]
             /\ pttl' = [pttl EXCEPT ![req[r].cookie] = TTL]
    <3>1. req[r].cookie \in minted /\ req[r].cookie \in Id
      BY <1>1 DEF Sound, Staged, RInv, StoreInv
    <3>2. Lasting'
      BY <2>2, <3>1, SessionAssumption DEF RInv, StoreInv, Lasting
    <3> QED
      BY <2>2, <3>1, <3>2, SessionAssumption DEF TouchSet, RInv, StoreInv
  <2> QED
    BY <2>1, <2>2 DEF TouchSet
<1> QED
  BY <1>3, <1>4 DEF RInv

LEMMA ScanStartKeeps ==
    ASSUME RInv, NEW r \in Request, ScanStart(r)
    PROVE  RInv'
<1> DEFINE q == [req[r] EXCEPT !.pc = "scan", !.seen = Id \ stored]
<1>1. Sound(q, minted)
  <2>1. /\ req[r] \in RequestRecord(minted) /\ Staged(req[r], minted)
        /\ req[r].pc \in {"list", "sweep"}
    BY DEF ScanStart, RInv, ReqInv, Sound
  <2>2. q \in RequestRecord(minted)
    BY <2>1 DEF RequestRecord, Pcs
  <2>3. /\ q.pc = "scan" /\ q.at = req[r].at /\ q.kind = req[r].kind
        /\ q.cookie = req[r].cookie /\ q.target = req[r].target
        /\ q.current = req[r].current /\ q.left = req[r].left
    BY <2>1 DEF RequestRecord
  <2> HIDE DEF q
  <2>4. Staged(q, minted)
    BY <2>1, <2>3 DEF Staged
  <2> QED
    BY <2>2, <2>4 DEF Sound
<1>2. Becomes(r, q) /\ UNCHANGED <<minted, stored, age, ended, pttl>>
  BY DEF ScanStart
<1> HIDE DEF q
<1> QED
  BY <1>1, <1>2, MoveKeeps

LEMMA VisitIsSound ==
    ASSUME RInv, NEW q, Sound(q, minted), q.pc = "scan", NEW id \in stored
    PROVE  Sound(Visit(q, id), minted)
<1>1. id \in minted /\ id \in Id
  BY DEF RInv, StoreInv
<1>2. CASE q.kind = "revokeAll"
  BY <1>1, <1>2 DEF Visit, Sound, RequestRecord, Pcs, Staged
<1>3. CASE q.kind = "disableSSO" /\ id \in SSO
  BY <1>1, <1>3 DEF Visit, Sound, RequestRecord, Pcs, Staged
<1>4. CASE q.kind # "revokeAll" /\ ~(q.kind = "disableSSO" /\ id \in SSO)
  BY <1>1, <1>4 DEF Visit, Sound, RequestRecord, Pcs, Staged
<1> QED
  BY <1>2, <1>3, <1>4

LEMMA ScanKeeps ==
    ASSUME RInv, NEW r \in Request, Scan(r)
    PROVE  RInv'
<1>1. Sound(req[r], minted) /\ req[r].pc = "scan"
  BY DEF RInv, ReqInv, Scan
<1>2. UNCHANGED <<minted, stored, age, ended, pttl>>
  BY DEF Scan
<1>3. ASSUME NEW id \in stored, Becomes(r, Visit(req[r], id))
      PROVE  RInv'
  BY <1>1, <1>2, <1>3, VisitIsSound, MoveKeeps
<1>4. CASE Becomes(r, Goto(req[r], "delete"))
  <2>1. Sound(Goto(req[r], "delete"), minted)
    BY <1>1 DEF Goto, Sound, RequestRecord, Pcs, Staged
  <2> QED
    BY <1>2, <1>4, <2>1, MoveKeeps
<1>5. CASE Becomes(r, Done) \/ Becomes(r, Failed)
  BY <1>2, <1>5, IdleIsSound, MoveKeeps DEF Failed
<1> QED
  BY <1>3, <1>4, <1>5 DEF Scan

LEMMA DeleteKeeps ==
    ASSUME RInv, NEW r \in Request, Delete(r)
    PROVE  RInv'
<1>1. Sound(req[r], minted) /\ req[r].pc = "delete"
  BY DEF RInv, ReqInv, Delete
<1>2. UNCHANGED <<minted, age, pttl>>
  BY DEF Delete
<1>3. PICK id \in req[r].left :
        LET rest == [req[r] EXCEPT !.left = @ \ {id}]
        IN  \/ /\ stored' = stored \ {id}
               /\ ended' = ended \cup {id}
               /\ Becomes(r, IF rest.kind = "disableSSO" THEN Goto(rest, "scan")
                             ELSE IF rest.left = {}
                             THEN [Done EXCEPT !.failed = rest.failed]
                             ELSE rest)
            \/ /\ Becomes(r, IF rest.left = {} THEN Failed
                              ELSE [rest EXCEPT !.failed = TRUE])
               /\ UNCHANGED <<stored, ended>>
  BY DEF Delete
<1> DEFINE rest == [req[r] EXCEPT !.left = @ \ {id}]
<1>4. id \in minted
  BY <1>1 DEF Sound, RequestRecord
<1>5. Sound(rest, minted) /\ Sound([rest EXCEPT !.failed = TRUE], minted)
  BY <1>1 DEF Sound, RequestRecord, Pcs, Staged
<1>6. rest.kind = "disableSSO" => Sound(Goto(rest, "scan"), minted)
  <2>1. req[r].kind = "disableSSO" => rest.left = {}
    BY <1>1 DEF Sound, RequestRecord, Staged
  <2> QED
    BY <1>1, <2>1 DEF Goto, Sound, RequestRecord, Pcs, Staged
<1>7. rest.failed \in BOOLEAN
  BY <1>5 DEF Sound, RequestRecord
<1> HIDE DEF rest
<1>8. \/ /\ stored' = stored \ {id}
         /\ ended' = ended \cup {id}
         /\ \/ rest.kind = "disableSSO" /\ Becomes(r, Goto(rest, "scan"))
            \/ Becomes(r, [Done EXCEPT !.failed = rest.failed])
            \/ Becomes(r, rest)
      \/ /\ Becomes(r, Failed) \/ Becomes(r, [rest EXCEPT !.failed = TRUE])
         /\ UNCHANGED <<stored, ended>>
  BY <1>3 DEF rest
<1>9. StoreInv'
  BY <1>2, <1>4, <1>8 DEF RInv, StoreInv, Lasting
<1>10. ReqInv'
  <2>1. Sound([Done EXCEPT !.failed = rest.failed], minted) /\ Sound(Failed, minted)
    BY <1>7, IdleIsSound DEF Failed
  <2> QED
    BY <1>2, <1>5, <1>6, <1>8, <2>1, StepIsSound DEF RInv
<1> QED
  BY <1>9, <1>10 DEF RInv

LEMMA TickKeeps ==
    ASSUME RInv, Tick
    PROVE  /\ RInv'
           /\ \A id \in stored \ stored' : age'[id] > TTL
<1>1. /\ age' = [id \in Id |-> IF age[id] > TTL THEN age[id] ELSE age[id] + 1]
      /\ stored' = {id \in stored : pttl[id] > 0}
      /\ pttl' = [id \in Id |-> IF pttl[id] > 0 THEN pttl[id] - 1 ELSE 0]
      /\ UNCHANGED <<minted, ended, req>>
  BY DEF Tick, Aged
<1>2. /\ age \in [Id -> 0..(TTL + 1)] /\ pttl \in [Id -> 0..TTL] /\ TTL \in Nat
      /\ stored \subseteq Id
  BY SessionAssumption DEF RInv, StoreInv
<1>3. Lasting'
  <2> SUFFICES ASSUME NEW id \in stored' PROVE pttl'[id] + age'[id] >= TTL
    BY DEF Lasting
  <2>1. id \in Id /\ pttl[id] + age[id] >= TTL /\ pttl[id] > 0
    BY <1>1, <1>2 DEF RInv, StoreInv, Lasting
  <2> QED
    BY <1>1, <1>2, <2>1
<1>4. age' \in [Id -> 0..(TTL + 1)] /\ pttl' \in [Id -> 0..TTL]
  <2>1. \A id \in Id : /\ age'[id] \in 0..(TTL + 1)
                       /\ pttl'[id] \in 0..TTL
    BY <1>1, <1>2
  <2> QED
    BY <1>1, <2>1
<1>5. RInv'
  BY <1>1, <1>3, <1>4 DEF RInv, StoreInv, ReqInv
<1>6. ASSUME NEW id \in stored \ stored'
      PROVE  age'[id] > TTL
  <2>1. id \in Id /\ pttl[id] + age[id] >= TTL /\ pttl[id] = 0
    BY <1>1, <1>2 DEF RInv, StoreInv, Lasting
  <2> QED
    BY <1>1, <1>2, <2>1
<1> QED
  BY <1>5, <1>6

-----------------------------------------------------------------------------
LEMMA RedisInitInv == RedisInit => RInv
<1> SUFFICES ASSUME RedisInit PROVE RInv
  OBVIOUS
<1>1. StoreInv
  BY SessionAssumption DEF RedisInit, Init, StoreInv, Lasting
<1>2. req = [r \in Request |-> Idle]
  BY DEF RedisInit, Init
<1>3. ReqInv
  BY <1>2, IdleIsSound DEF ReqInv, Sound
<1> QED
  BY <1>1, <1>3 DEF RInv

LEMMA NextKeeps ==
    ASSUME RInv, [Next]_redisVars
    PROVE  RInv'
<1>1. CASE Create
  BY <1>1, CreateKeeps
<1>2. ASSUME NEW r \in Request, Accept(r), UNCHANGED pttl
      PROVE  RInv'
  BY <1>2, AcceptKeeps
<1>3. ASSUME NEW r \in Request, Return(r), UNCHANGED pttl
      PROVE  RInv'
  BY <1>3, IdleIsSound, MoveKeeps DEF Return
<1>4. ASSUME NEW r \in Request, Run(r)
      PROVE  RInv'
  BY <1>4, LookupKeeps, TouchGetKeeps, TouchSetKeeps, ScanStartKeeps, ScanKeeps,
     DeleteKeeps DEF Run
<1>5. CASE Tick
  BY <1>5, TickKeeps
<1>6. CASE Restart
  <2>1. req' = [r \in Request |-> Idle] /\ UNCHANGED <<minted, stored, age, ended, pttl>>
    BY <1>6 DEF Restart
  <2>2. ReqInv'
    BY <2>1, IdleIsSound DEF ReqInv, Sound
  <2> QED
    BY <2>1, <2>2 DEF RInv, StoreInv, Lasting
<1>7. CASE UNCHANGED redisVars
  BY <1>7 DEF redisVars, RInv, StoreInv, ReqInv, Lasting
<1> QED
  BY <1>1, <1>2, <1>3, <1>4, <1>5, <1>6, <1>7 DEF Next

\* What is remembered of a step does not restrain it.
LEMMA HistoryIsFree == [Next /\ Remember]_<<redisVars, steady>> => [Next]_redisVars
BY DEF redisVars

THEOREM AlwaysRInv == Spec => []RInv
BY RedisInitInv, NextKeeps, HistoryIsFree, PTL DEF Spec

\* What the model of Redis and of the requests keeps has its types, whatever
\* commands fail and however requests, expiry and restarts are timed.
THEOREM RedisTypes == Spec => []TypeOK
<1>1. RInv => TypeOK
  BY DEF RInv, StoreInv, ReqInv, TypeOK
<1> QED
  BY <1>1, AlwaysRInv, PTL

-----------------------------------------------------------------------------
\* Only a deletion and the passing of time take a session out of the store.
LEMMA OnlyExpiredOrEnded ==
    ASSUME RInv, [Next]_redisVars, NEW id \in stored \ stored'
    PROVE  age'[id] > TTL \/ id \in ended'
<1>1. CASE Create
  BY <1>1 DEF Create, CreateWithMethod
<1>2. ASSUME NEW r \in Request, Accept(r) \/ Return(r)
      PROVE  FALSE
  BY <1>2 DEF Accept, Return
<1>3. ASSUME NEW r \in Request, Lookup(r) \/ TouchGet(r) \/ TouchSet(r)
                                \/ ScanStart(r) \/ Scan(r)
      PROVE  FALSE
  BY <1>3 DEF Lookup, TouchGet, TouchSet, ScanStart, Scan
<1>4. ASSUME NEW r \in Request, Delete(r)
      PROVE  id \in ended'
  BY <1>4 DEF Delete
<1>5. CASE Tick
  BY <1>5, TickKeeps
<1>6. CASE Restart \/ UNCHANGED redisVars
  BY <1>6 DEF Restart, redisVars
<1> QED
  BY <1>1, <1>2, <1>3, <1>4, <1>5, <1>6 DEF Next, Run

\* docs/CONFIGURATION.md:66, "each request resets the TTL": the SET of Touch
\* restores the whole TTL (redis.go:88), so that no session leaves Redis within
\* a TTL of its last activity unless it was deleted on purpose.
THEOREM RedisSlides == Spec => SlidingWindow
<1>1. RInv /\ [Next]_redisVars =>
          [\A id \in stored \ stored' : age'[id] > TTL \/ id \in ended']_vars
  BY OnlyExpiredOrEnded
<1> QED
  BY <1>1, AlwaysRInv, HistoryIsFree, PTL DEF Spec, SlidingWindow

-----------------------------------------------------------------------------
(* Steps of one request. *)

\* Only a request itself moves it, or the end of the process.
LEMMA OwnStep ==
    ASSUME RInv, Next, NEW r \in Request, req'[r] # req[r]
    PROVE  req'[r].pc = "idle" \/ Accept(r) \/ Run(r)
<1>1. req \in [Request -> RequestRecord(minted)]
  BY DEF RInv, ReqInv
<1>2. ASSUME NEW s \in Request, NEW q, Becomes(s, q)
      PROVE  s = r /\ req'[r] = q
  BY <1>1, <1>2 DEF Becomes
<1>3. ~Create /\ ~Tick
  BY DEF Create, CreateWithMethod, Tick
<1>4. CASE Restart
  BY <1>4 DEF Restart, Idle
<1>5. ASSUME NEW s \in Request, Accept(s) \/ Run(s) \/ Return(s)
      PROVE  req'[r].pc = "idle" \/ Accept(r) \/ Run(r)
  <2>1. CASE Accept(s)
    BY <1>1, <2>1 DEF Accept
  <2>2. CASE Return(s)
    BY <1>2, <2>2 DEF Return, Idle
  <2>3. CASE Run(s)
    <3>1. PICK q : Becomes(s, q)
      BY <2>3 DEF Run, Lookup, TouchGet, TouchSet, ScanStart, Scan, Delete
    <3> QED
      BY <1>2, <2>3, <3>1
  <2> QED BY <1>5, <2>1, <2>2, <2>3
<1> QED
  BY <1>3, <1>4, <1>5 DEF Next

\* A request that has just arrived deletes only its own session.
LEMMA Arrives ==
    ASSUME RInv, NEW r \in Request, Accept(r)
    PROVE  /\ req[r].pc = "idle" /\ req'[r].pc \in {"lookup", "delete"}
           /\ req'[r].pc = "delete" => req'[r].kind = "logout"
<1>1. req[r].pc = "idle"
  BY DEF Accept
<1>2. PICK cookie \in minted,
           kind \in {"visit", "revoke", "revokeAll", "disableSSO", "logout"},
           target \in minted \cup {NoId} :
        Becomes(r, [Idle EXCEPT !.kind = kind, !.cookie = cookie,
                      !.target = target,
                      !.pc = IF kind = "logout" THEN "delete" ELSE "lookup",
                      !.left = IF kind = "logout" THEN {cookie} ELSE {}])
  BY DEF Accept, Becomes
<1>3. req'[r] = [Idle EXCEPT !.kind = kind, !.cookie = cookie,
                      !.target = target,
                      !.pc = IF kind = "logout" THEN "delete" ELSE "lookup",
                      !.left = IF kind = "logout" THEN {cookie} ELSE {}]
  BY <1>2 DEF Becomes, RInv, ReqInv
<1>4. /\ req'[r].pc = IF kind = "logout" THEN "delete" ELSE "lookup"
      /\ req'[r].kind = kind
  BY <1>3 DEF Idle
<1> QED
  BY <1>1, <1>4

\* Where the handlers go on between two calls of the store.
Between(p) ==
    /\ p.pc \in {"touch", "lookup", "list", "sweep", "delete", "done"}
    /\ p.pc = "delete" => p.kind = "revoke"

LEMMA Onwards ==
    ASSUME NEW q, Sound(q, minted), q.pc \in {"lookup", "touch", "set"}
    PROVE  Between(NotFound(q)) /\ Between(Touched(q)) /\ Between(Found(q))
<1>1. ASSUME q.at = "self"
      PROVE  Between(Act(q))
  <2>1. CASE q.kind = "visit" \/ (q.kind = "revoke" /\ q.target = q.current)
    BY <2>1 DEF Act, Done, Idle, Between
  <2>2. CASE q.kind = "revokeAll"
    BY <2>2 DEF Act, Goto, Sound, RequestRecord, Between
  <2>3. CASE q.kind = "revoke" /\ q.target # q.current
    BY <2>3 DEF Act, Sound, RequestRecord, Between
  <2> QED
    BY <1>1, <2>1, <2>2, <2>3 DEF Sound, Staged, RequestRecord
<1>2. Between(NotFound(q))
  BY <1>1 DEF NotFound, Done, Idle, Between
<1>3. Between(Touched(q))
  BY <1>1 DEF Touched, Sound, RequestRecord, Between
<1>4. Between(Found(q))
  BY DEF Found, Goto, Sound, RequestRecord, Between
<1> QED
  BY <1>2, <1>3, <1>4

\* What becomes of a request that looks up or touches its own session.
LEMMA Onward ==
    ASSUME RInv, NEW r \in Request, Lookup(r) \/ TouchGet(r) \/ TouchSet(r)
    PROVE  \/ Between(req'[r])
           \/ /\ req[r].pc = "touch" /\ req[r].cookie \in stored
              /\ req'[r] = Goto(req[r], "set")
<1>1. Sound(req[r], minted) /\ req \in [Request -> RequestRecord(minted)]
  BY DEF RInv, ReqInv
<1>2. req[r].pc \in {"lookup", "touch", "set"}
  BY DEF Lookup, TouchGet, TouchSet
<1>3. Between(NotFound(req[r])) /\ Between(Touched(req[r])) /\ Between(Found(req[r]))
  BY <1>1, <1>2, Onwards
<1>4. ASSUME NEW q, Becomes(r, q)
      PROVE  req'[r] = q
  BY <1>1, <1>4 DEF Becomes
<1> QED
  BY <1>3, <1>4 DEF Lookup, TouchGet, TouchSet

\* A step of the scan: the key it visits, its end, or an error.
LEMMA ScanOutcome ==
    ASSUME RInv, NEW r \in Request, Scan(r)
    PROVE  \/ \E id \in stored : req'[r] = Visit(req[r], id)
           \/ /\ stored \subseteq req[r].seen
              /\ req'[r] = IF req[r].left = {} THEN Done ELSE Goto(req[r], "delete")
           \/ req'[r] = Failed
BY DEF Scan, Becomes, RInv, ReqInv

Visited(q, p, id) ==
    /\ p.kind = q.kind /\ p.current = q.current /\ p.seen = q.seen \cup {id}
    /\ q.kind = "revokeAll" =>
           p.pc = "scan" /\ p.left = q.left \cup ({id} \ {q.current})
    /\ q.kind = "disableSSO" =>
           \/ id \in SSO /\ p.pc = "delete" /\ p.left = {id}
           \/ id \notin SSO /\ p.pc = "scan" /\ p.left = q.left

LEMMA VisitOutcome ==
    ASSUME NEW q, Sound(q, minted), q.pc = "scan", NEW id
    PROVE  Visited(q, Visit(q, id), id)
<1>1. CASE q.kind = "revokeAll"
  BY <1>1 DEF Visit, Visited, Sound, RequestRecord
<1>2. CASE q.kind = "disableSSO" /\ id \in SSO
  BY <1>2 DEF Visit, Visited, Sound, RequestRecord
<1>3. CASE q.kind = "disableSSO" /\ id \notin SSO
  BY <1>3 DEF Visit, Visited, Sound, RequestRecord
<1> QED
  BY <1>1, <1>2, <1>3 DEF Sound, Staged

\* A DEL, and how the request goes on: a sweep with its scan, the other loops
\* with the next session, and none without an error unless the key is gone.
Deleted(q, p, id, after) ==
    /\ after = stored \ {id} \/ after = stored
    /\ p.pc \in {"scan", "delete"} =>
           /\ p.kind = q.kind /\ p.current = q.current /\ p.seen = q.seen
           /\ p.left = q.left \ {id}
    /\ p.pc \in {"scan", "delete", "done"}
    /\ p.pc = "scan" => q.kind = "disableSSO" /\ id \notin after
    /\ p.pc = "delete" => q.kind # "disableSSO"
    /\ p.pc \in {"delete", "done"} /\ ~p.failed => id \notin after /\ ~q.failed
    /\ p.pc = "done" /\ ~p.failed => q.left = {id} /\ q.kind # "disableSSO"

LEMMA DeleteOutcome ==
    ASSUME RInv, NEW r \in Request, Delete(r)
    PROVE  \E id \in req[r].left : Deleted(req[r], req'[r], id, stored')
<1> DEFINE rest(id) == [req[r] EXCEPT !.left = @ \ {id}]
<1>1. /\ req[r] \in RequestRecord(minted) /\ Staged(req[r], minted)
      /\ req[r].pc = "delete" /\ req \in [Request -> RequestRecord(minted)]
  BY DEF RInv, ReqInv, Sound, Delete
<1>2. PICK id \in req[r].left :
        \/ /\ stored' = stored \ {id}
           /\ req'[r] = IF rest(id).kind = "disableSSO" THEN Goto(rest(id), "scan")
                        ELSE IF rest(id).left = {}
                        THEN [Done EXCEPT !.failed = rest(id).failed]
                        ELSE rest(id)
        \/ /\ req'[r] = IF rest(id).left = {} THEN Failed
                        ELSE [rest(id) EXCEPT !.failed = TRUE]
           /\ stored' = stored
  BY <1>1 DEF Delete, Becomes
<1>3. /\ rest(id).kind = req[r].kind /\ rest(id).current = req[r].current
      /\ rest(id).seen = req[r].seen /\ rest(id).left = req[r].left \ {id}
      /\ rest(id).failed = req[r].failed /\ rest(id).pc = "delete"
      /\ rest(id) \in RequestRecord(minted)
  BY <1>1 DEF RequestRecord
<1>4. req[r].kind = "disableSSO" => rest(id).left = {}
  BY <1>1, <1>3 DEF Staged
<1> HIDE DEF rest
<1>5. CASE stored' = stored \ {id} /\ req[r].kind = "disableSSO"
                /\ req'[r] = Goto(rest(id), "scan")
  BY <1>3, <1>5 DEF Goto, RequestRecord, Deleted
<1>6. CASE stored' = stored \ {id} /\ req[r].kind # "disableSSO"
                /\ req[r].left \ {id} = {}
                /\ req'[r] = [Done EXCEPT !.failed = req[r].failed]
  BY <1>6 DEF Done, Idle, Deleted
<1>7. CASE stored' = stored \ {id} /\ req[r].kind # "disableSSO"
                /\ req'[r] = rest(id)
  BY <1>3, <1>7 DEF Deleted
<1>8. CASE stored' = stored /\ req'[r] = Failed
  BY <1>8 DEF Failed, Done, Idle, Deleted
<1>9. CASE stored' = stored /\ req[r].kind # "disableSSO"
                /\ req'[r] = [rest(id) EXCEPT !.failed = TRUE]
  BY <1>3, <1>9 DEF RequestRecord, Deleted
<1> QED
  BY <1>2, <1>3, <1>4, <1>5, <1>6, <1>7, <1>8, <1>9

-----------------------------------------------------------------------------
(***************************************************************************)
(* Signing out everywhere.  Of the sessions that have been there all       *)
(* along, those the scan has seen are left to delete, or need not be; when *)
(* it has seen all keys, they are all of them.                             *)
(***************************************************************************)
Listed(q, there) ==
    /\ q.kind = "disableSSO" /\ q.pc \in {"scan", "delete"} =>
           there \cap q.seen \cap SSO \subseteq q.left
    /\ q.kind = "revokeAll" /\ q.pc = "scan" =>
           there \cap q.seen \subseteq q.left \cup {q.current}
    /\ q.kind = "revokeAll" /\ q.pc = "delete" /\ ~q.failed =>
           there \subseteq q.left \cup {q.current}

HInv == \A r \in Request : steady[r] \subseteq Alive /\ Listed(req[r], steady[r])

\* The only steps that bring a request to its scan or its loop of deletions.
LEMMA ToSweep ==
    ASSUME RInv, Next, NEW r \in Request, req'[r] # req[r],
           req'[r].pc \in {"scan", "delete"},
           req'[r].kind \in {"revokeAll", "disableSSO"}
    PROVE  ScanStart(r) \/ Scan(r) \/ Delete(r)
<1>1. ~Accept(r)
  BY Arrives
<1>2. ~(Lookup(r) \/ TouchGet(r) \/ TouchSet(r))
  <2>1. req[r] \in RequestRecord(minted)
    BY DEF RInv, ReqInv
  <2>2. Goto(req[r], "set").pc = "set"
    BY <2>1 DEF Goto, RequestRecord
  <2> QED
    BY <2>2, Onward DEF Between
<1> QED
  BY <1>1, <1>2, OwnStep DEF Run

LEMMA ListedStep ==
    ASSUME RInv, HInv, Next, Remember, NEW r \in Request
    PROVE  steady'[r] \subseteq Alive' /\ Listed(req'[r], steady'[r])
<1>1. /\ Sound(req[r], minted) /\ req[r] \in RequestRecord(minted)
      /\ Staged(req[r], minted) /\ req \in [Request -> RequestRecord(minted)]
  BY DEF RInv, ReqInv, Sound
<1>2. /\ steady'[r] \subseteq Alive'
      /\ req'[r].pc \in {"scan", "delete"} => steady'[r] = steady[r] \cap Alive'
  BY DEF Remember
<1>3. steady[r] \subseteq Alive /\ Listed(req[r], steady[r])
  BY DEF HInv
<1>4. Alive \subseteq stored /\ Alive' \subseteq stored'
  BY DEF Alive
<1> SUFFICES ASSUME req'[r].pc \in {"scan", "delete"},
                    req'[r].kind \in {"revokeAll", "disableSSO"}
             PROVE  Listed(req'[r], steady'[r])
  BY <1>2 DEF Listed
<1>5. CASE req'[r] = req[r]
  BY <1>2, <1>3, <1>5 DEF Listed
<1>6. CASE ScanStart(r)
  <2>1. req'[r] = [req[r] EXCEPT !.pc = "scan", !.seen = Id \ stored]
    BY <1>1, <1>6 DEF ScanStart, Becomes
  <2>2. req'[r].seen = Id \ stored /\ req'[r].pc = "scan"
    BY <1>1, <2>1 DEF RequestRecord
  <2> QED
    BY <1>2, <1>3, <1>4, <2>2 DEF Listed
<1>7. CASE Scan(r)
  <2>1. ASSUME NEW id \in stored, req'[r] = Visit(req[r], id)
        PROVE  Listed(req'[r], steady'[r])
    <3>1. Visited(req[r], req'[r], id)
      BY <1>1, <1>7, <2>1, VisitOutcome DEF Scan
    <3> QED
      BY <1>1, <1>2, <1>3, <1>7, <3>1 DEF Listed, Visited, Scan, Staged
  <2>2. CASE /\ stored \subseteq req[r].seen /\ req[r].left # {}
             /\ req'[r] = Goto(req[r], "delete")
    <3>1. req[r].kind = "revokeAll" /\ req[r].pc = "scan"
      BY <1>1, <1>7, <2>2 DEF Scan, Staged
    <3>2. /\ req'[r].kind = "revokeAll" /\ req'[r].pc = "delete"
          /\ req'[r].left = req[r].left /\ req'[r].current = req[r].current
      BY <1>1, <2>2, <3>1 DEF Goto, RequestRecord
    <3> QED
      BY <1>2, <1>3, <1>4, <2>2, <3>1, <3>2 DEF Listed
  <2>3. req'[r] # Done /\ req'[r] # Failed
    BY DEF Done, Idle, Failed
  <2> QED
    BY <1>7, <2>1, <2>2, <2>3, ScanOutcome
<1>8. CASE Delete(r)
  <2>1. PICK id \in req[r].left : Deleted(req[r], req'[r], id, stored')
    BY <1>8, DeleteOutcome
  <2>2. req[r].pc = "delete"
    BY <1>8 DEF Delete
  <2> QED
    BY <1>2, <1>3, <1>4, <2>1, <2>2 DEF Listed, Deleted
<1> QED
  BY <1>5, <1>6, <1>7, <1>8, ToSweep

LEMMA HistoryStep == RInv /\ HInv /\ [Next /\ Remember]_<<redisVars, steady>> => HInv'
<1> SUFFICES ASSUME RInv, HInv, [Next /\ Remember]_<<redisVars, steady>>
             PROVE  HInv'
  OBVIOUS
<1>1. CASE UNCHANGED <<redisVars, steady>>
  BY <1>1 DEF redisVars, HInv, Alive
<1>2. CASE Next /\ Remember
  BY <1>2, ListedStep DEF HInv
<1> QED
  BY <1>1, <1>2

\* Of a loop or a sweep that ends well, no session is left that it should
\* delete.
LEMMA LastStep ==
    ASSUME RInv, HInv, Next, Remember, NEW r \in Request,
           req[r].kind \in {"revokeAll", "disableSSO"},
           req[r].pc \in {"list", "sweep", "scan", "delete"},
           req'[r].pc = "done", ~req'[r].failed,
           NEW id \in steady[r] \cap Alive'
    PROVE  IF req[r].kind = "revokeAll" THEN id = req[r].current ELSE id \notin SSO
<1>1. /\ req[r] \in RequestRecord(minted) /\ Staged(req[r], minted)
      /\ req \in [Request -> RequestRecord(minted)] /\ Sound(req[r], minted)
  BY DEF RInv, ReqInv, Sound
<1>2. Scan(r) \/ Delete(r)
  <2>1. ~Accept(r)
    BY Arrives
  <2>2. ~ScanStart(r)
    BY <1>1 DEF ScanStart, Becomes, RequestRecord
  <2> QED
    BY <2>1, <2>2, OwnStep DEF Run, Lookup, TouchGet, TouchSet
<1>3. /\ Listed(req[r], steady[r]) /\ id \in steady[r] /\ id \in stored'
      /\ id \in stored
  BY DEF HInv, Alive
<1>4. CASE Scan(r)
  <2>1. req'[r] # Failed
    BY DEF Failed, Done, Idle
  <2>2. req'[r] # Goto(req[r], "delete")
    BY <1>1 DEF Goto, RequestRecord
  <2>3. ASSUME NEW x \in stored
        PROVE  req'[r] # Visit(req[r], x)
    BY <1>1, <1>4, VisitOutcome DEF Visited, Scan
  <2>4. stored \subseteq req[r].seen /\ req[r].left = {}
    BY <1>4, <2>1, <2>2, <2>3, ScanOutcome
  <2> QED
    BY <1>3, <1>4, <2>4 DEF Listed, Scan
<1>5. CASE Delete(r)
  <2>1. PICK x \in req[r].left : Deleted(req[r], req'[r], x, stored')
    BY <1>5, DeleteOutcome
  <2>2. /\ x \notin stored' /\ ~req[r].failed /\ req[r].left = {x}
        /\ req[r].kind = "revokeAll" /\ req[r].pc = "delete"
    BY <1>5, <2>1 DEF Deleted, Delete
  <2> QED
    BY <1>3, <2>2 DEF Listed
<1> QED
  BY <1>2, <1>4, <1>5

\* SignedOutEverywhere: however weak the SCAN is, and whatever else happens to
\* the keys while it runs, revoking all others without an error leaves no other
\* session that was there all along, nor disabling SSO one of SSO.
THEOREM RedisSignsOut == Spec => SignedOutEverywhere
<1> DEFINE SignedOut == \A r \in Request :
               /\ req[r].kind \in {"revokeAll", "disableSSO"}
               /\ req[r].pc \in {"list", "sweep", "scan", "delete"}
               /\ req'[r].pc = "done" /\ ~req'[r].failed
               => \A id \in steady[r] \cap Alive' :
                      IF req[r].kind = "revokeAll" THEN id = req[r].current
                      ELSE id \notin SSO
<1>1. RedisInit => HInv
  BY DEF RedisInit, Init, HInv, Listed, Idle
<1>2. RInv /\ HInv /\ [Next /\ Remember]_<<redisVars, steady>> => [SignedOut]_vars
  <2> SUFFICES ASSUME RInv, HInv, Next, Remember
               PROVE  SignedOut
    BY DEF redisVars, vars
  <2> QED
    BY LastStep
<1>3. [SignedOut]_vars => [\A r \in Request :
           /\ req[r].kind \in {"revokeAll", "disableSSO"}
           /\ req[r].pc \in {"list", "sweep", "scan", "delete"}
           /\ req'[r].pc = "done" /\ ~req'[r].failed
           => \A id \in steady[r] \cap Alive' :
                  IF req[r].kind = "revokeAll" THEN id = req[r].current
                  ELSE id \notin SSO]_vars
  OBVIOUS
<1> HIDE DEF SignedOut
<1>4. Spec => [][SignedOut]_vars
  BY <1>1, <1>2, AlwaysRInv, HistoryStep, PTL DEF Spec
<1> QED
  BY <1>3, <1>4, PTL DEF SignedOutEverywhere

-----------------------------------------------------------------------------
\* KnownSessionKept: the loop of a revocation leaves out the current session
\* wherever the handler knows it.
THEOREM RedisKeepsKnown == Spec => KnownSessionKept
<1>1. RInv /\ [Next]_redisVars =>
          [\A r \in Request, id \in stored \ stored' :
              /\ req[r].pc = "delete" /\ req'[r] # req[r] /\ req'[r].pc # "idle"
              /\ req[r].kind \in {"revoke", "revokeAll"}
              /\ req[r].current = req[r].cookie
              => id # req[r].cookie]_vars
  <2> SUFFICES ASSUME RInv, Next, NEW r \in Request, NEW id \in stored \ stored',
                      req[r].pc = "delete", req'[r] # req[r], req'[r].pc # "idle",
                      req[r].kind \in {"revoke", "revokeAll"},
                      req[r].current = req[r].cookie
               PROVE  id # req[r].cookie
    BY DEF redisVars, vars
  <2>1. Delete(r)
    BY OwnStep, Arrives DEF Run, Lookup, TouchGet, TouchSet, ScanStart, Scan
  <2>2. id \in req[r].left
    BY <2>1 DEF Delete
  <2>3. Staged(req[r], minted)
    BY DEF RInv, ReqInv, Sound
  <2> QED
    BY <2>2, <2>3 DEF Staged
<1> QED
  BY <1>1, AlwaysRInv, HistoryIsFree, PTL DEF Spec, KnownSessionKept

-----------------------------------------------------------------------------
\* A request is between the GET and the SET of a touch only if its session was
\* in the store at the GET.
LEMMA ToSet ==
    ASSUME RInv, Next, NEW r \in Request, req'[r] # req[r], req'[r].pc = "set"
    PROVE  req'[r].cookie \in stored
<1>1. /\ req[r] \in RequestRecord(minted) /\ Sound(req[r], minted)
      /\ req \in [Request -> RequestRecord(minted)]
  BY DEF RInv, ReqInv
<1>2. ~Accept(r)
  BY Arrives
<1>3. ~ScanStart(r)
  BY <1>1 DEF ScanStart, Becomes, RequestRecord
<1>4. ~Scan(r)
  <2> SUFFICES ASSUME Scan(r) PROVE FALSE
    OBVIOUS
  <2>1. ASSUME NEW id \in stored
        PROVE  req'[r] # Visit(req[r], id)
    BY <1>1, VisitOutcome DEF Scan, Visited, Sound, Staged
  <2>2. req'[r] # Goto(req[r], "delete")
    BY <1>1 DEF Goto, RequestRecord
  <2>3. req'[r] # Done /\ req'[r] # Failed
    BY DEF Done, Idle, Failed
  <2> QED
    BY <2>1, <2>2, <2>3, ScanOutcome
<1>5. ~Delete(r)
  BY DeleteOutcome DEF Deleted
<1>6. Lookup(r) \/ TouchGet(r) \/ TouchSet(r)
  BY <1>2, <1>3, <1>4, <1>5, OwnStep DEF Run
<1>7. req[r].cookie \in stored /\ req'[r] = Goto(req[r], "set")
  BY <1>6, Onward DEF Between
<1> QED
  BY <1>1, <1>7 DEF Goto, RequestRecord

LEMMA StaysSettled ==
    ASSUME RInv, Next, NEW id \in Settled
    PROVE  id \in Settled'
<1>1. /\ id \in ended /\ id \notin stored /\ id \in minted
      /\ \A r \in Request : ~(req[r].pc = "set" /\ req[r].cookie = id)
  BY DEF Settled, RInv, StoreInv
<1>2. id \in ended' /\ id \notin stored'
  <2>1. CASE Create
    BY <1>1, <2>1 DEF Create, CreateWithMethod
  <2>2. ASSUME NEW r \in Request, Accept(r) \/ Return(r)
        PROVE  id \in ended' /\ id \notin stored'
    BY <1>1, <2>2 DEF Accept, Return
  <2>3. ASSUME NEW r \in Request, Lookup(r) \/ TouchGet(r) \/ ScanStart(r) \/ Scan(r)
        PROVE  id \in ended' /\ id \notin stored'
    BY <1>1, <2>3 DEF Lookup, TouchGet, ScanStart, Scan
  <2>4. ASSUME NEW r \in Request, TouchSet(r)
        PROVE  id \in ended' /\ id \notin stored'
    BY <1>1, <2>4 DEF TouchSet
  <2>5. ASSUME NEW r \in Request, Delete(r)
        PROVE  id \in ended' /\ id \notin stored'
    BY <1>1, <2>5 DEF Delete
  <2>6. CASE Tick \/ Restart
    BY <1>1, <2>6 DEF Tick, Restart
  <2> QED
    BY <2>1, <2>2, <2>3, <2>4, <2>5, <2>6 DEF Next, Run
<1>3. ASSUME NEW r \in Request, req'[r].pc = "set", req'[r].cookie = id
      PROVE  FALSE
  BY <1>1, <1>3, ToSet
<1> QED
  BY <1>2, <1>3 DEF Settled

\* RevocationSettles: only a touch that had read a session before it was
\* deleted brings it back; after that it is gone for good.
THEOREM RedisSettles == Spec => RevocationSettles
<1>1. RInv /\ [Next]_redisVars => [Settled \subseteq Settled']_redisVars
  BY StaysSettled
<1> QED
  BY <1>1, AlwaysRInv, HistoryIsFree, PTL DEF Spec, RevocationSettles
=============================================================================
