------------------------ MODULE MemorySessionsProofs ------------------------
(***************************************************************************)
(* Proofs about module MemorySessions, for any sets of requests and of     *)
(* session ids and any TTL.                                                *)
(***************************************************************************)
EXTENDS MemorySessions, TLAPS

(***************************************************************************)
(* The inductive invariant.  A request reaches the store calls of its own  *)
(* handler only (Staged); and when it is about to delete other sessions,   *)
(* it knows its own, or its own is gone and, ids being minted once, stays  *)
(* away (Spared).                                                          *)
(***************************************************************************)
Staged(q, ids) ==
    /\ q.pc \notin {"idle", "done"} => q.cookie \in ids
    /\ q.pc \notin {"idle", "done", "delete"} => q.kind \notin {"none", "logout"}
    /\ q.kind = "revoke" => q.target \in ids
    /\ q.at = "csrf" => q.kind # "visit"
    /\ q.at = "self" => q.kind # "disableSSO"
    /\ q.pc = "list" => q.kind = "revokeAll"
    /\ q.pc = "sweep" => q.kind = "disableSSO"
    /\ q.pc = "delete" => q.kind \in {"logout", "revoke", "revokeAll"}

Spared(q, present) ==
    /\ q.pc = "touch" /\ q.at = "self" => q.current = q.cookie
    /\ q.pc \in {"list", "delete"} /\ q.kind \in {"revoke", "revokeAll"} =>
           q.current = q.cookie \/ q.cookie \notin present
    /\ /\ q.pc = "delete" /\ q.kind \in {"revoke", "revokeAll"}
       /\ q.current = q.cookie
       => q.cookie \notin q.left

\* What holds of the record of each request.
Sound(q, ids, present) == /\ q \in RequestRecord(ids)
                          /\ Staged(q, ids)
                          /\ Spared(q, present)

StoreInv ==
    /\ minted \subseteq Id
    /\ stored \subseteq minted
    /\ age \in [Id -> 0..(TTL + 1)]
    /\ ended \subseteq minted
    /\ stored \cap ended = {}

MInv ==
    /\ StoreInv
    /\ req \in [Request -> RequestRecord(minted)]
    /\ \A r \in Request : Sound(req[r], minted, stored)

-----------------------------------------------------------------------------
(* The handlers between two calls of the store. *)

LEMMA IdleIsSound ==
    ASSUME NEW ids, NEW present
    PROVE  Sound(Idle, ids, present) /\ Sound(Done, ids, present)
BY DEF Sound, Idle, Done, RequestRecord, Pcs, Staged, Spared

LEMMA ActIsSound ==
    ASSUME NEW ids, NEW present, NEW q, q \in RequestRecord(ids), Staged(q, ids),
           q.pc \notin {"idle", "done", "delete"}, q.at = "self",
           q.current = q.cookie \/ q.cookie \notin present
    PROVE  Sound(Act(q), ids, present)
<1>1. CASE q.kind = "visit"
  BY <1>1, IdleIsSound DEF Act
<1>2. CASE q.kind = "revokeAll"
  BY <1>2 DEF Act, Goto, Sound, RequestRecord, Pcs, Staged, Spared
<1>3. CASE q.kind = "revoke" /\ q.target = q.current
  BY <1>3, IdleIsSound DEF Act
<1>4. CASE q.kind = "revoke" /\ q.target # q.current
  BY <1>4 DEF Act, Sound, RequestRecord, Pcs, Staged, Spared
<1> QED
  BY <1>1, <1>2, <1>3, <1>4 DEF Staged, RequestRecord

LEMMA FoundIsSound ==
    ASSUME NEW ids, NEW present, NEW q, q \in RequestRecord(ids), Staged(q, ids),
           q.pc \notin {"idle", "done", "delete"}
    PROVE  Sound(Found(q), ids, present)
<1>1. CASE q.at = "auth"
  BY <1>1 DEF Found, Goto, Sound, RequestRecord, Pcs, Staged, Spared
<1>2. CASE q.at = "self"
  BY <1>2 DEF Found, Goto, Sound, RequestRecord, Pcs, Staged, Spared
<1>3. CASE q.at = "csrf" /\ q.kind = "disableSSO"
  BY <1>3 DEF Found, Goto, Sound, RequestRecord, Pcs, Staged, Spared
<1>4. CASE q.at = "csrf" /\ q.kind # "disableSSO"
  BY <1>4 DEF Found, Goto, Sound, RequestRecord, Pcs, Staged, Spared
<1> QED
  BY <1>1, <1>2, <1>3, <1>4 DEF RequestRecord

LEMMA NotFoundIsSound ==
    ASSUME NEW ids, NEW present, NEW q, q \in RequestRecord(ids), Staged(q, ids),
           q.pc \notin {"idle", "done", "delete"}, q.cookie \notin present
    PROVE  Sound(NotFound(q), ids, present)
BY ActIsSound, IdleIsSound DEF NotFound

LEMMA TouchedIsSound ==
    ASSUME NEW ids, NEW present, NEW q, q.pc = "touch", Sound(q, ids, present)
    PROVE  Sound(Touched(q), ids, present)
<1>1. CASE q.at = "self"
  BY <1>1, ActIsSound DEF Touched, Sound, Spared
<1>2. CASE q.at # "self"
  BY <1>2 DEF Touched, Sound, RequestRecord, Pcs, Staged, Spared
<1> QED
  BY <1>1, <1>2

-----------------------------------------------------------------------------
\* Requests that do not move stay sound while the store only shrinks.
LEMMA StepIsSound ==
    ASSUME MInv, NEW r \in Request, NEW q, Becomes(r, q),
           minted' = minted, stored' \subseteq stored,
           Sound(q, minted, stored')
    PROVE  /\ req' \in [Request -> RequestRecord(minted')]
           /\ \A s \in Request : Sound(req'[s], minted', stored')
<1>1. ASSUME NEW s \in Request
      PROVE  Sound(req[s], minted, stored')
  BY <1>1 DEF MInv, Sound, Spared
<1>2. req' = [req EXCEPT ![r] = q] /\ req \in [Request -> RequestRecord(minted)]
  BY DEF Becomes, MInv
<1>3. q \in RequestRecord(minted)
  BY DEF Sound
<1> QED
  BY <1>1, <1>2, <1>3

LEMMA MemoryInit == Init => MInv
<1> SUFFICES ASSUME Init PROVE MInv
  OBVIOUS
<1>1. StoreInv
  BY SessionAssumption DEF Init, StoreInv
<1>2. \A r \in Request : req[r] = Idle
  BY DEF Init
<1>3. Idle \in RequestRecord(minted)
  BY IdleIsSound DEF Sound
<1> QED
  BY <1>1, <1>2, <1>3, IdleIsSound DEF MInv, Init

LEMMA CreateInv ==
    ASSUME MInv, CreateWithMethod
    PROVE  MInv'
<1> PICK id \in Id \ minted :
        /\ minted' = minted \cup {id}
        /\ stored' = stored \cup {id}
        /\ age' = [age EXCEPT ![id] = 0]
  BY DEF CreateWithMethod
<1>1. ended' = ended /\ req' = req
  BY DEF CreateWithMethod
<1>2. StoreInv'
  BY <1>1, SessionAssumption DEF MInv, StoreInv
<1>3. ASSUME NEW r \in Request
      PROVE  Sound(req[r], minted', stored')
  <2>1. Sound(req[r], minted, stored)
    BY DEF MInv
  <2>2. req[r] \in RequestRecord(minted')
    BY <2>1 DEF Sound, RequestRecord
  <2>3. Staged(req[r], minted')
    BY <2>1 DEF Sound, Staged
  <2>4. Spared(req[r], stored')
    BY <2>1 DEF Sound, Staged, Spared
  <2> QED BY <2>2, <2>3, <2>4 DEF Sound
<1>4. req' \in [Request -> RequestRecord(minted')]
  BY <1>1, <1>3 DEF MInv, Sound
<1> QED
  BY <1>1, <1>2, <1>3, <1>4 DEF MInv

LEMMA AcceptInv ==
    ASSUME MInv, NEW r \in Request, Accept(r)
    PROVE  MInv'
<1>1. UNCHANGED <<minted, stored, age, ended>>
  BY DEF Accept
<1>2. PICK cookie \in minted,
           kind \in {"visit", "revoke", "revokeAll", "disableSSO", "logout"},
           target \in minted \cup {NoId} :
        /\ kind = "revoke" => target \in minted
        /\ Becomes(r, [Idle EXCEPT !.kind = kind, !.cookie = cookie,
                         !.target = target,
                         !.pc = IF kind = "logout" THEN "delete" ELSE "lookup",
                         !.left = IF kind = "logout" THEN {cookie} ELSE {}])
  BY DEF Accept, Becomes
<1> DEFINE q == [Idle EXCEPT !.kind = kind, !.cookie = cookie,
                    !.target = target,
                    !.pc = IF kind = "logout" THEN "delete" ELSE "lookup",
                    !.left = IF kind = "logout" THEN {cookie} ELSE {}]
<1>3. Sound(q, minted, stored)
  BY <1>2 DEF Idle, Sound, RequestRecord, Pcs, Staged, Spared
<1> HIDE DEF q
<1>4. Becomes(r, q)
  BY <1>2 DEF q
<1>5. /\ req' \in [Request -> RequestRecord(minted')]
      /\ \A s \in Request : Sound(req'[s], minted', stored')
  BY <1>1, <1>3, <1>4, StepIsSound
<1> QED
  BY <1>1, <1>5 DEF MInv, StoreInv
-----------------------------------------------------------------------------

LEMMA LookupInv ==
    ASSUME MInv, NEW r \in Request, Lookup(r)
    PROVE  MInv'
<1> DEFINE q == IF req[r].cookie \in stored THEN Goto(req[r], "check")
                ELSE NotFound(req[r])
<1>1. /\ req[r].pc = "lookup" /\ Becomes(r, q)
      /\ UNCHANGED <<minted, stored, age, ended>>
  BY DEF Lookup
<1>2. Sound(req[r], minted, stored)
  BY DEF MInv
<1>3. Sound(Goto(req[r], "check"), minted, stored)
  BY <1>1, <1>2 DEF Goto, Sound, RequestRecord, Pcs, Staged, Spared
<1>4. Sound(q, minted, stored)
  BY <1>1, <1>2, <1>3, NotFoundIsSound DEF Sound
<1> HIDE DEF q
<1> QED
  BY <1>1, <1>4, StepIsSound DEF MInv, StoreInv

LEMMA CheckInv ==
    ASSUME MInv, NEW r \in Request, Check(r)
    PROVE  MInv'
<1> DEFINE q == IF age[req[r].cookie] > TTL THEN Goto(req[r], "evict")
                ELSE Found(req[r])
<1>1. /\ req[r].pc = "check" /\ Becomes(r, q)
      /\ UNCHANGED <<minted, stored, age, ended>>
  BY DEF Check
<1>2. Sound(req[r], minted, stored)
  BY DEF MInv
<1>3. Sound(Goto(req[r], "evict"), minted, stored)
  BY <1>1, <1>2 DEF Goto, Sound, RequestRecord, Pcs, Staged, Spared
<1>4. Sound(Found(req[r]), minted, stored)
  BY <1>1, <1>2, FoundIsSound DEF Sound
<1>5. Sound(q, minted, stored)
  BY <1>3, <1>4
<1> HIDE DEF q
<1> QED
  BY <1>1, <1>5, StepIsSound DEF MInv, StoreInv

LEMMA EvictInv ==
    ASSUME MInv, NEW r \in Request, Evict(r)
    PROVE  MInv'
<1>1. /\ req[r].pc = "evict" /\ Becomes(r, NotFound(req[r]))
      /\ stored' = stored \ {req[r].cookie}
      /\ UNCHANGED <<minted, age, ended>>
  BY DEF Evict
<1>2. Sound(req[r], minted, stored)
  BY DEF MInv
<1>3. Sound(NotFound(req[r]), minted, stored')
  BY <1>1, <1>2, NotFoundIsSound DEF Sound
<1>4. /\ req' \in [Request -> RequestRecord(minted')]
      /\ \A s \in Request : Sound(req'[s], minted', stored')
  BY <1>1, <1>3, StepIsSound
<1> QED
  BY <1>1, <1>4 DEF MInv, StoreInv

LEMMA TouchInv ==
    ASSUME MInv, NEW r \in Request, Touch(r)
    PROVE  MInv'
<1>1. /\ req[r].pc = "touch" /\ Becomes(r, Touched(req[r]))
      /\ age' = [age EXCEPT ![req[r].cookie] =
                    IF req[r].cookie \in stored THEN 0 ELSE @]
      /\ UNCHANGED <<minted, stored, ended>>
  BY DEF Touch
<1>2. Sound(Touched(req[r]), minted, stored)
  BY <1>1, TouchedIsSound DEF MInv
<1>3. age' \in [Id -> 0..(TTL + 1)]
  <2>1. age \in [Id -> 0..(TTL + 1)] /\ 0 \in 0..(TTL + 1)
    BY SessionAssumption DEF MInv, StoreInv
  <2>2. CASE req[r].cookie \in stored
    BY <1>1, <2>1, <2>2
  <2>3. CASE req[r].cookie \notin stored
    BY <1>1, <2>1, <2>3
  <2> QED
    BY <2>2, <2>3
<1>4. /\ req' \in [Request -> RequestRecord(minted')]
      /\ \A s \in Request : Sound(req'[s], minted', stored')
  BY <1>1, <1>2, StepIsSound
<1> QED
  BY <1>1, <1>3, <1>4 DEF MInv, StoreInv

LEMMA ListInv ==
    ASSUME MInv, NEW r \in Request, List(r)
    PROVE  MInv'
<1> DEFINE others == {id \in stored : age[id] <= TTL} \ {req[r].current}
           q == IF others = {} THEN Done
                ELSE [req[r] EXCEPT !.left = others, !.pc = "delete"]
<1>1. /\ req[r].pc = "list" /\ Becomes(r, q)
      /\ UNCHANGED <<minted, stored, age, ended>>
  BY DEF List
<1>2. Sound(req[r], minted, stored)
  BY DEF MInv
<1>3. others \subseteq minted /\ req[r].current \notin others
  BY DEF MInv, StoreInv
<1> HIDE DEF others
<1>4. Sound([req[r] EXCEPT !.left = others, !.pc = "delete"], minted, stored)
  BY <1>1, <1>2, <1>3 DEF Sound, RequestRecord, Pcs, Staged, Spared
<1>5. Sound(q, minted, stored)
  BY <1>4, IdleIsSound
<1> HIDE DEF q
<1> QED
  BY <1>1, <1>5, StepIsSound DEF MInv, StoreInv

LEMMA DeleteInv ==
    ASSUME MInv, NEW r \in Request, Delete(r)
    PROVE  MInv'
<1>1. PICK id \in req[r].left :
        /\ stored' = stored \ {id}
        /\ ended' = ended \cup {id}
        /\ Becomes(r, IF req[r].left = {id} THEN Done
                      ELSE [req[r] EXCEPT !.left = @ \ {id}])
  BY DEF Delete
<1>2. req[r].pc = "delete" /\ UNCHANGED <<minted, age>>
  BY DEF Delete
<1> DEFINE q == IF req[r].left = {id} THEN Done
                ELSE [req[r] EXCEPT !.left = @ \ {id}]
<1>3. Sound(req[r], minted, stored)
  BY DEF MInv
<1>4. Sound([req[r] EXCEPT !.left = @ \ {id}], minted, stored')
  BY <1>1, <1>2, <1>3 DEF Sound, RequestRecord, Staged, Spared
<1>5. Sound(q, minted, stored') /\ Becomes(r, q)
  BY <1>1, <1>4, IdleIsSound
<1>6. id \in minted
  BY <1>3 DEF Sound, RequestRecord
<1> HIDE DEF q
<1>7. /\ req' \in [Request -> RequestRecord(minted')]
      /\ \A s \in Request : Sound(req'[s], minted', stored')
  BY <1>1, <1>2, <1>5, StepIsSound
<1> QED
  BY <1>1, <1>2, <1>6, <1>7 DEF MInv, StoreInv

LEMMA DeleteByAuthMethodInv ==
    ASSUME MInv, NEW r \in Request, DeleteByAuthMethod(r)
    PROVE  MInv'
<1>1. /\ Becomes(r, Done)
      /\ stored' = stored \ SSO
      /\ ended' = ended \cup (stored \cap SSO)
      /\ UNCHANGED <<minted, age>>
  BY DEF DeleteByAuthMethod
<1>2. /\ req' \in [Request -> RequestRecord(minted')]
      /\ \A s \in Request : Sound(req'[s], minted', stored')
  BY <1>1, IdleIsSound, StepIsSound
<1> QED
  BY <1>1, <1>2 DEF MInv, StoreInv

LEMMA ReturnInv ==
    ASSUME MInv, NEW r \in Request, Return(r)
    PROVE  MInv'
<1>1. Becomes(r, Idle) /\ UNCHANGED <<minted, stored, age, ended>>
  BY DEF Return
<1>2. /\ req' \in [Request -> RequestRecord(minted')]
      /\ \A s \in Request : Sound(req'[s], minted', stored')
  BY <1>1, IdleIsSound, StepIsSound
<1> QED
  BY <1>1, <1>2 DEF MInv, StoreInv

LEMMA BackgroundInv ==
    ASSUME MInv, Cleanup \/ Tick \/ Restart
    PROVE  MInv'
<1>1. CASE Cleanup
  <2>1. stored' \subseteq stored /\ UNCHANGED <<minted, age, ended, req>>
    BY <1>1 DEF Cleanup
  <2>2. ASSUME NEW r \in Request
        PROVE  Sound(req[r], minted, stored')
    BY <2>1 DEF MInv, Sound, Spared
  <2> QED BY <2>1, <2>2 DEF MInv, StoreInv
<1>2. CASE Tick
  <2>1. age' = Aged /\ UNCHANGED <<minted, stored, ended, req>>
    BY <1>2 DEF Tick
  <2>2. age' \in [Id -> 0..(TTL + 1)]
    BY <2>1, SessionAssumption DEF MInv, StoreInv, Aged
  <2> QED BY <2>1, <2>2 DEF MInv, StoreInv
<1>3. CASE Restart
  <2>1. /\ stored' = {} /\ ended' = ended \cup stored
        /\ req' = [r \in Request |-> Idle]
        /\ UNCHANGED <<minted, age>>
    BY <1>3 DEF Restart
  <2>2. Sound(Idle, minted', stored')
    BY IdleIsSound
  <2>3. \A r \in Request : Sound(req'[r], minted', stored')
    BY <2>1, <2>2
  <2>4. req' \in [Request -> RequestRecord(minted')]
    BY <2>1, <2>2 DEF Sound
  <2> QED BY <2>1, <2>3, <2>4 DEF MInv, StoreInv
<1> QED
  BY <1>1, <1>2, <1>3

LEMMA MemoryNext == MInv /\ [Next]_vars => MInv'
<1> SUFFICES ASSUME MInv, [Next]_vars PROVE MInv'
  OBVIOUS
<1>1. CASE UNCHANGED vars
  BY <1>1 DEF vars, MInv, StoreInv
<1>2. ASSUME NEW r \in Request, Run(r)
      PROVE  MInv'
  BY <1>2, LookupInv, CheckInv, EvictInv, TouchInv, ListInv, DeleteInv,
     DeleteByAuthMethodInv DEF Run
<1> QED
  BY <1>1, <1>2, CreateInv, AcceptInv, ReturnInv, BackgroundInv DEF Next

\* What is remembered of a step does not restrain it.
LEMMA HistoryIsFree == [Next /\ Remember]_<<vars, steady>> => [Next]_vars
BY DEF vars

\* The sessions, and the requests that use them, keep to the invariant.
THEOREM MemoryInvariance == Spec => []MInv
BY MemoryInit, MemoryNext, HistoryIsFree, PTL DEF Spec

-----------------------------------------------------------------------------
\* TypeOK: what is stored or deleted was minted, and requests carry such ids.
THEOREM MemoryTypes == Spec => []TypeOK
<1>1. MInv => TypeOK
  BY DEF MInv, StoreInv, TypeOK
<1> QED
  BY MemoryInvariance, <1>1, PTL

\* RevokedStayRevoked: no request in flight brings a deleted session back.
THEOREM MemoryRevokes == Spec => []RevokedStayRevoked
<1>1. MInv => RevokedStayRevoked
  BY DEF MInv, StoreInv, RevokedStayRevoked
<1> QED
  BY MemoryInvariance, <1>1, PTL

-----------------------------------------------------------------------------
(* Steps of one request. *)

\* Only a request itself moves it, or the end of the process.
LEMMA OwnStep ==
    ASSUME MInv, Next, NEW r \in Request, req'[r] # req[r]
    PROVE  req'[r].pc = "idle" \/ Accept(r) \/ Run(r)
<1>1. req \in [Request -> RequestRecord(minted)]
  BY DEF MInv
<1>2. ASSUME NEW s \in Request, NEW q, Becomes(s, q)
      PROVE  s = r /\ req'[r] = q
  BY <1>1, <1>2 DEF Becomes
<1>3. ~CreateWithMethod /\ ~Cleanup /\ ~Tick
  BY DEF CreateWithMethod, Cleanup, Tick
<1>4. CASE Restart
  BY <1>4 DEF Restart, Idle
<1>5. ASSUME NEW s \in Request, Accept(s) \/ Run(s) \/ Return(s)
      PROVE  req'[r].pc = "idle" \/ Accept(r) \/ Run(r)
  <2>1. CASE Accept(s)
    BY <1>1, <2>1 DEF Accept
  <2>2. CASE Return(s)
    BY <1>2, <2>2 DEF Return, Idle
  <2>3. CASE Run(s)
    BY <1>2, <2>3 DEF Run, Lookup, Check, Evict, Touch, List, Delete,
       DeleteByAuthMethod
  <2> QED BY <1>5, <2>1, <2>2, <2>3
<1> QED
  BY <1>3, <1>4, <1>5 DEF Next

\* A request that has just arrived deletes only its own session.
LEMMA Arrives ==
    ASSUME MInv, NEW r \in Request, Accept(r)
    PROVE  /\ req[r].pc = "idle" /\ req'[r].pc \in {"lookup", "delete"}
           /\ req'[r].pc = "delete" => req'[r].kind = "logout"
<1>1. req[r].pc = "idle"
  BY DEF Accept
<1>2. PICK cookie \in minted,
           kind \in {"visit", "revoke", "revokeAll", "disableSSO", "logout"},
           target \in minted \cup {NoId} :
        Becomes(r, [Idle EXCEPT !.kind = kind, !.cookie = cookie,
                      !.target = target,
                      !.pc = IF kind = "logout" THEN "delete" ELSE "lookup",
                      !.left = IF kind = "logout" THEN {cookie} ELSE {}])
  BY DEF Accept, Becomes
<1>3. req'[r] = [Idle EXCEPT !.kind = kind, !.cookie = cookie,
                      !.target = target,
                      !.pc = IF kind = "logout" THEN "delete" ELSE "lookup",
                      !.left = IF kind = "logout" THEN {cookie} ELSE {}]
  BY <1>2 DEF Becomes, MInv
<1>4. /\ req'[r].pc = IF kind = "logout" THEN "delete" ELSE "lookup"
      /\ req'[r].kind = kind
  BY <1>3 DEF Idle
<1> QED
  BY <1>1, <1>4

\* Between two calls of the store, no handler begins to delete what it has not
\* listed.
LEMMA ActLists ==
    ASSUME NEW q, q \in RequestRecord(minted), Staged(q, minted),
           q.pc \notin {"delete", "done", "idle"}
    PROVE  /\ q.at = "self" => ~(Act(q).pc = "delete" /\ Act(q).kind = "revokeAll")
           /\ NotFound(q).pc = "delete" => NotFound(q).kind # "revokeAll"
           /\ q.pc = "touch" /\ Touched(q).pc = "delete" => Touched(q).kind # "revokeAll"
           /\ Found(q).pc # "delete"
<1>1. ~(Act(q).pc = "delete" /\ Act(q).kind = "revokeAll")
  <2>1. CASE q.kind = "visit" \/ (q.kind = "revoke" /\ q.target = q.current)
    BY <2>1 DEF Act, Done, Idle
  <2>2. CASE q.kind = "revokeAll"
    BY <2>2 DEF Act, Goto, RequestRecord
  <2>3. CASE q.kind \notin {"visit", "revokeAll"}
             /\ ~(q.kind = "revoke" /\ q.target = q.current)
    BY <2>3 DEF Act, RequestRecord
  <2> QED BY <2>1, <2>2, <2>3
<1>2. NotFound(q).pc = "delete" => NotFound(q).kind # "revokeAll"
  BY <1>1 DEF NotFound, Done, Idle
<1>3. Touched(q).pc = "delete" => Touched(q).kind # "revokeAll"
  BY <1>1 DEF Touched, RequestRecord
<1>4. Found(q).pc # "delete"
  BY DEF Found, Goto, RequestRecord
<1> QED
  BY <1>1, <1>2, <1>3, <1>4

\* CurrentSessionKept: a revocation never deletes the session that asked for it.
THEOREM MemoryKeepsCurrent == Spec => CurrentSessionKept
<1> DEFINE Kept(r) == \A id \in stored \ stored' :
               /\ req[r].pc = "delete" /\ req'[r] # req[r] /\ req'[r].pc # "idle"
               /\ req[r].kind \in {"revoke", "revokeAll"}
               => id # req[r].cookie
<1>1. ASSUME MInv, Next, NEW r \in Request
      PROVE  Kept(r)
  <2> SUFFICES ASSUME NEW id \in stored \ stored',
                      req[r].pc = "delete", req'[r] # req[r], req'[r].pc # "idle",
                      req[r].kind \in {"revoke", "revokeAll"}
               PROVE  id # req[r].cookie
    OBVIOUS
  <2>1. Delete(r)
    BY <1>1, OwnStep, Arrives DEF Run, Lookup, Check, Evict, Touch, List,
       DeleteByAuthMethod
  <2>2. id \in req[r].left
    BY <2>1 DEF Delete
  <2>3. Spared(req[r], stored)
    BY <1>1 DEF MInv, Sound
  <2> QED BY <2>2, <2>3 DEF Spared
<1>2. MInv /\ [Next]_vars => [\A r \in Request : Kept(r)]_vars
  BY <1>1
<1>3. [\A r \in Request : Kept(r)]_vars => 
          [\A r \in Request, id \in stored \ stored' :
              /\ req[r].pc = "delete" /\ req'[r] # req[r] /\ req'[r].pc # "idle"
              /\ req[r].kind \in {"revoke", "revokeAll"}
              => id # req[r].cookie]_vars
  OBVIOUS
<1> QED
  BY MemoryInvariance, HistoryIsFree, <1>2, <1>3, PTL DEF Spec, CurrentSessionKept

-----------------------------------------------------------------------------
(***************************************************************************)
(* Signing out everywhere.  What is to be shown of the end of the loop     *)
(* that deletes is kept by each turn of it: the sessions that were there   *)
(* when they were listed, and are still, are left to delete.  New ones,    *)
(* and those that expired and were touched again, are not of them.         *)
(***************************************************************************)
Listed(r) ==
    /\ steady[r] \subseteq Alive
    /\ req[r].pc = "delete" /\ req[r].kind = "revokeAll" =>
           steady[r] \subseteq req[r].left \cup {req[r].current}

HInv == \A r \in Request : Listed(r)

\* The only steps that bring a request to delete what it listed.
LEMMA ToDelete ==
    ASSUME MInv, Next, NEW r \in Request, req'[r] # req[r],
           req'[r].pc = "delete", req'[r].kind = "revokeAll"
    PROVE  List(r) \/ Delete(r)
<1>1. /\ req[r] \in RequestRecord(minted) /\ Staged(req[r], minted)
      /\ req \in [Request -> RequestRecord(minted)]
  BY DEF MInv, Sound
<1>2. ASSUME NEW q, Becomes(r, q)
      PROVE  q.pc = "delete" /\ q.kind = "revokeAll"
  BY <1>1, <1>2 DEF Becomes
<1>3. ~Accept(r)
  BY Arrives
<1>4. ~Lookup(r) /\ ~Evict(r) /\ ~Touch(r)
  BY <1>1, <1>2, ActLists DEF Lookup, Evict, Touch, Goto, RequestRecord
<1>5. ~Check(r)
  BY <1>1, <1>2, ActLists DEF Check, Goto, RequestRecord
<1>6. ~DeleteByAuthMethod(r)
  BY <1>2 DEF DeleteByAuthMethod, Done, Idle
<1> QED
  BY <1>3, <1>4, <1>5, <1>6, OwnStep DEF Run

LEMMA ListedStep ==
    ASSUME MInv, HInv, Next, Remember, NEW r \in Request
    PROVE  Listed(r)'
<1>1. /\ req[r] \in RequestRecord(minted)
      /\ req \in [Request -> RequestRecord(minted)]
  BY DEF MInv, Sound
<1>2. /\ steady'[r] \subseteq Alive'
      /\ req'[r].pc = "delete" => steady'[r] = steady[r] \cap Alive'
  BY DEF Remember
<1> SUFFICES ASSUME req'[r].pc = "delete", req'[r].kind = "revokeAll"
             PROVE  steady'[r] \subseteq req'[r].left \cup {req'[r].current}
  BY <1>2 DEF Listed
<1>3. CASE req'[r] = req[r]
  BY <1>2, <1>3 DEF HInv, Listed
<1>4. CASE List(r)
  <2> DEFINE others == {id \in stored : age[id] <= TTL} \ {req[r].current}
  <2>1. req'[r] = IF others = {} THEN Done
                  ELSE [req[r] EXCEPT !.left = others, !.pc = "delete"]
    BY <1>1, <1>4 DEF List, Becomes
  <2>2. others # {}
    BY <2>1 DEF Done, Idle
  <2>3. req'[r].left = others /\ req'[r].current = req[r].current
    BY <1>1, <2>1, <2>2 DEF RequestRecord
  <2> QED
    BY <1>2, <2>3 DEF HInv, Listed, Alive
<1>5. CASE Delete(r)
  <2>1. PICK id \in req[r].left :
            /\ stored' = stored \ {id}
            /\ Becomes(r, IF req[r].left = {id} THEN Done
                          ELSE [req[r] EXCEPT !.left = @ \ {id}])
    BY <1>5 DEF Delete
  <2>2. req[r].left # {id}
    BY <1>1, <2>1 DEF Becomes, Done, Idle
  <2>3. /\ req'[r].left = req[r].left \ {id} /\ req'[r].current = req[r].current
        /\ req'[r].kind = req[r].kind /\ req'[r].pc = req[r].pc
    BY <1>1, <2>1, <2>2 DEF Becomes, RequestRecord
  <2>4. id \notin Alive'
    BY <2>1 DEF Alive
  <2> QED
    BY <1>2, <2>3, <2>4 DEF HInv, Listed
<1> QED
  BY <1>3, <1>4, <1>5, ToDelete

LEMMA HistoryStep == MInv /\ HInv /\ [Next /\ Remember]_<<vars, steady>> => HInv'
<1> SUFFICES ASSUME MInv, HInv, [Next /\ Remember]_<<vars, steady>>
             PROVE  HInv'
  OBVIOUS
<1>1. CASE UNCHANGED <<vars, steady>>
  BY <1>1 DEF vars, HInv, Listed, Alive
<1>2. CASE Next /\ Remember
  BY <1>2, ListedStep DEF HInv
<1> QED
  BY <1>1, <1>2

\* Of a loop or a sweep that ends, no session is left that it should delete.
LEMMA LastStep ==
    ASSUME MInv, HInv, Next, Remember, NEW r \in Request,
           req[r].kind \in {"revokeAll", "disableSSO"},
           req[r].pc \in {"list", "sweep", "scan", "delete"}, req'[r].pc = "done",
           NEW id \in steady[r] \cap Alive'
    PROVE  IF req[r].kind = "revokeAll" THEN id = req[r].current ELSE id \notin SSO
<1>1. /\ req[r] \in RequestRecord(minted) /\ Staged(req[r], minted)
      /\ req \in [Request -> RequestRecord(minted)]
  BY DEF MInv, Sound
<1>2. List(r) \/ Delete(r) \/ DeleteByAuthMethod(r)
  BY OwnStep, Arrives DEF Run, Lookup, Check, Evict, Touch
<1>3. CASE List(r)
  <2>1. {x \in stored : age[x] <= TTL} \ {req[r].current} = {}
    BY <1>1, <1>3 DEF List, Becomes, RequestRecord
  <2> QED
    BY <1>1, <1>3, <2>1 DEF HInv, Listed, Alive, List, Staged
<1>4. CASE Delete(r)
  <2>1. PICK x \in req[r].left :
            /\ stored' = stored \ {x}
            /\ Becomes(r, IF req[r].left = {x} THEN Done
                          ELSE [req[r] EXCEPT !.left = @ \ {x}])
    BY <1>4 DEF Delete
  <2>2. req[r].left = {x}
    BY <1>1, <1>4, <2>1 DEF Becomes, Delete, RequestRecord
  <2>3. req[r].kind = "revokeAll" /\ req[r].pc = "delete"
    BY <1>1, <1>4 DEF Delete, Staged
  <2> QED
    BY <2>1, <2>2, <2>3 DEF HInv, Listed, Alive
<1>5. CASE DeleteByAuthMethod(r)
  BY <1>1, <1>5 DEF DeleteByAuthMethod, Staged, Alive
<1> QED
  BY <1>2, <1>3, <1>4, <1>5

\* SignedOutEverywhere: revoking all others leaves no other session that was
\* there when they were listed, nor disabling SSO one of SSO that was there.
THEOREM MemorySignsOut == Spec => SignedOutEverywhere
<1> DEFINE SignedOut == \A r \in Request :
               /\ req[r].kind \in {"revokeAll", "disableSSO"}
               /\ req[r].pc \in {"list", "sweep", "scan", "delete"}
               /\ req'[r].pc = "done" /\ ~req'[r].failed
               => \A id \in steady[r] \cap Alive' :
                      IF req[r].kind = "revokeAll" THEN id = req[r].current
                      ELSE id \notin SSO
<1>1. Init => HInv
  BY DEF Init, HInv, Listed, Idle
<1>2. MInv /\ HInv /\ [Next /\ Remember]_<<vars, steady>> => [SignedOut]_vars
  <2> SUFFICES ASSUME MInv, HInv, Next, Remember
               PROVE  SignedOut
    BY DEF vars
  <2> QED
    BY LastStep
<1>3. [SignedOut]_vars => [\A r \in Request :
           /\ req[r].kind \in {"revokeAll", "disableSSO"}
           /\ req[r].pc \in {"list", "sweep", "scan", "delete"}
           /\ req'[r].pc = "done" /\ ~req'[r].failed
           => \A id \in steady[r] \cap Alive' :
                  IF req[r].kind = "revokeAll" THEN id = req[r].current
                  ELSE id \notin SSO]_vars
  OBVIOUS
<1> HIDE DEF SignedOut
<1>4. Spec => [][SignedOut]_vars
  BY <1>1, <1>2, MemoryInvariance, HistoryStep, PTL DEF Spec
<1> QED
  BY <1>3, <1>4, PTL DEF SignedOutEverywhere
=============================================================================
