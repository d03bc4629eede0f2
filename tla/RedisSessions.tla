---------------------------- MODULE RedisSessions ----------------------------
(***************************************************************************)
(* Sessions kept by session.RedisStore: each step of a store method is one *)
(* Redis command.  Redis is external to the repository: it executes each   *)
(* command atomically, drops a key when its TTL has run out, and a SCAN    *)
(* visits every key that is there all along, and any other perhaps.  A     *)
(* command may fail, having had its effect or not.                         *)
(***************************************************************************)
EXTENDS Sessions

VARIABLE pttl   \* what is left of each key's TTL

redisVars == <<minted, stored, age, ended, req, pttl>>

RedisInit == Init /\ pttl = [id \in Id |-> 0]

\* SET with the TTL.
Create ==
    /\ CreateWithMethod
    /\ pttl' = [id \in Id |-> IF id \in minted' \ minted THEN TTL ELSE pttl[id]]

\* GET; an error counts as no session.
Lookup(r) ==
    /\ req[r].pc = "lookup"
    /\ \/ req[r].cookie \in stored /\ Becomes(r, Found(req[r]))
       \/ Becomes(r, NotFound(req[r]))
    /\ UNCHANGED <<minted, stored, age, ended, pttl>>

\* Bug: Touch takes a missing key for one to be written.
TouchGet_Blind(r) ==
    /\ req[r].pc = "touch"
    /\ Becomes(r, Goto(req[r], "set"))
    /\ UNCHANGED <<minted, stored, age, ended, pttl>>

\* Touch begins with a GET.
TouchGet(r) ==
    /\ req[r].pc = "touch"
    /\ \/ req[r].cookie \in stored /\ Becomes(r, Goto(req[r], "set"))
       \/ Becomes(r, Touched(req[r]))
    /\ UNCHANGED <<minted, stored, age, ended, pttl>>

\* Bug: SET with KEEPTTL.
TouchSet_KeepTTL(r) ==
    /\ req[r].pc = "set"
    /\ stored' = stored \cup {req[r].cookie}
    /\ age' = [age EXCEPT ![req[r].cookie] = 0]
    /\ Becomes(r, Touched(req[r]))
    /\ UNCHANGED <<minted, ended, pttl>>

\* ... and ends with a SET, which creates the key if it is gone.
TouchSet(r) ==
    /\ req[r].pc = "set"
    /\ \/ /\ stored' = stored \cup {req[r].cookie}
          /\ age' = [age EXCEPT ![req[r].cookie] = 0]
          /\ pttl' = [pttl EXCEPT ![req[r].cookie] = TTL]
       \/ UNCHANGED <<stored, age, pttl>>
    /\ Becomes(r, Touched(req[r]))
    /\ UNCHANGED <<minted, ended>>

\* List and DeleteByAuthMethod begin a SCAN, which need not visit ("seen") a
\* key that is not there when it begins.
ScanStart(r) ==
    /\ req[r].pc \in {"list", "sweep"}
    /\ Becomes(r, [req[r] EXCEPT !.pc = "scan", !.seen = Id \ stored])
    /\ UNCHANGED <<minted, stored, age, ended, pttl>>

\* Bug: the handler forgets to leave the current session out.
Visit_All(q, id) ==
    CASE q.kind = "revokeAll" ->
             [q EXCEPT !.seen = @ \cup {id}, !.left = @ \cup {id}]
      [] q.kind = "disableSSO" /\ id \in SSO ->
             [q EXCEPT !.seen = @ \cup {id}, !.left = {id}, !.pc = "delete"]
      [] OTHER -> [q EXCEPT !.seen = @ \cup {id}]

\* The key is read, and deleted before the next one if it is of an SSO session
\* and those are to go; the sessions listed are deleted after the scan.
Visit(q, id) ==
    CASE q.kind = "revokeAll" ->
             [q EXCEPT !.seen = @ \cup {id}, !.left = @ \cup ({id} \ {q.current})]
      [] q.kind = "disableSSO" /\ id \in SSO ->
             [q EXCEPT !.seen = @ \cup {id}, !.left = {id}, !.pc = "delete"]
      [] OTHER -> [q EXCEPT !.seen = @ \cup {id}]

\* The end of a request one of whose commands failed.
Failed == [Done EXCEPT !.failed = TRUE]

\* Bug: the first page of keys is taken for all of them.
Scan_OnePage(r) ==
    /\ req[r].pc = "scan"
    /\ \/ \E id \in stored : Becomes(r, Visit(req[r], id))
       \/ Becomes(r, IF req[r].left = {} THEN Done ELSE Goto(req[r], "delete"))
       \/ Becomes(r, Failed)
    /\ UNCHANGED <<minted, stored, age, ended, pttl>>

\* An error ends the scan and the request.
Scan(r) ==
    /\ req[r].pc = "scan"
    /\ \/ \E id \in stored : Becomes(r, Visit(req[r], id))
       \/ /\ stored \subseteq req[r].seen
          /\ Becomes(r, IF req[r].left = {} THEN Done ELSE Goto(req[r], "delete"))
       \/ Becomes(r, Failed)
    /\ UNCHANGED <<minted, stored, age, ended, pttl>>

\* DEL; the handler of revokeAll goes on after an error, the others do not.
Delete(r) ==
    /\ req[r].pc = "delete"
    /\ \E id \in req[r].left :
           LET rest == [req[r] EXCEPT !.left = @ \ {id}]
           IN  \/ /\ stored' = stored \ {id}
                  /\ ended' = ended \cup {id}
                  /\ Becomes(r, IF rest.kind = "disableSSO" THEN Goto(rest, "scan")
                                ELSE IF rest.left = {}
                                THEN [Done EXCEPT !.failed = rest.failed]
                                ELSE rest)
               \/ /\ Becomes(r, IF rest.left = {} THEN Failed
                                ELSE [rest EXCEPT !.failed = TRUE])
                  /\ UNCHANGED <<stored, ended>>
    /\ UNCHANGED <<minted, age, pttl>>

\* Time passes and Redis drops the keys whose TTL has run out.
Tick ==
    /\ age' = Aged
    /\ stored' = {id \in stored : pttl[id] > 0}
    /\ pttl' = [id \in Id |-> IF pttl[id] > 0 THEN pttl[id] - 1 ELSE 0]
    /\ UNCHANGED <<minted, ended, req>>

\* The process ends; the sessions persist in Redis.
Restart ==
    /\ req' = [r \in Request |-> Idle]
    /\ UNCHANGED <<minted, stored, age, ended, pttl>>

Run(r) ==
    \/ Lookup(r) \/ TouchGet(r) \/ TouchSet(r) \/ ScanStart(r) \/ Scan(r) \/ Delete(r)

Next ==
    \/ Create
    \/ \E r \in Request : \/ (Accept(r) \/ Return(r)) /\ UNCHANGED pttl
                          \/ Run(r)
    \/ Tick \/ Restart

Spec == RedisInit /\ [][Next /\ Remember]_<<redisVars, steady>>

-----------------------------------------------------------------------------
\* A deleted session no request of which is between the two commands of Touch.
Settled ==
    {id \in ended \ stored :
        \A r \in Request : ~(req[r].pc = "set" /\ req[r].cookie = id)}

\* What there is to "revoked means revoked" on Redis (RevokedStayRevoked is
\* false): only a touch that had read the session before it was deleted brings
\* it back.  Once none is in flight it is gone for good, whatever requests come
\* with its cookie.
RevocationSettles == [][Settled \subseteq Settled']_redisVars

\* What there is to CurrentSessionKept on Redis: a revocation that could look
\* its own session up does not delete it, whatever fails after that.
KnownSessionKept ==
    [][\A r \in Request, id \in stored \ stored' :
           /\ req[r].pc = "delete" /\ req'[r] # req[r] /\ req'[r].pc # "idle"
           /\ req[r].kind \in {"revoke", "revokeAll"}
           /\ req[r].current = req[r].cookie
           => id # req[r].cookie]_vars
=============================================================================
