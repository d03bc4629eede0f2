------------------------------ MODULE Sessions ------------------------------
(***************************************************************************)
(* Login sessions as the handlers use them: the middleware and handlers of *)
(* internal/server, through session.Manager, on a session.Store.  Modules  *)
(* MemorySessions and RedisSessions extend this one with the steps of the  *)
(* two stores; each step of a request here is what the code does between   *)
(* two calls of the store.                                                 *)
(*                                                                         *)
(* Authentication is enabled.  A session is its id: a random token that is *)
(* minted once.  Time passes in units of which a session lives for TTL     *)
(* after its last activity.                                                *)
(***************************************************************************)
EXTENDS Integers, FiniteSets

CONSTANTS
    Request,   \* the goroutines net/http serves requests on
    Id,        \* the tokens generateToken returns, all different
    SSO,       \* those of sessions with AuthMethod "oidc"
    TTL,       \* SESSION_TTL
    NoId       \* no session

ASSUME SessionAssumption ==
    /\ SSO \subseteq Id
    /\ NoId \notin Id
    /\ TTL \in Nat

VARIABLES
    minted,  \* the ids of all the sessions created so far
    stored,  \* the ids under which the store holds a session
    age,     \* the time since each session's LastActivity, at most TTL + 1
    ended,   \* the sessions the store was told to delete: by a logout, by a
             \*   revocation, by SSO being disabled, by the process ending
    req,     \* what each goroutine is doing
    steady   \* history: of a request that is about to sign sessions out, those
             \*   that have been in the store, unexpired, since it began

vars == <<minted, stored, age, ended, req>>

Idle == [pc |-> "idle", at |-> "auth", kind |-> "none", cookie |-> NoId,
         target |-> NoId, current |-> NoId, left |-> {}, seen |-> {},
         failed |-> FALSE]

Init ==
    /\ minted = {}
    /\ stored = {}
    /\ age = [id \in Id |-> 0]
    /\ ended = {}
    /\ req = [r \in Request |-> Idle]
    /\ steady = [r \in Request |-> {}]

-----------------------------------------------------------------------------
\* A session is created for a user who logged in, locally or by SSO.
CreateWithMethod ==
    /\ \E id \in Id \ minted :
           /\ minted' = minted \cup {id}
           /\ stored' = stored \cup {id}
           /\ age' = [age EXCEPT ![id] = 0]
    /\ UNCHANGED <<ended, req>>

\* A request arrives with the cookie of some session, whatever became of it.
\* /logout has no middleware and only deletes.
Accept(r) ==
    /\ req[r].pc = "idle"
    /\ \E cookie \in minted,
          kind \in {"visit", "revoke", "revokeAll", "disableSSO", "logout"} :
       \E target \in IF kind = "revoke" THEN minted ELSE {NoId} :
           req' = [req EXCEPT ![r] =
                      [Idle EXCEPT !.kind = kind, !.cookie = cookie,
                                   !.target = target,
                                   !.pc = IF kind = "logout" THEN "delete" ELSE "lookup",
                                   !.left = IF kind = "logout" THEN {cookie} ELSE {}]]
    /\ UNCHANGED <<minted, stored, age, ended>>

Goto(q, pc) == [q EXCEPT !.pc = pc]

Done == [Idle EXCEPT !.pc = "done"]

\* Bug: the wrong one of two ids is deleted.
Act_Current(q) ==
    CASE q.kind = "visit" -> Done
      [] q.kind = "revokeAll" -> Goto(q, "list")
      [] q.kind = "revoke" /\ q.target = q.current -> Done
      [] OTHER -> [q EXCEPT !.pc = "delete", !.left = {q.current}]

\* A session may not revoke itself; a missing one is no obstacle.
Act(q) ==
    CASE q.kind = "visit" -> Done
      [] q.kind = "revokeAll" -> Goto(q, "list")
      [] q.kind = "revoke" /\ q.target = q.current -> Done
      [] OTHER -> [q EXCEPT !.pc = "delete", !.left = {q.target}]

\* Get returned a session: to authMiddleware's GetUser and to the handler's
\* GetSession, which touch it, or to csrfProtect's GetCSRFToken, which comes
\* in between for the requests that change something.
Found(q) ==
    CASE q.at = "auth" -> Goto(q, "touch")
      [] q.at = "self" -> [q EXCEPT !.pc = "touch", !.current = q.cookie]
      [] q.at = "csrf" /\ q.kind = "disableSSO" -> Goto(q, "sweep")
      [] OTHER -> [q EXCEPT !.pc = "lookup", !.at = "self"]

\* Get returned none: 401 or 403 from the middleware, but the handlers of
\* revocations go on without a current session.
NotFound(q) == IF q.at = "self" THEN Act(q) ELSE Done

\* Touch returned; its error, if any, is ignored.
Touched(q) ==
    IF q.at = "self" THEN Act(q)
    ELSE [q EXCEPT !.pc = "lookup", !.at = IF q.kind = "visit" THEN "self" ELSE "csrf"]

Becomes(r, q) == req' = [req EXCEPT ![r] = q]

Return(r) ==
    /\ req[r].pc = "done"
    /\ Becomes(r, Idle)
    /\ UNCHANGED <<minted, stored, age, ended>>

\* The sessions that still sign somebody in.
Alive == {id \in stored : age[id] <= TTL}

\* steady begins with the list or the sweep of a request, loses what leaves the
\* store or expires, and is forgotten at the end.  No action depends on it.
Remember ==
    steady' = [r \in Request |->
        CASE req'[r].pc \in {"list", "sweep"} -> Alive'
          [] req'[r].pc \in {"scan", "delete"} -> steady[r] \cap Alive'
          [] OTHER -> {}]

Aged == [id \in Id |-> IF age[id] > TTL THEN age[id] ELSE age[id] + 1]

-----------------------------------------------------------------------------
Pcs == {"idle", "lookup", "check", "evict", "touch", "set", "list", "scan",
        "delete", "sweep", "done"}

RequestRecord(ids) ==
    [pc : Pcs, at : {"auth", "csrf", "self"},
     kind : {"none", "visit", "revoke", "revokeAll", "disableSSO", "logout"},
     cookie : ids \cup {NoId}, target : ids \cup {NoId}, current : ids \cup {NoId},
     left : SUBSET ids, seen : SUBSET Id, failed : BOOLEAN]

TypeOK ==
    /\ minted \subseteq Id
    /\ stored \subseteq minted
    /\ age \in [Id -> 0..(TTL + 1)]
    /\ ended \subseteq minted
    /\ req \in [Request -> RequestRecord(minted)]

\* Revoked means revoked (README.md:298-299): a session that was deleted by a
\* logout, a revocation or the disabling of SSO is never in the store again,
\* whatever requests it has in flight.
RevokedStayRevoked == stored \cap ended = {}

\* docs/CONFIGURATION.md:66: "Sessions use sliding-window expiry -- each request
\* resets the TTL".  A session that was active within the TTL is in the store
\* unless it was deleted on purpose, however requests and expiry are timed.
SlidingWindow ==
    [][\A id \in stored \ stored' : age'[id] > TTL \/ id \in ended']_vars

\* README.md:299: revoking "all other sessions" signs out "everywhere except
\* your current session": no revocation deletes the session it is asked from.
CurrentSessionKept ==
    [][\A r \in Request, id \in stored \ stored' :
           /\ req[r].pc = "delete" /\ req'[r] # req[r] /\ req'[r].pc # "idle"
           /\ req[r].kind \in {"revoke", "revokeAll"}
           => id # req[r].cookie]_vars

\* README.md:299, "sign out everywhere": when revoking all other sessions, or
\* the sweep after SSO was disabled, ends without an error of the store, no
\* session that was there when it began is there still, however many others
\* were created, touched or expired meanwhile -- but for the current session,
\* or those that are not of SSO.
SignedOutEverywhere ==
    [][\A r \in Request :
           /\ req[r].kind \in {"revokeAll", "disableSSO"}
           /\ req[r].pc \in {"list", "sweep", "scan", "delete"}
           /\ req'[r].pc = "done" /\ ~req'[r].failed
           => \A id \in steady[r] \cap Alive' :
                  IF req[r].kind = "revokeAll" THEN id = req[r].current
                  ELSE id \notin SSO]_vars
=============================================================================
