--------------------------- MODULE MemorySessions ---------------------------
(***************************************************************************)
(* Sessions kept by session.MemoryStore, a map under a RWMutex: each step  *)
(* of a store method is one critical section, or what it does with the     *)
(* *Session it got there after unlocking.  Get reads LastActivity unlocked *)
(* while Touch writes it: the word of it that time.Since uses is read      *)
(* either before or after the write, which is a Check before or after it.  *)
(***************************************************************************)
EXTENDS Sessions

\* Get, under RLock.
Lookup(r) ==
    /\ req[r].pc = "lookup"
    /\ Becomes(r, IF req[r].cookie \in stored THEN Goto(req[r], "check")
                  ELSE NotFound(req[r]))
    /\ UNCHANGED <<minted, stored, age, ended>>

\* Get, unlocked: an expired session is to be deleted.
Check(r) ==
    /\ req[r].pc = "check"
    /\ Becomes(r, IF age[req[r].cookie] > TTL THEN Goto(req[r], "evict")
                  ELSE Found(req[r]))
    /\ UNCHANGED <<minted, stored, age, ended>>

\* Get calls Delete, which locks anew.
Evict(r) ==
    /\ req[r].pc = "evict"
    /\ stored' = stored \ {req[r].cookie}
    /\ Becomes(r, NotFound(req[r]))
    /\ UNCHANGED <<minted, age, ended>>

\* Bug: the session is put back into the map rather than changed in it.
Touch_Store(r) ==
    /\ req[r].pc = "touch"
    /\ stored' = stored \cup {req[r].cookie}
    /\ age' = [age EXCEPT ![req[r].cookie] = 0]
    /\ Becomes(r, Touched(req[r]))
    /\ UNCHANGED <<minted, ended>>

Touch(r) ==
    /\ req[r].pc = "touch"
    /\ age' = [age EXCEPT ![req[r].cookie] =
                  IF req[r].cookie \in stored THEN 0 ELSE @]
    /\ Becomes(r, Touched(req[r]))
    /\ UNCHANGED <<minted, stored, ended>>

\* Bug: the handler forgets to leave the current session out.
List_All(r) ==
    /\ req[r].pc = "list"
    /\ LET listed == {id \in stored : age[id] <= TTL}
       IN  Becomes(r, IF listed = {} THEN Done
                      ELSE [req[r] EXCEPT !.left = listed, !.pc = "delete"])
    /\ UNCHANGED <<minted, stored, age, ended>>

\* Bug: a session is listed for a shorter time than Get accepts it.
List_Strict(r) ==
    /\ req[r].pc = "list"
    /\ LET others == {id \in stored : age[id] < TTL} \ {req[r].current}
       IN  Becomes(r, IF others = {} THEN Done
                      ELSE [req[r] EXCEPT !.left = others, !.pc = "delete"])
    /\ UNCHANGED <<minted, stored, age, ended>>

\* The sessions that handleRevokeAllOthers goes on to delete, one by one.
List(r) ==
    /\ req[r].pc = "list"
    /\ LET others == {id \in stored : age[id] <= TTL} \ {req[r].current}
       IN  Becomes(r, IF others = {} THEN Done
                      ELSE [req[r] EXCEPT !.left = others, !.pc = "delete"])
    /\ UNCHANGED <<minted, stored, age, ended>>

Delete(r) ==
    /\ req[r].pc = "delete"
    /\ \E id \in req[r].left :
           /\ stored' = stored \ {id}
           /\ ended' = ended \cup {id}
           /\ Becomes(r, IF req[r].left = {id} THEN Done
                         ELSE [req[r] EXCEPT !.left = @ \ {id}])
    /\ UNCHANGED <<minted, age>>

\* In one critical section.
DeleteByAuthMethod(r) ==
    /\ req[r].pc = "sweep"
    /\ stored' = stored \ SSO
    /\ ended' = ended \cup (stored \cap SSO)
    /\ Becomes(r, Done)
    /\ UNCHANGED <<minted, age>>

\* Bug: the sweep keeps what it should delete.
Cleanup_Inverted ==
    /\ stored' = {id \in stored : age[id] > TTL}
    /\ UNCHANGED <<minted, age, ended, req>>

\* The background sweep.
Cleanup ==
    /\ stored' = {id \in stored : age[id] <= TTL}
    /\ UNCHANGED <<minted, age, ended, req>>

Tick ==
    /\ age' = Aged
    /\ UNCHANGED <<minted, stored, ended, req>>

\* The process ends and with it everything in the map.
Restart ==
    /\ stored' = {}
    /\ ended' = ended \cup stored
    /\ req' = [r \in Request |-> Idle]
    /\ UNCHANGED <<minted, age>>

Run(r) ==
    \/ Lookup(r) \/ Check(r) \/ Evict(r) \/ Touch(r) \/ List(r) \/ Delete(r)
    \/ DeleteByAuthMethod(r)

Next ==
    \/ CreateWithMethod
    \/ \E r \in Request : Accept(r) \/ Run(r) \/ Return(r)
    \/ Cleanup \/ Tick \/ Restart

Spec == Init /\ [][Next /\ Remember]_<<vars, steady>>

\* The ticker of the cleanup goroutine fires again and again.
LiveSpec == Spec /\ WF_vars(Cleanup)

-----------------------------------------------------------------------------
\* An expired session does not stay in memory for ever, even if its cookie is
\* never presented again: it is removed, unless a request that found it before
\* it expired touches it after.
ExpiredAreReclaimed ==
    \A id \in Id : (id \in stored /\ age[id] > TTL)
                       ~> (id \notin stored \/ age[id] <= TTL)
=============================================================================
