------------------------------- MODULE SlotLease -------------------------------
(***************************************************************************)
(* What the proxy's slot locking promises, without locks: a slot is leased *)
(* to one request at a time.  A lease may be revoked behind its user's     *)
(* back; the slot then has no exclusive user until everyone who was let in *)
(* has left, and is an ordinary slot again after that.                     *)
(***************************************************************************)
CONSTANTS Requests, Slots

VARIABLES
    users,    \* the requests that believe they have the slot
    revoked   \* slots whose lease was revoked and that are not empty yet

vars == <<users, revoked>>

Init ==
    /\ users = [s \in Slots |-> {}]
    /\ revoked = {}

\* A request gets a slot nobody uses, or one whose lease was revoked.
Grant(r, s) ==
    /\ users[s] = {} \/ s \in revoked
    /\ \A t \in Slots : r \notin users[t]
    /\ users' = [users EXCEPT ![s] = @ \cup {r}]
    /\ UNCHANGED revoked

\* The last user to leave makes the slot an ordinary one.
Return(r, s) ==
    /\ r \in users[s]
    /\ users' = [users EXCEPT ![s] = @ \ {r}]
    /\ revoked' = IF users[s] = {r} THEN revoked \ {s} ELSE revoked

Revoke(s) ==
    /\ users[s] # {}
    /\ revoked' = revoked \cup {s}
    /\ UNCHANGED users

Next ==
    \/ \E r \in Requests, s \in Slots : Grant(r, s) \/ Return(r, s)
    \/ \E s \in Slots : Revoke(s)

Spec == Init /\ [][Next]_vars
=============================================================================
