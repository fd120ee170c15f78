------------------------------ MODULE MCAccess ------------------------------
(* AccessControl on a small instance: two identities, four addresses; and   *)
(* the backend's permission table next to the contracts' masks.             *)
EXTENDS AccessControl, Rbac

CONSTANTS w1, w2, w3, w4, d1, d2

MCWallet   == {w1, w2, w3, w4}
MCIdentity == {d1, d2}

\* The gate of the backend reads nothing of this state, nor the contracts the
\* request at the gate, so that it is enough to let each go on while the other
\* is as at the beginning.
MCInit == Init /\ RbacInit
MCNext ==
    \/ Next /\ RbacInit /\ UNCHANGED request
    \/ Init /\ Arrive /\ UNCHANGED vars
MCSpec == MCInit /\ [][MCNext]_<<vars, request>>

\* The log records the past and is read by no guard: two states that differ
\* in it alone have the same future.
View == <<accessVars, request>>
=============================================================================
