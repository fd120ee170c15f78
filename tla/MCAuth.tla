------------------------------- MODULE MCAuth -------------------------------
(* Who may: one device that may be revoked and registered again with        *)
(* another key, and the grants of one engineer for one asset, with a wallet *)
(* and its replacement.                                                     *)
EXTENDS AuthService, Grants, TLC

CONSTANTS w1, w2

MCDeviceOf == [k \in Key |-> CHOOSE d \in Device : TRUE]
MCWallets  == <<w1, w2>>

\* Authentication and grants share no row, so that it is enough to let each go
\* on while the other is as at the beginning.
MCInit == AuthInit /\ GrantInit
MCNext ==
    \/ GrantInit /\ AuthNext /\ UNCHANGED grantVars
    \/ AuthInit /\ GrantNext /\ UNCHANGED authVars
MCSpec == MCInit /\ [][MCNext]_<<authVars, grantVars>>

\* Requests, purposes and the two keys of the device are interchangeable, and so
\* are grants, which are named like purposes to keep the group small.
MCSymmetry == Permutations(Slot) \cup Permutations(Purpose) \cup Permutations(Key)

\* No guard but that of Block looks at the time of the head, and no property; the
\* key of a device that is not ACTIVE is never looked at before it is overwritten,
\* and what the contract granted to a wallet, or that it was shared, not once the
\* wallet is REVOKED.
MCDevices == [d \in Device |-> IF device[d].status = "ACTIVE" THEN device[d].key ELSE None]
MCInUse   == {w \in Wallet : grantee[w] # "REVOKED"}
View ==
    <<MCDevices, wallet, credential, challenge, session, req, uses,
      row, [w \in MCInUse |-> granted[w]], grantee, now, request, late, used, orphaned,
      shared \cap MCInUse>>
=============================================================================
