------------------------------- MODULE MCJobs -------------------------------
(***************************************************************************)
(* One job on one asset: the administrator and one other person, who may   *)
(* hold two of the wallets.                                                *)
(***************************************************************************)
EXTENDS JobManager, TLC

CONSTANTS w1, w2, w3, d1, d2, a1, j1, h1

MCWallet   == {w1, w2, w3}
MCIdentity == {d1, d2}
JobSymmetry == Permutations({w2, w3})

\* The audit log is write-only for the contracts.
View == <<accessVars, assetVars, jobVars>>
=============================================================================
