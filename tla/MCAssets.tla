------------------------------ MODULE MCAssets ------------------------------
(* AssetRegistry and ValidatorRegistry on small instances: registries.cfg   *)
(* (many tokens and validators, one wallet) and transfers.cfg (few tokens,  *)
(* changing access).                                                        *)
EXTENDS AssetRegistry, ValidatorRegistry, TLC

CONSTANTS w1, w2, d1, d2, a1, a2, a3, a4, g1, b1, v1, v2

TwoWallets   == {w1, w2}
MCIdentity   == {d1, d2}

\* Assets and validators share nothing but the access state, so that it is
\* enough to let each go on while the other is as at the beginning.
MCInit == AssetInit /\ ValidatorInit
MCNext ==
    \/ AssetNext /\ validatorList = <<>> /\ height = 0 /\ UNCHANGED validatorVars
    \/ ValidatorNext /\ nextId = 1 /\ now = 0 /\ UNCHANGED assetVars
MCSpec == MCInit /\ [][MCNext]_<<allAssetVars, validatorVars>>

\* Asset ids are only compared with each other, and so are validators.
MCSymmetry == Permutations(AssetId) \cup Permutations({v1, v2})

\* The audit log is read by no guard.
View == <<accessVars, assetVars, validatorVars>>
=============================================================================
