-------------------------- MODULE IdentityRegistry --------------------------
(***************************************************************************)
(* contracts/src/IdentityRegistry.sol: the wallets, their life cycle and   *)
(* the identity each one is bound to.  Timestamps and the text of a        *)
(* revocation reason are abstracted.                                       *)
(***************************************************************************)
EXTENDS BelAccess

\* Faulty variant: a wallet that is known already is registered again.
RegisterAgain(w, did) ==
    /\ status[w] \in {"NONE", "REVOKED"}
    /\ status' = [status EXCEPT ![w] = "PENDING"]
    /\ identityKey' = [identityKey EXCEPT ![w] = did]
    /\ walletsOf' = [walletsOf EXCEPT ![did] = Append(@, w)]

\* Faulty variant: the identity's list of wallets is not extended.
RegisterUnlisted(w, did) ==
    /\ status[w] = "NONE"
    /\ status' = [status EXCEPT ![w] = "PENDING"]
    /\ identityKey' = [identityKey EXCEPT ![w] = did]
    /\ UNCHANGED walletsOf

\* _register: an address is used once, for one identity, for ever.
Register(w, did) ==
    /\ status[w] = "NONE"
    /\ status' = [status EXCEPT ![w] = "PENDING"]
    /\ identityKey' = [identityKey EXCEPT ![w] = did]
    /\ walletsOf' = [walletsOf EXCEPT ![did] = Append(@, w)]

\* IDENTITY_CREATE, and WALLET_REGISTER for a replacement wallet.
CreateIdentity(caller, w, did) ==
    /\ CheckRoles("IdentityRegistry", caller, CREATE_EMPLOYEE)
    /\ Register(w, did)
    /\ Audit("IdentityRegistry", caller, "IDENTITY", did, "IDENTITY_CREATE")
    /\ UNCHANGED <<wired, roles, adminCount>>

\* Faulty variant: a REVOKED wallet is accepted as well.
ActivateWalletRevived(caller, w) ==
    /\ CheckRoles("IdentityRegistry", caller, ACTIVATE_WALLET)
    /\ status[w] \in {"PENDING", "REVOKED"}
    /\ status' = [status EXCEPT ![w] = "ACTIVE"]
    /\ Audit("IdentityRegistry", caller, "WALLET", w, "WALLET_ACTIVATE")
    /\ UNCHANGED <<wired, identityKey, walletsOf, roles, adminCount>>

\* WALLET_ACTIVATE: only a PENDING wallet.
ActivateWallet(caller, w) ==
    /\ CheckRoles("IdentityRegistry", caller, ACTIVATE_WALLET)
    /\ status[w] = "PENDING"
    /\ status' = [status EXCEPT ![w] = "ACTIVE"]
    /\ Audit("IdentityRegistry", caller, "WALLET", w, "WALLET_ACTIVATE")
    /\ UNCHANGED <<wired, identityKey, walletsOf, roles, adminCount>>

\* WALLET_REVOKE: PENDING or ACTIVE; nothing else of the identity changes.
RevokeWallet(caller, w) ==
    /\ CheckRoles("IdentityRegistry", caller, REVOKE_WALLET)
    /\ status[w] \in {"PENDING", "ACTIVE"}
    /\ status' = [status EXCEPT ![w] = "REVOKED"]
    /\ Audit("IdentityRegistry", caller, "WALLET", w, "WALLET_REVOKE")
    /\ UNCHANGED <<wired, identityKey, walletsOf, roles, adminCount>>

\* The constructor: the bootstrap wallet is registered and ACTIVE at once.
IdentityRegistryInit ==
    /\ status = [w \in Wallet |-> IF w = BootstrapWallet THEN "ACTIVE" ELSE "NONE"]
    /\ identityKey = [w \in Wallet |->
                        IF w = BootstrapWallet THEN BootstrapDid ELSE NoIdentity]
    /\ walletsOf = [d \in Identity |->
                        IF d = BootstrapDid THEN <<BootstrapWallet>> ELSE <<>>]
=============================================================================
