------------------------------ MODULE BelAccess ------------------------------
(***************************************************************************)
(* What every registry contract shares (contracts/src/BelAccess.sol): the  *)
(* identity, role and audit state the access check reads and writes, the   *)
(* check itself, the one-time wiring and the audit call that ends every    *)
(* write.                                                                  *)
(*                                                                         *)
(* A transaction is atomic: a call that reverts changes nothing, so it is  *)
(* the action not being enabled.  Addresses and DIDs are model values; the *)
(* inputs a contract refuses for their length or for being zero are left   *)
(* out of the input sets.                                                  *)
(***************************************************************************)
EXTENDS BelRoles, Sequences

CONSTANTS
    Wallet,             \* the addresses transactions name and come from
    Identity,           \* the DIDs; a mapping key keccak256(did) is the DID
    NoIdentity,         \* the empty string identityOf answers for no wallet
    BootstrapWallet,    \* Deploy.s.sol: BEL_BOOTSTRAP_ADMIN_WALLET
    BootstrapDid        \* Deploy.s.sol: BEL_BOOTSTRAP_ADMIN_DID

ASSUME BootstrapAssumption ==
    /\ BootstrapWallet \in Wallet
    /\ BootstrapDid \in Identity
    /\ NoIdentity \notin Identity

VARIABLES
    wired,              \* the registries whose wire() has run
    status,             \* IdentityRegistry._wallets[w].status
    identityKey,        \* IdentityRegistry._wallets[w].identityKey
    walletsOf,          \* IdentityRegistry._walletsOfIdentity
    roles,              \* RoleRegistry._roles
    adminCount,         \* RoleRegistry.adminCount
    log                 \* AuditRegistry: the records in txId order

identityVars == <<status, identityKey, walletsOf>>
roleVars     == <<roles, adminCount>>
accessVars   == <<wired, status, identityKey, walletsOf, roles, adminCount>>

\* The contracts that inherit BelAccess, in the order Deploy.s.sol wires them.
Registry == {"IdentityRegistry", "RoleRegistry", "AssetRegistry", "JobManager",
             "ValidatorRegistry"}
WalletStatus == {"NONE", "PENDING", "ACTIVE", "REVOKED"}

\* The registries are contracts: none of them is the wallet of a person.
ASSUME RegistriesAreContracts == Wallet \cap Registry = {}

-----------------------------------------------------------------------------

IsActiveWallet(w) == status[w] = "ACTIVE"

\* A revoked wallet still resolves, so that history stays attributable.
IdentityOf(w) == identityKey[w]

\* RoleRegistry.rolesOf: the roles belong to the identity, whatever the
\* wallet; an unknown wallet has the key zero, which holds none.
RolesOf(w) == IF IdentityOf(w) = NoIdentity THEN {} ELSE roles[IdentityOf(w)]

HasAnyRole(w, mask) == RolesOf(w) \cap mask # {}

\* Faulty variant: the role alone is checked, whatever became of the wallet.
CheckRolesOnly(registry, caller, mask) ==
    /\ registry \in wired
    /\ HasAnyRole(caller, mask)

\* _checkRoles: wired, then an ACTIVE wallet, then a role of the mask.
CheckRoles(registry, caller, mask) ==
    /\ registry \in wired
    /\ IsActiveWallet(caller)
    /\ HasAnyRole(caller, mask)

\* AuditRegistry._record: records are only ever appended, and their position
\* is the recordCount that makes the txId.  _trails[entityId] is the
\* subsequence of the records that name the entity.
Record(recorder, actor, entityType, entityId, action) ==
    log' = Append(log, [entityType |-> entityType, entityId |-> entityId,
                        action |-> action, actor |-> actor,
                        recorder |-> recorder])

\* _audit: the last effect of every write; recordAuditFor accepts it because
\* the registry is one of the recorders AuditRegistry was built with.
Audit(registry, caller, entityType, entityId, action) ==
    Record(registry, caller, entityType, entityId, action)

\* recordAudit called directly: only an ACTIVE ADMIN may (the registries never
\* take this path), and the record names the wallet as its recorder.
RecordAudit(caller, entityType, entityId, action) ==
    /\ IsActiveWallet(caller)
    /\ "ADMIN" \in RolesOf(caller)
    /\ Record(caller, caller, entityType, entityId, action)
    /\ UNCHANGED accessVars

\* wire(): the deployer alone, once per registry.
Wire(registry) ==
    /\ registry \notin wired
    /\ wired' = wired \cup {registry}
    /\ UNCHANGED <<status, identityKey, walletsOf, roles, adminCount, log>>
=============================================================================
