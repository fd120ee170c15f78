---------------------------- MODULE AccessControl ----------------------------
(***************************************************************************)
(* IdentityRegistry, RoleRegistry and AuditRegistry together: who may do   *)
(* what on the chain, from the deployment on.  The registries' wire()      *)
(* calls are interleaved with the transactions of the wallets, as they may *)
(* be on a live chain.                                                     *)
(***************************************************************************)
EXTENDS IdentityRegistry, RoleRegistry, FiniteSets

CONSTANT
    AssignableRole      \* the roles this instance's transactions assign

ASSUME AssignableAssumption == AssignableRole \subseteq Role

ASSUME IdentityFinite == IsFiniteSet(Identity)

vars == <<wired, status, identityKey, walletsOf, roles, adminCount, log>>

AccessInit ==
    /\ IdentityRegistryInit
    /\ RoleRegistryInit
    /\ log = <<>>

\* The state the constructors leave: nothing is wired yet.
Init == AccessInit /\ wired = {}

\* The transactions of the identity and role registries.
AccessNext ==
    \E caller, w \in Wallet :
        \/ \E did \in Identity : CreateIdentity(caller, w, did)
        \/ ActivateWallet(caller, w)
        \/ RevokeWallet(caller, w)
        \/ \E role \in AssignableRole :
              \/ AssignRole(caller, w, role)
              \/ RevokeRole(caller, w, role)
        \/ RecordAudit(caller, "WALLET", w, "WALLET_REVOKE")

Next ==
    \/ \E registry \in {"IdentityRegistry", "RoleRegistry"} : Wire(registry)
    \/ AccessNext

Spec == Init /\ [][Next]_vars

-----------------------------------------------------------------------------
(* Safety.                                                                 *)

AuditRecord ==
    [entityType : {"IDENTITY", "WALLET", "ASSET", "JOB", "GRANT"},
     entityId   : Identity \cup Wallet,
     action     : {"IDENTITY_CREATE", "WALLET_ACTIVATE", "WALLET_REVOKE",
                   "ROLE_ASSIGN", "ROLE_REVOKE"},
     actor      : Wallet,
     recorder   : Registry \cup Wallet]

\* Every variable has the type its Solidity declaration gives it.
AccessTypeOK ==
    /\ wired \in SUBSET Registry
    /\ status \in [Wallet -> WalletStatus]
    /\ identityKey \in [Wallet -> Identity \cup {NoIdentity}]
    /\ walletsOf \in [Identity -> Seq(Wallet)]
    /\ roles \in [Identity -> SUBSET Role]
    /\ adminCount \in Nat

TypeOK == AccessTypeOK /\ log \in Seq(AuditRecord)

Admins == {d \in Identity : "ADMIN" \in roles[d]}

\* RoleRegistry.adminCount, kept by hand in assignRole and revokeRole, is the
\* number of identities that hold ADMIN, and it never reaches zero: the
\* LastAdmin guard reads a counter that no sequence of calls makes drift.
AdminCountExact == adminCount = Cardinality(Admins) /\ adminCount >= 1

\* The three IdentityRegistry mappings agree: walletsOf(did) lists exactly the
\* wallets bound to did, each once, and a wallet is bound if and only if it
\* was registered.  Wallet replacement and revocation keep the history.
WalletLinks ==
    /\ \A w \in Wallet : status[w] = "NONE" <=> identityKey[w] = NoIdentity
    /\ \A d \in Identity :
          /\ \A i, j \in DOMAIN walletsOf[d] :
                walletsOf[d][i] = walletsOf[d][j] => i = j
          /\ \A w \in Wallet :
                identityKey[w] = d <=>
                \E i \in DOMAIN walletsOf[d] : walletsOf[d][i] = w

\* RoleRegistry resolves an identity through a wallet: no role can be held by
\* a DID that was never registered, so every role holder is reachable by
\* revokeRole.
RolesOnlyOfKnown == \A d \in Identity : roles[d] # {} => walletsOf[d] # <<>>

WalletMoves ==
    {<<s, s>> : s \in WalletStatus} \cup
    {<<"NONE", "PENDING">>, <<"PENDING", "ACTIVE">>, <<"PENDING", "REVOKED">>,
     <<"ACTIVE", "REVOKED">>}

WalletStep ==
    \A w \in Wallet :
        /\ <<status[w], status'[w]>> \in WalletMoves
        /\ identityKey[w] # NoIdentity => identityKey'[w] = identityKey[w]

\* A wallet moves NONE -> PENDING -> ACTIVE -> REVOKED, may skip ACTIVE, never
\* comes back, and is never bound to another identity: the on-chain meaning of
\* "REVOKED (terminal, address never reusable)" in contracts/README.md.
WalletLifecycle == [][WalletStep]_vars

\* The rows of docs/RBAC_MATRIX.md for the recorded actions.
PermittedRoles ==
    [action \in {"IDENTITY_CREATE", "WALLET_ACTIVATE", "WALLET_REVOKE",
                 "ROLE_ASSIGN", "ROLE_REVOKE"} |->
        IF action = "WALLET_ACTIVATE" THEN {"ADMIN", "ISSUER"} ELSE {"ADMIN"}]

AccessChanged == <<identityVars, roleVars>>' # <<identityVars, roleVars>>

AccountableStep ==
    LET r == log'[Len(log) + 1] IN
    /\ AccessChanged => log' # log
    /\ log' # log =>
          /\ Len(log') = Len(log) + 1
          /\ \A i \in 1..Len(log) : log'[i] = log[i]
          /\ status[r.actor] = "ACTIVE"
          /\ RolesOf(r.actor) \cap PermittedRoles[r.action] # {}
          /\ r.recorder \in Registry => AccessChanged /\ r.recorder \in wired

\* Accountability: a transaction that changes an identity, a wallet or a role
\* appends exactly one audit record and touches no earlier one; its actor was,
\* before the transaction, an ACTIVE wallet of an identity that the RBAC
\* matrix allows the recorded action; and a registry's record stands for a
\* real change, so an administrator's recordAudit call cannot imitate one.
ChangesAccountable == [][AccountableStep]_vars

-----------------------------------------------------------------------------
(* Statements of the documentation that do not hold (see the README).      *)

\* What the comment on revokeRole says the LastAdmin guard is for: somebody can
\* always onboard and recover identities.  The guard protects the role;
\* revokeWallet may still revoke the last ACTIVE wallet of the last ADMIN.
SomeAdminCanAct == \E w \in Wallet : IsActiveWallet(w) /\ "ADMIN" \in RolesOf(w)
=============================================================================
