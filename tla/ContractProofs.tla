--------------------------- MODULE ContractProofs ---------------------------
(***************************************************************************)
(* Proofs about AccessControl, AssetRegistry and JobManager, for any       *)
(* number of wallets, identities, tokens and jobs: who may act, the        *)
(* component forest and the bookkeeping that represents it, the asset ids, *)
(* who owns a token, separation of duties, and that the contracts          *)
(* implement AssetLifecycle and JobLifecycle while wallets are revoked and *)
(* replaced.  The inductive invariants are AccessInv, the type invariant   *)
(* with the agreement of the identity mappings and of the ADMIN counter;   *)
(* AssetInv, which adds that of the tokens; and JobInv, which adds what    *)
(* jobs say of people.  The last section compares the gates of the backend *)
(* (Rbac) with the masks of the contracts.                                 *)
(***************************************************************************)
EXTENDS JobManager, Rbac, FiniteSetTheorems, SequenceTheorems, TLAPS

-----------------------------------------------------------------------------
(* Access.                                                                 *)

AccessInv == AccessTypeOK /\ WalletLinks /\ RolesOnlyOfKnown /\ AdminCountExact

\* What any step may do to the access state: a transaction of the identity or
\* role registry, a wire() call, or nothing.
AccessStep == [AccessNext \/ (\E registry \in Registry : Wire(registry))]_accessVars

\* The steps one by one, with the arguments of the call.
AccessCall(caller, w, did, role) ==
    \/ CreateIdentity(caller, w, did)
    \/ ActivateWallet(caller, w)
    \/ RevokeWallet(caller, w)
    \/ AssignRole(caller, w, role)
    \/ RevokeRole(caller, w, role)

\* An access step is a call with well-typed arguments, or it changes at most
\* the set of wired registries.
LEMMA AccessStepCases ==
  ASSUME AccessStep
  PROVE  \/ \E caller, w \in Wallet, did \in Identity, role \in Role :
              AccessCall(caller, w, did, role)
         \/ /\ UNCHANGED <<status, identityKey, walletsOf, roles, adminCount>>
            /\ \/ UNCHANGED wired
               \/ \E registry \in Registry : wired' = wired \cup {registry}
<1>1. CASE AccessNext
  <2>1. PICK caller \in Wallet, w \in Wallet :
          \/ \E did \in Identity : CreateIdentity(caller, w, did)
          \/ ActivateWallet(caller, w)
          \/ RevokeWallet(caller, w)
          \/ \E role \in AssignableRole :
                AssignRole(caller, w, role) \/ RevokeRole(caller, w, role)
          \/ RecordAudit(caller, "WALLET", w, "WALLET_REVOKE")
    BY <1>1 DEF AccessNext
  <2>2. "ADMIN" \in Role /\ BootstrapDid \in Identity
    BY BootstrapAssumption DEF Role
  <2>3. CASE RecordAudit(caller, "WALLET", w, "WALLET_REVOKE")
    BY <2>3 DEF RecordAudit, accessVars
  <2>4. CASE ~RecordAudit(caller, "WALLET", w, "WALLET_REVOKE")
    BY <2>1, <2>2, <2>4, AssignableAssumption DEF AccessCall
  <2> QED BY <2>3, <2>4
<1>2. ASSUME NEW registry \in Registry, Wire(registry)
      PROVE  \/ UNCHANGED wired
             \/ \E r \in Registry : wired' = wired \cup {r}
  BY <1>2 DEF Wire
<1>3. CASE \E registry \in Registry : Wire(registry)
  BY <1>2, <1>3 DEF Wire
<1>4. CASE UNCHANGED accessVars
  BY <1>4 DEF accessVars
<1> QED BY <1>1, <1>3, <1>4 DEF AccessStep

\* Every access step keeps the types of the identity and role state.
LEMMA AccessTypeStep ==
  ASSUME AccessTypeOK, adminCount >= 1, AccessStep
  PROVE  AccessTypeOK'
<1> USE DEF AccessTypeOK
<1>1. ASSUME NEW caller \in Wallet, NEW w \in Wallet, NEW did \in Identity,
             NEW role \in Role, AccessCall(caller, w, did, role)
      PROVE  AccessTypeOK'
  <2>1. CASE CreateIdentity(caller, w, did)
    BY <2>1 DEF CreateIdentity, Register, WalletStatus
  <2>2. CASE ActivateWallet(caller, w)
    BY <2>2 DEF ActivateWallet, WalletStatus
  <2>3. CASE RevokeWallet(caller, w)
    BY <2>3 DEF RevokeWallet, WalletStatus
  <2>4. CASE AssignRole(caller, w, role)
    BY <2>4 DEF AssignRole, identityVars, IdentityOf
  <2>5. CASE RevokeRole(caller, w, role)
    BY <2>5 DEF RevokeRole, identityVars, IdentityOf
  <2> QED BY <1>1, <2>1, <2>2, <2>3, <2>4, <2>5 DEF AccessCall
<1> QED BY <1>1, AccessStepCases

\* _register is the only writer of the identity mappings: the new wallet was
\* bound to nothing, so appending it to its identity's list repeats nothing.
LEMMA WalletLinksStep ==
  ASSUME AccessTypeOK, WalletLinks, AccessStep
  PROVE  WalletLinks'
<1> USE DEF AccessTypeOK
<1>1. ASSUME NEW caller \in Wallet, NEW w \in Wallet, NEW did \in Identity,
             CreateIdentity(caller, w, did)
      PROVE  WalletLinks'
  <2>1. /\ status[w] = "NONE"
        /\ status' = [status EXCEPT ![w] = "PENDING"]
        /\ identityKey' = [identityKey EXCEPT ![w] = did]
        /\ walletsOf' = [walletsOf EXCEPT ![did] = Append(@, w)]
    BY <1>1 DEF CreateIdentity, Register
  <2>2. identityKey[w] = NoIdentity
    BY <2>1 DEF WalletLinks
  <2>3. \A x \in Wallet : status'[x] = "NONE" <=> identityKey'[x] = NoIdentity
    BY <2>1, BootstrapAssumption DEF WalletLinks
  <2>4. ASSUME NEW d \in Identity
        PROVE  /\ \A i, j \in DOMAIN walletsOf'[d] :
                     walletsOf'[d][i] = walletsOf'[d][j] => i = j
               /\ \A x \in Wallet : identityKey'[x] = d <=>
                     \E i \in DOMAIN walletsOf'[d] : walletsOf'[d][i] = x
    <3>1. CASE d # did
      <4>1. walletsOf'[d] = walletsOf[d] /\ walletsOf[d] \in Seq(Wallet)
        BY <2>1, <3>1
      <4>2. \A x \in Wallet : identityKey'[x] = d <=> identityKey[x] = d
        BY <2>1, <2>2, <3>1, BootstrapAssumption
      <4> QED BY <4>1, <4>2 DEF WalletLinks
    <3>2. CASE d = did
      <4> DEFINE s == walletsOf[d]
                 t == walletsOf'[d]
      <4>1. s \in Seq(Wallet) /\ t = Append(s, w)
        BY <2>1, <3>2
      <4>2. /\ DOMAIN s = 1..Len(s) /\ Len(s) \in Nat
            /\ DOMAIN t = 1..(Len(s) + 1)
            /\ t[Len(s) + 1] = w
            /\ \A i \in DOMAIN s : t[i] = s[i]
        BY <4>1
      <4>3. \A i \in DOMAIN s : s[i] # w
        BY <2>2, BootstrapAssumption DEF WalletLinks
      <4>4. \A i, j \in DOMAIN s : s[i] = s[j] => i = j
        BY DEF WalletLinks
      <4>5. \A x \in Wallet : identityKey[x] = d <=> \E i \in DOMAIN s : s[i] = x
        BY DEF WalletLinks
      <4>6. \A i, j \in DOMAIN t : t[i] = t[j] => i = j
        BY <4>2, <4>3, <4>4
      <4>7. \A x \in Wallet : identityKey'[x] = d <=> \E i \in DOMAIN t : t[i] = x
        <5> SUFFICES ASSUME NEW x \in Wallet
                     PROVE  identityKey'[x] = d <=> \E i \in DOMAIN t : t[i] = x
          OBVIOUS
        <5>1. CASE x = w
          <6>1. identityKey'[x] = d
            BY <2>1, <3>2, <5>1
          <6>2. Len(s) + 1 \in DOMAIN t /\ t[Len(s) + 1] = x
            BY <4>2, <5>1
          <6> QED BY <6>1, <6>2
        <5>2. CASE x # w
          <6>1. identityKey'[x] = identityKey[x]
            BY <2>1, <5>2
          <6>2. (\E i \in DOMAIN t : t[i] = x) <=> (\E i \in DOMAIN s : s[i] = x)
            <7>1. \A i \in DOMAIN s : i \in DOMAIN t /\ t[i] = s[i]
              BY <4>2
            <7>2. \A i \in DOMAIN t : t[i] = x => i \in DOMAIN s /\ s[i] = x
              BY <4>2, <5>2
            <7> HIDE DEF s, t
            <7> QED BY <7>1, <7>2
          <6> QED BY <4>5, <6>1, <6>2
        <5> QED BY <5>1, <5>2
      <4> QED BY <4>6, <4>7
    <3> QED BY <3>1, <3>2
  <2> QED BY <2>3, <2>4 DEF WalletLinks
<1>2. ASSUME NEW w \in Wallet, NEW s \in WalletStatus \ {"NONE"},
             status[w] # "NONE", status' = [status EXCEPT ![w] = s],
             UNCHANGED <<identityKey, walletsOf>>
      PROVE  WalletLinks'
  BY <1>2 DEF WalletLinks
<1>3. ASSUME NEW caller \in Wallet, NEW w \in Wallet, NEW did \in Identity,
             NEW role \in Role, AccessCall(caller, w, did, role)
      PROVE  WalletLinks'
  <2>1. CASE ActivateWallet(caller, w)
    BY <1>2, <2>1 DEF ActivateWallet, WalletStatus
  <2>2. CASE RevokeWallet(caller, w)
    BY <1>2, <2>2 DEF RevokeWallet, WalletStatus
  <2>3. CASE AssignRole(caller, w, role) \/ RevokeRole(caller, w, role)
    BY <2>3 DEF AssignRole, RevokeRole, identityVars, WalletLinks
  <2> QED BY <1>1, <1>3, <2>1, <2>2, <2>3 DEF AccessCall
<1>4. CASE UNCHANGED <<status, identityKey, walletsOf>>
  BY <1>4 DEF WalletLinks
<1> QED BY <1>3, <1>4, AccessStepCases

\* A role is given to the identity of a known wallet, whose list of wallets is
\* not empty and never shrinks.
LEMMA RolesOnlyOfKnownStep ==
  ASSUME AccessTypeOK, WalletLinks, RolesOnlyOfKnown, AccessStep
  PROVE  RolesOnlyOfKnown'
<1> USE DEF AccessTypeOK
<1>1. ASSUME NEW caller \in Wallet, NEW w \in Wallet, NEW did \in Identity,
             NEW role \in Role, AccessCall(caller, w, did, role)
      PROVE  RolesOnlyOfKnown'
  <2>1. CASE CreateIdentity(caller, w, did)
    <3>1. /\ walletsOf' = [walletsOf EXCEPT ![did] = Append(@, w)]
          /\ UNCHANGED roles
      BY <2>1 DEF CreateIdentity, Register
    <3>2. Append(walletsOf[did], w) # <<>>
      <4>1. walletsOf[did] \in Seq(Wallet)
        OBVIOUS
      <4> QED BY <4>1, AppendProperties
    <3> QED BY <3>1, <3>2 DEF RolesOnlyOfKnown
  <2>2. CASE ActivateWallet(caller, w) \/ RevokeWallet(caller, w)
    BY <2>2 DEF ActivateWallet, RevokeWallet, RolesOnlyOfKnown
  <2>3. CASE AssignRole(caller, w, role) \/ RevokeRole(caller, w, role)
    <3>1. /\ IdentityOf(w) \in Identity
          /\ UNCHANGED walletsOf
          /\ \A d \in Identity : d # IdentityOf(w) => roles'[d] = roles[d]
      BY <2>3 DEF AssignRole, RevokeRole, identityVars, IdentityOf
    <3>2. PICK i \in DOMAIN walletsOf[IdentityOf(w)] :
            walletsOf[IdentityOf(w)][i] = w
      BY <3>1 DEF WalletLinks, IdentityOf
    <3>3. walletsOf[IdentityOf(w)] # <<>>
      BY <3>1, <3>2
    <3> QED BY <3>1, <3>3 DEF RolesOnlyOfKnown
  <2> QED BY <1>1, <2>1, <2>2, <2>3 DEF AccessCall
<1>2. CASE UNCHANGED <<walletsOf, roles>>
  BY <1>2 DEF RolesOnlyOfKnown
<1> QED BY <1>1, <1>2, AccessStepCases

\* The counter follows the set of administrators: assignRole adds one who was
\* not there, revokeRole removes one of at least two.
LEMMA AdminCountStep ==
  ASSUME AccessTypeOK, AdminCountExact, AccessStep
  PROVE  AdminCountExact'
<1> USE DEF AccessTypeOK
<1>0. Admins \subseteq Identity /\ IsFiniteSet(Admins)
  BY IdentityFinite, FS_Subset DEF Admins
<1>1. ASSUME NEW caller \in Wallet, NEW w \in Wallet, NEW did \in Identity,
             NEW role \in Role, AccessCall(caller, w, did, role)
      PROVE  AdminCountExact'
  <2>1. CASE UNCHANGED <<roles, adminCount>>
    BY <2>1 DEF AdminCountExact, Admins
  <2>2. CASE AssignRole(caller, w, role)
    <3> DEFINE d == IdentityOf(w)
    <3>1. /\ d \in Identity
          /\ role \notin roles[d]
          /\ roles' = [roles EXCEPT ![d] = @ \cup {role}]
          /\ adminCount' = IF role = "ADMIN" THEN adminCount + 1 ELSE adminCount
      BY <2>2 DEF AssignRole, IdentityOf
    <3>2. CASE role = "ADMIN"
      <4>1. d \notin Admins /\ Admins' = Admins \cup {d}
        BY <3>1, <3>2 DEF Admins
      <4>2. Cardinality(Admins') = Cardinality(Admins) + 1
        BY <1>0, <4>1, FS_AddElement
      <4> QED BY <3>1, <3>2, <4>2 DEF AdminCountExact
    <3>3. CASE role # "ADMIN"
      <4>1. Admins' = Admins
        BY <3>1, <3>3 DEF Admins
      <4> QED BY <3>1, <3>3, <4>1 DEF AdminCountExact
    <3> QED BY <3>2, <3>3
  <2>3. CASE RevokeRole(caller, w, role)
    <3> DEFINE d == IdentityOf(w)
    <3>1. /\ d \in Identity
          /\ role \in roles[d]
          /\ role = "ADMIN" => adminCount # 1
          /\ roles' = [roles EXCEPT ![d] = @ \ {role}]
          /\ adminCount' = IF role = "ADMIN" THEN adminCount - 1 ELSE adminCount
      BY <2>3 DEF RevokeRole, IdentityOf
    <3>2. CASE role = "ADMIN"
      <4>1. d \in Admins /\ Admins' = Admins \ {d}
        BY <3>1, <3>2 DEF Admins
      <4>2. Cardinality(Admins') = Cardinality(Admins) - 1
        BY <1>0, <4>1, FS_RemoveElement
      <4> QED BY <3>1, <3>2, <4>2 DEF AdminCountExact
    <3>3. CASE role # "ADMIN"
      <4>1. Admins' = Admins
        BY <3>1, <3>3 DEF Admins
      <4> QED BY <3>1, <3>3, <4>1 DEF AdminCountExact
    <3> QED BY <3>2, <3>3
  <2> QED BY <1>1, <2>1, <2>2, <2>3
       DEF AccessCall, CreateIdentity, ActivateWallet, RevokeWallet
<1>2. CASE UNCHANGED <<roles, adminCount>>
  BY <1>2 DEF AdminCountExact, Admins
<1> QED BY <1>1, <1>2, AccessStepCases

\* The whole access invariant is inductive, for this specification and for
\* every one that adds registries to it.
LEMMA AccessInvStep == AccessInv /\ AccessStep => AccessInv'
<1> SUFFICES ASSUME AccessInv, AccessStep PROVE AccessInv'
  OBVIOUS
<1>1. AccessTypeOK /\ WalletLinks /\ RolesOnlyOfKnown /\ AdminCountExact
  BY DEF AccessInv
<1>2. adminCount >= 1
  BY <1>1 DEF AdminCountExact
<1> QED
  BY <1>1, <1>2, AccessTypeStep, WalletLinksStep, RolesOnlyOfKnownStep,
     AdminCountStep DEF AccessInv

\* The constructors establish it.
LEMMA AccessInvInit == AccessInit /\ wired \in SUBSET Registry => AccessInv
<1> SUFFICES ASSUME AccessInit, wired \in SUBSET Registry PROVE AccessInv
  OBVIOUS
<1> USE BootstrapAssumption DEF AccessInit, IdentityRegistryInit, RoleRegistryInit
<1>1. AccessTypeOK
  BY DEF AccessTypeOK, WalletStatus, Role
<1>2. WalletLinks
  <2>1. \A w \in Wallet : status[w] = "NONE" <=> identityKey[w] = NoIdentity
    OBVIOUS
  <2>2. ASSUME NEW d \in Identity
        PROVE  /\ \A i, j \in DOMAIN walletsOf[d] :
                     walletsOf[d][i] = walletsOf[d][j] => i = j
               /\ \A w \in Wallet : identityKey[w] = d <=>
                     \E i \in DOMAIN walletsOf[d] : walletsOf[d][i] = w
    <3>1. CASE d = BootstrapDid
      <4>1. /\ walletsOf[d] = <<BootstrapWallet>>
            /\ DOMAIN walletsOf[d] = {1}
            /\ walletsOf[d][1] = BootstrapWallet
        BY <3>1
      <4> QED BY <3>1, <4>1
    <3>2. CASE d # BootstrapDid
      <4>1. DOMAIN walletsOf[d] = {}
        BY <3>2
      <4> QED BY <3>2, <4>1
    <3> QED BY <3>1, <3>2
  <2> QED BY <2>1, <2>2 DEF WalletLinks
<1>3. RolesOnlyOfKnown
  BY DEF RolesOnlyOfKnown
<1>4. AdminCountExact
  <2>1. Admins = {BootstrapDid}
    BY DEF Admins
  <2>2. Cardinality({BootstrapDid}) = 1
    BY FS_Singleton
  <2> QED BY <2>1, <2>2 DEF AdminCountExact
<1> QED BY <1>1, <1>2, <1>3, <1>4 DEF AccessInv

-----------------------------------------------------------------------------

LEMMA NextIsAccessStep == [Next]_vars => AccessStep
BY DEF Next, vars, AccessStep, accessVars, Registry

\* The access invariant holds in every reachable state of the deployed
\* identity and role registries.
THEOREM AccessInvariant == Spec => []AccessInv
<1>1. Init => AccessInv
  BY AccessInvInit DEF Init
<1>2. AccessInv /\ [Next]_vars => AccessInv'
  BY AccessInvStep, NextIsAccessStep
<1> QED BY <1>1, <1>2, PTL DEF Spec

\* RoleRegistry.adminCount is exact and at least one, whatever is assigned and
\* revoked: the LastAdmin guard of revokeRole never reads a drifted counter.
THEOREM AdminCountCorrect == Spec => []AdminCountExact
<1>1. AccessInv => AdminCountExact
  BY DEF AccessInv
<1> QED BY <1>1, AccessInvariant, PTL

\* walletsOf(did) and identityOf(wallet) are inverse to each other for ever.
THEOREM WalletLinksCorrect == Spec => []WalletLinks
<1>1. AccessInv => WalletLinks
  BY DEF AccessInv
<1> QED BY <1>1, AccessInvariant, PTL

\* No role without a registered identity.
THEOREM RolesKnownCorrect == Spec => []RolesOnlyOfKnown
<1>1. AccessInv => RolesOnlyOfKnown
  BY DEF AccessInv
<1> QED BY <1>1, AccessInvariant, PTL

-----------------------------------------------------------------------------
(* Action properties.                                                      *)

\* A successful call appends one record, written by a wired registry, whose
\* actor passed the role check.
LEMMA CallRecorded ==
  ASSUME AccessTypeOK,
         NEW caller \in Wallet, NEW w \in Wallet, NEW did \in Identity,
         NEW role \in Role, AccessCall(caller, w, did, role)
  PROVE  \E r \in AuditRecord :
            /\ log' = Append(log, r)
            /\ r.actor = caller
            /\ r.recorder \in wired
            /\ status[caller] = "ACTIVE"
            /\ RolesOf(caller) \cap PermittedRoles[r.action] # {}
<1> USE DEF Audit, Record, CheckRoles, HasAnyRole, IsActiveWallet, AuditRecord,
            AccessTypeOK, Registry, PermittedRoles
<1>1. CASE CreateIdentity(caller, w, did)
  <2> DEFINE r == [entityType |-> "IDENTITY", entityId |-> did,
                   action |-> "IDENTITY_CREATE", actor |-> caller,
                   recorder |-> "IdentityRegistry"]
  <2>1. r \in AuditRecord
    OBVIOUS
  <2> QED BY <1>1, <2>1 DEF CreateIdentity, CREATE_EMPLOYEE
<1>2. CASE ActivateWallet(caller, w)
  <2> DEFINE r == [entityType |-> "WALLET", entityId |-> w,
                   action |-> "WALLET_ACTIVATE", actor |-> caller,
                   recorder |-> "IdentityRegistry"]
  <2>1. r \in AuditRecord
    OBVIOUS
  <2> QED BY <1>2, <2>1 DEF ActivateWallet, ACTIVATE_WALLET
<1>3. CASE RevokeWallet(caller, w)
  <2> DEFINE r == [entityType |-> "WALLET", entityId |-> w,
                   action |-> "WALLET_REVOKE", actor |-> caller,
                   recorder |-> "IdentityRegistry"]
  <2>1. r \in AuditRecord
    OBVIOUS
  <2> QED BY <1>3, <2>1 DEF RevokeWallet, REVOKE_WALLET
<1>4. CASE AssignRole(caller, w, role)
  <2> DEFINE r == [entityType |-> "IDENTITY", entityId |-> IdentityOf(w),
                   action |-> "ROLE_ASSIGN", actor |-> caller,
                   recorder |-> "RoleRegistry"]
  <2>1. r \in AuditRecord
    BY <1>4 DEF AssignRole, IdentityOf
  <2> QED BY <1>4, <2>1 DEF AssignRole, MANAGE_ROLES
<1>5. CASE RevokeRole(caller, w, role)
  <2> DEFINE r == [entityType |-> "IDENTITY", entityId |-> IdentityOf(w),
                   action |-> "ROLE_REVOKE", actor |-> caller,
                   recorder |-> "RoleRegistry"]
  <2>1. r \in AuditRecord
    BY <1>5 DEF RevokeRole, IdentityOf
  <2> QED BY <1>5, <2>1 DEF RevokeRole, MANAGE_ROLES
<1> QED BY <1>1, <1>2, <1>3, <1>4, <1>5 DEF AccessCall

\* Every call changes the access state: it is never a record of nothing.
LEMMA CallChanges ==
  ASSUME AccessTypeOK, NEW caller \in Wallet, NEW w \in Wallet,
         NEW did \in Identity, NEW role \in Role,
         AccessCall(caller, w, did, role)
  PROVE  AccessChanged
<1> USE DEF AccessTypeOK
<1>1. CASE CreateIdentity(caller, w, did)
  <2>1. status[w] = "NONE" /\ status'[w] = "PENDING"
    BY <1>1 DEF CreateIdentity, Register
  <2> QED BY <2>1 DEF AccessChanged, identityVars
<1>2. CASE ActivateWallet(caller, w)
  <2>1. status[w] = "PENDING" /\ status'[w] = "ACTIVE"
    BY <1>2 DEF ActivateWallet
  <2> QED BY <2>1 DEF AccessChanged, identityVars
<1>3. CASE RevokeWallet(caller, w)
  <2>1. status[w] # "REVOKED" /\ status'[w] = "REVOKED"
    BY <1>3 DEF RevokeWallet
  <2> QED BY <2>1 DEF AccessChanged, identityVars
<1>4. CASE AssignRole(caller, w, role)
  <2>1. /\ IdentityOf(w) \in Identity
        /\ role \notin roles[IdentityOf(w)]
        /\ role \in roles'[IdentityOf(w)]
    BY <1>4 DEF AssignRole, IdentityOf
  <2> QED BY <2>1 DEF AccessChanged, roleVars
<1>5. CASE RevokeRole(caller, w, role)
  <2>1. /\ IdentityOf(w) \in Identity
        /\ role \in roles[IdentityOf(w)]
        /\ role \notin roles'[IdentityOf(w)]
    BY <1>5 DEF RevokeRole, IdentityOf
  <2> QED BY <2>1 DEF AccessChanged, roleVars
<1> QED BY <1>1, <1>2, <1>3, <1>4, <1>5 DEF AccessCall

\* A step of Next is a call, an administrator's own record, or a wire().
LEMMA NextCases ==
  ASSUME Next
  PROVE  \/ \E caller, w \in Wallet, did \in Identity, role \in Role :
              AccessCall(caller, w, did, role)
         \/ \E caller, w \in Wallet :
              RecordAudit(caller, "WALLET", w, "WALLET_REVOKE")
         \/ \E registry \in Registry : Wire(registry)
<1>1. "ADMIN" \in Role /\ BootstrapDid \in Identity
  BY BootstrapAssumption DEF Role
<1> QED BY <1>1, AssignableAssumption DEF Next, AccessNext, AccessCall, Registry

\* The access transactions write nothing to the log but audit records, also
\* where the other registries keep theirs in the same log.
LEMMA AccessLogStep ==
  ASSUME AccessTypeOK, NEW E, AuditRecord \subseteq E, log \in Seq(E), AccessNext
  PROVE  log' \in Seq(E)
<1>1. ASSUME NEW caller \in Wallet, NEW w \in Wallet, NEW did \in Identity,
             NEW role \in Role, AccessCall(caller, w, did, role)
      PROVE  log' \in Seq(E)
  BY <1>1, CallRecorded
<1>2. ASSUME NEW caller \in Wallet, NEW w \in Wallet,
             RecordAudit(caller, "WALLET", w, "WALLET_REVOKE")
      PROVE  log' \in Seq(E)
  <2>1. [entityType |-> "WALLET", entityId |-> w, action |-> "WALLET_REVOKE",
         actor |-> caller, recorder |-> caller] \in AuditRecord
    BY DEF AuditRecord
  <2> QED BY <1>2, <2>1 DEF RecordAudit, Record
<1> QED BY <1>1, <1>2, NextCases DEF Next, Wire

\* Every variable of the access registries, the audit log included, keeps its
\* type: no call writes a record the log cannot hold.
THEOREM TypeCorrect == Spec => []TypeOK
<1>1. Init => TypeOK
  BY AccessInvInit DEF Init, AccessInit, TypeOK, AccessInv
<1>2. AccessInv /\ TypeOK /\ [Next]_vars => TypeOK'
  <2> SUFFICES ASSUME AccessInv, TypeOK, [Next]_vars
               PROVE  log' \in Seq(AuditRecord)
    BY AccessInvStep, NextIsAccessStep DEF TypeOK, AccessInv
  <2>1. log \in Seq(AuditRecord) /\ AccessTypeOK
    BY DEF TypeOK
  <2>2. ASSUME NEW caller \in Wallet, NEW w \in Wallet, NEW did \in Identity,
               NEW role \in Role, AccessCall(caller, w, did, role)
        PROVE  log' \in Seq(AuditRecord)
    BY <2>1, <2>2, CallRecorded
  <2>3. ASSUME NEW caller \in Wallet, NEW w \in Wallet,
               RecordAudit(caller, "WALLET", w, "WALLET_REVOKE")
        PROVE  log' \in Seq(AuditRecord)
    BY <2>1, <2>3 DEF RecordAudit, Record, AuditRecord
  <2>4. CASE \E registry \in Registry : Wire(registry)
    BY <2>1, <2>4 DEF Wire
  <2>5. CASE UNCHANGED vars
    BY <2>1, <2>5 DEF vars
  <2> QED BY <2>2, <2>3, <2>4, <2>5, NextCases
<1> QED BY <1>1, <1>2, AccessInvariant, PTL DEF Spec

\* No access step takes a wallet out of its life cycle or away from its
\* identity, whatever else the system does in the same step.
LEMMA AccessKeepsWallets == AccessInv /\ AccessStep => WalletStep
<1> SUFFICES ASSUME AccessInv, AccessStep PROVE WalletStep
  OBVIOUS
<1> USE DEF AccessInv, AccessTypeOK
<1>1. ASSUME NEW caller \in Wallet, NEW w \in Wallet, NEW did \in Identity,
             NEW role \in Role, AccessCall(caller, w, did, role)
      PROVE  WalletStep
  <2>1. CASE CreateIdentity(caller, w, did)
    <3>1. identityKey[w] = NoIdentity
      BY <2>1 DEF CreateIdentity, Register, WalletLinks
    <3> QED BY <2>1, <3>1 DEF CreateIdentity, Register, WalletStep, WalletMoves
  <2>2. CASE ActivateWallet(caller, w)
    BY <2>2 DEF ActivateWallet, WalletStep, WalletMoves
  <2>3. CASE RevokeWallet(caller, w)
    BY <2>3 DEF RevokeWallet, WalletStep, WalletMoves
  <2>4. CASE AssignRole(caller, w, role) \/ RevokeRole(caller, w, role)
    BY <2>4 DEF AssignRole, RevokeRole, identityVars, WalletStep, WalletMoves
  <2> QED BY <1>1, <2>1, <2>2, <2>3, <2>4 DEF AccessCall
<1>2. CASE UNCHANGED <<status, identityKey>>
  BY <1>2 DEF WalletStep, WalletMoves
<1> QED BY <1>1, <1>2, AccessStepCases

\* The wallet life cycle, with REVOKED terminal and the identity of a wallet
\* fixed for ever.
THEOREM WalletLifecycleCorrect == Spec => WalletLifecycle
<1>1. AccessInv /\ [Next]_vars => [WalletStep]_vars
  BY AccessKeepsWallets, NextIsAccessStep
<1> QED BY <1>1, AccessInvariant, PTL DEF Spec, WalletLifecycle

\* Every change is on the record, with an authorised actor, and every record a
\* registry wrote is a change.
THEOREM ChangesAccountableCorrect == Spec => ChangesAccountable
<1>1. TypeOK /\ [Next]_vars => [AccountableStep]_vars
  <2> SUFFICES ASSUME TypeOK, Next PROVE AccountableStep
    OBVIOUS
  <2>0. AccessTypeOK /\ log \in Seq(AuditRecord)
    BY DEF TypeOK
  <2>1. ASSUME NEW caller \in Wallet, NEW w \in Wallet, NEW did \in Identity,
               NEW role \in Role, AccessCall(caller, w, did, role)
        PROVE  AccountableStep
    <3>1. AccessChanged
      BY <2>0, <2>1, CallChanges
    <3>2. PICK r \in AuditRecord :
            /\ log' = Append(log, r)
            /\ r.actor = caller
            /\ r.recorder \in wired
            /\ status[caller] = "ACTIVE"
            /\ RolesOf(caller) \cap PermittedRoles[r.action] # {}
      BY <2>0, <2>1, CallRecorded
    <3>3. /\ Len(log') = Len(log) + 1
          /\ log'[Len(log) + 1] = r
          /\ \A i \in 1..Len(log) : log'[i] = log[i]
          /\ log' # log
      BY <2>0, <3>2
    <3> QED BY <3>1, <3>2, <3>3 DEF AccountableStep
  <2>2. ASSUME NEW caller \in Wallet, NEW w \in Wallet,
               RecordAudit(caller, "WALLET", w, "WALLET_REVOKE")
        PROVE  AccountableStep
    <3> DEFINE r == [entityType |-> "WALLET", entityId |-> w,
                     action |-> "WALLET_REVOKE", actor |-> caller,
                     recorder |-> caller]
    <3>1. /\ log' = Append(log, r)
          /\ status[caller] = "ACTIVE"
          /\ "ADMIN" \in RolesOf(caller)
      BY <2>2 DEF RecordAudit, Record, IsActiveWallet
    <3>2. ~AccessChanged
      BY <2>2 DEF RecordAudit, AccessChanged, accessVars, identityVars, roleVars
    <3>3. /\ Len(log') = Len(log) + 1
          /\ log'[Len(log) + 1] = r
          /\ \A i \in 1..Len(log) : log'[i] = log[i]
      <4>1. r \in AuditRecord
        BY DEF AuditRecord
      <4> QED BY <2>0, <3>1, <4>1
    <3>4. "ADMIN" \in PermittedRoles[r.action] /\ r.recorder \notin Registry
      BY RegistriesAreContracts DEF PermittedRoles
    <3> QED BY <3>1, <3>2, <3>3, <3>4 DEF AccountableStep
  <2>3. ASSUME NEW registry \in Registry, Wire(registry)
        PROVE  AccountableStep
    BY <2>3 DEF Wire, AccountableStep, AccessChanged, identityVars, roleVars
  <2> QED BY <2>1, <2>2, <2>3, NextCases
<1> QED BY <1>1, TypeCorrect, PTL DEF Spec, ChangesAccountable

-----------------------------------------------------------------------------
(* Tokens.                                                                 *)

\* The inductive invariant of the token state, apart from the access state.
TokenInv ==
    /\ AssetTypeOK
    /\ HierarchyAcyclic
    /\ ComponentListsExact
    /\ AssetIdsUnique

-----------------------------------------------------------------------------
(* The hierarchy.                                                          *)

\* The loop of attachComponent misses no ancestor: the set it visits holds
\* the parent of everything in it, and the parent it starts from.
LEMMA AncestorsClosed ==
  ASSUME AssetTypeOK, NEW p \in Nft
  PROVE  /\ Ancestors(p) \subseteq Nft
         /\ parent[p] # 0 => parent[p] \in Ancestors(p)
         /\ \A m \in Ancestors(p) : parent[m] # 0 => parent[m] \in Ancestors(p)
<1>0. parent \in [Nft -> Nft \cup {0}]
  BY DEF AssetTypeOK
<1>1. Ancestors(p) \subseteq Nft
  BY DEF Ancestors
<1>2. ASSUME parent[p] # 0 PROVE parent[p] \in Ancestors(p)
  BY <1>0, <1>2 DEF Ancestors
<1>3. ASSUME NEW m \in Ancestors(p), parent[m] # 0
      PROVE  parent[m] \in Ancestors(p)
  <2>1. m \in Nft /\ parent[m] \in Nft
    BY <1>0, <1>1, <1>3
  <2>2. ASSUME NEW S \in SUBSET Nft, ClosedUpwards(S),
               parent[p] # 0 => parent[p] \in S
        PROVE  parent[m] \in S
    <3>1. m \in S
      BY <1>3, <2>2 DEF Ancestors
    <3> QED BY <1>3, <2>2, <3>1 DEF ClosedUpwards
  <2> QED BY <2>1, <2>2 DEF Ancestors
<1> QED BY <1>1, <1>2, <1>3

\* Attaching a loose token below one that does not descend from it closes no
\* cycle: a cycle would meet the chain above the new parent, which had none.
LEMMA AttachKeepsForest ==
  ASSUME AssetTypeOK, HierarchyAcyclic, NEW p \in Nft, NEW c \in Nft, p # c,
         c \notin Ancestors(p), parent' = [parent EXCEPT ![c] = p]
  PROVE  HierarchyAcyclic'
<1>0. parent \in [Nft -> Nft \cup {0}]
  BY DEF AssetTypeOK
<1> SUFFICES ASSUME NEW S \in SUBSET Nft, S # {},
                    \A n \in S : parent'[n] \in S
             PROVE  FALSE
  BY DEF HierarchyAcyclic
<1>1. CASE c \notin S
  <2>1. \A n \in S : parent'[n] = parent[n]
    BY <1>0, <1>1
  <2> QED BY <2>1 DEF HierarchyAcyclic
<1>2. CASE c \in S
  <2> DEFINE T == S \cap (Ancestors(p) \cup {p})
  <2>1. p \in T
    BY <1>0, <1>2
  <2>2. 0 \notin S
    BY DEF Nft
  <2>3. ASSUME NEW n \in T PROVE parent[n] \in T
    <3>1. n # c /\ n \in Nft /\ n \in S
      OBVIOUS
    <3>2. parent[n] = parent'[n] /\ parent[n] \in S
      BY <1>0, <3>1
    <3>3. parent[n] # 0
      BY <2>2, <3>2
    <3>4. parent[n] \in Ancestors(p)
      BY <3>3, AncestorsClosed
    <3> QED BY <3>2, <3>4
  <2>4. T \in SUBSET Nft
    OBVIOUS
  <2> HIDE DEF T
  <2> QED BY <2>1, <2>3, <2>4 DEF HierarchyAcyclic
<1> QED BY <1>1, <1>2

\* Detaching a token cannot close a cycle.
LEMMA DetachKeepsForest ==
  ASSUME AssetTypeOK, HierarchyAcyclic, NEW c \in Nft,
         parent' = [parent EXCEPT ![c] = 0]
  PROVE  HierarchyAcyclic'
<1>0. parent \in [Nft -> Nft \cup {0}] /\ 0 \notin Nft
  BY DEF AssetTypeOK, Nft
<1> SUFFICES ASSUME NEW S \in SUBSET Nft, S # {},
                    \A n \in S : parent'[n] \in S
             PROVE  FALSE
  BY DEF HierarchyAcyclic
<1>1. c \notin S
  BY <1>0
<1>2. \A n \in S : parent'[n] = parent[n]
  BY <1>0, <1>1
<1> QED BY <1>2 DEF HierarchyAcyclic

\* The new component goes to the end of its parent's list.
LEMMA AttachKeepsLists ==
  ASSUME AssetTypeOK, ComponentListsExact, NEW p \in Nft, NEW c \in Nft,
         parent[c] = 0,
         parent' = [parent EXCEPT ![c] = p],
         components' = [components EXCEPT ![p] = Append(@, c)],
         componentIndex' = [componentIndex EXCEPT ![c] = Len(components[p]) + 1]
  PROVE  ComponentListsExact'
<1>0. /\ parent \in [Nft -> Nft \cup {0}] /\ 0 \notin Nft
      /\ components \in [Nft -> Seq(Nft)]
      /\ componentIndex \in [Nft -> Nat]
  BY DEF AssetTypeOK, Nft
<1> SUFFICES ASSUME NEW q \in Nft
             PROVE  /\ \A x \in Nft : parent'[x] = q =>
                          /\ componentIndex'[x] \in 1..Len(components'[q])
                          /\ components'[q][componentIndex'[x]] = x
                    /\ \A i \in 1..Len(components'[q]) :
                          /\ parent'[components'[q][i]] = q
                          /\ componentIndex'[components'[q][i]] = i
  BY DEF ComponentListsExact
<1> DEFINE L == components[q]
<1>1. /\ L \in Seq(Nft)
      /\ \A x \in Nft : parent[x] = q => componentIndex[x] \in 1..Len(L) /\ L[componentIndex[x]] = x
      /\ \A i \in 1..Len(L) : L[i] \in Nft /\ parent[L[i]] = q /\ componentIndex[L[i]] = i
  BY <1>0 DEF ComponentListsExact
<1>2. \A i \in 1..Len(L) : L[i] # c
  BY <1>0, <1>1
<1>3. CASE q # p
  <2>1. components'[q] = L
    BY <1>0, <1>3
  <2>2. \A x \in Nft : parent'[x] = q => x # c /\ parent[x] = q
    BY <1>0, <1>3
  <2>3. \A x \in Nft : x # c => componentIndex'[x] = componentIndex[x] /\ parent'[x] = parent[x]
    BY <1>0
  <2> HIDE DEF L
  <2> QED BY <1>1, <1>2, <2>1, <2>2, <2>3
<1>4. CASE q = p
  <2>1. components'[q] = Append(L, c)
    BY <1>0, <1>4
  <2>2. /\ Len(components'[q]) = Len(L) + 1 /\ Len(L) \in Nat
        /\ components'[q][Len(L) + 1] = c
        /\ \A i \in 1..Len(L) : components'[q][i] = L[i]
    BY <1>1, <2>1
  <2>3. \A x \in Nft : x # c => componentIndex'[x] = componentIndex[x] /\ parent'[x] = parent[x]
    BY <1>0
  <2>4. parent'[c] = q /\ componentIndex'[c] = Len(L) + 1
    BY <1>0, <1>4
  <2> HIDE DEF L
  <2>5. ASSUME NEW x \in Nft, parent'[x] = q
        PROVE  /\ componentIndex'[x] \in 1..Len(components'[q])
               /\ components'[q][componentIndex'[x]] = x
    <3>1. CASE x = c
      BY <2>2, <2>4, <3>1
    <3>2. CASE x # c
      BY <1>1, <2>2, <2>3, <2>5, <3>2
    <3> QED BY <3>1, <3>2
  <2>6. ASSUME NEW i \in 1..Len(components'[q])
        PROVE  /\ parent'[components'[q][i]] = q
               /\ componentIndex'[components'[q][i]] = i
    <3>1. CASE i = Len(L) + 1
      BY <2>2, <2>4, <3>1
    <3>2. CASE i # Len(L) + 1
      <4>1. i \in 1..Len(L)
        BY <2>2, <3>2
      <4> QED BY <1>1, <1>2, <2>2, <2>3, <4>1
    <3> QED BY <3>1, <3>2
  <2> QED BY <2>5, <2>6
<1> QED BY <1>3, <1>4

\* Swap-and-pop: the list shrinks by one, the last element takes the freed
\* place, and the result is again a sequence of tokens.
LEMMA SwapAndPopIsSeq ==
  ASSUME NEW list \in Seq(Nft), NEW idx \in 1..Len(list)
  PROVE  /\ SwapAndPop(list, idx) \in Seq(Nft)
         /\ Len(SwapAndPop(list, idx)) = Len(list) - 1
         /\ \A i \in 1..(Len(list) - 1) :
               SwapAndPop(list, idx)[i] =
                  IF i = idx THEN list[Len(list)] ELSE list[i]
<1>1. Len(list) \in Nat /\ Len(list) - 1 \in Nat
  OBVIOUS
<1>2. \A i \in 1..Len(list) : list[i] \in Nft
  OBVIOUS
<1>3. \A i \in 1..(Len(list) - 1) :
        (IF i = idx THEN list[Len(list)] ELSE list[i]) \in Nft
  BY <1>1, <1>2
<1>4. SwapAndPop(list, idx) \in Seq(Nft)
  BY <1>1, <1>3, IsASeq DEF SwapAndPop
<1>5. DOMAIN SwapAndPop(list, idx) = 1..(Len(list) - 1)
  BY DEF SwapAndPop
<1>6. Len(SwapAndPop(list, idx)) = Len(list) - 1
  BY <1>1, <1>4, <1>5, LenProperties
<1> QED BY <1>4, <1>6 DEF SwapAndPop

\* removeComponent keeps index, list and parent in agreement, also when the
\* removed component is the last of the list.
LEMMA RemoveKeepsLists ==
  ASSUME AssetTypeOK, ComponentListsExact, NEW p \in Nft, NEW c \in Nft,
         parent[c] = p,
         parent' = [parent EXCEPT ![c] = 0],
         components' = [components EXCEPT ![p] = SwapAndPop(@, componentIndex[c])],
         componentIndex' = ReindexAfterRemoval(p, c)
  PROVE  /\ ComponentListsExact'
         /\ components' \in [Nft -> Seq(Nft)]
         /\ componentIndex' \in [Nft -> Nat]
<1>0. /\ parent \in [Nft -> Nft \cup {0}] /\ 0 \notin Nft
      /\ components \in [Nft -> Seq(Nft)]
      /\ componentIndex \in [Nft -> Nat]
  BY DEF AssetTypeOK, Nft
<1> DEFINE L == components[p]
           k == componentIndex[c]
           last == L[Len(L)]
           M == SwapAndPop(L, k)
<1>1. /\ L \in Seq(Nft) /\ Len(L) \in Nat
      /\ \A x \in Nft : parent[x] = p => componentIndex[x] \in 1..Len(L) /\ L[componentIndex[x]] = x
      /\ \A i \in 1..Len(L) : L[i] \in Nft /\ parent[L[i]] = p /\ componentIndex[L[i]] = i
  BY <1>0 DEF ComponentListsExact
<1>2. k \in 1..Len(L) /\ L[k] = c
  BY <1>1
<1>3. last \in Nft /\ parent[last] = p /\ componentIndex[last] = Len(L)
  BY <1>1, <1>2
<1>4. /\ M \in Seq(Nft) /\ Len(M) = Len(L) - 1
      /\ \A i \in 1..(Len(L) - 1) : M[i] = IF i = k THEN last ELSE L[i]
  BY <1>1, <1>2, SwapAndPopIsSeq
<1>5. /\ components'[p] = M
      /\ \A q \in Nft : q # p => components'[q] = components[q]
      /\ components' \in [Nft -> Seq(Nft)]
  BY <1>0, <1>4
<1>6. /\ componentIndex' \in [Nft -> Nat]
      /\ componentIndex'[c] = 0
      /\ last # c => componentIndex'[last] = k
      /\ \A x \in Nft : x # c /\ x # last => componentIndex'[x] = componentIndex[x]
  BY <1>0, <1>2, <1>3 DEF ReindexAfterRemoval
<1>7. parent'[c] = 0 /\ \A x \in Nft : x # c => parent'[x] = parent[x]
  BY <1>0
<1> SUFFICES ASSUME NEW q \in Nft
             PROVE  /\ \A x \in Nft : parent'[x] = q =>
                          /\ componentIndex'[x] \in 1..Len(components'[q])
                          /\ components'[q][componentIndex'[x]] = x
                    /\ \A i \in 1..Len(components'[q]) :
                          /\ parent'[components'[q][i]] = q
                          /\ componentIndex'[components'[q][i]] = i
  BY <1>5, <1>6 DEF ComponentListsExact
<1> HIDE DEF L, k, last, M
<1>8. CASE q # p
  <2> DEFINE K == components[q]
  <2>1. /\ K \in Seq(Nft)
        /\ \A x \in Nft : parent[x] = q => componentIndex[x] \in 1..Len(K) /\ K[componentIndex[x]] = x
        /\ \A i \in 1..Len(K) : K[i] \in Nft /\ parent[K[i]] = q /\ componentIndex[K[i]] = i
    <3>1. K \in Seq(Nft)
      BY <1>0
    <3>2. \A i \in 1..Len(K) : K[i] \in Nft
      BY <3>1
    <3> QED BY <3>1, <3>2 DEF ComponentListsExact
  <2>2. \A x \in Nft : parent[x] = q => x # c /\ x # last
    BY <1>3, <1>8
  <2>3. \A x \in Nft : parent'[x] = q => parent[x] = q
    BY <1>0, <1>7
  <2>4. components'[q] = K
    BY <1>5, <1>8
  <2> HIDE DEF K
  <2> QED BY <1>6, <1>7, <2>1, <2>2, <2>3, <2>4
<1>9. CASE q = p
  <2>1. ASSUME NEW x \in Nft, parent'[x] = p
        PROVE  componentIndex'[x] \in 1..Len(M) /\ M[componentIndex'[x]] = x
    <3>1. x # c /\ parent[x] = p
      BY <1>0, <1>7, <2>1
    <3>2. componentIndex[x] \in 1..Len(L) /\ L[componentIndex[x]] = x
      BY <1>1, <3>1
    <3>3. CASE x = last
      <4>1. k # Len(L)
        BY <1>2, <1>3, <3>1, <3>2, <3>3
      <4>2. k \in 1..(Len(L) - 1)
        BY <1>1, <1>2, <4>1
      <4> QED BY <1>4, <1>6, <3>1, <3>3, <4>2
    <3>4. CASE x # last
      <4>1. componentIndex[x] # Len(L)
        BY <3>2, <3>4 DEF last
      <4>2. componentIndex[x] # k
        BY <1>2, <3>1, <3>2
      <4>3. componentIndex[x] \in 1..(Len(L) - 1)
        BY <1>1, <3>2, <4>1
      <4> QED BY <1>4, <1>6, <3>1, <3>2, <3>4, <4>2, <4>3
    <3> QED BY <3>3, <3>4
  <2>2. ASSUME NEW i \in 1..Len(M)
        PROVE  parent'[M[i]] = p /\ componentIndex'[M[i]] = i
    <3>1. i \in 1..(Len(L) - 1) /\ i \in 1..Len(L) /\ i # Len(L)
      BY <1>1, <1>4
    <3>2. CASE i = k
      <4>1. M[i] = last
        BY <1>4, <3>1, <3>2
      <4>2. last # c
        BY <1>3, <3>1, <3>2 DEF k
      <4> QED BY <1>3, <1>6, <1>7, <3>2, <4>1, <4>2
    <3>3. CASE i # k
      <4>1. M[i] = L[i]
        BY <1>4, <3>1, <3>3
      <4>2. L[i] \in Nft /\ parent[L[i]] = p /\ componentIndex[L[i]] = i
        BY <1>1, <3>1
      <4>3. L[i] # c /\ L[i] # last
        BY <1>3, <3>1, <3>3, <4>2 DEF k
      <4> QED BY <1>6, <1>7, <4>1, <4>2, <4>3
    <3> QED BY <3>2, <3>3
  <2> QED BY <1>5, <1>9, <2>1, <2>2
<1> QED BY <1>8, <1>9

-----------------------------------------------------------------------------
(* The token invariant, action by action.                                  *)

\* Minting takes the next token id for an asset id that has none.
LEMMA MintKeepsTokens ==
  ASSUME TokenInv, NEW caller \in Wallet, NEW assetId \in AssetId,
         NEW to \in Wallet, MintAsset(caller, assetId, to)
  PROVE  TokenInv'
<1>1. AssetTypeOK /\ HierarchyAcyclic /\ ComponentListsExact /\ AssetIdsUnique
  BY DEF TokenInv
<1>2. /\ idByAssetId[assetId] = 0 /\ nextId \in Nft
      /\ nextId' = nextId + 1
      /\ idByAssetId' = [idByAssetId EXCEPT ![assetId] = nextId]
      /\ assetIdOf' = [assetIdOf EXCEPT ![nextId] = assetId]
      /\ assetState' = [assetState EXCEPT ![nextId] = "ACTIVE"]
      /\ custodian' = [custodian EXCEPT ![nextId] = to]
      /\ owner' = [owner EXCEPT ![nextId] = to]
      /\ UNCHANGED <<parent, components, componentIndex, grants, now>>
  BY DEF MintAsset, hierarchyVars
<1>3. AssetTypeOK'
  <2>1. nextId' \in 1..(MaxNft + 1)
    BY <1>2, AssetAssumption DEF Nft
  <2>2. /\ idByAssetId' \in [AssetId -> Nft \cup {0}]
        /\ assetIdOf' \in [Nft -> AssetId \cup {NoAssetId}]
    BY <1>1, <1>2 DEF AssetTypeOK
  <2>3. assetState' \in [Nft -> AssetState]
    BY <1>1, <1>2 DEF AssetTypeOK, AssetState
  <2>4. /\ custodian' \in [Nft -> Wallet \cup {NoWallet}]
        /\ owner' \in [Nft -> Wallet \cup {NoWallet}]
    BY <1>1, <1>2 DEF AssetTypeOK
  <2> QED BY <1>1, <1>2, <2>1, <2>2, <2>3, <2>4 DEF AssetTypeOK
<1>4. HierarchyAcyclic' /\ ComponentListsExact'
  BY <1>1, <1>2 DEF HierarchyAcyclic, ComponentListsExact
<1>5. AssetIdsUnique'
  <2> USE AssetAssumption DEF AssetTypeOK, Exists, Nft
  <2>0. 0 \notin Nft /\ ~Exists(nextId) /\ NoAssetId \notin AssetId
    BY <1>1, <1>2 DEF AssetIdsUnique
  <2>1. \A n \in Nft : Exists(n)' <=> n < nextId'
    BY <1>1, <1>2 DEF AssetIdsUnique
  <2>2. ASSUME NEW n \in Nft, Exists(n)'
        PROVE  assetIdOf'[n] \in AssetId /\ idByAssetId'[assetIdOf'[n]] = n
    <3>1. CASE n = nextId
      BY <1>1, <1>2, <3>1
    <3>2. CASE n # nextId
      <4>1. Exists(n) /\ assetIdOf'[n] = assetIdOf[n]
        BY <1>1, <1>2, <2>2, <3>2
      <4>2. assetIdOf[n] \in AssetId /\ idByAssetId[assetIdOf[n]] = n
        BY <1>1, <4>1 DEF AssetIdsUnique
      <4>3. assetIdOf[n] # assetId
        BY <1>2, <2>0, <4>2
      <4> QED BY <1>1, <1>2, <4>1, <4>2, <4>3
    <3> QED BY <3>1, <3>2
  <2>3. ASSUME NEW a \in AssetId, idByAssetId'[a] # 0
        PROVE  Exists(idByAssetId[a])' /\ assetIdOf'[idByAssetId'[a]] = a
    <3>1. CASE a = assetId
      BY <1>1, <1>2, <3>1
    <3>2. CASE a # assetId
      <4>1. idByAssetId'[a] = idByAssetId[a] /\ idByAssetId[a] \in Nft
        BY <1>1, <1>2, <2>3, <3>2
      <4>2. Exists(idByAssetId[a]) /\ assetIdOf[idByAssetId[a]] = a
        BY <1>1, <2>3, <4>1 DEF AssetIdsUnique
      <4>3. idByAssetId[a] # nextId
        BY <2>0, <4>2
      <4> QED BY <1>1, <1>2, <4>1, <4>2, <4>3
    <3> QED BY <3>1, <3>2
  <2> QED BY <2>1, <2>2, <2>3 DEF AssetIdsUnique
<1> QED BY <1>3, <1>4, <1>5 DEF TokenInv

\* The other transactions.
LEMMA TokenStep ==
  ASSUME TokenInv, [AssetNext]_allAssetVars
  PROVE  TokenInv'
<1>0. AssetTypeOK /\ HierarchyAcyclic /\ ComponentListsExact /\ AssetIdsUnique
  BY DEF TokenInv
<1>1. ASSUME NEW caller \in Wallet, AssetTransaction(caller)
      PROVE  TokenInv'
  <2>1. ASSUME NEW n \in Nft, NEW to \in Wallet, TransferAsset(caller, n, to)
        PROVE  TokenInv'
    <3>1. /\ owner' = [owner EXCEPT ![n] = to]
          /\ custodian' = [custodian EXCEPT ![n] = to]
          /\ UNCHANGED <<nextId, idByAssetId, assetIdOf, assetState, parent,
                         components, componentIndex, grants, now>>
      BY <2>1 DEF TransferAsset, tokenVars, hierarchyVars
    <3>2. AssetTypeOK'
      BY <1>0, <3>1 DEF AssetTypeOK
    <3> QED BY <1>0, <3>1, <3>2 DEF TokenInv, HierarchyAcyclic,
          ComponentListsExact, AssetIdsUnique, Exists
  <2>2. ASSUME NEW n \in Nft, NEW w \in GrantActor, NEW expiresAt \in GrantExpiry,
               NEW active \in BOOLEAN, NEW grantId \in GrantId,
               SetTransferGrant(caller, n, w, expiresAt, active, grantId)
        PROVE  TokenInv'
    <3>1. /\ grants' = [grants EXCEPT ![n][w] =
                          [expiresAt |-> expiresAt, active |-> active]]
          /\ UNCHANGED <<nextId, idByAssetId, assetIdOf, assetState, owner,
                         custodian, parent, components, componentIndex, now>>
      BY <2>2 DEF SetTransferGrant, tokenVars, ownerVars, hierarchyVars
    <3>2. [expiresAt |-> expiresAt, active |-> active] \in
             [expiresAt : Nat, active : BOOLEAN]
      BY AssetAssumption
    <3>3. grants' \in [Nft -> [Wallet -> [expiresAt : Nat, active : BOOLEAN]]]
      BY <1>0, <3>1, <3>2, AssetAssumption DEF AssetTypeOK
    <3>4. AssetTypeOK'
      BY <1>0, <3>1, <3>3 DEF AssetTypeOK
    <3> QED BY <1>0, <3>1, <3>4 DEF TokenInv, HierarchyAcyclic,
          ComponentListsExact, AssetIdsUnique, Exists
  <2>3. ASSUME NEW n \in Nft, NEW to \in AssetState \ {"NONE"},
               ChangeAssetState(caller, n, to)
        PROVE  TokenInv'
    <3>1. /\ assetState[n] # "NONE"
          /\ assetState' = [assetState EXCEPT ![n] = to]
          /\ UNCHANGED <<nextId, idByAssetId, assetIdOf, owner, custodian,
                         parent, components, componentIndex, grants, now>>
      BY <2>3 DEF ChangeAssetState, Exists, tokenVars, ownerVars, hierarchyVars
    <3>2. AssetTypeOK'
      BY <1>0, <3>1 DEF AssetTypeOK
    <3>3. \A m \in Nft : Exists(m)' <=> Exists(m)
      BY <1>0, <3>1 DEF AssetTypeOK, Exists
    <3>4. AssetIdsUnique'
      BY <1>0, <3>1, <3>3 DEF AssetIdsUnique, AssetTypeOK
    <3> QED BY <1>0, <3>1, <3>2, <3>4 DEF TokenInv, HierarchyAcyclic,
          ComponentListsExact
  <2>4. ASSUME NEW n \in Nft, NEW c \in Nft, AttachComponent(caller, n, c)
        PROVE  TokenInv'
    <3>1. /\ n # c /\ parent[c] = 0 /\ c \notin Ancestors(n)
          /\ parent' = [parent EXCEPT ![c] = n]
          /\ components' = [components EXCEPT ![n] = Append(@, c)]
          /\ componentIndex' = [componentIndex EXCEPT ![c] = Len(components[n]) + 1]
          /\ UNCHANGED <<nextId, idByAssetId, assetIdOf, assetState, owner,
                         custodian, grants, now>>
      BY <2>4 DEF AttachComponent, tokenVars, ownerVars
    <3>2. HierarchyAcyclic'
      BY <1>0, <3>1, AttachKeepsForest
    <3>3. ComponentListsExact'
      BY <1>0, <3>1, AttachKeepsLists
    <3>4. AssetTypeOK'
      <4>1. components[n] \in Seq(Nft) /\ Len(components[n]) + 1 \in Nat
        BY <1>0 DEF AssetTypeOK
      <4>2. components' \in [Nft -> Seq(Nft)]
        BY <1>0, <3>1, <4>1 DEF AssetTypeOK
      <4>3. componentIndex' \in [Nft -> Nat] /\ parent' \in [Nft -> Nft \cup {0}]
        BY <1>0, <3>1, <4>1 DEF AssetTypeOK
      <4> QED BY <1>0, <3>1, <4>2, <4>3 DEF AssetTypeOK
    <3> QED BY <1>0, <3>1, <3>2, <3>3, <3>4 DEF TokenInv, AssetIdsUnique, Exists
  <2>5. ASSUME NEW n \in Nft, NEW c \in Nft, RemoveComponent(caller, n, c)
        PROVE  TokenInv'
    <3>1. /\ parent[c] = n
          /\ parent' = [parent EXCEPT ![c] = 0]
          /\ components' = [components EXCEPT ![n] = SwapAndPop(@, componentIndex[c])]
          /\ componentIndex' = ReindexAfterRemoval(n, c)
          /\ UNCHANGED <<nextId, idByAssetId, assetIdOf, assetState, owner,
                         custodian, grants, now>>
      BY <2>5 DEF RemoveComponent, tokenVars, ownerVars
    <3>2. HierarchyAcyclic'
      BY <1>0, <3>1, DetachKeepsForest
    <3>3. /\ ComponentListsExact'
          /\ components' \in [Nft -> Seq(Nft)]
          /\ componentIndex' \in [Nft -> Nat]
      BY <1>0, <3>1, RemoveKeepsLists
    <3>4. AssetTypeOK'
      BY <1>0, <3>1, <3>3 DEF AssetTypeOK
    <3> QED BY <1>0, <3>1, <3>2, <3>3, <3>4 DEF TokenInv, AssetIdsUnique, Exists
  <2> QED BY <1>1, <2>1, <2>2, <2>3, <2>4, <2>5, MintKeepsTokens DEF AssetTransaction
<1>2. CASE UNCHANGED assetVars
  <2>1. UNCHANGED <<nextId, idByAssetId, assetIdOf, assetState, owner, custodian,
                    parent, components, componentIndex, grants, now>>
    BY <1>2 DEF assetVars, tokenVars, ownerVars, hierarchyVars
  <2>2. AssetTypeOK'
    BY <1>0, <2>1 DEF AssetTypeOK
  <2>3. HierarchyAcyclic'
    BY <1>0, <2>1 DEF HierarchyAcyclic
  <2>4. ComponentListsExact'
    BY <1>0, <2>1 DEF ComponentListsExact
  <2> QED BY <1>0, <2>1, <2>2, <2>3, <2>4 DEF TokenInv, AssetIdsUnique, Exists
<1>3. CASE Tick
  <2>1. /\ now' = now + 1
        /\ UNCHANGED <<nextId, idByAssetId, assetIdOf, assetState, owner, custodian,
                       parent, components, componentIndex, grants>>
    BY <1>3 DEF Tick, tokenVars, ownerVars, hierarchyVars
  <2>2. AssetTypeOK'
    BY <1>0, <2>1 DEF AssetTypeOK
  <2>3. HierarchyAcyclic'
    BY <1>0, <2>1 DEF HierarchyAcyclic
  <2>4. ComponentListsExact'
    BY <1>0, <2>1 DEF ComponentListsExact
  <2> QED BY <1>0, <2>1, <2>2, <2>3, <2>4 DEF TokenInv, AssetIdsUnique, Exists
<1> QED BY <1>1, <1>2, <1>3 DEF AssetNext, allAssetVars

LEMMA TokenInvInit == AssetInit => TokenInv
<1> SUFFICES ASSUME AssetInit PROVE TokenInv
  OBVIOUS
<1> USE AssetAssumption DEF AssetInit
<1>1. AssetTypeOK
  <2>1. NoGrant \in [expiresAt : Nat, active : BOOLEAN]
    BY DEF NoGrant
  <2>2. grants \in [Nft -> [Wallet -> [expiresAt : Nat, active : BOOLEAN]]]
    BY <2>1
  <2>3. nextId \in 1..(MaxNft + 1)
    OBVIOUS
  <2>4. <<>> \in Seq(Nft)
    OBVIOUS
  <2>5. components \in [Nft -> Seq(Nft)]
    BY <2>4
  <2>6. /\ idByAssetId \in [AssetId -> Nft \cup {0}]
        /\ assetIdOf \in [Nft -> AssetId \cup {NoAssetId}]
        /\ assetState \in [Nft -> AssetState]
    BY DEF AssetState
  <2>7. /\ custodian \in [Nft -> Wallet \cup {NoWallet}]
        /\ owner \in [Nft -> Wallet \cup {NoWallet}]
        /\ parent \in [Nft -> Nft \cup {0}]
        /\ componentIndex \in [Nft -> Nat]
        /\ now \in Nat
    OBVIOUS
  <2> QED BY <2>2, <2>3, <2>5, <2>6, <2>7 DEF AssetTypeOK
<1>2. HierarchyAcyclic
  <2>1. \A n \in Nft : parent[n] = 0 /\ n # 0
    BY DEF Nft
  <2> SUFFICES ASSUME NEW S \in SUBSET Nft, NEW n \in S
               PROVE  \E m \in S : parent[m] \notin S
    BY DEF HierarchyAcyclic
  <2> QED BY <2>1
<1>3. ComponentListsExact
  <2>1. \A p \in Nft : Len(components[p]) = 0 /\ p # 0
    BY DEF Nft
  <2> QED BY <2>1 DEF ComponentListsExact
<1>4. AssetIdsUnique
  BY DEF AssetIdsUnique, Exists, Nft
<1> QED BY <1>1, <1>2, <1>3, <1>4 DEF TokenInv

-----------------------------------------------------------------------------
(* Ownership, together with the access state.                              *)

\* The transactions of the asset registry leave the access state alone.
LEMMA AssetStepIsAccessStep ==
  ASSUME [AssetNext]_allAssetVars
  PROVE  AccessStep
<1>1. ASSUME NEW caller \in Wallet, AssetTransaction(caller)
      PROVE  UNCHANGED accessVars
  BY <1>1 DEF AssetTransaction, MintAsset, TransferAsset, SetTransferGrant,
     ChangeAssetState, AttachComponent, RemoveComponent
<1>2. CASE Tick
  BY <1>2 DEF Tick, AccessStep
<1>3. CASE AccessNext
  BY <1>3 DEF AccessStep
<1>4. CASE UNCHANGED allAssetVars
  BY <1>4 DEF allAssetVars, AccessStep
<1>5. CASE \E caller \in Wallet : AssetTransaction(caller)
  BY <1>1, <1>5 DEF AccessStep
<1> QED BY <1>2, <1>3, <1>4, <1>5 DEF AssetNext

AssetInv == AccessInv /\ TokenInv /\ OwnersResolvable

\* An owner was ACTIVE when it received the token, and a registered wallet
\* keeps its identity.
LEMMA OwnersStep ==
  ASSUME AssetInv, [AssetNext]_allAssetVars
  PROVE  OwnersResolvable'
<1>1. /\ AccessTypeOK /\ WalletLinks /\ AssetTypeOK /\ OwnersResolvable
      /\ WalletStep
  BY AccessKeepsWallets, AssetStepIsAccessStep DEF AssetInv, AccessInv, TokenInv
<1>2. \A w \in Wallet : IdentityOf(w) \in Identity => IdentityOf(w)' = IdentityOf(w)
  BY <1>1, BootstrapAssumption DEF WalletStep, IdentityOf
<1>3. ASSUME NEW w \in Wallet, IsActiveWallet(w)
      PROVE  IdentityOf(w) \in Identity
  BY <1>1, <1>3 DEF IsActiveWallet, IdentityOf, WalletLinks, AccessTypeOK
<1>4. ASSUME NEW caller \in Wallet, NEW assetId \in AssetId, NEW to \in Wallet,
             MintAsset(caller, assetId, to)
      PROVE  OwnersResolvable'
  <2>1. /\ IsActiveWallet(to) /\ nextId \in Nft
        /\ assetState' = [assetState EXCEPT ![nextId] = "ACTIVE"]
        /\ custodian' = [custodian EXCEPT ![nextId] = to]
        /\ owner' = [owner EXCEPT ![nextId] = to]
    BY <1>4 DEF MintAsset
  <2> QED BY <1>1, <1>2, <1>3, <2>1 DEF AssetTypeOK, OwnersResolvable, Exists
<1>5. ASSUME NEW caller \in Wallet, NEW n \in Nft, NEW to \in Wallet,
             TransferAsset(caller, n, to)
      PROVE  OwnersResolvable'
  <2>1. /\ IsActiveWallet(to) /\ assetState' = assetState
        /\ custodian' = [custodian EXCEPT ![n] = to]
        /\ owner' = [owner EXCEPT ![n] = to]
    BY <1>5 DEF TransferAsset
  <2> QED BY <1>1, <1>2, <1>3, <2>1 DEF AssetTypeOK, OwnersResolvable, Exists
<1>6. ASSUME UNCHANGED <<owner, custodian>>, \A n \in Nft : Exists(n)' => Exists(n)
      PROVE  OwnersResolvable'
  BY <1>1, <1>2, <1>6 DEF OwnersResolvable
<1>7. ASSUME NEW caller \in Wallet, NEW n \in Nft, NEW to \in AssetState,
             ChangeAssetState(caller, n, to)
      PROVE  OwnersResolvable'
  <2>1. UNCHANGED <<owner, custodian>> /\ \A m \in Nft : Exists(m)' => Exists(m)
    BY <1>1, <1>7 DEF ChangeAssetState, ownerVars, Exists, AssetTypeOK
  <2> QED BY <1>6, <2>1
<1>8. CASE UNCHANGED <<owner, custodian, assetState>>
  BY <1>6, <1>8 DEF Exists
<1>9. ASSUME NEW caller \in Wallet, AssetTransaction(caller)
      PROVE  OwnersResolvable'
  <2>1. CASE \E n \in Nft : \/ \E w \in GrantActor, expiresAt \in GrantExpiry,
                                active \in BOOLEAN, grantId \in GrantId :
                                SetTransferGrant(caller, n, w, expiresAt, active, grantId)
                           \/ \E c \in Nft : \/ AttachComponent(caller, n, c)
                                             \/ RemoveComponent(caller, n, c)
    BY <1>8, <2>1 DEF SetTransferGrant, AttachComponent, RemoveComponent, ownerVars
  <2> QED BY <1>4, <1>5, <1>7, <1>9, <2>1 DEF AssetTransaction
<1>10. CASE Tick \/ UNCHANGED assetVars \/ UNCHANGED allAssetVars
  BY <1>8, <1>10 DEF Tick, allAssetVars, assetVars, ownerVars
<1> QED BY <1>9, <1>10 DEF AssetNext

LEMMA AssetInvInit == AssetInit => AssetInv
<1> SUFFICES ASSUME AssetInit PROVE AssetInv
  OBVIOUS
<1>1. AccessInv
  BY AccessInvInit DEF AssetInit
<1>2. OwnersResolvable
  BY DEF AssetInit, OwnersResolvable, Exists
<1> QED BY <1>1, <1>2, TokenInvInit DEF AssetInv

LEMMA AssetInvStep == AssetInv /\ [AssetNext]_allAssetVars => AssetInv'
<1> SUFFICES ASSUME AssetInv, [AssetNext]_allAssetVars PROVE AssetInv'
  OBVIOUS
<1>1. AccessInv /\ TokenInv
  BY DEF AssetInv
<1>2. AccessInv'
  BY <1>1, AccessInvStep, AssetStepIsAccessStep
<1>3. TokenInv'
  BY <1>1, TokenStep
<1>4. OwnersResolvable'
  BY OwnersStep
<1> QED BY <1>2, <1>3, <1>4 DEF AssetInv

\* The invariants of the asset registry hold in every reachable state, for any
\* number of tokens, wallets and identities, while the identity and role
\* registries go on changing.
THEOREM AssetInvariant == AssetSpec => []AssetInv
BY AssetInvInit, AssetInvStep, PTL DEF AssetSpec

\* No sequence of attach and remove calls closes a cycle in the hierarchy.
THEOREM HierarchyAcyclicCorrect == AssetSpec => []HierarchyAcyclic
<1>1. AssetInv => HierarchyAcyclic
  BY DEF AssetInv, TokenInv
<1> QED BY <1>1, AssetInvariant, PTL

\* Swap-and-pop keeps parents, lists and indices in agreement.
THEOREM ComponentListsCorrect == AssetSpec => []ComponentListsExact
<1>1. AssetInv => ComponentListsExact
  BY DEF AssetInv, TokenInv
<1> QED BY <1>1, AssetInvariant, PTL

\* An asset id names at most one token, for ever.
THEOREM AssetIdsCorrect == AssetSpec => []AssetIdsUnique
<1>1. AssetInv => AssetIdsUnique
  BY DEF AssetInv, TokenInv
<1> QED BY <1>1, AssetInvariant, PTL

\* Every owner resolves to an identity, also after its wallet was revoked.
THEOREM OwnersCorrect == AssetSpec => []OwnersResolvable
<1>1. AssetInv => OwnersResolvable
  BY DEF AssetInv
<1> QED BY <1>1, AssetInvariant, PTL

\* The mappings keep their types.
THEOREM AssetTypeCorrect == AssetSpec => []AssetTypeOK
<1>1. AssetInv => AssetTypeOK
  BY DEF AssetInv, TokenInv
<1> QED BY <1>1, AssetInvariant, PTL

-----------------------------------------------------------------------------
(* Transfers.                                                              *)

\* What the log holds beside the records of the access registries.
AssetAuditRecord ==
    AuditRecord \cup
    [entityType : {"ASSET", "GRANT"},
     entityId   : AssetId \cup {NoAssetId} \cup GrantId,
     action     : {"ASSET_MINT", "ASSET_TRANSFER", "GRANT_CREATE", "GRANT_REVOKE",
                   "ASSET_STATE_CHANGE", "COMPONENT_ATTACH", "COMPONENT_REMOVE"},
     actor      : Wallet,
     recorder   : {"AssetRegistry"}]

LogOK == log \in Seq(AssetAuditRecord)

\* Every transaction of the asset registry appends one well-formed record to
\* the log, whatever else the log may hold.
LEMMA AssetLogStep ==
  ASSUME AssetInv, NEW E, AssetAuditRecord \subseteq E, log \in Seq(E),
         [AssetNext]_allAssetVars
  PROVE  log' \in Seq(E)
<1>0. AssetTypeOK /\ AccessTypeOK
  BY DEF AssetInv, TokenInv, AccessInv
<1>1. ASSUME NEW caller \in Wallet, AssetTransaction(caller)
      PROVE  \E r \in AssetAuditRecord : log' = Append(log, r)
  <2> USE DEF Audit, Record, AssetAuditRecord
  <2>1. ASSUME NEW assetId \in AssetId, NEW to \in Wallet, MintAsset(caller, assetId, to)
        PROVE  \E r \in AssetAuditRecord : log' = Append(log, r)
    BY <2>1 DEF MintAsset
  <2>2. ASSUME NEW n \in Nft, NEW to \in Wallet, TransferAsset(caller, n, to)
        PROVE  \E r \in AssetAuditRecord : log' = Append(log, r)
    BY <1>0, <2>2 DEF TransferAsset, AssetTypeOK
  <2>3. ASSUME NEW n \in Nft, NEW w \in GrantActor, NEW expiresAt \in GrantExpiry,
               NEW active \in BOOLEAN, NEW grantId \in GrantId,
               SetTransferGrant(caller, n, w, expiresAt, active, grantId)
        PROVE  \E r \in AssetAuditRecord : log' = Append(log, r)
    BY <2>3 DEF SetTransferGrant
  <2>4. ASSUME NEW n \in Nft, NEW to \in AssetState \ {"NONE"},
               ChangeAssetState(caller, n, to)
        PROVE  \E r \in AssetAuditRecord : log' = Append(log, r)
    BY <1>0, <2>4 DEF ChangeAssetState, AssetTypeOK
  <2>5. ASSUME NEW n \in Nft, NEW c \in Nft,
               AttachComponent(caller, n, c) \/ RemoveComponent(caller, n, c)
        PROVE  \E r \in AssetAuditRecord : log' = Append(log, r)
    BY <1>0, <2>5 DEF AttachComponent, RemoveComponent, AssetTypeOK
  <2> QED BY <1>1, <2>1, <2>2, <2>3, <2>4, <2>5 DEF AssetTransaction
<1>2. CASE AccessNext
  <2>1. AuditRecord \subseteq E
    BY DEF AssetAuditRecord
  <2> QED BY <1>0, <1>2, <2>1, AccessLogStep
<1>3. CASE Tick \/ UNCHANGED allAssetVars
  BY <1>3 DEF Tick, allAssetVars
<1>4. CASE \E caller \in Wallet : AssetTransaction(caller)
  <2>1. PICK r \in AssetAuditRecord : log' = Append(log, r)
    BY <1>1, <1>4
  <2> QED BY <2>1
<1> QED BY <1>2, <1>3, <1>4 DEF AssetNext

\* transferAsset is the only writer of the owner of a minted token, and its
\* record names the caller that _checkTransferAccess let through.
THEOREM TransfersCorrect == AssetSpec => TransfersAuthorised
<1>1. AssetInit => LogOK
  BY DEF AssetInit, AccessInit, LogOK
<1>2. AssetInv /\ LogOK /\ [AssetNext]_allAssetVars => LogOK'
  BY AssetLogStep DEF LogOK
<1>3. ASSUME AssetInv, LogOK, [AssetNext]_allAssetVars
      PROVE  TransferStep
  <2>0. AssetTypeOK /\ AssetIdsUnique
    BY <1>3 DEF AssetInv, TokenInv
  <2> SUFFICES ASSUME NEW n \in Nft, Exists(n), owner'[n] # owner[n]
               PROVE  LET a == log'[Len(log) + 1].actor IN
                      /\ assetState[n] # "DECOMMISSIONED"
                      /\ parent[n] = 0
                      /\ status[owner'[n]] = "ACTIVE"
                      /\ status[a] = "ACTIVE"
                      /\ IF "ENGINEER" \in RolesOf(a)
                         THEN /\ grants[n][a].active
                              /\ grants[n][a].expiresAt = 0 \/ grants[n][a].expiresAt > now
                         ELSE RolesOf(a) \cap {"ADMIN", "MANAGER"} # {}
    BY DEF TransferStep
  <2>1. ASSUME NEW caller \in Wallet, NEW assetId \in AssetId, NEW to \in Wallet,
               MintAsset(caller, assetId, to)
        PROVE  FALSE
    <3>1. nextId \in Nft /\ owner' = [owner EXCEPT ![nextId] = to]
      BY <2>1 DEF MintAsset
    <3>2. n # nextId
      BY <2>0, <3>1 DEF AssetIdsUnique, Nft
    <3> QED BY <2>0, <3>1, <3>2 DEF AssetTypeOK
  <2>2. PICK caller \in Wallet, m \in Nft, to \in Wallet : TransferAsset(caller, m, to)
    BY <1>3, <2>1 DEF AssetNext, AssetTransaction, SetTransferGrant, ChangeAssetState,
       AttachComponent, RemoveComponent, Tick, allAssetVars, assetVars, ownerVars
  <2>3. m = n /\ owner'[n] = to
    BY <2>0, <2>2 DEF TransferAsset, AssetTypeOK
  <2>4. log'[Len(log) + 1].actor = caller
    <3> DEFINE r == [entityType |-> "ASSET", entityId |-> assetIdOf[n],
                     action |-> "ASSET_TRANSFER", actor |-> caller,
                     recorder |-> "AssetRegistry"]
    <3>1. log' = Append(log, r)
      BY <2>2, <2>3 DEF TransferAsset, Audit, Record
    <3>2. r.actor = caller
      OBVIOUS
    <3> HIDE DEF r
    <3>3. log'[Len(log) + 1] = r
      BY <1>3, <3>1 DEF LogOK
    <3> QED BY <3>2, <3>3
  <2>5. CheckTransferAccess(caller, n)
    BY <2>2, <2>3 DEF TransferAsset
  <2> QED BY <2>2, <2>3, <2>4, <2>5 DEF TransferAsset, IsActiveWallet,
        CheckTransferAccess, CheckRoles, HasAnyRole, HasActiveTransferGrant, TRANSFER_ASSET
<1> QED BY <1>1, <1>2, <1>3, AssetInvariant, PTL DEF AssetSpec, TransfersAuthorised

-----------------------------------------------------------------------------
(* The refinement.                                                         *)

\* Only minted tokens are attached, and only to minted tokens.
ParentsExist ==
    \A n \in Nft : parent[n] # 0 => Exists(n) /\ Exists(parent[n])

\* What a step makes of the token state, function by function; the asset ids,
\* the owners, the states and the parents are what the refinement looks at.
Minting(assetId, to) ==
    /\ idByAssetId[assetId] = 0 /\ nextId \in Nft
    /\ idByAssetId' = [idByAssetId EXCEPT ![assetId] = nextId]
    /\ assetIdOf' = [assetIdOf EXCEPT ![nextId] = assetId]
    /\ assetState' = [assetState EXCEPT ![nextId] = "ACTIVE"]
    /\ owner' = [owner EXCEPT ![nextId] = to]
    /\ UNCHANGED parent

Transferring(n, to) ==
    /\ Exists(n) /\ assetState[n] # "DECOMMISSIONED" /\ parent[n] = 0 /\ owner[n] # to
    /\ owner' = [owner EXCEPT ![n] = to]
    /\ UNCHANGED <<idByAssetId, assetIdOf, assetState, parent>>

Restating(n, to) ==
    /\ Exists(n) /\ assetState[n] \notin {to, "DECOMMISSIONED"}
    /\ assetState' = [assetState EXCEPT ![n] = to]
    /\ UNCHANGED <<idByAssetId, assetIdOf, owner, parent>>

Attaching(p, c) ==
    /\ p # c /\ Exists(p) /\ Exists(c)
    /\ assetState[p] # "DECOMMISSIONED" /\ assetState[c] # "DECOMMISSIONED"
    /\ parent[c] = 0 /\ c \notin Ancestors(p)
    /\ parent' = [parent EXCEPT ![c] = p]
    /\ UNCHANGED <<idByAssetId, assetIdOf, assetState, owner>>

Removing(p, c) ==
    /\ Exists(p) /\ Exists(c) /\ parent[c] = p
    /\ parent' = [parent EXCEPT ![c] = 0]
    /\ UNCHANGED <<idByAssetId, assetIdOf, assetState, owner>>

tokenView == <<idByAssetId, assetIdOf, assetState, owner, parent>>

\* Every step is one of these five, or invisible to the refinement.
LEMMA AssetStepCases ==
  ASSUME [AssetNext]_allAssetVars
  PROVE  \/ \E assetId \in AssetId, to \in Wallet : Minting(assetId, to)
         \/ \E n \in Nft, to \in Wallet : Transferring(n, to)
         \/ \E n \in Nft, to \in AssetState \ {"NONE"} : Restating(n, to)
         \/ \E n, c \in Nft : Attaching(n, c) \/ Removing(n, c)
         \/ UNCHANGED tokenView
<1> USE DEF tokenView, tokenVars, ownerVars, hierarchyVars
<1>1. ASSUME NEW caller \in Wallet, NEW assetId \in AssetId, NEW to \in Wallet,
             MintAsset(caller, assetId, to)
      PROVE  Minting(assetId, to)
  BY <1>1 DEF MintAsset, Minting
<1>2. ASSUME NEW caller \in Wallet, NEW n \in Nft, NEW to \in Wallet,
             TransferAsset(caller, n, to)
      PROVE  Transferring(n, to)
  BY <1>2 DEF TransferAsset, Transferring
<1>3. ASSUME NEW caller \in Wallet, NEW n \in Nft, NEW to \in AssetState,
             ChangeAssetState(caller, n, to)
      PROVE  Restating(n, to)
  BY <1>3 DEF ChangeAssetState, Restating
<1>4. ASSUME NEW caller \in Wallet, NEW n \in Nft, NEW c \in Nft,
             AttachComponent(caller, n, c) \/ RemoveComponent(caller, n, c)
      PROVE  Attaching(n, c) \/ Removing(n, c)
  BY <1>4 DEF AttachComponent, RemoveComponent, Attaching, Removing
<1>5. ASSUME NEW caller \in Wallet, NEW n \in Nft,
             \E w \in GrantActor, expiresAt \in GrantExpiry,
                active \in BOOLEAN, grantId \in GrantId :
                SetTransferGrant(caller, n, w, expiresAt, active, grantId)
      PROVE  UNCHANGED tokenView
  BY <1>5 DEF SetTransferGrant
<1>6. CASE UNCHANGED assetVars
  BY <1>6 DEF assetVars
<1>7. CASE Tick
  BY <1>7 DEF Tick
<1>8. CASE UNCHANGED allAssetVars
  BY <1>6, <1>8 DEF allAssetVars
<1>9. ASSUME NEW caller \in Wallet, AssetTransaction(caller)
      PROVE  \/ \E assetId \in AssetId, to \in Wallet : Minting(assetId, to)
             \/ \E n \in Nft, to \in Wallet : Transferring(n, to)
             \/ \E n \in Nft, to \in AssetState \ {"NONE"} : Restating(n, to)
             \/ \E n, c \in Nft : Attaching(n, c) \/ Removing(n, c)
             \/ UNCHANGED tokenView
  BY <1>1, <1>2, <1>3, <1>4, <1>5, <1>9 DEF AssetTransaction
<1> QED BY <1>6, <1>7, <1>8, <1>9 DEF AssetNext

LEMMA ParentsExistStep ==
  ASSUME TokenInv, ParentsExist, [AssetNext]_allAssetVars
  PROVE  ParentsExist'
<1>0. AssetTypeOK /\ 0 \notin Nft
  BY DEF TokenInv, Nft
<1> USE DEF AssetTypeOK, Exists
<1>1. ASSUME NEW assetId \in AssetId, NEW to \in Wallet, Minting(assetId, to)
      PROVE  ParentsExist'
  BY <1>0, <1>1 DEF Minting, ParentsExist
<1>2. ASSUME NEW n \in Nft, NEW to \in Wallet, Transferring(n, to)
      PROVE  ParentsExist'
  BY <1>0, <1>2 DEF Transferring, ParentsExist
<1>3. ASSUME NEW n \in Nft, NEW to \in AssetState \ {"NONE"}, Restating(n, to)
      PROVE  ParentsExist'
  BY <1>0, <1>3 DEF Restating, ParentsExist
<1>4. ASSUME NEW n \in Nft, NEW c \in Nft, Attaching(n, c) \/ Removing(n, c)
      PROVE  ParentsExist'
  BY <1>0, <1>4 DEF Attaching, Removing, ParentsExist
<1>5. CASE UNCHANGED tokenView
  BY <1>5 DEF tokenView, ParentsExist
<1> QED BY <1>1, <1>2, <1>3, <1>4, <1>5, AssetStepCases

\* An attached component and the token it is attached to were both minted.
THEOREM ParentsExistCorrect == AssetSpec => []ParentsExist
<1>1. AssetInit => ParentsExist
  BY DEF AssetInit, ParentsExist
<1>2. AssetInv /\ ParentsExist /\ [AssetNext]_allAssetVars => ParentsExist'
  BY ParentsExistStep DEF AssetInv
<1> QED BY <1>1, <1>2, AssetInvariant, PTL DEF AssetSpec

\* What the view of an asset is made of.
LEMMA ItemsByToken ==
  ASSUME TokenInv, ParentsExist
  PROVE  /\ DOMAIN AssetItems = AssetId
         /\ \A a \in AssetId : idByAssetId[a] = 0 =>
               AssetItems[a] = [holder |-> NoAssetId, state |-> "NONE", parent |-> NoAssetId]
         /\ \A n \in Nft : Exists(n) =>
               /\ assetIdOf[n] \in AssetId /\ idByAssetId[assetIdOf[n]] = n
               /\ AssetItems[assetIdOf[n]] = ItemOf(n)
               /\ OfAssets!Minted(assetIdOf[n])
         /\ \A n \in Nft : parent[n] = 0 => ItemOf(n).parent = NoAssetId
         /\ \A n \in Nft : parent[n] # 0 =>
               /\ parent[n] \in Nft /\ Exists(parent[n])
               /\ ItemOf(n).parent = assetIdOf[parent[n]]
<1>0. AssetTypeOK /\ AssetIdsUnique /\ 0 \notin Nft
  BY DEF TokenInv, Nft
<1>1. DOMAIN AssetItems = AssetId
  BY DEF AssetItems
<1>2. \A a \in AssetId : idByAssetId[a] = 0 =>
         AssetItems[a] = [holder |-> NoAssetId, state |-> "NONE", parent |-> NoAssetId]
  BY DEF AssetItems
<1>3. ASSUME NEW n \in Nft, Exists(n)
      PROVE  /\ assetIdOf[n] \in AssetId /\ idByAssetId[assetIdOf[n]] = n
             /\ AssetItems[assetIdOf[n]] = ItemOf(n)
             /\ OfAssets!Minted(assetIdOf[n])
  <2>1. assetIdOf[n] \in AssetId /\ idByAssetId[assetIdOf[n]] = n
    BY <1>0, <1>3 DEF AssetIdsUnique
  <2>2. AssetItems[assetIdOf[n]] = ItemOf(n)
    BY <1>0, <2>1 DEF AssetItems
  <2>3. ItemOf(n).state # "NONE"
    BY <1>3 DEF ItemOf, Exists
  <2>4. OfAssets!Minted(assetIdOf[n])
    BY <2>2, <2>3 DEF OfAssets!Minted, OfAssets!NoItem
  <2> QED BY <2>1, <2>2, <2>4
<1>4. \A n \in Nft : parent[n] = 0 => ItemOf(n).parent = NoAssetId
  BY DEF ItemOf
<1>5. \A n \in Nft : parent[n] # 0 =>
         /\ parent[n] \in Nft /\ Exists(parent[n])
         /\ ItemOf(n).parent = assetIdOf[parent[n]]
  BY <1>0 DEF ItemOf, ParentsExist, AssetTypeOK
<1> QED BY <1>1, <1>2, <1>3, <1>4, <1>5

\* The loop of attachComponent, which climbs tokens, decides whether the asset
\* of c is above the asset of p: a set of tokens that is closed upwards and
\* avoids c gives a set of asset ids that does.
LEMMA AncestorsAreAbove ==
  ASSUME TokenInv, ParentsExist, NEW p \in Nft, NEW c \in Nft,
         Exists(p), Exists(c), c \notin Ancestors(p)
  PROVE  assetIdOf[c] \notin OfAssets!Above(assetIdOf[p])
<1>1. PICK S \in SUBSET Nft : /\ ClosedUpwards(S)
                              /\ parent[p] # 0 => parent[p] \in S
                              /\ c \notin S
  BY DEF Ancestors
<1> DEFINE T == {assetIdOf[n] : n \in {m \in S : Exists(m)}}
<1>2. T \in SUBSET AssetId
  BY ItemsByToken
<1>3. ASSUME NEW a \in T, AssetItems[a].parent # NoAssetId
      PROVE  AssetItems[a].parent \in T
  <2>1. PICK n \in S : Exists(n) /\ a = assetIdOf[n]
    BY <1>3
  <2>2. n \in Nft /\ AssetItems[a] = ItemOf(n)
    BY <2>1, ItemsByToken
  <2>3. parent[n] # 0
    BY <1>3, <2>2, ItemsByToken
  <2>4. /\ parent[n] \in S /\ Exists(parent[n])
        /\ AssetItems[a].parent = assetIdOf[parent[n]]
    BY <1>1, <2>2, <2>3, ItemsByToken DEF ClosedUpwards
  <2> QED BY <2>4
<1>4. ASSUME AssetItems[assetIdOf[p]].parent # NoAssetId
      PROVE  AssetItems[assetIdOf[p]].parent \in T
  <2>1. AssetItems[assetIdOf[p]] = ItemOf(p)
    BY ItemsByToken
  <2>2. parent[p] # 0
    BY <1>4, <2>1, ItemsByToken
  <2>3. /\ parent[p] \in S /\ Exists(parent[p])
        /\ AssetItems[assetIdOf[p]].parent = assetIdOf[parent[p]]
    BY <1>1, <2>1, <2>2, ItemsByToken
  <2> QED BY <2>3
<1>5. assetIdOf[c] \notin T
  <2> SUFFICES ASSUME NEW n \in S, Exists(n), assetIdOf[n] = assetIdOf[c]
               PROVE  FALSE
    OBVIOUS
  <2>1. idByAssetId[assetIdOf[n]] = n /\ idByAssetId[assetIdOf[c]] = c
    BY ItemsByToken
  <2> QED BY <1>1, <2>1
<1> HIDE DEF T
<1> QED BY <1>2, <1>3, <1>4, <1>5 DEF OfAssets!Above

\* The view of one asset after a step.
LEMMA ItemsAfter ==
  ASSUME NEW b \in AssetId
  PROVE  AssetItems'[b] =
           IF idByAssetId'[b] = 0
           THEN [holder |-> NoAssetId, state |-> "NONE", parent |-> NoAssetId]
           ELSE [holder |-> owner'[idByAssetId'[b]], state |-> assetState'[idByAssetId'[b]],
                 parent |-> IF parent'[idByAssetId'[b]] = 0 THEN NoAssetId
                            ELSE assetIdOf'[parent'[idByAssetId'[b]]]]
BY DEF AssetItems, ItemOf

\* A step that changes the view of one asset updates the view at that asset.
LEMMA ItemsUpdate ==
  ASSUME NEW a \in AssetId, NEW r, AssetItems'[a] = r,
         \A b \in AssetId : b # a => AssetItems'[b] = AssetItems[b]
  PROVE  AssetItems' = [AssetItems EXCEPT ![a] = r]
<1>1. /\ AssetItems = [b \in AssetId |-> AssetItems[b]]
      /\ AssetItems' = [b \in AssetId |-> AssetItems'[b]]
  BY DEF AssetItems
<1> QED BY <1>1

\* A step that touches the owner, state and parent of one token at most leaves
\* the view of every other asset as it was.
LEMMA OtherItemsStay ==
  ASSUME TokenInv, NEW n \in Nft, Exists(n), UNCHANGED <<idByAssetId, assetIdOf>>,
         \A m \in Nft : m # n =>
            owner'[m] = owner[m] /\ assetState'[m] = assetState[m] /\ parent'[m] = parent[m]
  PROVE  /\ \A b \in AssetId : b # assetIdOf[n] => AssetItems'[b] = AssetItems[b]
         /\ AssetItems'[assetIdOf[n]] =
              [holder |-> owner'[n], state |-> assetState'[n],
               parent |-> IF parent'[n] = 0 THEN NoAssetId ELSE assetIdOf[parent'[n]]]
<1>0. AssetTypeOK /\ AssetIdsUnique /\ 0 \notin Nft
  BY DEF TokenInv, Nft
<1>1. assetIdOf[n] \in AssetId /\ idByAssetId[assetIdOf[n]] = n
  BY <1>0 DEF AssetIdsUnique
<1>2. ASSUME NEW b \in AssetId, b # assetIdOf[n]
      PROVE  AssetItems'[b] = AssetItems[b]
  <2>1. CASE idByAssetId[b] = 0
    BY <2>1, ItemsAfter DEF AssetItems
  <2>2. CASE idByAssetId[b] # 0
    <3>1. idByAssetId[b] \in Nft /\ assetIdOf[idByAssetId[b]] = b
      BY <1>0, <2>2 DEF AssetIdsUnique, AssetTypeOK
    <3>2. idByAssetId[b] # n
      BY <1>2, <3>1
    <3> QED BY <2>2, <3>1, <3>2, ItemsAfter DEF AssetItems, ItemOf
  <2> QED BY <2>1, <2>2
<1>3. AssetItems'[assetIdOf[n]] =
        [holder |-> owner'[n], state |-> assetState'[n],
         parent |-> IF parent'[n] = 0 THEN NoAssetId ELSE assetIdOf[parent'[n]]]
  BY <1>0, <1>1, ItemsAfter
<1> QED BY <1>2, <1>3

\* mintAsset is Mint: the new token has no parent, and no older view names it.
LEMMA MintingRefines ==
  ASSUME TokenInv, ParentsExist, NEW a \in AssetId, NEW to \in Wallet, Minting(a, to)
  PROVE  OfAssets!Mint(a, to)
<1>0. AssetTypeOK /\ AssetIdsUnique /\ 0 \notin Nft
  BY DEF TokenInv, Nft
<1>1. /\ nextId \in Nft /\ idByAssetId[a] = 0
      /\ idByAssetId' = [idByAssetId EXCEPT ![a] = nextId]
      /\ assetIdOf' = [assetIdOf EXCEPT ![nextId] = a]
      /\ assetState' = [assetState EXCEPT ![nextId] = "ACTIVE"]
      /\ owner' = [owner EXCEPT ![nextId] = to]
      /\ parent' = parent
  BY DEF Minting
<1>2. ~Exists(nextId) /\ parent[nextId] = 0
  BY <1>0, <1>1 DEF AssetIdsUnique, ParentsExist, Nft
<1>3. AssetItems'[a] = [holder |-> to, state |-> "ACTIVE", parent |-> NoAssetId]
  <2>1. /\ idByAssetId'[a] = nextId /\ nextId # 0 /\ parent'[nextId] = 0
        /\ owner'[nextId] = to /\ assetState'[nextId] = "ACTIVE"
    BY <1>0, <1>1, <1>2 DEF AssetTypeOK
  <2> QED BY <2>1, ItemsAfter
<1>4. ASSUME NEW b \in AssetId, b # a
      PROVE  AssetItems'[b] = AssetItems[b]
  <2>1. idByAssetId'[b] = idByAssetId[b]
    BY <1>0, <1>1, <1>4 DEF AssetTypeOK
  <2>2. CASE idByAssetId[b] = 0
    BY <2>1, <2>2, ItemsAfter DEF AssetItems
  <2>3. CASE idByAssetId[b] # 0
    <3> DEFINE m == idByAssetId[b]
    <3>1. m \in Nft /\ Exists(m) /\ m # nextId
      BY <1>0, <1>2, <2>3 DEF AssetIdsUnique, AssetTypeOK
    <3>2. owner'[m] = owner[m] /\ assetState'[m] = assetState[m] /\ parent'[m] = parent[m]
      BY <1>0, <1>1, <3>1 DEF AssetTypeOK
    <3>3. parent[m] # 0 => assetIdOf'[parent[m]] = assetIdOf[parent[m]]
      BY <1>0, <1>1, <1>2, <3>1 DEF ParentsExist, AssetTypeOK
    <3>4. AssetItems[b] = ItemOf(m)
      BY <2>3 DEF AssetItems
    <3> QED BY <2>1, <2>3, <3>2, <3>3, <3>4, ItemsAfter DEF ItemOf
  <2> QED BY <2>2, <2>3
<1>5. ~OfAssets!Minted(a)
  BY <1>1 DEF OfAssets!Minted, OfAssets!NoItem, AssetItems
<1> QED BY <1>3, <1>4, <1>5, ItemsUpdate DEF OfAssets!Mint

\* transferAsset is Transfer.
LEMMA TransferringRefines ==
  ASSUME TokenInv, ParentsExist, NEW n \in Nft, NEW to \in Wallet, Transferring(n, to)
  PROVE  OfAssets!Transfer(assetIdOf[n], to)
<1> DEFINE a == assetIdOf[n]
<1>0. AssetTypeOK
  BY DEF TokenInv
<1>1. /\ Exists(n) /\ assetState[n] # "DECOMMISSIONED" /\ parent[n] = 0 /\ owner[n] # to
      /\ owner'[n] = to /\ assetState'[n] = assetState[n] /\ parent'[n] = 0
      /\ UNCHANGED <<idByAssetId, assetIdOf>>
      /\ \A m \in Nft : m # n =>
            owner'[m] = owner[m] /\ assetState'[m] = assetState[m] /\ parent'[m] = parent[m]
  BY <1>0 DEF Transferring, AssetTypeOK
<1>2. /\ a \in AssetId /\ AssetItems[a] = ItemOf(n) /\ OfAssets!Minted(a)
  BY <1>1, ItemsByToken
<1>3. ItemOf(n) = [holder |-> owner[n], state |-> assetState[n], parent |-> NoAssetId]
  BY <1>1 DEF ItemOf
<1>4. /\ \A b \in AssetId : b # a => AssetItems'[b] = AssetItems[b]
      /\ AssetItems'[a] = [holder |-> to, state |-> assetState[n], parent |-> NoAssetId]
  BY <1>1, OtherItemsStay
<1> HIDE DEF a
<1>5. AssetItems'[a] = [AssetItems[a] EXCEPT !.holder = to]
  BY <1>2, <1>3, <1>4
<1>6. AssetItems' = [AssetItems EXCEPT ![a] = [AssetItems[a] EXCEPT !.holder = to]]
  BY <1>2, <1>4, <1>5, ItemsUpdate
<1>7. OfAssets!InService(a) /\ AssetItems[a].parent = NoAssetId /\ AssetItems[a].holder # to
  BY <1>1, <1>2, <1>3 DEF OfAssets!InService
<1>8. OfAssets!Transfer(a, to)
  BY <1>6, <1>7 DEF OfAssets!Transfer
<1> QED BY <1>8 DEF a

\* changeAssetState is ChangeState.
LEMMA RestatingRefines ==
  ASSUME TokenInv, ParentsExist, NEW n \in Nft, NEW to, Restating(n, to)
  PROVE  OfAssets!ChangeState(assetIdOf[n], to)
<1> DEFINE a == assetIdOf[n]
<1>0. AssetTypeOK
  BY DEF TokenInv
<1>1. /\ Exists(n) /\ assetState[n] # "DECOMMISSIONED" /\ assetState[n] # to
      /\ owner'[n] = owner[n] /\ assetState'[n] = to /\ parent' = parent
      /\ UNCHANGED <<idByAssetId, assetIdOf>>
      /\ \A m \in Nft : m # n =>
            owner'[m] = owner[m] /\ assetState'[m] = assetState[m] /\ parent'[m] = parent[m]
  BY <1>0 DEF Restating, AssetTypeOK
<1>2. /\ a \in AssetId /\ AssetItems[a] = ItemOf(n) /\ OfAssets!Minted(a)
  BY <1>1, ItemsByToken
<1>3. /\ \A b \in AssetId : b # a => AssetItems'[b] = AssetItems[b]
      /\ AssetItems'[a] =
           [holder |-> owner[n], state |-> to,
            parent |-> IF parent[n] = 0 THEN NoAssetId ELSE assetIdOf[parent[n]]]
  BY <1>1, OtherItemsStay
<1> HIDE DEF a
<1>4. AssetItems'[a] = [AssetItems[a] EXCEPT !.state = to]
  BY <1>2, <1>3 DEF ItemOf
<1>5. AssetItems' = [AssetItems EXCEPT ![a] = [AssetItems[a] EXCEPT !.state = to]]
  BY <1>2, <1>3, <1>4, ItemsUpdate
<1>6. OfAssets!InService(a) /\ AssetItems[a].state # to
  BY <1>1, <1>2 DEF OfAssets!InService, ItemOf
<1>7. OfAssets!ChangeState(a, to)
  BY <1>5, <1>6 DEF OfAssets!ChangeState
<1> QED BY <1>7 DEF a

\* attachComponent is Attach.
LEMMA AttachingRefines ==
  ASSUME TokenInv, ParentsExist, NEW p \in Nft, NEW c \in Nft, Attaching(p, c)
  PROVE  OfAssets!Attach(assetIdOf[p], assetIdOf[c])
<1> DEFINE a == assetIdOf[p]
           b == assetIdOf[c]
<1>0. AssetTypeOK /\ 0 \notin Nft
  BY DEF TokenInv, Nft
<1>1. /\ p # c /\ Exists(p) /\ Exists(c) /\ c \notin Ancestors(p) /\ parent[c] = 0
      /\ assetState[p] # "DECOMMISSIONED" /\ assetState[c] # "DECOMMISSIONED"
      /\ parent'[c] = p /\ p # 0 /\ owner' = owner /\ assetState' = assetState
      /\ UNCHANGED <<idByAssetId, assetIdOf>>
      /\ \A m \in Nft : m # c =>
            owner'[m] = owner[m] /\ assetState'[m] = assetState[m] /\ parent'[m] = parent[m]
  BY <1>0 DEF Attaching, AssetTypeOK
<1>2. /\ a \in AssetId /\ AssetItems[a] = ItemOf(p) /\ OfAssets!Minted(a)
      /\ b \in AssetId /\ AssetItems[b] = ItemOf(c) /\ OfAssets!Minted(b)
      /\ idByAssetId[a] = p /\ idByAssetId[b] = c
  BY <1>1, ItemsByToken
<1>3. /\ \A x \in AssetId : x # b => AssetItems'[x] = AssetItems[x]
      /\ AssetItems'[b] =
           [holder |-> owner'[c], state |-> assetState'[c],
            parent |-> IF parent'[c] = 0 THEN NoAssetId ELSE assetIdOf[parent'[c]]]
  BY <1>1, OtherItemsStay
<1>4. AssetItems'[b] = [holder |-> owner[c], state |-> assetState[c], parent |-> a]
  BY <1>1, <1>3
<1>5. b \notin OfAssets!Above(a)
  BY <1>1, AncestorsAreAbove
<1> HIDE DEF a, b
<1>6. AssetItems[b] = [holder |-> owner[c], state |-> assetState[c], parent |-> NoAssetId]
  BY <1>1, <1>2 DEF ItemOf
<1>7. AssetItems'[b] = [AssetItems[b] EXCEPT !.parent = a]
  BY <1>4, <1>6
<1>8. AssetItems' = [AssetItems EXCEPT ![b] = [AssetItems[b] EXCEPT !.parent = a]]
  BY <1>2, <1>3, <1>7, ItemsUpdate
<1>9. /\ a # b /\ OfAssets!InService(a) /\ OfAssets!InService(b)
      /\ AssetItems[b].parent = NoAssetId
  BY <1>1, <1>2, <1>6 DEF OfAssets!InService, ItemOf
<1>10. OfAssets!Attach(a, b)
  BY <1>5, <1>8, <1>9 DEF OfAssets!Attach
<1> QED BY <1>10 DEF a, b

\* removeComponent is Remove, whatever its swap-and-pop does to the list.
LEMMA RemovingRefines ==
  ASSUME TokenInv, ParentsExist, NEW p \in Nft, NEW c \in Nft, Removing(p, c)
  PROVE  OfAssets!Remove(assetIdOf[p], assetIdOf[c])
<1> DEFINE b == assetIdOf[c]
<1>0. AssetTypeOK /\ 0 \notin Nft
  BY DEF TokenInv, Nft
<1>1. /\ Exists(p) /\ Exists(c) /\ parent[c] = p /\ p # 0
      /\ parent'[c] = 0 /\ owner'[c] = owner[c] /\ assetState'[c] = assetState[c]
      /\ UNCHANGED <<idByAssetId, assetIdOf>>
      /\ \A m \in Nft : m # c =>
            owner'[m] = owner[m] /\ assetState'[m] = assetState[m] /\ parent'[m] = parent[m]
  BY <1>0 DEF Removing, AssetTypeOK
<1>2. b \in AssetId /\ AssetItems[b] = ItemOf(c) /\ OfAssets!Minted(b)
  BY <1>1, ItemsByToken
<1>3. /\ \A x \in AssetId : x # b => AssetItems'[x] = AssetItems[x]
      /\ AssetItems'[b] = [holder |-> owner[c], state |-> assetState[c], parent |-> NoAssetId]
  BY <1>1, OtherItemsStay
<1> HIDE DEF b
<1>4. AssetItems[b] = [holder |-> owner[c], state |-> assetState[c], parent |-> assetIdOf[p]]
  BY <1>1, <1>2 DEF ItemOf
<1>5. AssetItems'[b] = [AssetItems[b] EXCEPT !.parent = NoAssetId]
  BY <1>3, <1>4
<1>6. AssetItems' = [AssetItems EXCEPT ![b] = [AssetItems[b] EXCEPT !.parent = NoAssetId]]
  BY <1>2, <1>3, <1>5, ItemsUpdate
<1>7. OfAssets!Remove(assetIdOf[p], b)
  BY <1>2, <1>4, <1>6 DEF OfAssets!Remove
<1> QED BY <1>7 DEF b

\* Before the first mint there is nothing to see.
LEMMA ItemsStart == AssetInit => OfAssets!LifecycleInit
BY DEF AssetInit, AssetItems, OfAssets!LifecycleInit, OfAssets!NoItem

\* Every step maps to a step of AssetLifecycle or to a stutter.
LEMMA ItemsSteps ==
  ASSUME TokenInv, ParentsExist, [AssetNext]_allAssetVars
  PROVE  [OfAssets!LifecycleNext]_AssetItems
<1>1. ASSUME NEW a \in AssetId, NEW to \in Wallet, Minting(a, to)
      PROVE  OfAssets!LifecycleNext
  BY <1>1, MintingRefines DEF OfAssets!LifecycleNext
<1>2. ASSUME NEW n \in Nft, NEW to \in Wallet, Transferring(n, to)
      PROVE  OfAssets!LifecycleNext
  <2>1. assetIdOf[n] \in AssetId
    BY <1>2, ItemsByToken DEF Transferring
  <2> QED BY <1>2, <2>1, TransferringRefines DEF OfAssets!LifecycleNext
<1>3. ASSUME NEW n \in Nft, NEW to \in AssetState \ {"NONE"}, Restating(n, to)
      PROVE  OfAssets!LifecycleNext
  <2>1. assetIdOf[n] \in AssetId
    BY <1>3, ItemsByToken DEF Restating
  <2>2. to \in OfAssets!State
    BY DEF AssetState, OfAssets!State
  <2> QED BY <1>3, <2>1, <2>2, RestatingRefines DEF OfAssets!LifecycleNext
<1>4. ASSUME NEW n \in Nft, NEW c \in Nft, Attaching(n, c) \/ Removing(n, c)
      PROVE  OfAssets!LifecycleNext
  <2>1. assetIdOf[n] \in AssetId /\ assetIdOf[c] \in AssetId
    BY <1>4, ItemsByToken DEF Attaching, Removing
  <2>2. \/ OfAssets!Attach(assetIdOf[n], assetIdOf[c])
        \/ OfAssets!Remove(assetIdOf[n], assetIdOf[c])
    BY <1>4, AttachingRefines, RemovingRefines
  <2> QED BY <2>1, <2>2 DEF OfAssets!LifecycleNext
<1>5. CASE UNCHANGED tokenView
  BY <1>5 DEF tokenView, AssetItems, ItemOf
<1> QED BY <1>1, <1>2, <1>3, <1>4, <1>5, AssetStepCases

\* The registry implements AssetLifecycle: every transaction, of the asset
\* registry or of any other, is a step of that specification on one asset or
\* invisible in it.
THEOREM RefinesAssetLifecycle == AssetSpec => ImplementsAssetLifecycle
<1>1. AssetInv => TokenInv
  BY DEF AssetInv
<1>2. TokenInv /\ ParentsExist /\ [AssetNext]_allAssetVars =>
        [OfAssets!LifecycleNext]_AssetItems
  BY ItemsSteps
<1> QED BY <1>1, <1>2, AssetInvariant, ParentsExistCorrect, ItemsStart, PTL
        DEF AssetSpec, ImplementsAssetLifecycle, OfAssets!LifecycleSpec

-----------------------------------------------------------------------------
(* Jobs.                                                                   *)

\* A recorded verifier resolves to an identity: what the judge of the abstract
\* life cycle is.
VerifierKnown ==
    \A j \in JobId :
        /\ jobs[j].status \in {"VERIFIED", "REJECTED"} => jobs[j].verifier # NoWallet
        /\ jobs[j].verifier # NoWallet => IdentityOf(jobs[j].verifier) \in Identity

JobInv == AssetInv /\ JobTypeOK /\ SeparationOfDuties /\ AssigneeKnown /\ VerifierKnown

\* A step of another registry keeps what the jobs refer to: the identities of
\* registered wallets, and the tokens.
References ==
    /\ \A w \in Wallet : IdentityOf(w) \in Identity => IdentityOf(w)' = IdentityOf(w)
    /\ \A n \in Nft : Exists(n) => Exists(n)'

LEMMA AssetStepKeepsReferences ==
  ASSUME AssetInv, [AssetNext]_allAssetVars
  PROVE  References
<1>1. AccessInv /\ AssetTypeOK
  BY DEF AssetInv, TokenInv
<1>2. WalletStep
  BY <1>1, AccessKeepsWallets, AssetStepIsAccessStep
<1>3. \A w \in Wallet : IdentityOf(w) \in Identity => IdentityOf(w)' = IdentityOf(w)
  BY <1>2, BootstrapAssumption DEF WalletStep, IdentityOf
<1>4. CASE UNCHANGED assetState
  BY <1>3, <1>4 DEF References, Exists
<1>5. ASSUME NEW caller \in Wallet, NEW assetId \in AssetId, NEW to \in Wallet,
             MintAsset(caller, assetId, to)
      PROVE  References
  BY <1>1, <1>3, <1>5 DEF MintAsset, References, Exists, AssetTypeOK
<1>6. ASSUME NEW caller \in Wallet, NEW n \in Nft, NEW to \in AssetState \ {"NONE"},
             ChangeAssetState(caller, n, to)
      PROVE  References
  BY <1>1, <1>3, <1>6 DEF ChangeAssetState, References, Exists, AssetTypeOK
<1>7. ASSUME NEW caller \in Wallet, AssetTransaction(caller)
      PROVE  References
  BY <1>4, <1>5, <1>6, <1>7 DEF AssetTransaction, TransferAsset, SetTransferGrant,
     AttachComponent, RemoveComponent
<1>8. CASE Tick \/ UNCHANGED assetVars \/ UNCHANGED allAssetVars
  BY <1>4, <1>8 DEF Tick, assetVars, allAssetVars
<1> QED BY <1>7, <1>8 DEF AssetNext

\* A job transaction changes neither the access state nor the assets.
LEMMA JobTransactionFrame ==
  ASSUME NEW caller \in Wallet, NEW j \in JobId, JobTransaction(caller, j)
  PROVE  UNCHANGED <<accessVars, assetVars>>
BY DEF JobTransaction, CreateJob, AssignJob, StartJob, CompleteJob, ApproveJob, RejectJob

LEMMA AssetInvStutter ==
  ASSUME AssetInv, UNCHANGED <<accessVars, assetVars>>
  PROVE  AssetInv'
<1>1. AccessInv /\ TokenInv /\ OwnersResolvable
  BY DEF AssetInv
<1>2. AccessInv'
  BY <1>1, AccessInvStep DEF AccessStep
<1>3. UNCHANGED <<nextId, idByAssetId, assetIdOf, assetState, owner, custodian,
                  parent, components, componentIndex, grants, now, identityKey>>
  BY DEF accessVars, assetVars, tokenVars, ownerVars, hierarchyVars
<1>4. AssetTypeOK'
  BY <1>1, <1>3 DEF TokenInv, AssetTypeOK
<1>5. HierarchyAcyclic' /\ AssetIdsUnique'
  BY <1>1, <1>3 DEF TokenInv, HierarchyAcyclic, AssetIdsUnique, Exists
<1>6. ComponentListsExact'
  BY <1>1, <1>3 DEF TokenInv, ComponentListsExact
<1>7. OwnersResolvable'
  BY <1>1, <1>3 DEF OwnersResolvable, Exists, IdentityOf
<1> QED BY <1>2, <1>4, <1>5, <1>6, <1>7 DEF AssetInv, TokenInv

\* Whoever passes the access check has an identity.
LEMMA CallerKnown ==
  ASSUME AccessInv, NEW w \in Wallet, IsActiveWallet(w)
  PROVE  IdentityOf(w) \in Identity
BY DEF AccessInv, AccessTypeOK, WalletLinks, IsActiveWallet, IdentityOf

\* The other registries may do anything they can do: the jobs keep their
\* properties.
LEMMA JobsSurvive ==
  ASSUME JobInv, References, UNCHANGED jobVars
  PROVE  JobTypeOK' /\ SeparationOfDuties' /\ AssigneeKnown' /\ VerifierKnown'
<1>1. UNCHANGED <<jobs, completedBy>>
  BY DEF jobVars
<1>2. JobTypeOK /\ SeparationOfDuties /\ AssigneeKnown /\ VerifierKnown
  BY DEF JobInv
<1>3. \A j \in JobId : /\ jobs[j].technician \in Wallet \cup {NoWallet}
                       /\ jobs[j].verifier \in Wallet \cup {NoWallet}
                       /\ jobs[j].assetNftId \in Nft \cup {0}
  BY <1>2 DEF JobTypeOK, JobRecord
<1>4. JobTypeOK'
  BY <1>1, <1>2 DEF JobTypeOK
<1>5. VerifierKnown'
  BY <1>1, <1>2, <1>3 DEF VerifierKnown, References
<1>6. AssigneeKnown'
  BY <1>1, <1>2, <1>3 DEF AssigneeKnown, References
<1>7. SeparationOfDuties'
  BY <1>1, <1>2, <1>3 DEF SeparationOfDuties, VerifierKnown, References
<1> QED BY <1>4, <1>5, <1>6, <1>7

-----------------------------------------------------------------------------
(* The transactions of a job.                                              *)

\* Only the job of the transaction changes.
OneJob(j) == \A k \in JobId : k # j => jobs'[k] = jobs[k] /\ completedBy'[k] = completedBy[k]

\* What each transaction finds and leaves.
Created(j, n) ==
    /\ jobs[j].status = "NONE" /\ Exists(n)
    /\ jobs'[j] = [jobs[j] EXCEPT !.assetNftId = n, !.status = "CREATED"]
    /\ completedBy' = completedBy

Assigned(j, technician) ==
    /\ jobs[j].status \in {"CREATED", "REJECTED"} /\ IsActiveWallet(technician)
    /\ jobs'[j] = [jobs[j] EXCEPT !.technician = technician,
                     !.technicianKey = IdentityOf(technician), !.status = "ASSIGNED"]
    /\ completedBy' = completedBy

Started(caller, j) ==
    /\ jobs[j].status = "ASSIGNED" /\ IdentityOf(caller) = jobs[j].technicianKey
    /\ jobs'[j] = [jobs[j] EXCEPT !.status = "IN_PROGRESS"]
    /\ completedBy' = completedBy

Completed(caller, j, e) ==
    /\ jobs[j].status = "IN_PROGRESS" /\ e \in Evidence
    /\ IdentityOf(caller) = jobs[j].technicianKey
    /\ jobs'[j] = [jobs[j] EXCEPT !.status = "COMPLETED", !.evidenceHash = e]
    /\ completedBy' = [completedBy EXCEPT ![j] = IdentityOf(caller)]

Judged(caller, j, verdict, count) ==
    /\ jobs[j].status = "COMPLETED" /\ IdentityOf(caller) # jobs[j].technicianKey
    /\ IsActiveWallet(caller) /\ count \in 0..MaxRejections
    /\ jobs'[j] = [jobs[j] EXCEPT !.status = verdict, !.verifier = caller,
                     !.rejectionCount = count]
    /\ completedBy' = completedBy

JobEffect(caller, j) ==
    \/ \E n \in Nft : Created(j, n)
    \/ \E technician \in Wallet : Assigned(j, technician)
    \/ Started(caller, j)
    \/ \E e \in Evidence : Completed(caller, j, e)
    \/ \E verdict \in {"VERIFIED", "REJECTED"}, count \in Nat :
          Judged(caller, j, verdict, count)

LEMMA JobEffects ==
  ASSUME JobTypeOK, NEW caller \in Wallet, NEW j \in JobId, JobTransaction(caller, j)
  PROVE  /\ jobs' = [k \in JobId |-> jobs'[k]]
         /\ OneJob(j)
         /\ JobEffect(caller, j)
<1> USE DEF JobTypeOK, OneJob
<1>0. jobs[j] \in JobRecord
  OBVIOUS
<1>1. ASSUME NEW n \in Nft, CreateJob(caller, j, n) PROVE OneJob(j) /\ Created(j, n)
  BY <1>1 DEF CreateJob, Created
<1>2. ASSUME NEW technician \in Wallet, AssignJob(caller, j, technician)
      PROVE  OneJob(j) /\ Assigned(j, technician)
  BY <1>2 DEF AssignJob, Assigned
<1>3. ASSUME StartJob(caller, j) PROVE OneJob(j) /\ Started(caller, j)
  BY <1>3 DEF StartJob, Started, RequireAssignee
<1>4. ASSUME NEW e \in Evidence \cup {NoEvidence}, CompleteJob(caller, j, e)
      PROVE  OneJob(j) /\ Completed(caller, j, e) /\ e \in Evidence
  BY <1>4 DEF CompleteJob, Completed, RequireAssignee
<1>5. ASSUME ApproveJob(caller, j)
      PROVE  OneJob(j) /\ Judged(caller, j, "VERIFIED", jobs[j].rejectionCount)
  <2>1. jobs[j].rejectionCount \in 0..MaxRejections
    BY <1>0 DEF JobRecord
  <2>2. /\ jobs' = [jobs EXCEPT ![j].status = "VERIFIED", ![j].verifier = caller]
        /\ jobs[j].status = "COMPLETED" /\ IdentityOf(caller) # jobs[j].technicianKey
        /\ IsActiveWallet(caller) /\ completedBy' = completedBy
    BY <1>5 DEF ApproveJob, RequireIndependentVerifier, CheckRoles
  <2>3. jobs'[j] = [jobs[j] EXCEPT !.status = "VERIFIED", !.verifier = caller,
                      !.rejectionCount = jobs[j].rejectionCount]
    BY <1>0, <2>2 DEF JobRecord
  <2> QED BY <2>1, <2>2, <2>3 DEF Judged
<1>6. ASSUME RejectJob(caller, j)
      PROVE  OneJob(j) /\ Judged(caller, j, "REJECTED", jobs[j].rejectionCount + 1)
  <2>1. jobs[j].rejectionCount \in 0..MaxRejections
    BY <1>0 DEF JobRecord
  <2>2. /\ jobs' = [jobs EXCEPT ![j].status = "REJECTED", ![j].verifier = caller,
                                ![j].rejectionCount = @ + 1]
        /\ jobs[j].status = "COMPLETED" /\ IdentityOf(caller) # jobs[j].technicianKey
        /\ jobs[j].rejectionCount < MaxRejections
        /\ IsActiveWallet(caller) /\ completedBy' = completedBy
    BY <1>6 DEF RejectJob, RequireIndependentVerifier, CheckRoles
  <2>3. jobs[j].rejectionCount + 1 \in 0..MaxRejections
    BY <2>1, <2>2, JobAssumption
  <2> QED BY <1>0, <2>2, <2>3 DEF Judged
<1>7. OneJob(j) /\ JobEffect(caller, j)
  <2>1. ASSUME ApproveJob(caller, j) \/ RejectJob(caller, j)
        PROVE  \E verdict \in {"VERIFIED", "REJECTED"}, count \in Nat :
                  Judged(caller, j, verdict, count)
    BY <1>0, <1>5, <1>6, <2>1 DEF JobRecord
  <2> QED BY <1>1, <1>2, <1>3, <1>4, <1>5, <1>6, <2>1 DEF JobTransaction, JobEffect
<1>8. jobs' = [k \in JobId |-> jobs'[k]]
  BY DEF JobTransaction, CreateJob, AssignJob, StartJob, CompleteJob, ApproveJob, RejectJob
<1> QED BY <1>7, <1>8

\* A transaction of a job keeps the properties of all jobs: it establishes
\* them for its own and leaves what they say of the others alone.
LEMMA JobTransactionKeeps ==
  ASSUME JobInv, NEW caller \in Wallet, NEW j \in JobId, JobTransaction(caller, j)
  PROVE  JobTypeOK' /\ SeparationOfDuties' /\ AssigneeKnown' /\ VerifierKnown'
<1>1. /\ AccessInv /\ JobTypeOK /\ SeparationOfDuties /\ AssigneeKnown
      /\ VerifierKnown
  BY DEF JobInv, AssetInv
<1>2. UNCHANGED <<identityKey, assetState>>
  BY JobTransactionFrame DEF accessVars, assetVars
<1>3. /\ \A w \in Wallet : IdentityOf(w)' = IdentityOf(w)
      /\ \A n \in Nft : Exists(n)' <=> Exists(n)
      /\ \A w \in Wallet : IsActiveWallet(w) => IdentityOf(w) \in Identity
  BY <1>1, <1>2, CallerKnown DEF IdentityOf, Exists
<1>4. OneJob(j) /\ JobEffect(caller, j) /\ jobs' = [k \in JobId |-> jobs'[k]]
  BY <1>1, JobEffects
<1>5. jobs[j] \in JobRecord /\ completedBy[j] \in Identity \cup {NoIdentity}
  BY <1>1 DEF JobTypeOK
\* What the four properties say of one job in the next state.
<1> DEFINE Typed == jobs'[j] \in JobRecord /\ completedBy'[j] \in Identity \cup {NoIdentity}
           Separated ==
              /\ jobs'[j].status \in {"COMPLETED", "VERIFIED", "REJECTED"} =>
                    /\ completedBy'[j] = jobs'[j].technicianKey
                    /\ jobs'[j].evidenceHash \in Evidence
              /\ jobs'[j].status \in {"VERIFIED", "REJECTED"} =>
                    IdentityOf(jobs'[j].verifier) \in Identity \ {completedBy'[j]}
           Known ==
              /\ jobs'[j].status # "NONE" =>
                    jobs'[j].assetNftId \in Nft /\ Exists(jobs'[j].assetNftId)
              /\ jobs'[j].status \notin {"NONE", "CREATED"} =>
                    /\ jobs'[j].technician \in Wallet
                    /\ jobs'[j].technicianKey \in Identity
                    /\ IdentityOf(jobs'[j].technician) = jobs'[j].technicianKey
           Verifier ==
              /\ jobs'[j].status \in {"VERIFIED", "REJECTED"} => jobs'[j].verifier # NoWallet
              /\ jobs'[j].verifier # NoWallet => IdentityOf(jobs'[j].verifier) \in Identity
           Mine == Typed /\ Separated /\ Known /\ Verifier
<1>6. Mine
  <2> USE <1>1, <1>3, <1>5 DEF JobRecord, SeparationOfDuties, AssigneeKnown, VerifierKnown
  <2>1. ASSUME NEW n \in Nft, Created(j, n) PROVE Mine
    BY <2>1 DEF Created, JobStatus
  <2>2. ASSUME NEW technician \in Wallet, Assigned(j, technician) PROVE Mine
    BY <2>2 DEF Assigned, JobStatus
  <2>3. ASSUME Started(caller, j) PROVE Mine
    BY <2>3 DEF Started, JobStatus
  <2>4. ASSUME NEW e \in Evidence, Completed(caller, j, e) PROVE Mine
    BY <2>4 DEF Completed, JobStatus, JobTypeOK
  <2>5. ASSUME NEW verdict \in {"VERIFIED", "REJECTED"}, NEW count \in Nat,
               Judged(caller, j, verdict, count)
        PROVE  Mine
    <3>1. /\ jobs[j].status = "COMPLETED" /\ count \in 0..MaxRejections
          /\ jobs'[j] = [jobs[j] EXCEPT !.status = verdict, !.verifier = caller,
                            !.rejectionCount = count]
          /\ completedBy'[j] = completedBy[j]
          /\ IdentityOf(caller) \in Identity
          /\ IdentityOf(caller) # jobs[j].technicianKey
          /\ caller # NoWallet
      BY <2>5, AssetAssumption DEF Judged
    <3>2. Typed
      BY <3>1 DEF JobStatus
    <3>3. Separated
      BY <3>1
    <3>4. Known
      BY <3>1
    <3>5. Verifier
      BY <3>1
    <3> QED BY <3>2, <3>3, <3>4, <3>5
  <2> HIDE DEF Mine
  <2> QED BY <1>4, <2>1, <2>2, <2>3, <2>4, <2>5 DEF JobEffect
<1>7. JobTypeOK'
  <2>1. \A k \in JobId : /\ jobs'[k] \in JobRecord
                         /\ completedBy'[k] \in Identity \cup {NoIdentity}
    BY <1>1, <1>4, <1>6 DEF OneJob, JobTypeOK
  <2>2. completedBy' = [k \in JobId |-> completedBy'[k]]
    BY <1>1, <1>4 DEF JobTypeOK, JobEffect, Created, Assigned, Started, Completed, Judged
  <2> HIDE DEF Mine
  <2> QED BY <1>4, <2>1, <2>2 DEF JobTypeOK, JobRecord
<1>8. \A k \in JobId : /\ jobs'[k].technician \in Wallet \cup {NoWallet}
                       /\ jobs'[k].verifier \in Wallet \cup {NoWallet}
                       /\ jobs'[k].assetNftId \in Nft \cup {0}
  BY <1>7 DEF JobTypeOK, JobRecord
<1>9. VerifierKnown'
  BY <1>1, <1>3, <1>4, <1>6, <1>8 DEF OneJob, VerifierKnown
<1>10. SeparationOfDuties'
  BY <1>1, <1>3, <1>4, <1>6, <1>8, <1>9 DEF OneJob, SeparationOfDuties, VerifierKnown
<1>11. AssigneeKnown'
  BY <1>1, <1>3, <1>4, <1>6, <1>8 DEF OneJob, AssigneeKnown
<1> QED BY <1>7, <1>9, <1>10, <1>11

LEMMA JobInvStep == JobInv /\ [JobNext]_allJobVars => JobInv'
<1> SUFFICES ASSUME JobInv, [JobNext]_allJobVars PROVE JobInv'
  OBVIOUS
<1>1. AssetInv
  BY DEF JobInv
<1>2. ASSUME NEW caller \in Wallet, NEW j \in JobId, JobTransaction(caller, j)
      PROVE  JobInv'
  BY <1>1, <1>2, JobTransactionFrame, AssetInvStutter, JobTransactionKeeps DEF JobInv
<1>3. CASE [AssetNext]_allAssetVars /\ UNCHANGED jobVars
  BY <1>1, <1>3, AssetInvStep, AssetStepKeepsReferences, JobsSurvive DEF JobInv
<1> QED BY <1>2, <1>3 DEF JobNext, allJobVars

LEMMA JobInvInit == JobInit => JobInv
<1> SUFFICES ASSUME JobInit PROVE JobInv
  OBVIOUS
<1>1. AssetInv
  BY AssetInvInit DEF JobInit
<1>2. jobs = [j \in JobId |-> NoJob] /\ completedBy = [j \in JobId |-> NoIdentity]
  BY DEF JobInit
<1>3. NoJob \in JobRecord
  BY JobAssumption DEF NoJob, JobRecord, JobStatus
<1>4. JobTypeOK
  BY <1>2, <1>3 DEF JobTypeOK
<1>5. SeparationOfDuties /\ AssigneeKnown /\ VerifierKnown
  BY <1>2 DEF NoJob, SeparationOfDuties, AssigneeKnown, VerifierKnown
<1> QED BY <1>1, <1>4, <1>5 DEF JobInv

\* The inductive invariant of the whole system of contracts.
THEOREM JobInvariant == JobSpec => []JobInv
BY JobInvInit, JobInvStep, PTL DEF JobSpec

\* Nobody verifies their own work, whatever wallets they use.
THEOREM SeparationCorrect == JobSpec => []SeparationOfDuties
<1>1. JobInv => SeparationOfDuties
  BY DEF JobInv
<1> QED BY <1>1, JobInvariant, PTL

\* A job names a technician and an asset that can be resolved.
THEOREM AssigneeCorrect == JobSpec => []AssigneeKnown
<1>1. JobInv => AssigneeKnown
  BY DEF JobInv
<1> QED BY <1>1, JobInvariant, PTL

\* Job records keep their type.
THEOREM JobTypeCorrect == JobSpec => []JobTypeOK
<1>1. JobInv => JobTypeOK
  BY DEF JobInv
<1> QED BY <1>1, JobInvariant, PTL

-----------------------------------------------------------------------------
(* The refinement.                                                         *)

LifecycleState ==
    <<[j \in JobId |-> jobs[j].status], [j \in JobId |-> jobs[j].technicianKey],
      completedBy,
      [j \in JobId |-> IF jobs[j].verifier = NoWallet THEN NoIdentity
                       ELSE IdentityOf(jobs[j].verifier)]>>

\* Nothing the other registries do shows in the life cycle of a job.
LEMMA OtherStepsInvisible ==
  ASSUME JobInv, References, UNCHANGED jobVars
  PROVE  UNCHANGED LifecycleState
<1>1. UNCHANGED <<jobs, completedBy>>
  BY DEF jobVars
<1>2. \A j \in JobId : /\ jobs[j].verifier \in Wallet \cup {NoWallet}
                       /\ jobs[j].verifier # NoWallet => IdentityOf(jobs[j].verifier) \in Identity
  BY DEF JobInv, JobTypeOK, JobRecord, VerifierKnown
<1>3. \A j \in JobId : jobs[j].verifier # NoWallet =>
                         IdentityOf(jobs[j].verifier)' = IdentityOf(jobs[j].verifier)
  BY <1>1, <1>2 DEF References, IdentityOf
<1> QED BY <1>1, <1>3 DEF LifecycleState

\* A transaction of a job is a step of its life cycle.
LEMMA JobTransactionIsLifecycleStep ==
  ASSUME JobInv, NEW caller \in Wallet, NEW j \in JobId, JobTransaction(caller, j)
  PROVE  Lifecycle!LifecycleNext
<1>1. AccessInv /\ JobTypeOK /\ SeparationOfDuties /\ AssigneeKnown
  BY DEF JobInv, AssetInv
<1>2. identityKey' = identityKey
  BY JobTransactionFrame DEF accessVars
<1>3. OneJob(j) /\ JobEffect(caller, j)
  BY <1>1, JobEffects
<1>4. /\ jobs[j] \in JobRecord /\ completedBy \in [JobId -> Identity \cup {NoIdentity}]
      /\ caller # NoWallet
  BY <1>1, AssetAssumption DEF JobTypeOK
<1> DEFINE Phase    == [k \in JobId |-> jobs[k].status]
           Assignee == [k \in JobId |-> jobs[k].technicianKey]
           Judge    == [k \in JobId |-> IF jobs[k].verifier = NoWallet THEN NoIdentity
                                        ELSE IdentityOf(jobs[k].verifier)]
<1>5. ASSUME NEW to, jobs'[j].status = to
      PROVE  Phase' = [Phase EXCEPT ![j] = to]
  BY <1>3, <1>5 DEF OneJob
<1>6. ASSUME NEW p, jobs'[j].technicianKey = p
      PROVE  Assignee' = [Assignee EXCEPT ![j] = p]
  BY <1>3, <1>6 DEF OneJob
<1>7. ASSUME jobs'[j].technicianKey = jobs[j].technicianKey
      PROVE  Assignee' = Assignee
  BY <1>3, <1>7 DEF OneJob
<1>8. ASSUME jobs'[j].verifier = jobs[j].verifier
      PROVE  Judge' = Judge
  BY <1>2, <1>3, <1>8 DEF OneJob, IdentityOf
<1>9. ASSUME jobs'[j].verifier = caller
      PROVE  Judge' = [Judge EXCEPT ![j] = IdentityOf(caller)]
  BY <1>2, <1>3, <1>4, <1>9 DEF OneJob, IdentityOf
<1> USE <1>4 DEF JobRecord
<1>10. ASSUME NEW n \in Nft, Created(j, n) PROVE Lifecycle!Create(j)
  <2>1. /\ jobs[j].status = "NONE" /\ jobs'[j].status = "CREATED"
        /\ jobs'[j].technicianKey = jobs[j].technicianKey
        /\ jobs'[j].verifier = jobs[j].verifier /\ completedBy' = completedBy
    BY <1>10 DEF Created
  <2> QED BY <1>5, <1>7, <1>8, <2>1 DEF Lifecycle!Create, Lifecycle!Move
<1>11. ASSUME NEW technician \in Wallet, Assigned(j, technician)
       PROVE  \E p \in Identity : Lifecycle!Assign(j, p)
  <2>1. PICK p \in Identity : p = IdentityOf(technician)
    BY <1>1, <1>11, CallerKnown DEF Assigned
  <2>2. /\ jobs[j].status \in {"CREATED", "REJECTED"} /\ jobs'[j].status = "ASSIGNED"
        /\ jobs'[j].technicianKey = p
        /\ jobs'[j].verifier = jobs[j].verifier /\ completedBy' = completedBy
    BY <1>11, <2>1 DEF Assigned
  <2>3. Lifecycle!Assign(j, p)
    BY <1>5, <1>6, <1>8, <2>2 DEF Lifecycle!Assign, Lifecycle!Move
  <2> QED BY <2>3
<1>12. ASSUME Started(caller, j) PROVE \E p \in Identity : Lifecycle!Start(j, p)
  <2>1. jobs[j].technicianKey \in Identity
    BY <1>1, <1>12 DEF Started, AssigneeKnown
  <2>2. PICK p \in Identity : p = jobs[j].technicianKey
    BY <2>1
  <2>3. /\ jobs[j].status = "ASSIGNED" /\ jobs'[j].status = "IN_PROGRESS"
        /\ jobs'[j].technicianKey = jobs[j].technicianKey
        /\ jobs'[j].verifier = jobs[j].verifier /\ completedBy' = completedBy
    BY <1>12 DEF Started
  <2>4. Lifecycle!Start(j, p)
    BY <1>5, <1>7, <1>8, <2>2, <2>3 DEF Lifecycle!Start, Lifecycle!Move
  <2> QED BY <2>4
<1>13. ASSUME NEW e \in Evidence, Completed(caller, j, e)
       PROVE  \E p \in Identity : Lifecycle!Complete(j, p)
  <2>1. jobs[j].technicianKey \in Identity
    BY <1>1, <1>13 DEF Completed, AssigneeKnown
  <2>2. PICK p \in Identity : p = jobs[j].technicianKey
    BY <2>1
  <2>3. /\ jobs[j].status = "IN_PROGRESS" /\ jobs'[j].status = "COMPLETED"
        /\ jobs'[j].technicianKey = jobs[j].technicianKey
        /\ jobs'[j].verifier = jobs[j].verifier
        /\ completedBy' = [completedBy EXCEPT ![j] = p]
    BY <1>13, <2>2 DEF Completed
  <2>4. Lifecycle!Complete(j, p)
    BY <1>5, <1>7, <1>8, <2>2, <2>3 DEF Lifecycle!Complete, Lifecycle!Move
  <2> QED BY <2>4
<1>14. ASSUME NEW verdict \in {"VERIFIED", "REJECTED"}, NEW count \in Nat,
              Judged(caller, j, verdict, count)
       PROVE  \E p \in Identity : Lifecycle!Approve(j, p) \/ Lifecycle!Reject(j, p)
  <2>1. PICK p \in Identity : p = IdentityOf(caller)
    BY <1>1, <1>14, CallerKnown DEF Judged
  <2>2. /\ jobs[j].status = "COMPLETED" /\ jobs'[j].status = verdict
        /\ jobs'[j].technicianKey = jobs[j].technicianKey
        /\ jobs'[j].verifier = caller /\ completedBy' = completedBy
        /\ p # jobs[j].technicianKey
    BY <1>14, <2>1 DEF Judged
  <2>3. p # completedBy[j]
    BY <1>1, <2>2 DEF SeparationOfDuties
  <2>4. Judge' = [Judge EXCEPT ![j] = p]
    BY <1>9, <2>1, <2>2
  <2>5. CASE verdict = "VERIFIED"
    <3>1. Lifecycle!Approve(j, p)
      BY <1>5, <1>7, <2>2, <2>3, <2>4, <2>5 DEF Lifecycle!Approve, Lifecycle!Move
    <3> QED BY <3>1
  <2>6. CASE verdict = "REJECTED"
    <3>1. Lifecycle!Reject(j, p)
      BY <1>5, <1>7, <2>2, <2>3, <2>4, <2>6 DEF Lifecycle!Reject, Lifecycle!Move
    <3> QED BY <3>1
  <2> QED BY <2>5, <2>6
<1> QED BY <1>3, <1>10, <1>11, <1>12, <1>13, <1>14 DEF JobEffect, Lifecycle!LifecycleNext

\* The initial state of the contract is the initial state of the life cycle.
LEMMA LifecycleStarts == JobInit => Lifecycle!LifecycleInit
BY DEF JobInit, NoJob, Lifecycle!LifecycleInit

\* Every step of the contracts is a step of the life cycle or leaves it alone.
LEMMA LifecycleSteps ==
  JobInv /\ [JobNext]_allJobVars => [Lifecycle!LifecycleNext]_(Lifecycle!lifecycleVars)
<1> SUFFICES ASSUME JobInv, [JobNext]_allJobVars
             PROVE  Lifecycle!LifecycleNext \/ UNCHANGED LifecycleState
  BY DEF LifecycleState, Lifecycle!lifecycleVars
<1>1. ASSUME NEW caller \in Wallet, NEW j \in JobId, JobTransaction(caller, j)
      PROVE  Lifecycle!LifecycleNext
  BY <1>1, JobTransactionIsLifecycleStep
<1>2. CASE [AssetNext]_allAssetVars /\ UNCHANGED jobVars
  <2>1. References
    BY <1>2, AssetStepKeepsReferences DEF JobInv
  <2> QED BY <1>2, <2>1, OtherStepsInvisible
<1> QED BY <1>1, <1>2 DEF JobNext, allJobVars

\* The contract implements the life cycle of people: every transaction, of any
\* registry, is a step of JobLifecycle or invisible in it.
THEOREM RefinesLifecycle == JobSpec => ImplementsLifecycle
BY JobInvariant, LifecycleStarts, LifecycleSteps, PTL
   DEF JobSpec, ImplementsLifecycle, Lifecycle!LifecycleSpec

-----------------------------------------------------------------------------
(* Accountability.                                                         *)

\* What the log holds beside the records of the other registries.
JobAuditRecord ==
    [entityType : {"JOB"}, entityId : JobId, action : DOMAIN JobRoles,
     actor : Wallet, recorder : {"JobManager"}]

JobLogOK == log \in Seq(AssetAuditRecord \cup JobAuditRecord)

\* A transaction of a job appends one record of that job; its actor is ACTIVE
\* and holds, at that moment, a role the RBAC matrix gives the action.
LEMMA JobTransactionRecorded ==
  ASSUME NEW caller \in Wallet, NEW j \in JobId, JobTransaction(caller, j)
  PROVE  /\ \E r \in JobAuditRecord :
               /\ log' = Append(log, r)
               /\ r.entityType = "JOB" /\ r.entityId = j /\ r.recorder = "JobManager"
               /\ status[r.actor] = "ACTIVE"
               /\ RolesOf(r.actor) \cap JobRoles[r.action] # {}
         /\ jobs[j].status # "VERIFIED"
<1> DEFINE Entry(action) == [entityType |-> "JOB", entityId |-> j, action |-> action,
                             actor |-> caller, recorder |-> "JobManager"]
           Recorded(action) ==
              /\ Entry(action) \in JobAuditRecord
              /\ log' = Append(log, Entry(action))
              /\ status[caller] = "ACTIVE"
              /\ RolesOf(caller) \cap JobRoles[action] # {}
              /\ jobs[j].status # "VERIFIED"
<1>1. /\ JobRoles["JOB_CREATE"] = CREATE_JOB
      /\ JobRoles["JOB_ASSIGN"] = ASSIGN_TECHNICIAN
      /\ JobRoles["JOB_START"] = PERFORM_MAINTENANCE
      /\ JobRoles["JOB_COMPLETE"] = PERFORM_MAINTENANCE
      /\ JobRoles["JOB_APPROVE"] = VERIFY_MAINTENANCE
      /\ JobRoles["JOB_REJECT"] = VERIFY_MAINTENANCE
  BY DEF JobRoles, CREATE_JOB, ASSIGN_TECHNICIAN, PERFORM_MAINTENANCE, VERIFY_MAINTENANCE
<1>2. \A action \in {"JOB_CREATE", "JOB_ASSIGN", "JOB_START", "JOB_COMPLETE",
                     "JOB_APPROVE", "JOB_REJECT"} : Entry(action) \in JobAuditRecord
  BY DEF JobAuditRecord, JobRoles
<1>3. \E action \in {"JOB_CREATE", "JOB_ASSIGN", "JOB_START", "JOB_COMPLETE",
                     "JOB_APPROVE", "JOB_REJECT"} : Recorded(action)
  <2> USE <1>1, <1>2 DEF JobAudit, Audit, Record, CheckRoles, HasAnyRole, IsActiveWallet
  <2>1. ASSUME NEW n \in Nft, CreateJob(caller, j, n) PROVE Recorded("JOB_CREATE")
    BY <2>1 DEF CreateJob
  <2>2. ASSUME NEW technician \in Wallet, AssignJob(caller, j, technician)
        PROVE  Recorded("JOB_ASSIGN")
    BY <2>2 DEF AssignJob
  <2>3. ASSUME StartJob(caller, j) PROVE Recorded("JOB_START")
    BY <2>3 DEF StartJob
  <2>4. ASSUME NEW e, CompleteJob(caller, j, e) PROVE Recorded("JOB_COMPLETE")
    BY <2>4 DEF CompleteJob
  <2>5. ASSUME ApproveJob(caller, j) PROVE Recorded("JOB_APPROVE")
    BY <2>5 DEF ApproveJob
  <2>6. ASSUME RejectJob(caller, j) PROVE Recorded("JOB_REJECT")
    BY <2>6 DEF RejectJob
  <2> HIDE DEF Recorded
  <2> QED BY <2>1, <2>2, <2>3, <2>4, <2>5, <2>6 DEF JobTransaction
<1>4. PICK action \in {"JOB_CREATE", "JOB_ASSIGN", "JOB_START", "JOB_COMPLETE",
                       "JOB_APPROVE", "JOB_REJECT"} : Recorded(action)
  BY <1>3
<1>5. /\ Entry(action).entityType = "JOB" /\ Entry(action).entityId = j
      /\ Entry(action).recorder = "JobManager" /\ Entry(action).actor = caller
      /\ Entry(action).action = action
  OBVIOUS
<1> HIDE DEF Entry
<1> QED BY <1>4, <1>5

\* The log of all the registries together stays well-formed.
LEMMA JobLogStep ==
  ASSUME JobInv, JobLogOK, [JobNext]_allJobVars
  PROVE  JobLogOK'
<1> DEFINE E == AssetAuditRecord \cup JobAuditRecord
<1>1. AssetInv /\ log \in Seq(E)
  BY DEF JobInv, JobLogOK
<1>2. ASSUME NEW caller \in Wallet, NEW j \in JobId, JobTransaction(caller, j)
      PROVE  JobLogOK'
  <2>1. PICK r \in E : log' = Append(log, r)
    BY <1>2, JobTransactionRecorded
  <2> HIDE DEF E
  <2>2. log' \in Seq(E)
    BY <1>1, <2>1
  <2> QED BY <2>2 DEF E, JobLogOK
<1>3. CASE [AssetNext]_allAssetVars
  <2>1. AssetAuditRecord \subseteq E
    OBVIOUS
  <2> HIDE DEF E
  <2>2. log' \in Seq(E)
    BY <1>1, <1>3, <2>1, AssetLogStep
  <2> QED BY <2>2 DEF E, JobLogOK
<1> QED BY <1>2, <1>3 DEF JobNext, allJobVars

\* Every change of a job is accounted for, across any interleaving with the
\* transactions of the other registries, and a VERIFIED job is final.
THEOREM JobsAccountableCorrect == JobSpec => JobsAccountable
<1>1. JobInit => JobLogOK
  BY DEF JobInit, AssetInit, AccessInit, JobLogOK
<1>2. JobInv /\ JobLogOK /\ [JobNext]_allJobVars => JobLogOK'
  BY JobLogStep
<1>3. ASSUME JobInv, JobLogOK, [JobNext]_allJobVars
      PROVE  JobAccountableStep
  <2> SUFFICES ASSUME NEW j \in JobId, jobs'[j] # jobs[j]
               PROVE  LET r == log'[Len(log) + 1] IN
                      /\ Len(log') = Len(log) + 1
                      /\ r.entityType = "JOB" /\ r.entityId = j /\ r.recorder = "JobManager"
                      /\ status[r.actor] = "ACTIVE"
                      /\ RolesOf(r.actor) \cap JobRoles[r.action] # {}
                      /\ jobs[j].status # "VERIFIED"
    BY DEF JobAccountableStep
  <2>1. PICK caller \in Wallet, k \in JobId : JobTransaction(caller, k)
    BY <1>3 DEF JobNext, allJobVars, jobVars
  <2>2. k = j
    BY <1>3, <2>1, JobEffects DEF OneJob, JobInv
  <2>3. PICK r \in JobAuditRecord :
          /\ log' = Append(log, r)
          /\ r.entityType = "JOB" /\ r.entityId = j /\ r.recorder = "JobManager"
          /\ status[r.actor] = "ACTIVE"
          /\ RolesOf(r.actor) \cap JobRoles[r.action] # {}
          /\ jobs[j].status # "VERIFIED"
    BY <2>1, <2>2, JobTransactionRecorded
  <2>4. Len(log') = Len(log) + 1 /\ log'[Len(log) + 1] = r
    <3> DEFINE E == AssetAuditRecord \cup JobAuditRecord
    <3>1. log \in Seq(E) /\ r \in E
      BY <1>3 DEF JobLogOK
    <3> HIDE DEF E
    <3> QED BY <2>3, <3>1
  <2> QED BY <2>3, <2>4
<1> QED BY <1>1, <1>2, <1>3, JobInvariant, PTL DEF JobSpec, JobsAccountable

-----------------------------------------------------------------------------
(* The gates of the backend next to the masks of the contracts.            *)

\* No route belongs to two routers.
LEMMA RoutersApart ==
    /\ DOMAIN UserRoutes = {"createUser", "revokeWallet", "activateWallet", "registerWallet",
                            "registerDevice", "revokeDevice", "assignRole", "revokeGrant"}
    /\ DOMAIN AssetRoutes = {"createAsset", "prepareAsset", "transfer", "prepareTransfer",
                             "changeState", "prepareState", "attachComponent", "prepareAttach",
                             "removeComponent", "prepareRemove"}
    /\ DOMAIN JobRoutes = {"createJob", "prepareJob", "assign", "prepareAssign", "start",
                           "prepareStart", "complete", "prepareComplete", "approve",
                           "prepareApprove", "reject", "prepareReject"}
    /\ DOMAIN EvidenceRoutes = {"uploadEvidence"} /\ DOMAIN ValidatorRoutes = {"validators"}
BY DEF UserRoutes, AssetRoutes, JobRoutes, EvidenceRoutes, ValidatorRoutes

\* A gate asks for the action its router names.
LEMMA RouterOf ==
    /\ \A r \in DOMAIN UserRoutes : RouteAction(r) = UserRoutes[r]
    /\ \A r \in DOMAIN AssetRoutes : RouteAction(r) = AssetRoutes[r]
    /\ \A r \in DOMAIN JobRoutes : RouteAction(r) = JobRoutes[r]
    /\ \A r \in DOMAIN ValidatorRoutes : RouteAction(r) = ValidatorRoutes[r]
<1>1. ASSUME NEW r \in DOMAIN UserRoutes PROVE RouteAction(r) = UserRoutes[r]
  <2>1. /\ r \notin DOMAIN AssetRoutes /\ r \notin DOMAIN JobRoutes
        /\ r \notin DOMAIN EvidenceRoutes /\ r \notin DOMAIN ValidatorRoutes
    BY RoutersApart
  <2> QED BY <2>1 DEF RouteAction
<1>2. ASSUME NEW r \in DOMAIN AssetRoutes PROVE RouteAction(r) = AssetRoutes[r]
  <2>1. /\ r \notin DOMAIN UserRoutes /\ r \notin DOMAIN JobRoutes
        /\ r \notin DOMAIN EvidenceRoutes /\ r \notin DOMAIN ValidatorRoutes
    BY RoutersApart
  <2> QED BY <2>1 DEF RouteAction
<1>3. ASSUME NEW r \in DOMAIN JobRoutes PROVE RouteAction(r) = JobRoutes[r]
  <2>1. /\ r \notin DOMAIN UserRoutes /\ r \notin DOMAIN AssetRoutes
        /\ r \notin DOMAIN EvidenceRoutes /\ r \notin DOMAIN ValidatorRoutes
    BY RoutersApart
  <2> QED BY <2>1 DEF RouteAction
<1>4. ASSUME NEW r \in DOMAIN ValidatorRoutes PROVE RouteAction(r) = ValidatorRoutes[r]
  <2>1. /\ r \notin DOMAIN UserRoutes /\ r \notin DOMAIN AssetRoutes
        /\ r \notin DOMAIN JobRoutes /\ r \notin DOMAIN EvidenceRoutes
    BY RoutersApart
  <2> QED BY <2>1 DEF RouteAction
<1> QED BY <1>1, <1>2, <1>3, <1>4

\* The actions of the routes that write to the chain.
LEMMA Table ==
    /\ RouteAction("createUser") = "CREATE_EMPLOYEE" /\ RouteAction("revokeWallet") = "REVOKE_WALLET"
    /\ RouteAction("revokeDevice") = "REVOKE_WALLET" /\ RouteAction("assignRole") = "CREATE_EMPLOYEE"
    /\ RouteAction("revokeGrant") = "CREATE_EMPLOYEE" /\ RouteAction("createAsset") = "REGISTER_ASSET"
    /\ RouteAction("transfer") = "TRANSFER_ASSET" /\ RouteAction("changeState") = "REGISTER_ASSET"
    /\ RouteAction("attachComponent") = "REGISTER_ASSET" /\ RouteAction("removeComponent") = "REGISTER_ASSET"
    /\ RouteAction("createJob") = "CREATE_JOB" /\ RouteAction("assign") = "ASSIGN_TECHNICIAN"
    /\ RouteAction("start") = "PERFORM_MAINTENANCE" /\ RouteAction("complete") = "PERFORM_MAINTENANCE"
    /\ RouteAction("approve") = "VERIFY_MAINTENANCE" /\ RouteAction("reject") = "VERIFY_MAINTENANCE"
    /\ RouteAction("validators") = "MANAGE_VALIDATORS"
<1>1. /\ UserRoutes["createUser"] = "CREATE_EMPLOYEE" /\ UserRoutes["revokeWallet"] = "REVOKE_WALLET"
      /\ UserRoutes["revokeDevice"] = "REVOKE_WALLET" /\ UserRoutes["assignRole"] = "CREATE_EMPLOYEE"
      /\ UserRoutes["revokeGrant"] = "CREATE_EMPLOYEE"
  BY DEF UserRoutes
<1>2. /\ AssetRoutes["createAsset"] = "REGISTER_ASSET" /\ AssetRoutes["transfer"] = "TRANSFER_ASSET"
      /\ AssetRoutes["changeState"] = "REGISTER_ASSET" /\ AssetRoutes["attachComponent"] = "REGISTER_ASSET"
      /\ AssetRoutes["removeComponent"] = "REGISTER_ASSET"
  BY DEF AssetRoutes
<1>3. /\ JobRoutes["createJob"] = "CREATE_JOB" /\ JobRoutes["assign"] = "ASSIGN_TECHNICIAN"
      /\ JobRoutes["start"] = "PERFORM_MAINTENANCE" /\ JobRoutes["complete"] = "PERFORM_MAINTENANCE"
      /\ JobRoutes["approve"] = "VERIFY_MAINTENANCE" /\ JobRoutes["reject"] = "VERIFY_MAINTENANCE"
  BY DEF JobRoutes
<1>4. ValidatorRoutes["validators"] = "MANAGE_VALIDATORS"
  BY DEF ValidatorRoutes
<1> QED BY <1>1, <1>2, <1>3, <1>4, RoutersApart, RouterOf

\* The actions without a conditional cell.
Plain == Action \ {"TRANSFER_ASSET", "VIEW_AUDIT_HISTORY"}

\* Outside the two rows with a conditional cell, can() is the row of the matrix.
LEMMA CanPlain ==
    ASSUME NEW a \in Plain, NEW role \in Role, NEW ctx
    PROVE  Can(role, a, ctx) <=> role \in AllowCells[a]
<1>1. RBAC_MATRIX[a][role] = IF role \in AllowCells[a] THEN "ALLOW" ELSE "DENY"
  BY DEF Plain, RBAC_MATRIX
<1>2. CASE role \in AllowCells[a]
  <2>1. RBAC_MATRIX[a][role] = "ALLOW" 
    BY <1>1, <1>2
  <2> QED BY <1>2, <2>1 DEF Can
<1>3. CASE role \notin AllowCells[a]
  <2>1. RBAC_MATRIX[a][role] = "DENY"
    BY <1>1, <1>3
  <2> QED BY <1>3, <2>1 DEF Can
<1> QED BY <1>2, <1>3

\* In the row of transfers an ENGINEER needs a grant with its id.
LEMMA CanTransfer ==
    ASSUME NEW role \in Role, NEW ctx
    PROVE  Can(role, "TRANSFER_ASSET", ctx) <=>
              \/ role \in {"ADMIN", "MANAGER"}
              \/ role = "ENGINEER" /\ ctx.explicitlyAuthorized /\ ctx.authorizationGrantId # ""
<1>0. AllowCells["TRANSFER_ASSET"] = {"ADMIN", "MANAGER"} /\ "TRANSFER_ASSET" \in Action
  BY DEF AllowCells, Action
<1>1. RBAC_MATRIX["TRANSFER_ASSET"][role] = IF role \in {"ADMIN", "MANAGER"} THEN "ALLOW"
                                  ELSE IF role = "ENGINEER" THEN "AUTH" ELSE "DENY"
  BY <1>0 DEF RBAC_MATRIX
<1>2. CASE role \in {"ADMIN", "MANAGER"}
  <2>1. RBAC_MATRIX["TRANSFER_ASSET"][role] = "ALLOW"
    BY <1>1, <1>2
  <2> QED BY <1>2, <2>1 DEF Can
<1>3. CASE role = "ENGINEER"
  <2>1. RBAC_MATRIX["TRANSFER_ASSET"][role] = "AUTH"
    BY <1>1, <1>3
  <2> QED BY <1>3, <2>1 DEF Can
<1>4. CASE role \notin {"ADMIN", "MANAGER", "ENGINEER"}
  <2>1. RBAC_MATRIX["TRANSFER_ASSET"][role] = "DENY"
    BY <1>1, <1>4
  <2> QED BY <1>4, <2>1 DEF Can
<1> QED BY <1>2, <1>3, <1>4

\* The routes whose gate is a plain row of the matrix and that write to the chain.
Direct == {"createUser", "revokeWallet", "revokeDevice", "assignRole", "revokeGrant", "createAsset",
           "changeState", "attachComponent", "removeComponent", "createJob", "assign", "start",
           "complete", "approve", "reject", "validators"}

\* The masks behind the gates.
LEMMA CallsOf ==
    /\ DOMAIN HandlerCalls = Direct \cup {"activateWallet", "createGrant", "activateRegistration"}
    /\ HandlerCalls["createUser"] = {MANAGE_ROLES} /\ HandlerCalls["revokeWallet"] = {REVOKE_WALLET}
    /\ HandlerCalls["revokeDevice"] = {REVOKE_WALLET} /\ HandlerCalls["assignRole"] = {MANAGE_ROLES}
    /\ HandlerCalls["revokeGrant"] = {MANAGE_ROLES} /\ HandlerCalls["createAsset"] = {REGISTER_ASSET}
    /\ HandlerCalls["changeState"] = {MANAGE_ASSET} /\ HandlerCalls["attachComponent"] = {MANAGE_ASSET}
    /\ HandlerCalls["removeComponent"] = {MANAGE_ASSET} /\ HandlerCalls["createJob"] = {CREATE_JOB}
    /\ HandlerCalls["assign"] = {ASSIGN_TECHNICIAN} /\ HandlerCalls["start"] = {PERFORM_MAINTENANCE}
    /\ HandlerCalls["complete"] = {PERFORM_MAINTENANCE} /\ HandlerCalls["approve"] = {VERIFY_MAINTENANCE}
    /\ HandlerCalls["reject"] = {VERIFY_MAINTENANCE} /\ HandlerCalls["validators"] = {{"ADMIN"}}
    /\ HandlerCalls["createGrant"] = {MANAGE_ROLES}
    /\ HandlerCalls["activateRegistration"] = {CREATE_EMPLOYEE, MANAGE_ROLES, ACTIVATE_WALLET}
BY DEF HandlerCalls, Direct

\* The rows of the matrix for these actions.
LEMMA MatrixRows ==
    /\ AllowCells["CREATE_EMPLOYEE"] = {"ADMIN"} /\ AllowCells["REVOKE_WALLET"] = {"ADMIN"}
    /\ AllowCells["REGISTER_ASSET"] = {"ADMIN", "MANAGER", "ENGINEER", "ISSUER"}
    /\ AllowCells["CREATE_JOB"] = {"MANAGER", "ENGINEER"}
    /\ AllowCells["ASSIGN_TECHNICIAN"] = {"MANAGER", "ENGINEER"}
    /\ AllowCells["PERFORM_MAINTENANCE"] = {"ENGINEER", "TECHNICIAN"}
    /\ AllowCells["VERIFY_MAINTENANCE"] = {"MANAGER", "ENGINEER", "AUDITOR", "VERIFIER"}
    /\ AllowCells["MANAGE_VALIDATORS"] = {"ADMIN"}
BY DEF AllowCells

\* None of them has a conditional cell.
LEMMA PlainRows ==
    {"CREATE_EMPLOYEE", "REVOKE_WALLET", "REGISTER_ASSET", "CREATE_JOB", "ASSIGN_TECHNICIAN",
     "PERFORM_MAINTENANCE", "VERIFY_MAINTENANCE", "MANAGE_VALIDATORS"} \subseteq Plain
BY DEF Plain, Action

\* A direct route has one call behind it, and its mask is the row of its gate.
LEMMA RowIsMask ==
    ASSUME NEW r \in Direct
    PROVE  RouteAction(r) \in Plain /\ HandlerCalls[r] = {AllowCells[RouteAction(r)]}
<1>1. CASE r \in {"createUser", "assignRole", "revokeGrant"}
  <2>1. RouteAction(r) = "CREATE_EMPLOYEE"
    BY <1>1, Table
  <2>2. HandlerCalls[r] = {MANAGE_ROLES}
    BY <1>1, CallsOf
  <2>3. MANAGE_ROLES = AllowCells["CREATE_EMPLOYEE"]
    BY MatrixRows DEF MANAGE_ROLES
  <2> QED BY <2>1, <2>2, <2>3, PlainRows
<1>2. CASE r \in {"revokeWallet", "revokeDevice"}
  <2>1. RouteAction(r) = "REVOKE_WALLET"
    BY <1>2, Table
  <2>2. HandlerCalls[r] = {REVOKE_WALLET}
    BY <1>2, CallsOf
  <2>3. REVOKE_WALLET = AllowCells["REVOKE_WALLET"]
    BY MatrixRows DEF REVOKE_WALLET
  <2> QED BY <2>1, <2>2, <2>3, PlainRows
<1>3. CASE r \in {"createAsset"}
  <2>1. RouteAction(r) = "REGISTER_ASSET"
    BY <1>3, Table
  <2>2. HandlerCalls[r] = {REGISTER_ASSET}
    BY <1>3, CallsOf
  <2>3. REGISTER_ASSET = AllowCells["REGISTER_ASSET"]
    BY MatrixRows DEF REGISTER_ASSET
  <2> QED BY <2>1, <2>2, <2>3, PlainRows
<1>4. CASE r \in {"changeState", "attachComponent", "removeComponent"}
  <2>1. RouteAction(r) = "REGISTER_ASSET"
    BY <1>4, Table
  <2>2. HandlerCalls[r] = {MANAGE_ASSET}
    BY <1>4, CallsOf
  <2>3. MANAGE_ASSET = AllowCells["REGISTER_ASSET"]
    BY MatrixRows DEF MANAGE_ASSET, REGISTER_ASSET
  <2> QED BY <2>1, <2>2, <2>3, PlainRows
<1>5. CASE r \in {"createJob"}
  <2>1. RouteAction(r) = "CREATE_JOB"
    BY <1>5, Table
  <2>2. HandlerCalls[r] = {CREATE_JOB}
    BY <1>5, CallsOf
  <2>3. CREATE_JOB = AllowCells["CREATE_JOB"]
    BY MatrixRows DEF CREATE_JOB
  <2> QED BY <2>1, <2>2, <2>3, PlainRows
<1>6. CASE r \in {"assign"}
  <2>1. RouteAction(r) = "ASSIGN_TECHNICIAN"
    BY <1>6, Table
  <2>2. HandlerCalls[r] = {ASSIGN_TECHNICIAN}
    BY <1>6, CallsOf
  <2>3. ASSIGN_TECHNICIAN = AllowCells["ASSIGN_TECHNICIAN"]
    BY MatrixRows DEF ASSIGN_TECHNICIAN
  <2> QED BY <2>1, <2>2, <2>3, PlainRows
<1>7. CASE r \in {"start", "complete"}
  <2>1. RouteAction(r) = "PERFORM_MAINTENANCE"
    BY <1>7, Table
  <2>2. HandlerCalls[r] = {PERFORM_MAINTENANCE}
    BY <1>7, CallsOf
  <2>3. PERFORM_MAINTENANCE = AllowCells["PERFORM_MAINTENANCE"]
    BY MatrixRows DEF PERFORM_MAINTENANCE
  <2> QED BY <2>1, <2>2, <2>3, PlainRows
<1>8. CASE r \in {"approve", "reject"}
  <2>1. RouteAction(r) = "VERIFY_MAINTENANCE"
    BY <1>8, Table
  <2>2. HandlerCalls[r] = {VERIFY_MAINTENANCE}
    BY <1>8, CallsOf
  <2>3. VERIFY_MAINTENANCE = AllowCells["VERIFY_MAINTENANCE"]
    BY MatrixRows DEF VERIFY_MAINTENANCE
  <2> QED BY <2>1, <2>2, <2>3, PlainRows
<1>9. CASE r \in {"validators"}
  <2>1. RouteAction(r) = "MANAGE_VALIDATORS"
    BY <1>9, Table
  <2>2. HandlerCalls[r] = {{"ADMIN"}}
    BY <1>9, CallsOf
  <2> QED BY <2>1, <2>2, MatrixRows, PlainRows
<1> QED BY <1>1, <1>2, <1>3, <1>4, <1>5, <1>6, <1>7, <1>8, <1>9 DEF Direct

\* What passes is served, and what would be served by one call passes, of a user
\* the chain knows as the holder of the roles held.
Agree(r, role, held, grant, slot) ==
    /\ r \notin {"activateWallet", "transfer"} /\ Gate(r, role, grant) => ChainAccepts(r, held, slot)
    /\ held = {role} /\ grant = slot =>
         /\ r = "transfer" /\ Gate(r, role, grant) => ChainAccepts(r, held, slot)
         /\ r \in Direct \cup {"transfer"} /\ ChainAccepts(r, held, slot) => Gate(r, role, grant)

\* Gate and contracts agree on every request, whatever its route, its role, the
\* roles the chain knows, the row and the slot of the grant.
LEMMA GatesAgree ==
    ASSUME NEW r \in Route, NEW role \in Role, NEW held \in SUBSET Role, role \in held,
           NEW grant \in BOOLEAN, NEW slot \in BOOLEAN
    PROVE  Agree(r, role, held, grant, slot)
<1>1. CASE r \in Direct
  <2>1. r \notin AdminRoute /\ r # "transfer"
    BY <1>1 DEF Direct, AdminRoute
  <2>2. ChainCalls(r) = {AllowCells[RouteAction(r)]} /\ RouteAction(r) \in Plain
    BY <1>1, RowIsMask, CallsOf DEF ChainCalls
  <2>3. Gate(r, role, grant) <=> role \in AllowCells[RouteAction(r)]
    BY <2>1, <2>2, CanPlain DEF Gate, RequirePermission
  <2>4. ChainAccepts(r, held, slot) <=> held \cap AllowCells[RouteAction(r)] # {}
    BY <2>1, <2>2 DEF ChainAccepts
  <2>5. role \in AllowCells[RouteAction(r)] => held \cap AllowCells[RouteAction(r)] # {}
    OBVIOUS
  <2>6. held = {role} /\ held \cap AllowCells[RouteAction(r)] # {}
            => role \in AllowCells[RouteAction(r)]
    OBVIOUS
  <2> QED BY <2>1, <2>3, <2>4, <2>5, <2>6 DEF Agree
<1>2. CASE r = "transfer"
  <2>1. r \notin AdminRoute /\ ChainCalls(r) = {} /\ RouteAction(r) = "TRANSFER_ASSET"
    BY <1>2, Table, CallsOf DEF AdminRoute, ChainCalls, Direct
  <2>2. /\ Context(r, grant).explicitlyAuthorized = grant
        /\ Context(r, grant).authorizationGrantId # "" <=> grant
    BY <1>2 DEF Context
  <2>3. Gate(r, role, grant) <=> role \in {"ADMIN", "MANAGER"} \/ (role = "ENGINEER" /\ grant)
    <3>1. PICK ctx : ctx = Context(r, grant)
      OBVIOUS
    <3>2. Gate(r, role, grant) <=> Can(role, "TRANSFER_ASSET", ctx)
      BY <2>1, <3>1 DEF Gate, RequirePermission
    <3>3. Can(role, "TRANSFER_ASSET", ctx) <=>
            \/ role \in {"ADMIN", "MANAGER"}
            \/ role = "ENGINEER" /\ ctx.explicitlyAuthorized /\ ctx.authorizationGrantId # ""
      BY CanTransfer
    <3> QED BY <2>2, <3>1, <3>2, <3>3
  <2>4. ChainAccepts(r, held, slot) <=>
            IF "ENGINEER" \in held THEN slot ELSE held \cap {"ADMIN", "MANAGER"} # {}
    BY <1>2, <2>1 DEF ChainAccepts, TransferAccess, TRANSFER_ASSET
  <2>5. ASSUME held = {role}, grant = slot
        PROVE  Gate(r, role, grant) <=> ChainAccepts(r, held, slot)
    <3>1. CASE role = "ENGINEER"
      <4>1. "ENGINEER" \in held
        BY <2>5, <3>1
      <4>2. ChainAccepts(r, held, slot) <=> slot
        BY <2>4, <4>1
      <4>3. Gate(r, role, grant) <=> grant
        BY <2>3, <3>1
      <4> QED BY <2>5, <4>2, <4>3
    <3>2. CASE role # "ENGINEER"
      <4>1. "ENGINEER" \notin held /\ (held \cap {"ADMIN", "MANAGER"} # {} <=> role \in {"ADMIN", "MANAGER"})
        BY <2>5, <3>2
      <4>2. ChainAccepts(r, held, slot) <=> held \cap {"ADMIN", "MANAGER"} # {}
        BY <2>4, <4>1
      <4> QED BY <2>3, <3>2, <4>1, <4>2
    <3> QED BY <3>1, <3>2
  <2> QED BY <1>2, <2>5 DEF Agree
<1>3. CASE r \in {"createGrant", "activateRegistration"}
  <2>1. r \in AdminRoute /\ r # "transfer" /\ r \notin Direct \cup {"transfer"}
    BY <1>3 DEF AdminRoute, Direct
  <2>2. Gate(r, role, grant) => role = "ADMIN"
    BY <2>1 DEF Gate, RequireRole
  <2>3. \A mask \in ChainCalls(r) : "ADMIN" \in mask
    BY <1>3, CallsOf DEF ChainCalls, CREATE_EMPLOYEE, MANAGE_ROLES, ACTIVATE_WALLET
  <2>4. role = "ADMIN" => ChainAccepts(r, held, slot)
    <3>1. role = "ADMIN" => \A mask \in ChainCalls(r) : held \cap mask # {}
      BY <2>3
    <3> QED BY <2>1, <3>1 DEF ChainAccepts
  <2> QED BY <2>1, <2>2, <2>4 DEF Agree
<1>4. CASE r \notin Direct \cup {"transfer", "createGrant", "activateRegistration", "activateWallet"}
  <2>1. ChainCalls(r) = {}
    BY <1>4, CallsOf DEF ChainCalls
  <2>2. ChainAccepts(r, held, slot)
    BY <1>4, <2>1 DEF ChainAccepts
  <2> QED BY <1>4, <2>2 DEF Agree
<1>5. CASE r = "activateWallet"
  BY <1>5 DEF Agree, Direct
<1> QED BY <1>1, <1>2, <1>3, <1>4, <1>5

\* auth/rbac.middleware.ts and the contracts do not drift: what a gate lets
\* through every contract call behind it accepts, whatever roles besides that of
\* the row the chain knows (wallet activation apart, and a transfer while row
\* and chain are in step); and what the contract would serve of a user it is in
\* step with, the gate does not refuse.
THEOREM GatesMatchChainCorrect == RbacInit /\ [][Arrive]_request => []GatesMatchChain
<1> DEFINE TheRequest == request \in Request \/ request = NoRequest
<1>1. RbacInit => TheRequest
  BY DEF RbacInit
<1>2. TheRequest /\ [Arrive]_request => TheRequest'
  BY DEF Arrive
<1>3. TheRequest => GatesMatchChain
  <2> SUFFICES ASSUME request \in Request PROVE GatesMatchChain
    BY DEF GatesMatchChain, GateServedByChain, ChainReachable, At
  <2>1. /\ request.route \in Route /\ request.role \in Role /\ request.grant \in BOOLEAN
        /\ request.held \in SUBSET Role /\ request.role \in request.held
        /\ request.slot \in BOOLEAN
    BY DEF Request
  <2>2. Agree(request.route, request.role, request.held, request.grant, request.slot)
    BY <2>1, GatesAgree
  <2>3. GateServedByChain
    BY <2>2 DEF Agree, GateServedByChain, At, Passes, IsServed, InStep
  <2>4. ChainReachable
    BY <2>2 DEF Agree, ChainReachable, At, Passes, IsServed, InStep, Direct
  <2> QED BY <2>3, <2>4 DEF GatesMatchChain
<1> QED BY <1>1, <1>2, <1>3, PTL
=============================================================================
