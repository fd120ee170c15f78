---------------------------- MODULE AssetRegistry ----------------------------
(***************************************************************************)
(* contracts/src/AssetRegistry.sol: the asset NFTs, their ownership, their *)
(* life cycle, the component hierarchy and the transfer grants, on top of  *)
(* the access state that the identity and role registries go on changing.  *)
(*                                                                         *)
(* Token ids are numbers from 1; 0 is "no token" as in the source.  The    *)
(* ERC-721 entry points (approve, transferFrom, ...) all revert, so owner  *)
(* is written by mintAsset and transferAsset alone.                        *)
(***************************************************************************)
EXTENDS AccessControl

CONSTANTS
    AssetId,        \* the off-chain asset ids; NoAssetId is the empty string
    NoAssetId,
    NoWallet,       \* address(0)
    GrantId,        \* the grant ids setTransferGrant records
    GrantActor,     \* the wallets this instance's grants name
    GrantExpiry,    \* the expiresAt values they carry, 0 for no expiry
    MaxNft,         \* bound: tokens minted
    MaxTime         \* bound: block.timestamp

ASSUME AssetAssumption ==
    /\ NoAssetId \notin AssetId
    /\ NoWallet \notin Wallet
    /\ MaxNft \in Nat /\ MaxTime \in Nat
    /\ GrantActor \subseteq Wallet
    /\ GrantExpiry \subseteq Nat

VARIABLES
    nextId,         \* _nextId
    idByAssetId,    \* _idByAssetId
    assetIdOf,      \* _assets[n].assetId
    assetState,     \* _assets[n].state
    custodian,      \* _assets[n].custodian
    owner,          \* ERC721._owners
    parent,         \* _assets[n].parent
    components,     \* _components
    componentIndex, \* _componentIndex, 1-based
    grants,         \* _transferGrants
    now             \* block.timestamp

tokenVars     == <<nextId, idByAssetId, assetIdOf>>
ownerVars     == <<owner, custodian>>
hierarchyVars == <<parent, components, componentIndex>>
assetVars     == <<tokenVars, assetState, ownerVars, hierarchyVars, grants, now>>

Nft        == 1..MaxNft
AssetState == {"NONE", "ACTIVE", "IN_MAINTENANCE", "DECOMMISSIONED"}
NoGrant    == [expiresAt |-> 0, active |-> FALSE]

Exists(n) == assetState[n] # "NONE"

-----------------------------------------------------------------------------
(* Ownership.                                                              *)

\* Faulty variant: an asset id that has a token is minted again.
MintAssetAgain(caller, assetId, to) ==
    /\ CheckRoles("AssetRegistry", caller, REGISTER_ASSET)
    /\ IsActiveWallet(to)
    /\ nextId \in Nft
    /\ nextId' = nextId + 1
    /\ idByAssetId' = [idByAssetId EXCEPT ![assetId] = nextId]
    /\ assetIdOf' = [assetIdOf EXCEPT ![nextId] = assetId]
    /\ assetState' = [assetState EXCEPT ![nextId] = "ACTIVE"]
    /\ custodian' = [custodian EXCEPT ![nextId] = to]
    /\ owner' = [owner EXCEPT ![nextId] = to]
    /\ Audit("AssetRegistry", caller, "ASSET", assetId, "ASSET_MINT")
    /\ UNCHANGED <<accessVars, hierarchyVars, grants, now>>

\* ASSET_MINT
MintAsset(caller, assetId, to) ==
    /\ CheckRoles("AssetRegistry", caller, REGISTER_ASSET)
    /\ IsActiveWallet(to)
    /\ idByAssetId[assetId] = 0
    /\ nextId \in Nft
    /\ nextId' = nextId + 1
    /\ idByAssetId' = [idByAssetId EXCEPT ![assetId] = nextId]
    /\ assetIdOf' = [assetIdOf EXCEPT ![nextId] = assetId]
    /\ assetState' = [assetState EXCEPT ![nextId] = "ACTIVE"]
    /\ custodian' = [custodian EXCEPT ![nextId] = to]
    /\ owner' = [owner EXCEPT ![nextId] = to]
    /\ Audit("AssetRegistry", caller, "ASSET", assetId, "ASSET_MINT")
    /\ UNCHANGED <<accessVars, hierarchyVars, grants, now>>

HasActiveTransferGrant(n, w) ==
    /\ grants[n][w].active
    /\ grants[n][w].expiresAt = 0 \/ grants[n][w].expiresAt > now

\* Faulty variant: any ADMIN, MANAGER or ENGINEER may transfer.
CheckTransferAccessByRole(caller, n) ==
    CheckRoles("AssetRegistry", caller, TRANSFER_ASSET \cup {"ENGINEER"})

\* _checkTransferAccess: an identity with the ENGINEER role needs a grant for
\* this token and this wallet, whatever other roles it holds.
CheckTransferAccess(caller, n) ==
    \/ /\ HasAnyRole(caller, {"ENGINEER"})
       /\ CheckRoles("AssetRegistry", caller, {"ENGINEER"})
       /\ HasActiveTransferGrant(n, caller)
    \/ /\ ~HasAnyRole(caller, {"ENGINEER"})
       /\ CheckRoles("AssetRegistry", caller, TRANSFER_ASSET)

\* Faulty variant: the recipient may be any address, custody follows later.
TransferAssetAnyRecipient(caller, n, to) ==
    /\ CheckTransferAccess(caller, n)
    /\ Exists(n)
    /\ assetState[n] # "DECOMMISSIONED"
    /\ parent[n] = 0
    /\ owner[n] # to
    /\ owner' = [owner EXCEPT ![n] = to]
    /\ custodian' = [custodian EXCEPT ![n] = to]
    /\ Audit("AssetRegistry", caller, "ASSET", assetIdOf[n], "ASSET_TRANSFER")
    /\ UNCHANGED <<accessVars, tokenVars, assetState, hierarchyVars, grants, now>>

\* ASSET_TRANSFER: ownership and custody move together.
TransferAsset(caller, n, to) ==
    /\ CheckTransferAccess(caller, n)
    /\ Exists(n)
    /\ assetState[n] # "DECOMMISSIONED"
    /\ parent[n] = 0
    /\ IsActiveWallet(to)
    /\ owner[n] # to
    /\ owner' = [owner EXCEPT ![n] = to]
    /\ custodian' = [custodian EXCEPT ![n] = to]
    /\ Audit("AssetRegistry", caller, "ASSET", assetIdOf[n], "ASSET_TRANSFER")
    /\ UNCHANGED <<accessVars, tokenVars, assetState, hierarchyVars, grants, now>>

\* GRANT_CREATE / GRANT_REVOKE: one slot per token and wallet.
SetTransferGrant(caller, n, w, expiresAt, active, grantId) ==
    /\ CheckRoles("AssetRegistry", caller, MANAGE_ROLES)
    /\ Exists(n)
    /\ grants' = [grants EXCEPT ![n][w] = [expiresAt |-> expiresAt, active |-> active]]
    /\ Audit("AssetRegistry", caller, "GRANT", grantId,
             IF active THEN "GRANT_CREATE" ELSE "GRANT_REVOKE")
    /\ UNCHANGED <<accessVars, tokenVars, assetState, ownerVars, hierarchyVars, now>>

\* Faulty variant: a decommissioned asset is put back into service.
ChangeAssetStateBack(caller, n, to) ==
    /\ CheckRoles("AssetRegistry", caller, MANAGE_ASSET)
    /\ Exists(n)
    /\ assetState[n] # to
    /\ assetState' = [assetState EXCEPT ![n] = to]
    /\ Audit("AssetRegistry", caller, "ASSET", assetIdOf[n], "ASSET_STATE_CHANGE")
    /\ UNCHANGED <<accessVars, tokenVars, ownerVars, hierarchyVars, grants, now>>

\* ASSET_STATE_CHANGE: any change, except out of DECOMMISSIONED.
ChangeAssetState(caller, n, to) ==
    /\ CheckRoles("AssetRegistry", caller, MANAGE_ASSET)
    /\ Exists(n)
    /\ assetState[n] \notin {to, "DECOMMISSIONED"}
    /\ assetState' = [assetState EXCEPT ![n] = to]
    /\ Audit("AssetRegistry", caller, "ASSET", assetIdOf[n], "ASSET_STATE_CHANGE")
    /\ UNCHANGED <<accessVars, tokenVars, ownerVars, hierarchyVars, grants, now>>

-----------------------------------------------------------------------------
(* The component hierarchy.                                                *)

ClosedUpwards(S) == \A m \in S : parent[m] # 0 => parent[m] \in S

\* Faulty variant: the loop looks at the parent's parent only.
Grandparent(n) == IF parent[n] = 0 THEN {} ELSE {parent[n]}

\* The tokens the loop of attachComponent visits from n upwards: the least set
\* that holds n's parent and is closed under parent.
Ancestors(n) ==
    {m \in Nft : \A S \in SUBSET Nft :
        ClosedUpwards(S) /\ (parent[n] # 0 => parent[n] \in S) => m \in S}

\* COMPONENT_ATTACH
AttachComponent(caller, p, c) ==
    /\ CheckRoles("AssetRegistry", caller, MANAGE_ASSET)
    /\ p # c
    /\ Exists(p) /\ Exists(c)
    /\ assetState[p] # "DECOMMISSIONED"
    /\ assetState[c] # "DECOMMISSIONED"
    /\ parent[c] = 0
    /\ c \notin Ancestors(p)
    /\ parent' = [parent EXCEPT ![c] = p]
    /\ components' = [components EXCEPT ![p] = Append(@, c)]
    /\ componentIndex' = [componentIndex EXCEPT ![c] = Len(components[p]) + 1]
    /\ Audit("AssetRegistry", caller, "ASSET", assetIdOf[c], "COMPONENT_ATTACH")
    /\ UNCHANGED <<accessVars, tokenVars, assetState, ownerVars, grants, now>>

\* Faulty variant: the slot is deleted and stays in the list as a zero.
SwapWithoutPop(list, idx) == [list EXCEPT ![idx] = 0]

\* The list with its last element moved to position idx and the end cut off.
SwapAndPop(list, idx) ==
    [i \in 1..(Len(list) - 1) |-> IF i = idx THEN list[Len(list)] ELSE list[i]]

\* Faulty variant: the moved element keeps its old index.
ReindexLastForgotten(p, c) == [componentIndex EXCEPT ![c] = 0]

\* _componentIndex[last] = idx + 1, then delete _componentIndex[component]; when
\* the component is itself the last one the second write wins.
ReindexAfterRemoval(p, c) ==
    [componentIndex EXCEPT ![components[p][Len(components[p])]] = componentIndex[c],
                           ![c] = 0]

\* COMPONENT_REMOVE: swap and pop.
RemoveComponent(caller, p, c) ==
    /\ CheckRoles("AssetRegistry", caller, MANAGE_ASSET)
    /\ Exists(p) /\ Exists(c)
    /\ parent[c] = p
    /\ components' = [components EXCEPT ![p] = SwapAndPop(@, componentIndex[c])]
    /\ componentIndex' = ReindexAfterRemoval(p, c)
    /\ parent' = [parent EXCEPT ![c] = 0]
    /\ Audit("AssetRegistry", caller, "ASSET", assetIdOf[c], "COMPONENT_REMOVE")
    /\ UNCHANGED <<accessVars, tokenVars, assetState, ownerVars, grants, now>>

\* A later block: timestamps grow.
Tick ==
    /\ now < MaxTime
    /\ now' = now + 1
    /\ UNCHANGED <<accessVars, log, tokenVars, assetState, ownerVars,
                   hierarchyVars, grants>>

-----------------------------------------------------------------------------

\* The state Deploy.s.sol leaves: every registry wired, no token minted.
AssetInit ==
    /\ AccessInit
    /\ wired = Registry
    /\ nextId = 1
    /\ idByAssetId = [a \in AssetId |-> 0]
    /\ assetIdOf = [n \in Nft |-> NoAssetId]
    /\ assetState = [n \in Nft |-> "NONE"]
    /\ custodian = [n \in Nft |-> NoWallet]
    /\ owner = [n \in Nft |-> NoWallet]
    /\ parent = [n \in Nft |-> 0]
    /\ components = [n \in Nft |-> <<>>]
    /\ componentIndex = [n \in Nft |-> 0]
    /\ grants = [n \in Nft |-> [w \in Wallet |-> NoGrant]]
    /\ now = 0

AssetTransaction(caller) ==
    \/ \E assetId \in AssetId, to \in Wallet : MintAsset(caller, assetId, to)
    \/ \E n \in Nft :
          \/ \E to \in Wallet : TransferAsset(caller, n, to)
          \/ \E w \in GrantActor, expiresAt \in GrantExpiry,
                active \in BOOLEAN, grantId \in GrantId :
                SetTransferGrant(caller, n, w, expiresAt, active, grantId)
          \/ \E to \in AssetState \ {"NONE"} : ChangeAssetState(caller, n, to)
          \/ \E c \in Nft : AttachComponent(caller, n, c) \/ RemoveComponent(caller, n, c)

AssetNext ==
    \/ \E caller \in Wallet : AssetTransaction(caller)
    \/ AccessNext /\ UNCHANGED assetVars
    \/ Tick

allAssetVars == <<accessVars, log, assetVars>>

AssetSpec == AssetInit /\ [][AssetNext]_allAssetVars

-----------------------------------------------------------------------------
(* Properties.                                                             *)

\* Every AssetRegistry mapping has the type of its declaration.
AssetTypeOK ==
    /\ nextId \in 1..(MaxNft + 1)
    /\ idByAssetId \in [AssetId -> Nft \cup {0}]
    /\ assetIdOf \in [Nft -> AssetId \cup {NoAssetId}]
    /\ assetState \in [Nft -> AssetState]
    /\ custodian \in [Nft -> Wallet \cup {NoWallet}]
    /\ owner \in [Nft -> Wallet \cup {NoWallet}]
    /\ parent \in [Nft -> Nft \cup {0}]
    /\ components \in [Nft -> Seq(Nft)]
    /\ componentIndex \in [Nft -> Nat]
    /\ grants \in [Nft -> [Wallet -> [expiresAt : Nat, active : BOOLEAN]]]
    /\ now \in Nat

\* attachComponent's ancestor loop keeps the hierarchy a forest: no set of
\* tokens is closed under parent, whatever is attached, removed and attached
\* again.  The loop itself terminates because of this.
HierarchyAcyclic ==
    \A S \in SUBSET Nft : S # {} => \E n \in S : parent[n] \notin S

\* parent, _components and _componentIndex describe the same hierarchy through
\* every swap-and-pop: a component stands at its index in its parent's list,
\* and a list holds nothing else.
ComponentListsExact ==
    \A p \in Nft :
        /\ \A c \in Nft : parent[c] = p =>
              /\ componentIndex[c] \in 1..Len(components[p])
              /\ components[p][componentIndex[c]] = c
        /\ \A i \in 1..Len(components[p]) :
              /\ parent[components[p][i]] = p
              /\ componentIndex[components[p][i]] = i

\* Token ids and asset ids are in bijection, and the minted tokens are exactly
\* those below _nextId: an asset id is never minted twice.
AssetIdsUnique ==
    /\ \A n \in Nft : Exists(n) <=> n < nextId
    /\ \A n \in Nft : Exists(n) =>
          assetIdOf[n] \in AssetId /\ idByAssetId[assetIdOf[n]] = n
    /\ \A a \in AssetId : idByAssetId[a] # 0 =>
          Exists(idByAssetId[a]) /\ assetIdOf[idByAssetId[a]] = a

\* Custody follows ownership, and the owner is a wallet that was registered
\* and resolves to an identity even after it is revoked (the promise of the
\* comment on _requireActiveRecipient).
OwnersResolvable ==
    \A n \in Nft : Exists(n) =>
        /\ owner[n] \in Wallet
        /\ custodian[n] = owner[n]
        /\ IdentityOf(owner[n]) \in Identity

TransferStep ==
    \A n \in Nft : Exists(n) /\ owner'[n] # owner[n] =>
        LET a == log'[Len(log) + 1].actor IN
        /\ assetState[n] # "DECOMMISSIONED"
        /\ parent[n] = 0
        /\ status[owner'[n]] = "ACTIVE"
        /\ status[a] = "ACTIVE"
        /\ IF "ENGINEER" \in RolesOf(a)
           THEN /\ grants[n][a].active
                /\ grants[n][a].expiresAt = 0 \/ grants[n][a].expiresAt > now
           ELSE RolesOf(a) \cap {"ADMIN", "MANAGER"} # {}

\* A token changes hands only loose and in service, to an ACTIVE wallet, in a
\* transaction of an ACTIVE wallet; an ENGINEER needs a grant for that token
\* that is active and unexpired in that block (RBAC matrix, AUTH cell).
TransfersAuthorised == [][TransferStep]_allAssetVars

-----------------------------------------------------------------------------
(* The abstract specification, by asset id.                                *)

ItemOf(n) ==
    [holder |-> owner[n], state |-> assetState[n],
     parent |-> IF parent[n] = 0 THEN NoAssetId ELSE assetIdOf[parent[n]]]

\* Each asset as the abstract specification sees it, found by its asset id.
AssetItems ==
    [a \in AssetId |->
        IF idByAssetId[a] = 0
        THEN [holder |-> NoAssetId, state |-> "NONE", parent |-> NoAssetId]
        ELSE ItemOf(idByAssetId[a])]

OfAssets == INSTANCE AssetLifecycle
    WITH Asset <- AssetId, Holder <- Wallet, Nothing <- NoAssetId, item <- AssetItems

\* The registry implements AssetLifecycle: minted, transferred, put out of
\* service and attached through tokens, wallets and lists, the assets behave as
\* that specification says, and every other transaction leaves them alone.
ImplementsAssetLifecycle == OfAssets!LifecycleSpec
=============================================================================
