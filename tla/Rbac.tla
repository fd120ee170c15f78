-------------------------------- MODULE Rbac --------------------------------
(***************************************************************************)
(* The permission matrix of shared/rbac, the middleware that gates a route *)
(* with it, the gate of every mutating route, and the contract calls the   *)
(* handler behind the gate makes.  The chain's masks are those of BelRoles.*)
(* A request is a route, the role in the row of the session's user, the    *)
(* roles the identity holds on the chain, and whether the row and the slot *)
(* of the contract hold a valid transfer grant of the user for the asset.  *)
(***************************************************************************)
EXTENDS BelRoles

VARIABLE request    \* the request at the gate

Action == {"CREATE_EMPLOYEE", "REVOKE_WALLET", "ACTIVATE_WALLET", "REGISTER_ASSET",
            "CREATE_JOB", "ASSIGN_TECHNICIAN", "PERFORM_MAINTENANCE",
            "VERIFY_MAINTENANCE", "TRANSFER_ASSET", "VIEW_AUDIT_HISTORY",
            "VIEW_VALIDATOR_STATUS", "MANAGE_VALIDATORS"}

\* The roles of the ALLOW cells of each row; the rest is DENY but for one AUTH
\* cell and one OWN cell.
AllowCells ==
    [CREATE_EMPLOYEE       |-> {"ADMIN"},
     REVOKE_WALLET         |-> {"ADMIN"},
     ACTIVATE_WALLET       |-> {"ADMIN", "ISSUER"},
     REGISTER_ASSET        |-> {"ADMIN", "MANAGER", "ENGINEER", "ISSUER"},
     CREATE_JOB            |-> {"MANAGER", "ENGINEER"},
     ASSIGN_TECHNICIAN     |-> {"MANAGER", "ENGINEER"},
     PERFORM_MAINTENANCE   |-> {"ENGINEER", "TECHNICIAN"},
     VERIFY_MAINTENANCE    |-> {"MANAGER", "ENGINEER", "AUDITOR", "VERIFIER"},
     TRANSFER_ASSET        |-> {"ADMIN", "MANAGER"},
     VIEW_AUDIT_HISTORY    |-> Role \ {"TECHNICIAN", "ISSUER"},
     VIEW_VALIDATOR_STATUS |-> Role,
     MANAGE_VALIDATORS     |-> {"ADMIN"}]

\* Faulty variant: the AUTH cell of the matrix is an ALLOW cell.
MatrixWithoutAuth ==
    [a \in Action |-> [r \in Role |->
        CASE r \in AllowCells[a]                                   -> "ALLOW"
          [] a = "TRANSFER_ASSET" /\ r = "ENGINEER"                -> "ALLOW"
          [] a = "VIEW_AUDIT_HISTORY" /\ r = "TECHNICIAN"          -> "OWN"
          [] OTHER                                                 -> "DENY"]]

RBAC_MATRIX ==
    [a \in Action |-> [r \in Role |->
        CASE r \in AllowCells[a]                                   -> "ALLOW"
          [] a = "TRANSFER_ASSET" /\ r = "ENGINEER"                -> "AUTH"
          [] a = "VIEW_AUDIT_HISTORY" /\ r = "TECHNICIAN"          -> "OWN"
          [] OTHER                                                 -> "DENY"]]

\* can(): a context is what the route's resolver knows of the request; "" is
\* undefined.
Can(role, action, ctx) ==
    CASE RBAC_MATRIX[action][role] = "ALLOW" -> TRUE
      [] RBAC_MATRIX[action][role] = "DENY"  -> FALSE
      [] RBAC_MATRIX[action][role] = "AUTH"  ->
             ctx.explicitlyAuthorized /\ ctx.authorizationGrantId # ""
      [] RBAC_MATRIX[action][role] = "OWN"   ->
             ctx.resourceOwnerId # "" /\ ctx.actorId = ctx.resourceOwnerId

-----------------------------------------------------------------------------
(* The routes.                                                             *)

\* requirePermission(action) of each mutating route, router by router; the
\* prepare routes make the transaction a device signs for the route they name.
UserRoutes ==
    [createUser |-> "CREATE_EMPLOYEE", revokeWallet |-> "REVOKE_WALLET",
     activateWallet |-> "ACTIVATE_WALLET", registerWallet |-> "ACTIVATE_WALLET",
     registerDevice |-> "CREATE_EMPLOYEE", revokeDevice |-> "REVOKE_WALLET",
     assignRole |-> "CREATE_EMPLOYEE", revokeGrant |-> "CREATE_EMPLOYEE"]

AssetRoutes ==
    [createAsset |-> "REGISTER_ASSET", prepareAsset |-> "REGISTER_ASSET",
     transfer |-> "TRANSFER_ASSET", prepareTransfer |-> "TRANSFER_ASSET",
     changeState |-> "REGISTER_ASSET", prepareState |-> "REGISTER_ASSET",
     attachComponent |-> "REGISTER_ASSET", prepareAttach |-> "REGISTER_ASSET",
     removeComponent |-> "REGISTER_ASSET", prepareRemove |-> "REGISTER_ASSET"]

JobRoutes ==
    [createJob |-> "CREATE_JOB", prepareJob |-> "CREATE_JOB",
     assign |-> "ASSIGN_TECHNICIAN", prepareAssign |-> "ASSIGN_TECHNICIAN",
     start |-> "PERFORM_MAINTENANCE", prepareStart |-> "PERFORM_MAINTENANCE",
     complete |-> "PERFORM_MAINTENANCE", prepareComplete |-> "PERFORM_MAINTENANCE",
     approve |-> "VERIFY_MAINTENANCE", prepareApprove |-> "VERIFY_MAINTENANCE",
     reject |-> "VERIFY_MAINTENANCE", prepareReject |-> "VERIFY_MAINTENANCE"]

EvidenceRoutes  == [uploadEvidence |-> "PERFORM_MAINTENANCE"]
ValidatorRoutes == [validators |-> "MANAGE_VALIDATORS"]

RouteAction(r) ==
    CASE r \in DOMAIN UserRoutes      -> UserRoutes[r]
      [] r \in DOMAIN AssetRoutes     -> AssetRoutes[r]
      [] r \in DOMAIN JobRoutes       -> JobRoutes[r]
      [] r \in DOMAIN EvidenceRoutes  -> EvidenceRoutes[r]
      [] r \in DOMAIN ValidatorRoutes -> ValidatorRoutes[r]

\* The routes behind requireRole("ADMIN").
AdminRoute == {"verifyRegistration", "activateRegistration", "createGrant"}
Route      == DOMAIN UserRoutes \cup DOMAIN AssetRoutes \cup DOMAIN JobRoutes
                \cup DOMAIN EvidenceRoutes \cup DOMAIN ValidatorRoutes \cup AdminRoute

\* The context each route's resolver builds.  A transfer looks the grants of
\* the user up and passes on the one that is valid; the prepare route passes on
\* that there is one, not which.  (The owner of the asset is passed on, too: only
\* an OWN cell looks at it, and no mutating route has one.)
Context(route, grant) ==
    [actorId |-> "me", resourceOwnerId |-> "",
     explicitlyAuthorized |-> route \in {"transfer", "prepareTransfer"} /\ grant,
     authorizationGrantId |-> IF route = "transfer" /\ grant THEN "grant" ELSE ""]

RequireRole(role, allowed)      == role \in allowed
RequirePermission(role, r, grant) == Can(role, RouteAction(r), Context(r, grant))

Gate(r, role, grant) ==
    IF r \in AdminRoute THEN RequireRole(role, {"ADMIN"})
    ELSE RequirePermission(role, r, grant)

\* The masks of the contract calls the handler may have to make, all signed by
\* the user of the request; the other handlers make none.  A transfer is checked
\* by _checkTransferAccess.
HandlerCalls ==
    [createUser |-> {MANAGE_ROLES}, revokeWallet |-> {REVOKE_WALLET},
     activateWallet |-> {REVOKE_WALLET, CREATE_EMPLOYEE, ACTIVATE_WALLET},
     revokeDevice |-> {REVOKE_WALLET},
     assignRole |-> {MANAGE_ROLES}, revokeGrant |-> {MANAGE_ROLES},
     createAsset |-> {REGISTER_ASSET},
     changeState |-> {MANAGE_ASSET}, attachComponent |-> {MANAGE_ASSET},
     removeComponent |-> {MANAGE_ASSET}, createJob |-> {CREATE_JOB},
     assign |-> {ASSIGN_TECHNICIAN}, start |-> {PERFORM_MAINTENANCE},
     complete |-> {PERFORM_MAINTENANCE},
     approve |-> {VERIFY_MAINTENANCE}, reject |-> {VERIFY_MAINTENANCE},
     validators |-> {{"ADMIN"}}, createGrant |-> {MANAGE_ROLES},
     activateRegistration |-> {CREATE_EMPLOYEE, MANAGE_ROLES, ACTIVATE_WALLET}]

ChainCalls(r) == IF r \in DOMAIN HandlerCalls THEN HandlerCalls[r] ELSE {}

\* AssetRegistry._checkTransferAccess: whoever is an ENGINEER, whatever else,
\* needs an active grant in the slot of the contract.
TransferAccess(held, slot) ==
    IF "ENGINEER" \in held THEN slot ELSE held \cap TRANSFER_ASSET # {}

ChainAccepts(r, held, slot) ==
    /\ \A mask \in ChainCalls(r) : held \cap mask # {}
    /\ r = "transfer" => TransferAccess(held, slot)

-----------------------------------------------------------------------------
\* assignRole saves the row after the chain has added the role, and takes no
\* earlier role away there: the row's role is one of those the chain knows.  The
\* row of a grant and its slot are written one after the other, and a slot is
\* of one wallet: either may be there without the other.
Request == {q \in [route : Route, role : Role, held : SUBSET Role,
                   grant : BOOLEAN, slot : BOOLEAN] : q.role \in q.held}
NoRequest == [route |-> "none"]

RbacInit == request = NoRequest
Arrive   == request = NoRequest /\ request' \in Request

\* The request is at route r, passes the gate, would be served by the chain.
At(r)    == request # NoRequest /\ request.route = r
Passes   == Gate(request.route, request.role, request.grant)
IsServed == ChainAccepts(request.route, request.held, request.slot)

\* The database and the chain know the same of the user.
InStep == request.held = {request.role} /\ request.grant = request.slot

-----------------------------------------------------------------------------
(* Properties.                                                             *)

\* auth/rbac.middleware.ts: "Smart contracts enforce it again independently;
\* the two must never drift".  What the gate of a route lets through, every
\* contract call behind it accepts whatever further roles the chain knows of the
\* user, so that nobody passes the backend only to be refused half-way through a
\* handler's transactions.  A transfer is so only while row and chain are in
\* step (see PromotedCanTransfer); wallet activation is left to ActivationServed.
GateServedByChain ==
    /\ request # NoRequest /\ ~At("activateWallet") /\ ~At("transfer") /\ Passes => IsServed
    /\ At("transfer") /\ InStep /\ Passes => IsServed

\* The other direction, where a drift of the tables would lock people out: a
\* transaction of one call that the chain would accept from a user it is in step
\* with, the backend does not refuse.
ChainReachable ==
    (\E r \in {"createAsset", "transfer", "changeState", "attachComponent",
               "removeComponent", "createJob", "assign", "start", "complete",
               "approve", "reject", "validators", "revokeWallet", "assignRole"} : At(r))
        => (InStep /\ IsServed => Passes)

\* Both: the table of the backend and the masks of the contracts say the same of
\* every request that changes something.
GatesMatchChain == GateServedByChain /\ ChainReachable

-----------------------------------------------------------------------------
(* Statements of the documentation that do not hold (see the README).      *)

\* docs/RBAC_MATRIX.md: ISSUER "covers wallet activation".  The route lets an
\* ISSUER through, but the handler first revokes the identity's other wallets
\* and registers the new one, which the contracts allow to an ADMIN only.
ActivationServed == At("activateWallet") /\ Passes => IsServed

\* docs/RBAC_MATRIX.md gives a MANAGER the transfer without a grant.  An ENGINEER
\* promoted to MANAGER stays an ENGINEER on the chain, which asks for a grant
\* first: the gate lets the transfer through and the contract refuses it.
PromotedCanTransfer ==
    At("transfer") /\ request.grant = request.slot /\ Passes => IsServed

\* A device-signed transfer is prepared first.  Whoever may make the transfer
\* may have it prepared; but the prepare route drops the id of the grant that
\* an AUTH cell needs, so an ENGINEER with a valid grant is refused there.
TransferCanBePrepared ==
    At("transfer") /\ Passes => Gate("prepareTransfer", request.role, request.grant)
=============================================================================
