---------------------------- MODULE RoleRegistry ----------------------------
(***************************************************************************)
(* contracts/src/RoleRegistry.sol: the roles of an identity, shared by all *)
(* of its wallets, and the count that protects the last ADMIN.  Both calls *)
(* name a wallet of the identity, of any status.                           *)
(***************************************************************************)
EXTENDS BelAccess, Integers

\* Faulty variant: assigning ADMIN to an identity that holds it counts twice.
AssignRoleTwice(caller, w, role) ==
    LET did == IdentityOf(w) IN
    /\ CheckRoles("RoleRegistry", caller, MANAGE_ROLES)
    /\ did # NoIdentity
    /\ roles' = [roles EXCEPT ![did] = @ \cup {role}]
    /\ adminCount' = IF role = "ADMIN" THEN adminCount + 1 ELSE adminCount
    /\ Audit("RoleRegistry", caller, "IDENTITY", did, "ROLE_ASSIGN")
    /\ UNCHANGED <<wired, identityVars>>

\* ROLE_ASSIGN
AssignRole(caller, w, role) ==
    LET did == IdentityOf(w) IN
    /\ CheckRoles("RoleRegistry", caller, MANAGE_ROLES)
    /\ did # NoIdentity
    /\ role \notin roles[did]
    /\ roles' = [roles EXCEPT ![did] = @ \cup {role}]
    /\ adminCount' = IF role = "ADMIN" THEN adminCount + 1 ELSE adminCount
    /\ Audit("RoleRegistry", caller, "IDENTITY", did, "ROLE_ASSIGN")
    /\ UNCHANGED <<wired, identityVars>>

\* Faulty variant: a role the identity does not hold is revoked as well, and
\* the last ADMIN is not protected.
RevokeRoleUnchecked(caller, w, role) ==
    LET did == IdentityOf(w) IN
    /\ CheckRoles("RoleRegistry", caller, MANAGE_ROLES)
    /\ did # NoIdentity
    /\ adminCount' = IF role = "ADMIN" THEN adminCount - 1 ELSE adminCount
    /\ roles' = [roles EXCEPT ![did] = @ \ {role}]
    /\ Audit("RoleRegistry", caller, "IDENTITY", did, "ROLE_REVOKE")
    /\ UNCHANGED <<wired, identityVars>>

\* ROLE_REVOKE: the LastAdmin error when it is the only ADMIN's.
RevokeRole(caller, w, role) ==
    LET did == IdentityOf(w) IN
    /\ CheckRoles("RoleRegistry", caller, MANAGE_ROLES)
    /\ did # NoIdentity
    /\ role \in roles[did]
    /\ role = "ADMIN" => adminCount # 1
    /\ adminCount' = IF role = "ADMIN" THEN adminCount - 1 ELSE adminCount
    /\ roles' = [roles EXCEPT ![did] = @ \ {role}]
    /\ Audit("RoleRegistry", caller, "IDENTITY", did, "ROLE_REVOKE")
    /\ UNCHANGED <<wired, identityVars>>

\* The constructor gives ADMIN to the bootstrap identity.
RoleRegistryInit ==
    /\ roles = [d \in Identity |-> IF d = BootstrapDid THEN {"ADMIN"} ELSE {}]
    /\ adminCount = 1
=============================================================================
