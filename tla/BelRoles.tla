------------------------------ MODULE BelRoles ------------------------------
(***************************************************************************)
(* The on-chain permission masks (contracts/src/BelRoles.sol).  A bit mask *)
(* over the enumeration IRoleRegistry.Role is modelled by the set of roles *)
(* whose bits are set; "mask & roles != 0" is then a non-empty             *)
(* intersection.                                                           *)
(***************************************************************************)

\* IRoleRegistry.Role
Role == {"ADMIN", "MANAGER", "ENGINEER", "TECHNICIAN", "AUDITOR", "ISSUER",
         "VERIFIER"}

\* One mask per row of docs/RBAC_MATRIX.md, then the two rows the contracts add.
CREATE_EMPLOYEE     == {"ADMIN"}
REVOKE_WALLET       == {"ADMIN"}
ACTIVATE_WALLET     == {"ADMIN", "ISSUER"}
REGISTER_ASSET      == {"ADMIN", "MANAGER", "ENGINEER", "ISSUER"}
CREATE_JOB          == {"MANAGER", "ENGINEER"}
ASSIGN_TECHNICIAN   == {"MANAGER", "ENGINEER"}
PERFORM_MAINTENANCE == {"ENGINEER", "TECHNICIAN"}
VERIFY_MAINTENANCE  == {"MANAGER", "ENGINEER", "AUDITOR", "VERIFIER"}
TRANSFER_ASSET      == {"ADMIN", "MANAGER"}
MANAGE_ROLES        == {"ADMIN"}
MANAGE_ASSET        == REGISTER_ASSET
=============================================================================
