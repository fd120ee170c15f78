------------------------------ MODULE MCUsers -------------------------------
(* An administrator, and someone who registers, or is an employee already    *)
(* and gets another device.  Requests overlap in the second case.            *)
EXTENDS UsersService

CONSTANTS adm, emp, a1, e1, e2

MCHolderOf == [w \in Wallet |-> IF w = a1 THEN adm ELSE emp]
MCSeedRole == [i \in Identity |-> IF i = adm THEN "ADMIN" ELSE "ENGINEER"]
MCRoles    == <<"ADMIN", "ENGINEER">>
MCTogether == [S \in Seeding |-> IF S = {a1} THEN 1 ELSE 2]

\* Requests are interchangeable.
MCSymmetry == Permutations(Slot)
=============================================================================
