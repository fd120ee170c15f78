\* users: registration, roles, devices and wallets, with failures at every await.
CONSTANTS
    adm = adm
    emp = emp
    a1 = a1
    e1 = e1
    e2 = e2
    Identity = {adm, emp}
    Wallet = {a1, e1, e2}
    HolderOf <- MCHolderOf
    RoleOrder <- MCRoles
    Seeding = {{a1}, {a1, e1}}
    SeedRole <- MCSeedRole
    Slot = {s1, s2}
    Together <- MCTogether
    None = None
SPECIFICATION UsersSpec
SYMMETRY MCSymmetry
INVARIANTS
    RowsNotAhead
\* Every administrator may lose its wallet.
CHECK_DEADLOCK FALSE
