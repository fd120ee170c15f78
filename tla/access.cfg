\* access: identities, wallets, roles and the audit log from deployment on.
CONSTANTS
    w1 = w1
    w2 = w2
    w3 = w3
    w4 = w4
    d1 = d1
    d2 = d2
    Wallet <- MCWallet
    Identity <- MCIdentity
    NoIdentity = NoIdentity
    BootstrapWallet = w1
    BootstrapDid = d1
    AssignableRole = {"ADMIN", "ISSUER"}
SPECIFICATION MCSpec
VIEW View
INVARIANTS
    TypeOK
    AdminCountExact
    WalletLinks
    RolesOnlyOfKnown
    GatesMatchChain
PROPERTIES
    WalletLifecycle
    ChangesAccountable
\* Once the last administrator's wallet is revoked nobody can act.
CHECK_DEADLOCK FALSE
