\* transfers: transfers and validators while wallets, roles and grants change.
CONSTANTS
    w1 = w1
    w2 = w2
    d1 = d1
    d2 = d2
    a1 = a1
    a2 = a2
    a3 = a3
    a4 = a4
    Wallet <- TwoWallets
    Identity <- MCIdentity
    NoIdentity = NoIdentity
    BootstrapWallet = w1
    BootstrapDid = d1
    AssignableRole = {"ENGINEER"}
    AssetId = {a1, a2}
    NoAssetId = NoAssetId
    NoWallet = NoWallet
    GrantId = {g1}
    g1 = g1
    GrantActor = {w2}
    GrantExpiry = {0, 1}
    MaxNft = 2
    MaxTime = 1
    b1 = b1
    v1 = v1
    v2 = v2
    Validator = {b1, v1, v2}
    Bootstrap = {b1}
    MinimumPopulation = 1
    MaxHeight = 3
SPECIFICATION MCSpec
VIEW View
SYMMETRY MCSymmetry
INVARIANTS
    OwnersResolvable
PROPERTIES
    TransfersAuthorised
    ValidatorsAccountable
\* The only administrator may revoke its own wallet.
CHECK_DEADLOCK FALSE
