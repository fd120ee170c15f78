\* registries: the component forest of four tokens and overlapping schedules of
\* validators, one wallet acting.
CONSTANTS
    w1 = w1
    w2 = w2
    d1 = d1
    d2 = d2
    a1 = a1
    a2 = a2
    a3 = a3
    a4 = a4
    g1 = g1
    Wallet = {w1}
    Identity = {d1}
    NoIdentity = NoIdentity
    BootstrapWallet = w1
    BootstrapDid = d1
    AssignableRole = {}
    AssetId = {a1, a2, a3, a4}
    NoAssetId = NoAssetId
    NoWallet = NoWallet
    GrantId = {}
    GrantActor = {}
    GrantExpiry = {}
    MaxNft = 4
    MaxTime = 0
    b1 = b1
    v1 = v1
    v2 = v2
    Validator = {b1, v1, v2}
    Bootstrap = {b1}
    MinimumPopulation = 1
    MaxHeight = 5
SPECIFICATION MCSpec
VIEW View
SYMMETRY MCSymmetry
INVARIANTS
    AssetTypeOK
    HierarchyAcyclic
    ComponentListsExact
    AssetIdsUnique
    CountExact
PROPERTIES
    ImplementsAssetLifecycle
    ChangesAnnounced
\* The only administrator may revoke its own wallet.
CHECK_DEADLOCK FALSE
