\* jobs: one job, its wallets revoked and replaced underneath it.
CONSTANTS
    w1 = w1
    w2 = w2
    w3 = w3
    d1 = d1
    d2 = d2
    a1 = a1
    j1 = j1
    h1 = h1
    Wallet <- MCWallet
    Identity <- MCIdentity
    NoIdentity = NoIdentity
    BootstrapWallet = w1
    BootstrapDid = d1
    AssignableRole = {"ENGINEER", "VERIFIER"}
    AssetId = {a1}
    NoAssetId = NoAssetId
    NoWallet = NoWallet
    GrantId = {}
    GrantActor = {}
    GrantExpiry = {}
    MaxNft = 1
    MaxTime = 0
    JobId = {j1}
    Evidence = {h1}
    NoEvidence = NoEvidence
    MaxRejections = 1
SPECIFICATION JobSpec
VIEW View
SYMMETRY JobSymmetry
INVARIANTS
    JobTypeOK
    SeparationOfDuties
    AssigneeKnown
PROPERTIES
    JobsAccountable
    ImplementsLifecycle
\* The only administrator may revoke its own wallet.
CHECK_DEADLOCK FALSE
