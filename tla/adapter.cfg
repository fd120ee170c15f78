\* adapter: queued sends and device-signed transactions.
CONSTANTS
    a1 = a1
    a2 = a2
    a3 = a3
    wa = wa
    p = p
    q = q
    w1 = w1
    w2 = w2
    w3 = w3
    Send = {a1, a2, a3}
    Wallet = {wa}
    WalletOf <- MCWalletOf
    MaxNonce = 3
    None = None
    Party = {p, q}
    PartyWallet = {w1, w2, w3}
    WalletsOf <- MCWalletsOf
    Actor = {admin, engineer}
    Types = {"ASSET_MINT", "ASSET_TRANSFER", "ASSET_STATE_CHANGE"}
    Slot = {s1}
    MaxSigned = 2
    Nil = Nil
SPECIFICATION MCSpec
INVARIANTS
    OneSenderPerWallet
    FirstComeFirstServed
    NonceNotShared
    RelayedAsAsked
PROPERTIES
    CallersAnswered
\* Every send of the instance may be over.
CHECK_DEADLOCK FALSE
