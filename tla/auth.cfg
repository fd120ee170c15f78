\* auth: sessions and challenges while devices and wallets are revoked, and the
\* grants of an engineer whose wallet is replaced.
SPECIFICATION MCSpec
CONSTANTS
    w1 = w1
    w2 = w2
    Device = {d1}
    Key = {k1, k2}
    DeviceOf <- MCDeviceOf
    Token = {t1}
    Challenge = {c1}
    Purpose = {p1, p2}
    Slot = {s1, s2}
    None = None
    Wallet = {w1, w2}
    Wallets <- MCWallets
    GrantId = {p1, p2}
    GrantSlot = {s1, s2}
    Expiry = {0, 2}
    MaxTime = 2
    Nobody = Nobody
INVARIANTS
    ChallengeSingleUse
    DeadSessionsServeNothing
    RevokedIsRevoked
VIEW View
SYMMETRY MCSymmetry
\* Challenges, tokens and grants run out.
CHECK_DEADLOCK FALSE
