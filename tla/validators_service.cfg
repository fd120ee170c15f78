\* validators_service: rows, history and notices, two requests at a time.
CONSTANTS
    w1 = w1
    d1 = d1
    b1 = b1
    v1 = v1
    Wallet = {w1}
    Identity = {d1}
    NoIdentity = NoIdentity
    BootstrapWallet = w1
    BootstrapDid = d1
    AssignableRole = {"ADMIN"}
    Validator = {b1, v1}
    Bootstrap = {b1}
    MinimumPopulation = 1
    MaxHeight = 2
    Person = {p1, p2}
    Slot = {s1, s2}
    MaxEvents = 4
SPECIFICATION ServiceSpec
VIEW MCView
CONSTRAINT Bounded
SYMMETRY MCSymmetry
INVARIANTS
    RowProjectsChain
    HistoryAndNotices
