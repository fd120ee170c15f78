\* assets_service: rows against the chain, and the checks against the contract's.
CONSTANTS
    Asset = {a1, a2, a3}
    Holder = {h1, h2}
    Nothing = Nothing
    FirstHolder = h1
    Setting <- MCSetting
    Slot = {s1, s2}
SPECIFICATION AssetsSpec
SYMMETRY MCSymmetry
INVARIANTS
    RowSettles
    CheckedIsAllowed
