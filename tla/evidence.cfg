SPECIFICATION EvidenceSpec
CONSTANTS
    small = small
    other = other
    large = large
    Job = {j1, j2}
    Person = {p1}
    Viewer = {}
    EvidenceId = {i1}
    Content = {small, large}
    SizeOf <- MCSizeOf
    MaxFileSize = 2
    Slot = {s1, s2}
    None = None
INVARIANTS
    ServedIntact
    CompletedWithOwnEvidence
SYMMETRY MCSymmetry
CHECK_DEADLOCK FALSE
