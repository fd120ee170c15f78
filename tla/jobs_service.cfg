\* jobs_service: database row against chain under races, timeouts and crashes.
CONSTANTS
    p1 = p1
    p2 = p2
    j1 = j1
    s1 = s1
    s2 = s2
    JobId = {j1}
    Person = {p1, p2}
    Nobody = Nobody
    Slot = {s1, s2}
    Preselected = {Nobody, p1, p2}
SPECIFICATION ServiceSpec
INVARIANTS
    RowMirrorsChain
    VerifiedIsVerified
PROPERTIES
    RequestsAnswered
\* A verified job is finished.
CHECK_DEADLOCK FALSE
