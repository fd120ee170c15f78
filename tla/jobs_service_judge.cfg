\* jobs_service_judge: a completed job that the service lets nobody judge.
CONSTANTS
    p1 = p1
    p2 = p2
    j1 = j1
    s1 = s1
    s2 = s2
    JobId = {j1}
    Person = {p1, p2}
    Nobody = Nobody
    Slot = {s1, s2}
    Preselected = {Nobody}
SPECIFICATION ServiceSpec
INVARIANTS
    CompletedCanBeJudged
\* A verified job is finished.
CHECK_DEADLOCK FALSE
