----------------------------- MODULE MCEvidence -----------------------------
(* Two jobs of one technician; the late upload has two people and one job.   *)
EXTENDS EvidenceService, TLC

CONSTANTS small, other, large

\* `other` is as long as the limit, `large` one longer: a node may serve it,
\* nobody can upload it.
MCSizeOf == [c \in Content |-> CASE c = small -> 1 [] c = other -> 2 [] OTHER -> 3]

\* Requests, records and jobs are interchangeable.
MCSymmetry == Permutations(Slot) \cup Permutations(EvidenceId) \cup Permutations(Job)
=============================================================================
