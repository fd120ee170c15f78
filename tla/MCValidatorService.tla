------------------------- MODULE MCValidatorService -------------------------
(* One validator to manage beside the bootstrap one, one administrator.     *)
EXTENDS ValidatorService, TLC

CONSTANTS w1, d1, b1, v1

MCSymmetry == Permutations(Person) \cup Permutations(Slot)

\* Bounds: transactions nobody waits for, and requests that broke off or missed
\* their receipt, over the whole run.  A request for the bootstrap validator ends
\* at the contract's refusal; those for v1 are enough.
MaxPool     == 1
MaxFailures == 2

Bounded ==
    /\ Cardinality(pool) <= MaxPool
    /\ lost[v1] + unsaved[v1] + unrecorded[v1] + untold[v1] <= MaxFailures
    /\ \A s \in Slot : req[s] # Idle => req[s].v = v1

\* The access state does not change here, and the audit log is write-only.
MCView == <<validatorVars, serviceVars>>
=============================================================================
