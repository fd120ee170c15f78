---------------------------- MODULE JobLifecycle ----------------------------
(***************************************************************************)
(* What a maintenance job promises, in terms of people alone: no wallets,  *)
(* roles, registries or assets.  A job is worked on by the person it is    *)
(* assigned to, is judged by somebody else, goes back to assignment when   *)
(* the work is rejected and ends when it is verified.                      *)
(***************************************************************************)
CONSTANTS JobId, Person, Nobody

VARIABLES
    phase,      \* where each job stands
    assignee,   \* the person it is assigned to
    worker,     \* the person who handed in the last work
    judge       \* the person who decided on it last

lifecycleVars == <<phase, assignee, worker, judge>>

LifecycleInit ==
    /\ phase = [j \in JobId |-> "NONE"]
    /\ assignee = [j \in JobId |-> Nobody]
    /\ worker = [j \in JobId |-> Nobody]
    /\ judge = [j \in JobId |-> Nobody]

Move(j, from, to) == phase[j] \in from /\ phase' = [phase EXCEPT ![j] = to]

Create(j) ==
    /\ Move(j, {"NONE"}, "CREATED")
    /\ UNCHANGED <<assignee, worker, judge>>

Assign(j, p) ==
    /\ Move(j, {"CREATED", "REJECTED"}, "ASSIGNED")
    /\ assignee' = [assignee EXCEPT ![j] = p]
    /\ UNCHANGED <<worker, judge>>

\* Only the assignee works on the job.
Start(j, p) ==
    /\ Move(j, {"ASSIGNED"}, "IN_PROGRESS")
    /\ p = assignee[j]
    /\ UNCHANGED <<assignee, worker, judge>>

Complete(j, p) ==
    /\ Move(j, {"IN_PROGRESS"}, "COMPLETED")
    /\ p = assignee[j]
    /\ worker' = [worker EXCEPT ![j] = p]
    /\ UNCHANGED <<assignee, judge>>

\* Nobody decides on their own work.
Approve(j, p) ==
    /\ Move(j, {"COMPLETED"}, "VERIFIED")
    /\ p # worker[j]
    /\ judge' = [judge EXCEPT ![j] = p]
    /\ UNCHANGED <<assignee, worker>>

Reject(j, p) ==
    /\ Move(j, {"COMPLETED"}, "REJECTED")
    /\ p # worker[j]
    /\ judge' = [judge EXCEPT ![j] = p]
    /\ UNCHANGED <<assignee, worker>>

LifecycleNext ==
    \E j \in JobId :
        \/ Create(j)
        \/ \E p \in Person :
              Assign(j, p) \/ Start(j, p) \/ Complete(j, p) \/ Approve(j, p) \/ Reject(j, p)

LifecycleSpec == LifecycleInit /\ [][LifecycleNext]_lifecycleVars
=============================================================================
