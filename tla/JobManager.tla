----------------------------- MODULE JobManager -----------------------------
(***************************************************************************)
(* contracts/src/JobManager.sol: the maintenance jobs, on top of the asset *)
(* registry they read and of the identity and role registries, all of      *)
(* which go on changing between the transactions of a job.                 *)
(*                                                                         *)
(* Left out of a job record because the contract only writes them:         *)
(* createdBy, the timestamps and the text of the rejection reason.         *)
(***************************************************************************)
EXTENDS AssetRegistry

CONSTANTS
    JobId,
    Evidence,       \* the evidence hashes; NoEvidence is bytes32(0)
    NoEvidence,
    MaxRejections   \* bound: the largest rejectionCount

ASSUME JobAssumption ==
    /\ NoEvidence \notin Evidence
    /\ MaxRejections \in Nat

VARIABLES
    jobs,           \* _jobs
    completedBy     \* history: the identity whose wallet called completeJob last

jobVars == <<jobs, completedBy>>

JobStatus == {"NONE", "CREATED", "ASSIGNED", "IN_PROGRESS", "COMPLETED",
              "VERIFIED", "REJECTED"}

NoJob == [status |-> "NONE", assetNftId |-> 0, technician |-> NoWallet,
          technicianKey |-> NoIdentity, verifier |-> NoWallet,
          evidenceHash |-> NoEvidence, rejectionCount |-> 0]

JobAudit(caller, j, action) == Audit("JobManager", caller, "JOB", j, action)

-----------------------------------------------------------------------------
(* The transactions.                                                       *)

\* Faulty variant: the role alone decides who works on a job.
AnyTechnician(j, caller) == HasAnyRole(caller, PERFORM_MAINTENANCE)

\* _requireAssignee: by identity, so a replacement wallet may continue.
RequireAssignee(j, caller) == IdentityOf(caller) = jobs[j].technicianKey

\* Faulty variant: the wallets are compared, not the identities.
DifferentWallet(j, caller) == caller # jobs[j].technician

\* _requireIndependentVerifier: by identity as well.
RequireIndependentVerifier(j, caller) == IdentityOf(caller) # jobs[j].technicianKey

\* JOB_CREATE
CreateJob(caller, j, n) ==
    /\ CheckRoles("JobManager", caller, CREATE_JOB)
    /\ jobs[j].status = "NONE"
    /\ Exists(n) /\ assetState[n] # "DECOMMISSIONED"
    /\ jobs' = [jobs EXCEPT ![j].assetNftId = n, ![j].status = "CREATED"]
    /\ JobAudit(caller, j, "JOB_CREATE")
    /\ UNCHANGED <<accessVars, assetVars, completedBy>>

\* Faulty variant: the assignee needs no ACTIVE wallet and no role.
AssignJobUnchecked(caller, j, technician) ==
    /\ CheckRoles("JobManager", caller, ASSIGN_TECHNICIAN)
    /\ jobs[j].status \in {"CREATED", "REJECTED"}
    /\ jobs' = [jobs EXCEPT ![j].technician = technician,
                            ![j].technicianKey = IdentityOf(technician),
                            ![j].status = "ASSIGNED"]
    /\ JobAudit(caller, j, "JOB_ASSIGN")
    /\ UNCHANGED <<accessVars, assetVars, completedBy>>

\* JOB_ASSIGN: also after a rejection; the verifier and the evidence of the
\* rejected work stay in the record.
AssignJob(caller, j, technician) ==
    /\ CheckRoles("JobManager", caller, ASSIGN_TECHNICIAN)
    /\ jobs[j].status \in {"CREATED", "REJECTED"}
    /\ IsActiveWallet(technician)
    /\ HasAnyRole(technician, PERFORM_MAINTENANCE)
    /\ jobs' = [jobs EXCEPT ![j].technician = technician,
                            ![j].technicianKey = IdentityOf(technician),
                            ![j].status = "ASSIGNED"]
    /\ JobAudit(caller, j, "JOB_ASSIGN")
    /\ UNCHANGED <<accessVars, assetVars, completedBy>>

\* JOB_START
StartJob(caller, j) ==
    /\ CheckRoles("JobManager", caller, PERFORM_MAINTENANCE)
    /\ jobs[j].status = "ASSIGNED"
    /\ RequireAssignee(j, caller)
    /\ jobs' = [jobs EXCEPT ![j].status = "IN_PROGRESS"]
    /\ JobAudit(caller, j, "JOB_START")
    /\ UNCHANGED <<accessVars, assetVars, completedBy>>

\* JOB_COMPLETE
CompleteJob(caller, j, evidenceHash) ==
    /\ CheckRoles("JobManager", caller, PERFORM_MAINTENANCE)
    /\ jobs[j].status = "IN_PROGRESS"
    /\ RequireAssignee(j, caller)
    /\ evidenceHash # NoEvidence
    /\ jobs' = [jobs EXCEPT ![j].status = "COMPLETED",
                            ![j].evidenceHash = evidenceHash]
    /\ completedBy' = [completedBy EXCEPT ![j] = IdentityOf(caller)]
    /\ JobAudit(caller, j, "JOB_COMPLETE")
    /\ UNCHANGED <<accessVars, assetVars>>

\* JOB_APPROVE
ApproveJob(caller, j) ==
    /\ CheckRoles("JobManager", caller, VERIFY_MAINTENANCE)
    /\ jobs[j].status = "COMPLETED"
    /\ RequireIndependentVerifier(j, caller)
    /\ jobs' = [jobs EXCEPT ![j].status = "VERIFIED", ![j].verifier = caller]
    /\ JobAudit(caller, j, "JOB_APPROVE")
    /\ UNCHANGED <<accessVars, assetVars, completedBy>>

\* Faulty variant: the rejection counter is not protected against overflow.
RejectJobUnchecked(caller, j) ==
    /\ CheckRoles("JobManager", caller, VERIFY_MAINTENANCE)
    /\ jobs[j].status = "COMPLETED"
    /\ RequireIndependentVerifier(j, caller)
    /\ jobs' = [jobs EXCEPT ![j].status = "REJECTED", ![j].verifier = caller,
                            ![j].rejectionCount = @ + 1]
    /\ JobAudit(caller, j, "JOB_REJECT")
    /\ UNCHANGED <<accessVars, assetVars, completedBy>>

\* JOB_REJECT; the checked uint32 addition reverts at the largest count.
RejectJob(caller, j) ==
    /\ CheckRoles("JobManager", caller, VERIFY_MAINTENANCE)
    /\ jobs[j].status = "COMPLETED"
    /\ RequireIndependentVerifier(j, caller)
    /\ jobs[j].rejectionCount < MaxRejections
    /\ jobs' = [jobs EXCEPT ![j].status = "REJECTED", ![j].verifier = caller,
                            ![j].rejectionCount = @ + 1]
    /\ JobAudit(caller, j, "JOB_REJECT")
    /\ UNCHANGED <<accessVars, assetVars, completedBy>>

JobInit ==
    /\ AssetInit
    /\ jobs = [j \in JobId |-> NoJob]
    /\ completedBy = [j \in JobId |-> NoIdentity]

JobTransaction(caller, j) ==
    \/ \E n \in Nft : CreateJob(caller, j, n)
    \/ \E technician \in Wallet : AssignJob(caller, j, technician)
    \/ StartJob(caller, j)
    \/ \E evidenceHash \in Evidence \cup {NoEvidence} :
          CompleteJob(caller, j, evidenceHash)
    \/ ApproveJob(caller, j)
    \/ RejectJob(caller, j)

JobNext ==
    \/ \E caller \in Wallet, j \in JobId : JobTransaction(caller, j)
    \/ AssetNext /\ UNCHANGED jobVars

allJobVars == <<allAssetVars, jobVars>>

JobSpec == JobInit /\ [][JobNext]_allJobVars

-----------------------------------------------------------------------------
(* Properties.                                                             *)

JobRecord ==
    [status : JobStatus, assetNftId : Nft \cup {0},
     technician : Wallet \cup {NoWallet},
     technicianKey : Identity \cup {NoIdentity},
     verifier : Wallet \cup {NoWallet},
     evidenceHash : Evidence \cup {NoEvidence},
     rejectionCount : 0..MaxRejections]

\* A job record has the type of its struct.
JobTypeOK ==
    /\ jobs \in [JobId -> JobRecord]
    /\ completedBy \in [JobId -> Identity \cup {NoIdentity}]

\* Separation of duties, in terms of people: the work of a job that was judged
\* was handed in by its assignee and judged by another identity, whatever
\* wallets either of them used, lost or was given since.
SeparationOfDuties ==
    \A j \in JobId :
        /\ jobs[j].status \in {"COMPLETED", "VERIFIED", "REJECTED"} =>
              /\ completedBy[j] = jobs[j].technicianKey
              /\ jobs[j].evidenceHash \in Evidence
        /\ jobs[j].status \in {"VERIFIED", "REJECTED"} =>
              IdentityOf(jobs[j].verifier) \in Identity \ {completedBy[j]}

\* From its assignment on a job names a technician whose wallet was registered
\* and resolves to the identity the job is bound to, and an asset that exists.
AssigneeKnown ==
    \A j \in JobId :
        /\ jobs[j].status # "NONE" =>
              jobs[j].assetNftId \in Nft /\ Exists(jobs[j].assetNftId)
        /\ jobs[j].status \notin {"NONE", "CREATED"} =>
              /\ jobs[j].technician \in Wallet
              /\ jobs[j].technicianKey \in Identity
              /\ IdentityOf(jobs[j].technician) = jobs[j].technicianKey

JobRoles ==
    [action \in {"JOB_CREATE", "JOB_ASSIGN", "JOB_START", "JOB_COMPLETE",
                 "JOB_APPROVE", "JOB_REJECT"} |->
        CASE action \in {"JOB_CREATE", "JOB_ASSIGN"} -> {"MANAGER", "ENGINEER"}
          [] action \in {"JOB_START", "JOB_COMPLETE"} -> {"ENGINEER", "TECHNICIAN"}
          [] OTHER -> {"MANAGER", "ENGINEER", "AUDITOR", "VERIFIER"}]

JobAccountableStep ==
    \A j \in JobId : jobs'[j] # jobs[j] =>
        LET r == log'[Len(log) + 1] IN
        /\ Len(log') = Len(log) + 1
        /\ r.entityType = "JOB" /\ r.entityId = j /\ r.recorder = "JobManager"
        /\ status[r.actor] = "ACTIVE"
        /\ RolesOf(r.actor) \cap JobRoles[r.action] # {}
        /\ jobs[j].status # "VERIFIED"

\* Every change of a job is one audit record, of an ACTIVE wallet whose
\* identity holds a role the RBAC matrix gives the recorded action at that
\* moment (roles and wallets may have changed since the last step of the job);
\* a VERIFIED job never changes again.
JobsAccountable == [][JobAccountableStep]_allJobVars

Lifecycle == INSTANCE JobLifecycle WITH
    Person   <- Identity,
    Nobody   <- NoIdentity,
    phase    <- [j \in JobId |-> jobs[j].status],
    assignee <- [j \in JobId |-> jobs[j].technicianKey],
    worker   <- completedBy,
    judge    <- [j \in JobId |-> IF jobs[j].verifier = NoWallet THEN NoIdentity
                                 ELSE IdentityOf(jobs[j].verifier)]

\* The contract implements the life cycle of people: every transaction, of any
\* registry, is one step of it or none, so wallets can be revoked and replaced
\* in the middle of a job without anybody noticing in the job's history.
ImplementsLifecycle == Lifecycle!LifecycleSpec
=============================================================================
