---------------------------- MODULE JobsService ----------------------------
(***************************************************************************)
(* backend/src/jobs/jobs.service.ts over the EVM adapter: the database row *)
(* of a job and its state on the chain, under concurrent HTTP requests.    *)
(*                                                                         *)
(* Every mutation reads the row, checks it, has the adapter simulate and   *)
(* broadcast the transaction, polls for the receipt until a deadline, and  *)
(* then writes back the row it read (Prisma: a whole-row upsert).  Nothing *)
(* is locked meanwhile and a transaction outlives the request that sent    *)
(* it.  The chain is JobLifecycle, which JobManager implements; it may     *)
(* also refuse a call because of wallets or roles, which are not modelled  *)
(* here.                                                                   *)
(***************************************************************************)
EXTENDS JobLifecycle

CONSTANTS
    Slot,           \* bound: the requests in flight, with those given up
    Preselected     \* the verifierId values clients send when they create a job

ASSUME PreselectedAssumption == Preselected \subseteq Person \cup {Nobody}

VARIABLES
    row,            \* the JobRecord table
    call,           \* the request in each slot
    excuse          \* history: why a row may differ from the chain

serviceVars == <<row, call, excuse>>
allVars     == <<lifecycleVars, serviceVars>>

Op == {"create", "assign", "start", "complete", "approve", "reject"}

\* No row.  An empty assignedTo and a null verifierId are Nobody.
NoRow  == [status |-> "NONE", assignedTo |-> Nobody, verifierId |-> Nobody]
Idle   == [pc |-> "idle"]

ALLOWED_TRANSITIONS ==
    [CREATED     |-> {"ASSIGNED"},
     ASSIGNED    |-> {"IN_PROGRESS"},
     IN_PROGRESS |-> {"COMPLETED"},
     COMPLETED   |-> {"VERIFIED", "REJECTED"},
     VERIFIED    |-> {},
     REJECTED    |-> {"ASSIGNED"}]

-----------------------------------------------------------------------------
(* A request arrives: the row is read and checked.                         *)

Accept(s, op, j, p, q) ==
    /\ call[s] = Idle
    /\ call' = [call EXCEPT ![s] = [pc |-> "checked", op |-> op, job |-> j,
                                    actor |-> p, arg |-> q, read |-> row[j]]]
    /\ UNCHANGED <<lifecycleVars, row, excuse>>

AssertTransition(j, next) ==
    row[j] # NoRow /\ next \in ALLOWED_TRANSITIONS[row[j].status]

RequireAssignedTechnician(j, p) == row[j].assignedTo = p

\* Faulty variant: the technician is not compared.
RequireSelectedVerifier(j, p) == row[j].verifierId \in {Nobody, p}

RequireIndependentVerifier(j, p) ==
    /\ row[j].assignedTo # p
    /\ row[j].verifierId \in {Nobody, p}

\* create(): the client, or the count of the rows, chooses the id; q is the
\* verifier selected in advance, if any.
RequestCreate(s, j, p, q) == row[j] = NoRow /\ Accept(s, "create", j, p, q)

RequestAssign(s, j, p, q) ==
    /\ AssertTransition(j, "ASSIGNED")
    /\ q \in Person
    /\ Accept(s, "assign", j, p, q)

RequestStart(s, j, p) ==
    /\ AssertTransition(j, "IN_PROGRESS")
    /\ RequireAssignedTechnician(j, p)
    /\ Accept(s, "start", j, p, Nobody)

RequestComplete(s, j, p) ==
    /\ AssertTransition(j, "COMPLETED")
    /\ RequireAssignedTechnician(j, p)
    /\ Accept(s, "complete", j, p, Nobody)

RequestApprove(s, j, p) ==
    /\ AssertTransition(j, "VERIFIED")
    /\ RequireIndependentVerifier(j, p)
    /\ Accept(s, "approve", j, p, Nobody)

RequestReject(s, j, p) ==
    /\ AssertTransition(j, "REJECTED")
    /\ RequireIndependentVerifier(j, p)
    /\ Accept(s, "reject", j, p, Nobody)

-----------------------------------------------------------------------------
(* submitTransactionDetailed: simulate, broadcast, await the receipt.      *)

\* The contract call of a request.
ChainStep(c) ==
    \/ c.op = "create"   /\ Create(c.job)
    \/ c.op = "assign"   /\ Assign(c.job, c.arg)
    \/ c.op = "start"    /\ Start(c.job, c.actor)
    \/ c.op = "complete" /\ Complete(c.job, c.actor)
    \/ c.op = "approve"  /\ Approve(c.job, c.actor)
    \/ c.op = "reject"   /\ Reject(c.job, c.actor)

SetPc(s, pc) == call' = [call EXCEPT ![s].pc = pc]
Finish(s)    == call' = [call EXCEPT ![s] = Idle]

Excuse(j, why) == excuse' = [excuse EXCEPT ![j] = @ \cup {why}]

\* The dry run on the present state of the chain succeeds.
Send(s) ==
    /\ call[s].pc = "checked"
    /\ ENABLED ChainStep(call[s])
    /\ SetPc(s, "sent")
    /\ UNCHANGED <<lifecycleVars, row, excuse>>

\* The dry run reverts, the caller's access is refused, or the node cannot be
\* reached: nothing was broadcast and the request fails.
Refuse(s) ==
    /\ call[s].pc = "checked"
    /\ Finish(s)
    /\ UNCHANGED <<lifecycleVars, row, excuse>>

\* The transaction is executed in a block: the chain moves, even when nobody
\* waits for the receipt any more.
Mine(s) ==
    /\ call[s].pc \in {"sent", "orphan"}
    /\ ChainStep(call[s])
    /\ \/ /\ call[s].pc = "sent"
          /\ SetPc(s, "mined")
          /\ IF call[s].read = row[call[s].job] THEN UNCHANGED excuse
             ELSE Excuse(call[s].job, "stale read")
       \/ /\ call[s].pc = "orphan"
          /\ Finish(s)
          /\ Excuse(call[s].job, "given up")
    /\ UNCHANGED row

\* It reverts in the block: the chain or the access state moved since the dry
\* run.
Revert(s) ==
    /\ \/ call[s].pc = "sent" /\ SetPc(s, "reverted")
       \/ call[s].pc = "orphan" /\ Finish(s)
    /\ UNCHANGED <<lifecycleVars, row, excuse>>

\* Faulty variant: polling has no deadline.
GiveUpAfterReceipt(s) ==
    /\ call[s].pc = "mined" /\ Finish(s)
    /\ Excuse(call[s].job, "given up")
    /\ UNCHANGED <<lifecycleVars, row>>

\* No receipt before the deadline, the node is lost, the save fails or the
\* process stops: the request is over, its transaction is not.
GiveUp(s) ==
    /\ \/ /\ call[s].pc = "sent" /\ SetPc(s, "orphan") /\ UNCHANGED excuse
       \/ /\ call[s].pc = "mined" /\ Finish(s)
          /\ Excuse(call[s].job, "given up")
    /\ UNCHANGED <<lifecycleVars, row>>

-----------------------------------------------------------------------------
(* The receipt is in: the row is written, or the request fails.            *)

\* What each operation sets in the row it read.
Written(c) ==
    CASE c.op = "create"   -> [NoRow EXCEPT !.status = "CREATED", !.verifierId = c.arg]
      [] c.op = "assign"   -> [c.read EXCEPT !.status = "ASSIGNED", !.assignedTo = c.arg]
      [] c.op = "start"    -> [c.read EXCEPT !.status = "IN_PROGRESS"]
      [] c.op = "complete" -> [c.read EXCEPT !.status = "COMPLETED"]
      [] c.op = "approve"  -> [c.read EXCEPT !.status = "VERIFIED", !.verifierId = c.actor]
      [] c.op = "reject"   -> [c.read EXCEPT !.status = "REJECTED", !.verifierId = c.actor]

\* Faulty variant: the row is written whatever the receipt says.
SaveAnyway(s) ==
    /\ call[s].pc \in {"mined", "reverted"}
    /\ row' = [row EXCEPT ![call[s].job] = Written(call[s])]
    /\ Finish(s)
    /\ UNCHANGED <<lifecycleVars, excuse>>

Save(s) ==
    /\ call[s].pc = "mined"
    /\ row' = [row EXCEPT ![call[s].job] = Written(call[s])]
    /\ Finish(s)
    /\ UNCHANGED <<lifecycleVars, excuse>>

\* status REJECTED: the request throws.
Throw(s) ==
    /\ call[s].pc = "reverted"
    /\ Finish(s)
    /\ UNCHANGED <<lifecycleVars, row, excuse>>

ServiceInit ==
    /\ LifecycleInit
    /\ row = [j \in JobId |-> NoRow]
    /\ call = [s \in Slot |-> Idle]
    /\ excuse = [j \in JobId |-> {}]

Request(s, j, p) ==
    \/ \E q \in Preselected : RequestCreate(s, j, p, q)
    \/ \E q \in Person : RequestAssign(s, j, p, q)
    \/ RequestStart(s, j, p)
    \/ RequestComplete(s, j, p)
    \/ RequestApprove(s, j, p)
    \/ RequestReject(s, j, p)

\* What the service itself does next with a request.
Answer(s) == Send(s) \/ Refuse(s) \/ Save(s) \/ Throw(s) \/ GiveUp(s)

ServiceNext ==
    \E s \in Slot :
        \/ \E j \in JobId, p \in Person : Request(s, j, p)
        \/ Answer(s)
        \/ Mine(s) \/ Revert(s)

\* The event loop runs every pending continuation, and polling has a deadline.
\* Nothing is assumed of the chain: a transaction may stay unmined for ever.
ServiceSpec ==
    /\ ServiceInit /\ [][ServiceNext]_allVars
    /\ \A s \in Slot : WF_allVars(Answer(s))

-----------------------------------------------------------------------------
(* Properties.                                                             *)

JobStatus == {"CREATED", "ASSIGNED", "IN_PROGRESS", "COMPLETED", "VERIFIED", "REJECTED"}

Row == [status : JobStatus \cup {"NONE"}, assignedTo : Person \cup {Nobody},
        verifierId : Person \cup {Nobody}]

\* The rows and the requests in flight are well formed; a job that was ever
\* assigned has an assignee.
ServiceTypeOK ==
    /\ row \in [JobId -> Row]
    /\ \A s \in Slot : call[s] # Idle =>
          /\ call[s].pc \in {"checked", "sent", "mined", "reverted", "orphan"}
          /\ call[s].op \in Op /\ call[s].job \in JobId
          /\ call[s].actor \in Person /\ call[s].arg \in Person \cup {Nobody}
          /\ call[s].read \in Row
    /\ \A j \in JobId : row[j].status \notin {"NONE", "CREATED"} =>
          row[j].assignedTo \in Person

\* The database and the chain agree on the status of a job, but for a request
\* that has its receipt and is about to save, as long as no transaction took
\* effect after its request was given up and none was sent on a row that was
\* stale when it was mined: those are the only two ways to diverge.  All other
\* races (two verifiers, two assignments, a retry) have one winner.
RowMirrorsChain ==
    ServiceTypeOK /\ \A j \in JobId : excuse[j] = {} =>
        \/ row[j].status = phase[j]
        \/ \E s \in Slot :
              /\ call[s].pc = "mined" /\ call[s].job = j
              /\ call[s].read = row[j] /\ Written(call[s]).status = phase[j]

\* However requests race, time out or save late, the database never claims a
\* verification the chain has not recorded, names the person the chain
\* recorded, and never shows a technician who verified their own work.
VerifiedIsVerified ==
    \A j \in JobId : row[j].status = "VERIFIED" =>
        /\ phase[j] = "VERIFIED"
        /\ row[j].verifierId = judge[j]
        /\ row[j].verifierId # row[j].assignedTo

\* Every request is answered: no request waits for ever on a transaction that
\* is never mined (waitForReceipt stops at its deadline).
RequestsAnswered ==
    \A s \in Slot : (call[s].pc \notin {"idle", "orphan"}) ~> (call[s].pc \in {"idle", "orphan"})

-----------------------------------------------------------------------------
(* Statements of the documentation that do not hold (see the README).      *)

RowStep ==
    \A j \in JobId : row'[j].status # row[j].status =>
        \/ row[j] = NoRow /\ row'[j].status = "CREATED"
        \/ row[j] # NoRow /\ row'[j].status \in ALLOWED_TRANSITIONS[row[j].status]

\* What the header of jobs.service.ts says of a job: its status moves along
\* the state machine.  A request that waits between its check and its dry run
\* while the job goes once round the rejection loop is accepted by the chain
\* and may save after, or before, the request it overlaps with.
RowFollowsStateMachine == [][RowStep]_allVars

\* contracts/README.md: JobManager is the "Same state machine as
\* backend/src/jobs/jobs.service.ts".  Then a completed job that both sides
\* agree on, and that the chain lets somebody verify, the service lets somebody
\* verify.  But reject() records the verifier in the field that holds one
\* selected in advance; when that person is then given the re-work, the service
\* refuses everybody.
CompletedCanBeJudged ==
    \A j \in JobId :
        (row[j].status = "COMPLETED" /\ phase[j] = "COMPLETED"
            /\ \E p \in Person : p # worker[j])
        => \E p \in Person : RequireIndependentVerifier(j, p) /\ p # worker[j]
=============================================================================
