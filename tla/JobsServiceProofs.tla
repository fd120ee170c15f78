-------------------------- MODULE JobsServiceProofs --------------------------
(***************************************************************************)
(* Proofs about the job service (JobsService): what the row of a job says, *)
(* for any number of jobs, people and requests in flight.                  *)
(***************************************************************************)
EXTENDS JobsService, TLAPS

-----------------------------------------------------------------------------
(* The inductive invariant.                                                *)

\* Where each operation takes a job from, in the row and on the chain, and
\* where it takes it to.
From == [create   |-> {"NONE"},        assign   |-> {"CREATED", "REJECTED"},
         start    |-> {"ASSIGNED"},    complete |-> {"IN_PROGRESS"},
         approve  |-> {"COMPLETED"},   reject   |-> {"COMPLETED"}]
To   == [create   |-> "CREATED",       assign   |-> "ASSIGNED",
         start    |-> "IN_PROGRESS",   complete |-> "COMPLETED",
         approve  |-> "VERIFIED",      reject   |-> "REJECTED"]

Call == [pc : {"checked", "sent", "mined", "reverted", "orphan"}, op : Op, job : JobId,
         actor : Person, arg : Person \cup {Nobody}, read : Row]

ServiceTypes ==
    /\ phase \in [JobId -> JobStatus \cup {"NONE"}]
    /\ judge \in [JobId -> Person \cup {Nobody}]
    /\ row \in [JobId -> Row]
    /\ call \in [Slot -> Call \cup {Idle}]
    /\ excuse \in [JobId -> SUBSET {"stale read", "given up"}]

\* A row that was written at all has a status, and a row that was assigned an
\* assignee.
RowSound(r) ==
    /\ r.status = "NONE" => r = NoRow
    /\ r.status \notin {"NONE", "CREATED"} => r.assignedTo \in Person

\* What a request has in hand: a row its operation applies to, whose assignee
\* is not the one who judges.  The chain has recorded an approval before its
\* receipt is in.
CallSound(c) ==
    /\ c.read.status \in From[c.op] /\ RowSound(c.read)
    /\ c.op = "assign" => c.arg \in Person
    /\ c.op \in {"approve", "reject"} => c.read.assignedTo # c.actor
    /\ c.pc = "mined" /\ c.op = "approve" =>
         phase[c.job] = "VERIFIED" /\ judge[c.job] = c.actor

RowsSound  == \A j \in JobId : RowSound(row[j])
CallsSound == \A s \in Slot, c \in Call : call[s] = c => CallSound(c)

\* The request of slot s has its receipt and is about to save job j.
Saving(s, j) == call[s].pc = "mined" /\ call[s].job = j

\* Without an excuse at most one request is about to save a job, on top of the
\* row it read, and then the row will be what the chain says; without such a
\* request it is.
Mirrors ==
    \A j \in JobId : excuse[j] = {} =>
        /\ \A s \in Slot : Saving(s, j) => call[s].read = row[j] /\ To[call[s].op] = phase[j]
        /\ \A s, t \in Slot : Saving(s, j) /\ Saving(t, j) => s = t
        /\ (\A s \in Slot : ~Saving(s, j)) => row[j].status = phase[j]

ServiceInv ==
    /\ ServiceTypes
    /\ RowsSound
    /\ CallsSound
    /\ Mirrors
    /\ VerifiedIsVerified

-----------------------------------------------------------------------------
(* Facts about the operations and the rows.                                *)

\* A request is not an idle slot.
LEMMA CallIsNotIdle == \A c \in Call : c # Idle /\ c.pc # "idle"
BY DEF Call, Idle

\* The slot of a request in flight holds one.
LEMMA InFlight ==
    ASSUME ServiceTypes, NEW s \in Slot, call[s].pc # "idle"
    PROVE  call[s] \in Call
<1>1. call[s] \in Call \/ call[s] = Idle
  BY DEF ServiceTypes
<1>2. Idle.pc = "idle"
  BY DEF Idle
<1> QED BY <1>1, <1>2

LEMMA NoRowIsRow == NoRow \in Row /\ NoRow.status = "NONE"
BY DEF NoRow, Row

LEMMA FromTo ==
    ASSUME NEW op \in Op
    PROVE  To[op] \in JobStatus /\ From[op] \subseteq JobStatus \cup {"NONE"}
BY DEF Op, From, To, JobStatus

\* Two operations that apply to the same row exclude each other: once one of
\* them was executed the other one does not apply any more.
LEMMA OneWins ==
    ASSUME NEW a \in Op, NEW b \in Op, NEW st \in JobStatus \cup {"NONE"},
           st \in From[a], st \in From[b]
    PROVE  To[a] \notin From[b]
BY DEF Op, From, To, JobStatus

\* What an operation writes.
LEMMA WrittenRow ==
    ASSUME NEW c \in Call, CallSound(c)
    PROVE  /\ Written(c) \in Row
           /\ Written(c).status = To[c.op]
           /\ RowSound(Written(c))
           /\ c.op = "approve" => /\ Written(c).verifierId = c.actor
                                  /\ Written(c).assignedTo # c.actor
<1>1. /\ c.op \in Op /\ c.arg \in Person \cup {Nobody} /\ c.actor \in Person /\ c.read \in Row
  BY DEF Call
<1>2. /\ c.read.status \in From[c.op] /\ RowSound(c.read)
      /\ c.op = "assign" => c.arg \in Person
      /\ c.op = "approve" => c.read.assignedTo # c.actor
  BY DEF CallSound
<1>3. /\ c.read.status \in JobStatus \cup {"NONE"}
      /\ c.read.assignedTo \in Person \cup {Nobody} /\ c.read.verifierId \in Person \cup {Nobody}
  BY <1>1 DEF Row
<1>4. CASE c.op = "create"
  <2>1. Written(c) = [status |-> "CREATED", assignedTo |-> Nobody, verifierId |-> c.arg]
    BY <1>4 DEF Written, NoRow
  <2> QED BY <1>1, <1>4, <2>1 DEF Row, RowSound, To, JobStatus
<1>5. CASE c.op = "assign"
  <2>1. Written(c) = [status |-> "ASSIGNED", assignedTo |-> c.arg, verifierId |-> c.read.verifierId]
    BY <1>1, <1>5 DEF Written, Row
  <2> QED BY <1>1, <1>2, <1>3, <1>5, <2>1 DEF Row, RowSound, To, JobStatus
<1>6. CASE c.op \in {"start", "complete"}
  <2>1. c.read.assignedTo \in Person
    BY <1>2, <1>6 DEF RowSound, From
  <2>2. Written(c) = [status |-> To[c.op], assignedTo |-> c.read.assignedTo,
                      verifierId |-> c.read.verifierId]
    BY <1>1, <1>6 DEF Written, Row, To
  <2> QED BY <1>1, <1>3, <1>6, <2>1, <2>2 DEF Row, RowSound, To, JobStatus
<1>7. CASE c.op = "approve"
  <2>1. c.read.assignedTo \in Person
    BY <1>2, <1>7 DEF RowSound, From
  <2>2. Written(c) = [c.read EXCEPT !.status = "VERIFIED", !.verifierId = c.actor]
    BY <1>7 DEF Written
  <2>3. Written(c) = [status |-> "VERIFIED", assignedTo |-> c.read.assignedTo,
                      verifierId |-> c.actor]
    BY <1>1, <2>2 DEF Row
  <2> QED BY <1>1, <1>2, <1>3, <1>7, <2>1, <2>3 DEF Row, RowSound, To, JobStatus
<1>8. CASE c.op = "reject"
  <2>1. c.read.assignedTo \in Person
    BY <1>2, <1>8 DEF RowSound, From
  <2>2. Written(c) = [c.read EXCEPT !.status = "REJECTED", !.verifierId = c.actor]
    BY <1>8 DEF Written
  <2>3. Written(c) = [status |-> "REJECTED", assignedTo |-> c.read.assignedTo,
                      verifierId |-> c.actor]
    BY <1>1, <2>2 DEF Row
  <2> QED BY <1>1, <1>2, <1>3, <1>8, <2>1, <2>3 DEF Row, RowSound, To, JobStatus
<1> QED BY <1>1, <1>4, <1>5, <1>6, <1>7, <1>8 DEF Op

\* What the transaction of a request does on the chain: the job moves as the
\* operation says, an approval records who approved, and the other jobs keep
\* their phase and their judge.
LEMMA ChainMoves ==
    ASSUME ServiceTypes, NEW c \in Call, ChainStep(c)
    PROVE  /\ phase[c.job] \in From[c.op]
           /\ phase' = [phase EXCEPT ![c.job] = To[c.op]]
           /\ judge' \in [JobId -> Person \cup {Nobody}]
           /\ \A j \in JobId \ {c.job} : judge'[j] = judge[j]
           /\ c.op = "approve" => judge'[c.job] = c.actor
<1>1. /\ c.op \in Op /\ c.job \in JobId /\ c.actor \in Person
      /\ judge \in [JobId -> Person \cup {Nobody}]
  BY DEF Call, ServiceTypes
<1>2. CASE c.op = "create" /\ Create(c.job)
  BY <1>1, <1>2 DEF Create, Move, From, To
<1>3. CASE c.op = "assign" /\ Assign(c.job, c.arg)
  BY <1>1, <1>3 DEF Assign, Move, From, To
<1>4. CASE c.op = "start" /\ Start(c.job, c.actor)
  BY <1>1, <1>4 DEF Start, Move, From, To
<1>5. CASE c.op = "complete" /\ Complete(c.job, c.actor)
  BY <1>1, <1>5 DEF Complete, Move, From, To
<1>6. CASE c.op = "approve" /\ Approve(c.job, c.actor)
  BY <1>1, <1>6 DEF Approve, Move, From, To
<1>7. CASE c.op = "reject" /\ Reject(c.job, c.actor)
  BY <1>1, <1>7 DEF Reject, Move, From, To
<1> QED BY <1>2, <1>3, <1>4, <1>5, <1>6, <1>7 DEF ChainStep

\* A request stays sound as long as its job does not leave VERIFIED.
LEMMA CallStays ==
    ASSUME NEW c \in Call, CallSound(c),
           phase[c.job] = "VERIFIED" => phase'[c.job] = "VERIFIED" /\ judge'[c.job] = judge[c.job]
    PROVE  CallSound(c)'
BY DEF CallSound

-----------------------------------------------------------------------------
(* Every step keeps the invariant.                                         *)

LEMMA ServiceInvInit == ServiceInit => ServiceInv
<1> SUFFICES ASSUME ServiceInit PROVE ServiceInv
  OBVIOUS
<1>1. /\ phase = [j \in JobId |-> "NONE"] /\ judge = [j \in JobId |-> Nobody]
      /\ row = [j \in JobId |-> NoRow] /\ call = [s \in Slot |-> Idle]
      /\ excuse = [j \in JobId |-> {}]
  BY DEF ServiceInit, LifecycleInit
<1>2. ServiceTypes
  BY <1>1, NoRowIsRow DEF ServiceTypes
<1>3. RowsSound
  BY <1>1, NoRowIsRow DEF RowsSound, RowSound
<1>4. CallsSound
  BY <1>1, CallIsNotIdle DEF CallsSound
<1>5. Mirrors
  BY <1>1, NoRowIsRow DEF Mirrors, Saving, Idle
<1>6. VerifiedIsVerified
  BY <1>1, NoRowIsRow DEF VerifiedIsVerified
<1> QED BY <1>2, <1>3, <1>4, <1>5, <1>6 DEF ServiceInv

\* A step that changes only a request, neither to nor from the state in which
\* it has its receipt.
LEMMA QuietStep ==
    ASSUME ServiceInv, NEW s \in Slot, NEW d \in Call \cup {Idle},
           call[s].pc # "mined", d.pc # "mined",
           d \in Call => CallSound(d),
           call' = [call EXCEPT ![s] = d],
           UNCHANGED <<lifecycleVars, row, excuse>>
    PROVE  ServiceInv'
<1>1. ServiceTypes /\ RowsSound /\ CallsSound /\ Mirrors /\ VerifiedIsVerified
  BY DEF ServiceInv
<1>2. UNCHANGED phase /\ UNCHANGED judge /\ UNCHANGED row /\ UNCHANGED excuse
  BY DEF lifecycleVars
<1>3. \A t \in Slot : call'[t] = IF t = s THEN d ELSE call[t]
  BY <1>1 DEF ServiceTypes
<1>4. ServiceTypes'
  BY <1>1, <1>2 DEF ServiceTypes
<1>5. RowsSound'
  BY <1>1, <1>2 DEF RowsSound, RowSound
<1>6. CallsSound'
  <2>1. ASSUME NEW t \in Slot, NEW c \in Call, call'[t] = c PROVE CallSound(c)'
    <3>1. CallSound(c)
      BY <1>1, <1>3, <2>1 DEF CallsSound
    <3> QED BY <1>2, <3>1, CallStays
  <2> QED BY <2>1 DEF CallsSound
<1>7. Mirrors'
  <2>1. \A t \in Slot, j \in JobId : Saving(t, j)' <=> Saving(t, j)
    BY <1>3 DEF Saving
  <2>2. \A t \in Slot, j \in JobId : Saving(t, j) => t # s
    BY DEF Saving
  <2>3. \A t \in Slot, j \in JobId : Saving(t, j) => call'[t] = call[t]
    BY <1>3, <2>2
  <2> QED BY <1>1, <1>2, <2>1, <2>3 DEF Mirrors
<1>8. VerifiedIsVerified'
  BY <1>1, <1>2 DEF VerifiedIsVerified
<1> QED BY <1>4, <1>5, <1>6, <1>7, <1>8 DEF ServiceInv

\* A request that passed the checks of its operation.
LEMMA AcceptKeeps ==
    ASSUME ServiceInv, NEW s \in Slot, NEW op \in Op, NEW j \in JobId, NEW p \in Person,
           NEW q \in Person \cup {Nobody}, Accept(s, op, j, p, q),
           row[j].status \in From[op],
           op = "assign" => q \in Person,
           op \in {"approve", "reject"} => row[j].assignedTo # p
    PROVE  ServiceInv'
<1>1. PICK d : d = [pc |-> "checked", op |-> op, job |-> j, actor |-> p, arg |-> q, read |-> row[j]]
  OBVIOUS
<1>2. row[j] \in Row /\ RowSound(row[j])
  BY DEF ServiceInv, ServiceTypes, RowsSound
<1>3. d \in Call /\ d.pc = "checked"
  BY <1>1, <1>2 DEF Call
<1>4. CallSound(d)
  BY <1>1, <1>2 DEF CallSound
<1>5. call[s].pc # "mined" /\ call' = [call EXCEPT ![s] = d]
      /\ UNCHANGED <<lifecycleVars, row, excuse>>
  BY <1>1 DEF Accept, Idle
<1> QED BY <1>3, <1>4, <1>5, QuietStep

LEMMA RequestKeeps ==
    ASSUME ServiceInv, NEW s \in Slot, NEW j \in JobId, NEW p \in Person, Request(s, j, p)
    PROVE  ServiceInv'
<1>1. row[j] \in Row /\ RowSound(row[j])
  BY DEF ServiceInv, ServiceTypes, RowsSound
<1>2. /\ row[j].status \in JobStatus \cup {"NONE"}
      /\ row[j] # NoRow => row[j].status \in JobStatus
  BY <1>1 DEF Row, RowSound
<1>3. \A st \in JobStatus :
        /\ "ASSIGNED" \in ALLOWED_TRANSITIONS[st] => st \in {"CREATED", "REJECTED"}
        /\ "IN_PROGRESS" \in ALLOWED_TRANSITIONS[st] => st = "ASSIGNED"
        /\ "COMPLETED" \in ALLOWED_TRANSITIONS[st] => st = "IN_PROGRESS"
        /\ "VERIFIED" \in ALLOWED_TRANSITIONS[st] => st = "COMPLETED"
        /\ "REJECTED" \in ALLOWED_TRANSITIONS[st] => st = "COMPLETED"
  BY DEF JobStatus, ALLOWED_TRANSITIONS
<1>4. ASSUME NEW q \in Preselected, RequestCreate(s, j, p, q) PROVE ServiceInv'
  <2>1. q \in Person \cup {Nobody} /\ "create" \in Op /\ row[j].status \in From["create"]
    BY <1>4, PreselectedAssumption, NoRowIsRow DEF RequestCreate, Op, From
  <2>2. "create" # "assign" /\ "create" \notin {"approve", "reject"}
    OBVIOUS
  <2> QED BY <1>4, <2>1, <2>2, AcceptKeeps DEF RequestCreate
<1>5. ASSUME NEW q \in Person, RequestAssign(s, j, p, q) PROVE ServiceInv'
  <2>1. q \in Person /\ "assign" \in Op /\ row[j].status \in From["assign"]
    BY <1>2, <1>3, <1>5 DEF RequestAssign, AssertTransition, Op, From
  <2>2. "assign" \notin {"approve", "reject"}
    OBVIOUS
  <2> QED BY <1>5, <2>1, <2>2, AcceptKeeps DEF RequestAssign
<1>6. CASE RequestStart(s, j, p)
  <2>1. "start" \in Op /\ row[j].status \in From["start"]
    BY <1>2, <1>3, <1>6 DEF RequestStart, AssertTransition, Op, From
  <2>2. "start" # "assign" /\ "start" \notin {"approve", "reject"}
    OBVIOUS
  <2> QED BY <1>6, <2>1, <2>2, AcceptKeeps DEF RequestStart
<1>7. CASE RequestComplete(s, j, p)
  <2>1. "complete" \in Op /\ row[j].status \in From["complete"]
    BY <1>2, <1>3, <1>7 DEF RequestComplete, AssertTransition, Op, From
  <2>2. "complete" # "assign" /\ "complete" \notin {"approve", "reject"}
    OBVIOUS
  <2> QED BY <1>7, <2>1, <2>2, AcceptKeeps DEF RequestComplete
<1>8. CASE RequestApprove(s, j, p)
  <2>1. "approve" \in Op /\ row[j].status \in From["approve"] /\ row[j].assignedTo # p
    BY <1>2, <1>3, <1>8 DEF RequestApprove, RequireIndependentVerifier, AssertTransition, Op, From
  <2>2. "approve" # "assign"
    OBVIOUS
  <2> QED BY <1>8, <2>1, <2>2, AcceptKeeps DEF RequestApprove
<1>9. CASE RequestReject(s, j, p)
  <2>1. "reject" \in Op /\ row[j].status \in From["reject"] /\ row[j].assignedTo # p
    BY <1>2, <1>3, <1>9 DEF RequestReject, RequireIndependentVerifier, AssertTransition, Op, From
  <2>2. "reject" # "assign"
    OBVIOUS
  <2> QED BY <1>9, <2>1, <2>2, AcceptKeeps DEF RequestReject
<1> QED BY <1>4, <1>5, <1>6, <1>7, <1>8, <1>9 DEF Request

\* The pc of a request in flight moves on.
LEMMA PcKeeps ==
    ASSUME ServiceInv, NEW s \in Slot, NEW pc \in {"sent", "reverted", "orphan"},
           call[s].pc \in {"checked", "sent"}, SetPc(s, pc),
           UNCHANGED <<lifecycleVars, row, excuse>>
    PROVE  ServiceInv'
<1>1. call[s] \in Call /\ call \in [Slot -> Call \cup {Idle}]
  <2>1. call[s].pc # "idle"
    OBVIOUS
  <2> QED BY <2>1, InFlight DEF ServiceInv, ServiceTypes
<1>2. PICK c \in Call : c = call[s]
  BY <1>1
<1>3. PICK d : d = [c EXCEPT !.pc = pc]
  OBVIOUS
<1>4. d \in Call /\ d.pc = pc /\ d.op = c.op /\ d.job = c.job /\ d.actor = c.actor
      /\ d.arg = c.arg /\ d.read = c.read
  BY <1>3 DEF Call
<1>5. CallSound(c)
  BY <1>2 DEF ServiceInv, CallsSound
<1>6. CallSound(d)
  BY <1>4, <1>5 DEF CallSound
<1>7. call' = [call EXCEPT ![s] = d]
  BY <1>1, <1>2, <1>3 DEF SetPc
<1> QED BY <1>4, <1>6, <1>7, QuietStep

\* A request without a receipt ends.
LEMMA FinishKeeps ==
    ASSUME ServiceInv, NEW s \in Slot, call[s].pc # "mined", Finish(s),
           UNCHANGED <<lifecycleVars, row, excuse>>
    PROVE  ServiceInv'
BY QuietStep, CallIsNotIdle DEF Finish, Idle

LEMMA ExcuseGrows ==
    ASSUME ServiceTypes, NEW j \in JobId, NEW why \in {"stale read", "given up"}, Excuse(j, why)
    PROVE  /\ excuse' \in [JobId -> SUBSET {"stale read", "given up"}]
           /\ excuse'[j] # {}
           /\ \A i \in JobId : excuse'[i] = {} => excuse[i] = {} /\ i # j
<1>1. excuse \in [JobId -> SUBSET {"stale read", "given up"}]
  BY DEF ServiceTypes
<1>2. excuse' = [excuse EXCEPT ![j] = excuse[j] \cup {why}]
  BY DEF Excuse
<1>3. excuse[j] \cup {why} \in SUBSET {"stale read", "given up"}
  BY <1>1
<1>4. excuse'[j] = excuse[j] \cup {why} /\ \A i \in JobId \ {j} : excuse'[i] = excuse[i]
  BY <1>1, <1>2
<1>5. why \in excuse'[j]
  BY <1>4
<1>6. excuse' \in [JobId -> SUBSET {"stale read", "given up"}]
  BY <1>1, <1>2, <1>3
<1> QED BY <1>4, <1>5, <1>6

\* A request that has its receipt, or whose transaction outlived it, is given
\* up: the job has an excuse from now on.
LEMMA ExcuseKeepsMirrors ==
    ASSUME ServiceTypes, Mirrors, NEW s \in Slot, NEW c \in Call, call[s] = c,
           Finish(s), Excuse(c.job, "given up"), UNCHANGED row,
           \A j \in JobId \ {c.job} : phase'[j] = phase[j]
    PROVE  Mirrors'
<1>1. \A t \in Slot : call'[t] = IF t = s THEN Idle ELSE call[t]
  BY DEF Finish, ServiceTypes
<1>2. \A j \in JobId : excuse'[j] = {} => j # c.job /\ excuse[j] = {}
  <2>1. c.job \in JobId
    BY DEF Call
  <2> QED BY <2>1, ExcuseGrows
<1>3. \A t \in Slot, j \in JobId : j # c.job => (Saving(t, j)' <=> Saving(t, j))
  <2>1. Idle.pc # "mined"
    BY DEF Idle
  <2>2. \A t \in Slot, j \in JobId : t # s => (Saving(t, j)' <=> Saving(t, j))
    BY <1>1 DEF Saving
  <2>3. \A j \in JobId : j # c.job => ~Saving(s, j) /\ ~Saving(s, j)'
    BY <1>1, <2>1 DEF Saving
  <2> QED BY <2>2, <2>3
<1>4. \A t \in Slot, j \in JobId : j # c.job /\ Saving(t, j) => call'[t] = call[t]
  BY <1>1 DEF Saving
<1>5. \A j \in JobId : j # c.job => phase'[j] = phase[j]
  OBVIOUS
<1>6. ASSUME NEW j \in JobId, excuse'[j] = {}
      PROVE  /\ \A t \in Slot : Saving(t, j)' => call'[t].read = row'[j] /\ To[call'[t].op] = phase'[j]
             /\ \A t, u \in Slot : Saving(t, j)' /\ Saving(u, j)' => t = u
             /\ (\A t \in Slot : ~Saving(t, j)') => row'[j].status = phase'[j]
  <2>1. j # c.job /\ excuse[j] = {} /\ phase'[j] = phase[j] /\ row'[j] = row[j]
    BY <1>2, <1>5, <1>6
  <2>2. /\ \A t \in Slot : Saving(t, j) => call[t].read = row[j] /\ To[call[t].op] = phase[j]
        /\ \A t, u \in Slot : Saving(t, j) /\ Saving(u, j) => t = u
        /\ (\A t \in Slot : ~Saving(t, j)) => row[j].status = phase[j]
    BY <2>1 DEF Mirrors
  <2> QED BY <1>3, <1>4, <2>1, <2>2
<1> QED BY <1>6 DEF Mirrors

\* The transaction of a request without any stale read is executed: nobody
\* else is about to save the job, because the chain would have refused.
LEMMA ReceiptKeepsMirrors ==
    ASSUME ServiceInv, NEW s \in Slot, NEW c \in Call, call[s] = c, c.pc = "sent",
           ChainStep(c), SetPc(s, "mined"), UNCHANGED row,
           IF c.read = row[c.job] THEN UNCHANGED excuse ELSE Excuse(c.job, "stale read")
    PROVE  Mirrors'
<1>1. ServiceTypes /\ CallsSound /\ Mirrors /\ CallSound(c)
  BY DEF ServiceInv, CallsSound
<1>2. c.job \in JobId /\ c.op \in Op /\ c.read \in Row
  BY DEF Call
<1>3. \A t \in Slot : call'[t] = IF t = s THEN [c EXCEPT !.pc = "mined"] ELSE call[t]
  BY <1>1 DEF SetPc, ServiceTypes
<1>4. call'[s].pc = "mined" /\ call'[s].job = c.job /\ call'[s].op = c.op /\ call'[s].read = c.read
  BY <1>3 DEF Call
<1>5. \A t \in Slot \ {s} : call'[t] = call[t]
  BY <1>3
<1>6. /\ phase[c.job] \in From[c.op] /\ phase'[c.job] = To[c.op]
      /\ \A j \in JobId : j # c.job => phase'[j] = phase[j]
  BY <1>1, <1>2, ChainMoves DEF ServiceTypes
<1>7. \A j \in JobId : excuse'[j] = {} => excuse[j] = {} /\ (j = c.job => c.read = row[j])
  <2>1. CASE c.read = row[c.job]
    BY <2>1
  <2>2. CASE c.read # row[c.job]
    BY <1>1, <1>2, <2>2, ExcuseGrows
  <2> QED BY <2>1, <2>2
<1>8. \A t \in Slot, j \in JobId : t # s => (Saving(t, j)' <=> Saving(t, j))
  BY <1>5 DEF Saving
<1>9. \A j \in JobId : Saving(s, j)' <=> j = c.job
  BY <1>4 DEF Saving
<1>10. \A j \in JobId : ~Saving(s, j)
  BY DEF Saving
<1>11. UNCHANGED row
  OBVIOUS
<1>12. ASSUME excuse'[c.job] = {}, NEW t \in Slot, t # s PROVE ~Saving(t, c.job)
  <2> SUFFICES ASSUME Saving(t, c.job) PROVE FALSE
    OBVIOUS
  <2>1. call[t] \in Call
    <3>1. call[t].pc # "idle"
      BY DEF Saving
    <3> QED BY <1>1, <3>1, InFlight
  <2>2. PICK m \in Call : m = call[t]
    BY <2>1
  <2>3. CallSound(m)
    BY <1>1, <2>2 DEF CallsSound
  <2>4. m.read = row[c.job] /\ To[m.op] = phase[c.job] /\ c.read = row[c.job]
    BY <1>1, <1>2, <1>7, <1>12, <2>2 DEF Mirrors
  <2>5. m.op \in Op /\ c.read.status \in JobStatus \cup {"NONE"}
    BY <1>2 DEF Call, Row
  <2>6. c.read.status \in From[m.op] /\ c.read.status \in From[c.op]
    BY <1>1, <2>3, <2>4 DEF CallSound
  <2> QED BY <1>2, <1>6, <2>4, <2>5, <2>6, OneWins
<1>13. ASSUME NEW j \in JobId, excuse'[j] = {}
       PROVE  /\ \A t \in Slot : Saving(t, j)' => call'[t].read = row'[j] /\ To[call'[t].op] = phase'[j]
              /\ \A t, u \in Slot : Saving(t, j)' /\ Saving(u, j)' => t = u
              /\ (\A t \in Slot : ~Saving(t, j)') => row'[j].status = phase'[j]
  <2>1. CASE j = c.job
    BY <1>4, <1>6, <1>7, <1>8, <1>9, <1>11, <1>12, <1>13, <2>1
  <2>2. CASE j # c.job
    <3>1. \A t \in Slot : Saving(t, j)' <=> Saving(t, j)
      BY <1>8, <1>9, <1>10, <2>2
    <3>2. \A t \in Slot : Saving(t, j) => call'[t] = call[t]
      BY <1>5, <1>10
    <3>3. excuse[j] = {} /\ phase'[j] = phase[j] /\ row'[j] = row[j]
      BY <1>6, <1>7, <1>11, <1>13, <2>2
    <3>4. /\ \A t \in Slot : Saving(t, j) => call[t].read = row[j] /\ To[call[t].op] = phase[j]
          /\ \A t, u \in Slot : Saving(t, j) /\ Saving(u, j) => t = u
          /\ (\A t \in Slot : ~Saving(t, j)) => row[j].status = phase[j]
      BY <1>1, <3>3 DEF Mirrors
    <3> QED BY <3>1, <3>2, <3>3, <3>4
  <2> QED BY <2>1, <2>2
<1> QED BY <1>13 DEF Mirrors

LEMMA MineKeeps ==
    ASSUME ServiceInv, NEW s \in Slot, Mine(s)
    PROVE  ServiceInv'
<1>1. ServiceTypes /\ RowsSound /\ CallsSound /\ Mirrors /\ VerifiedIsVerified
  BY DEF ServiceInv
<1>2. call[s] \in Call
  <2>1. call[s].pc # "idle"
    BY DEF Mine
  <2> QED BY <1>1, <2>1, InFlight
<1>3. PICK c \in Call : c = call[s]
  BY <1>2
<1>4. /\ c.pc \in {"sent", "orphan"} /\ ChainStep(c) /\ UNCHANGED row
      /\ \/ /\ c.pc = "sent" /\ SetPc(s, "mined")
            /\ IF c.read = row[c.job] THEN UNCHANGED excuse ELSE Excuse(c.job, "stale read")
         \/ c.pc = "orphan" /\ Finish(s) /\ Excuse(c.job, "given up")
  BY <1>3 DEF Mine
<1>5. c.job \in JobId /\ c.op \in Op /\ CallSound(c)
  BY <1>1, <1>3 DEF Call, CallsSound
<1>6. /\ phase[c.job] \in From[c.op] /\ phase' = [phase EXCEPT ![c.job] = To[c.op]]
      /\ judge' \in [JobId -> Person \cup {Nobody}]
      /\ \A j \in JobId \ {c.job} : judge'[j] = judge[j]
      /\ c.op = "approve" => judge'[c.job] = c.actor
  BY <1>1, <1>4, ChainMoves
<1>7. phase[c.job] # "VERIFIED" /\ (c.op = "approve" => To[c.op] = "VERIFIED")
  BY <1>5, <1>6 DEF Op, From, To
<1>8. \A j \in JobId : phase[j] = "VERIFIED" => phase'[j] = "VERIFIED" /\ judge'[j] = judge[j]
  BY <1>1, <1>5, <1>6, <1>7 DEF ServiceTypes
<1>9. PICK d : d = [c EXCEPT !.pc = "mined"]
  OBVIOUS
<1>10. d \in Call /\ d.pc = "mined" /\ d.op = c.op /\ d.job = c.job /\ d.actor = c.actor
       /\ d.arg = c.arg /\ d.read = c.read
  BY <1>9 DEF Call
<1>11. \/ call' = [call EXCEPT ![s] = d]
       \/ call' = [call EXCEPT ![s] = Idle]
  BY <1>1, <1>3, <1>4, <1>9 DEF SetPc, Finish, ServiceTypes
<1>12. ServiceTypes'
  <2>1. phase' \in [JobId -> JobStatus \cup {"NONE"}]
    BY <1>1, <1>5, <1>6, FromTo DEF ServiceTypes
  <2>2. call' \in [Slot -> Call \cup {Idle}]
    BY <1>1, <1>10, <1>11 DEF ServiceTypes
  <2>3. excuse' \in [JobId -> SUBSET {"stale read", "given up"}]
    <3>1. CASE UNCHANGED excuse
      BY <1>1, <3>1 DEF ServiceTypes
    <3>2. CASE Excuse(c.job, "stale read") \/ Excuse(c.job, "given up")
      BY <1>1, <1>5, <3>2, ExcuseGrows
    <3> QED BY <1>4, <3>1, <3>2
  <2> QED BY <1>1, <1>4, <1>6, <2>1, <2>2, <2>3 DEF ServiceTypes
<1>13. RowsSound'
  BY <1>1, <1>4 DEF RowsSound, RowSound
<1>14. CallsSound'
  <2>1. ASSUME NEW t \in Slot, NEW e \in Call, call'[t] = e PROVE CallSound(e)'
    <3>1. CASE call[t] = e
      <4>1. CallSound(e) /\ e.job \in JobId
        BY <1>1, <3>1 DEF CallsSound, Call
      <4> QED BY <1>8, <4>1, CallStays
    <3>2. CASE call[t] # e
      <4>1. e = d
        BY <1>1, <1>11, <2>1, <3>2, CallIsNotIdle DEF ServiceTypes
      <4>2. c.op = "approve" => phase'[c.job] = "VERIFIED" /\ judge'[c.job] = c.actor
        BY <1>1, <1>5, <1>6, <1>7 DEF ServiceTypes
      <4> QED BY <1>5, <1>10, <4>1, <4>2 DEF CallSound
    <3> QED BY <3>1, <3>2
  <2> QED BY <2>1 DEF CallsSound
<1>15. Mirrors'
  <2>1. \A j \in JobId \ {c.job} : phase'[j] = phase[j]
    BY <1>1, <1>5, <1>6 DEF ServiceTypes
  <2>2. CASE c.pc = "sent"
    BY <1>3, <1>4, <2>2, ReceiptKeepsMirrors
  <2>3. CASE c.pc = "orphan"
    BY <1>1, <1>3, <1>4, <2>1, <2>3, ExcuseKeepsMirrors
  <2> QED BY <1>4, <2>2, <2>3
<1>16. VerifiedIsVerified'
  BY <1>1, <1>4, <1>8 DEF VerifiedIsVerified
<1> QED BY <1>12, <1>13, <1>14, <1>15, <1>16 DEF ServiceInv

LEMMA GiveUpKeeps ==
    ASSUME ServiceInv, NEW s \in Slot, GiveUp(s)
    PROVE  ServiceInv'
<1>1. ServiceTypes /\ RowsSound /\ CallsSound /\ Mirrors /\ VerifiedIsVerified
  BY DEF ServiceInv
<1>2. UNCHANGED phase /\ UNCHANGED judge /\ UNCHANGED row /\ UNCHANGED <<lifecycleVars, row>>
  BY DEF GiveUp, lifecycleVars
<1>3. CASE call[s].pc = "sent" /\ SetPc(s, "orphan") /\ UNCHANGED excuse
  <2>1. "orphan" \in {"sent", "reverted", "orphan"}
    OBVIOUS
  <2> QED BY <1>2, <1>3, <2>1, PcKeeps
<1>4. CASE call[s].pc = "mined" /\ Finish(s) /\ Excuse(call[s].job, "given up")
  <2>1. call[s] \in Call
    <3>1. call[s].pc # "idle"
      BY <1>4
    <3> QED BY <1>1, <3>1, InFlight
  <2>2. PICK c \in Call : c = call[s]
    BY <2>1
  <2>3. c.job \in JobId /\ Excuse(c.job, "given up")
    BY <1>4, <2>2 DEF Call
  <2>4. \A t \in Slot : call'[t] = call[t] \/ call'[t] = Idle
    BY <1>1, <1>4 DEF Finish, ServiceTypes
  <2>5. ServiceTypes'
    <3>1. excuse' \in [JobId -> SUBSET {"stale read", "given up"}]
      BY <1>1, <2>3, ExcuseGrows
    <3>2. call' \in [Slot -> Call \cup {Idle}]
      BY <1>1, <1>4 DEF Finish, ServiceTypes
    <3> QED BY <1>1, <1>2, <3>1, <3>2 DEF ServiceTypes
  <2>6. RowsSound'
    BY <1>1, <1>2 DEF RowsSound, RowSound
  <2>7. CallsSound'
    <3>1. ASSUME NEW t \in Slot, NEW e \in Call, call'[t] = e PROVE CallSound(e)'
      <4>1. CallSound(e)
        BY <1>1, <2>4, <3>1, CallIsNotIdle DEF CallsSound
      <4> QED BY <1>2, <4>1, CallStays
    <3> QED BY <3>1 DEF CallsSound
  <2>8. Mirrors'
    BY <1>1, <1>2, <1>4, <2>2, <2>3, ExcuseKeepsMirrors
  <2>9. VerifiedIsVerified'
    BY <1>1, <1>2 DEF VerifiedIsVerified
  <2> QED BY <2>5, <2>6, <2>7, <2>8, <2>9 DEF ServiceInv
<1> QED BY <1>3, <1>4 DEF GiveUp

LEMMA SaveKeeps ==
    ASSUME ServiceInv, NEW s \in Slot, Save(s)
    PROVE  ServiceInv'
<1>1. ServiceTypes /\ RowsSound /\ CallsSound /\ Mirrors /\ VerifiedIsVerified
  BY DEF ServiceInv
<1>2. UNCHANGED phase /\ UNCHANGED judge /\ UNCHANGED excuse
  BY DEF Save, lifecycleVars
<1>3. call[s] \in Call
  <2>1. call[s].pc # "idle"
    BY DEF Save
  <2> QED BY <1>1, <2>1, InFlight
<1>4. PICK c \in Call : c = call[s]
  BY <1>3
<1>5. PICK r : r = Written(c)
  OBVIOUS
<1>6. c.job \in JobId /\ c.op \in Op /\ CallSound(c) /\ c.pc = "mined"
  BY <1>1, <1>4 DEF Call, CallsSound, Save
<1>7. /\ r \in Row /\ r.status = To[c.op] /\ RowSound(r)
      /\ c.op = "approve" => r.verifierId = c.actor /\ r.assignedTo # c.actor
  BY <1>5, <1>6, WrittenRow
<1>8. row' = [row EXCEPT ![c.job] = r] /\ call' = [call EXCEPT ![s] = Idle]
  BY <1>4, <1>5 DEF Save, Finish
<1>9. /\ row'[c.job] = r /\ \A j \in JobId : j # c.job => row'[j] = row[j]
      /\ call'[s] = Idle /\ \A t \in Slot : t # s => call'[t] = call[t]
  BY <1>1, <1>6, <1>8 DEF ServiceTypes
<1>10. ServiceTypes'
  BY <1>1, <1>2, <1>7, <1>8 DEF ServiceTypes
<1>11. RowsSound'
  <2>1. ASSUME NEW j \in JobId PROVE RowSound(row'[j])
    BY <1>1, <1>7, <1>9 DEF RowsSound
  <2> QED BY <2>1 DEF RowsSound, RowSound
<1>12. CallsSound'
  <2>1. ASSUME NEW t \in Slot, NEW e \in Call, call'[t] = e PROVE CallSound(e)'
    <3>1. CallSound(e)
      BY <1>1, <1>9, <2>1, CallIsNotIdle DEF CallsSound
    <3> QED BY <1>2, <3>1, CallStays
  <2> QED BY <2>1 DEF CallsSound
<1>13. Mirrors'
  <2>1. Idle.pc # "mined"
    BY DEF Idle
  <2>2. \A j \in JobId : ~Saving(s, j)' /\ (Saving(s, j) <=> j = c.job)
    BY <1>4, <1>6, <1>9, <2>1 DEF Saving
  <2>3. \A t \in Slot, j \in JobId : t # s => (Saving(t, j)' <=> Saving(t, j))
    BY <1>9 DEF Saving
  <2>4. ASSUME NEW j \in JobId, excuse'[j] = {}
        PROVE  /\ \A t \in Slot : Saving(t, j)' => call'[t].read = row'[j] /\ To[call'[t].op] = phase'[j]
               /\ \A t, u \in Slot : Saving(t, j)' /\ Saving(u, j)' => t = u
               /\ (\A t \in Slot : ~Saving(t, j)') => row'[j].status = phase'[j]
    <3>1. /\ \A t \in Slot : Saving(t, j) => call[t].read = row[j] /\ To[call[t].op] = phase[j]
          /\ \A t, u \in Slot : Saving(t, j) /\ Saving(u, j) => t = u
          /\ (\A t \in Slot : ~Saving(t, j)) => row[j].status = phase[j]
      BY <1>1, <1>2, <2>4 DEF Mirrors
    <3>2. CASE j = c.job
      <4>1. \A t \in Slot : ~Saving(t, j)'
        BY <2>2, <2>3, <3>1, <3>2
      <4>2. row'[j].status = phase'[j]
        BY <1>2, <1>4, <1>7, <1>9, <2>2, <3>1, <3>2
      <4> QED BY <4>1, <4>2
    <3>3. CASE j # c.job
      <4>1. \A t \in Slot : (Saving(t, j)' <=> Saving(t, j)) /\ (Saving(t, j) => call'[t] = call[t])
        BY <1>9, <2>2, <2>3, <3>3
      <4>2. row'[j] = row[j] /\ phase'[j] = phase[j]
        BY <1>2, <1>9, <3>3
      <4> QED BY <3>1, <4>1, <4>2
    <3> QED BY <3>2, <3>3
  <2> QED BY <2>4 DEF Mirrors
<1>14. VerifiedIsVerified'
  <2>1. r.status = "VERIFIED" => c.op = "approve"
    BY <1>6, <1>7 DEF Op, To
  <2>2. c.op = "approve" => phase[c.job] = "VERIFIED" /\ judge[c.job] = c.actor
    BY <1>6 DEF CallSound
  <2>3. ASSUME NEW j \in JobId, row'[j].status = "VERIFIED"
        PROVE  /\ phase'[j] = "VERIFIED" /\ row'[j].verifierId = judge'[j]
               /\ row'[j].verifierId # row'[j].assignedTo
    <3>1. CASE j = c.job
      BY <1>2, <1>7, <1>9, <2>1, <2>2, <2>3, <3>1
    <3>2. CASE j # c.job
      BY <1>1, <1>2, <1>9, <2>3, <3>2 DEF VerifiedIsVerified
    <3> QED BY <3>1, <3>2
  <2> QED BY <2>3 DEF VerifiedIsVerified
<1> QED BY <1>10, <1>11, <1>12, <1>13, <1>14 DEF ServiceInv

LEMMA ServiceInvStep == ServiceInv /\ [ServiceNext]_allVars => ServiceInv'
<1> SUFFICES ASSUME ServiceInv, [ServiceNext]_allVars PROVE ServiceInv'
  OBVIOUS
<1>1. ASSUME NEW s \in Slot, Send(s) PROVE ServiceInv'
  <2>1. call[s].pc = "checked" /\ SetPc(s, "sent") /\ UNCHANGED <<lifecycleVars, row, excuse>>
    BY <1>1 DEF Send
  <2>2. "sent" \in {"sent", "reverted", "orphan"}
    OBVIOUS
  <2> QED BY <2>1, <2>2, PcKeeps
<1>2. ASSUME NEW s \in Slot, Refuse(s) \/ Throw(s) PROVE ServiceInv'
  <2>1. call[s].pc # "mined" /\ Finish(s) /\ UNCHANGED <<lifecycleVars, row, excuse>>
    BY <1>2 DEF Refuse, Throw
  <2> QED BY <2>1, FinishKeeps
<1>3. ASSUME NEW s \in Slot, Revert(s) PROVE ServiceInv'
  <2>1. UNCHANGED <<lifecycleVars, row, excuse>>
    BY <1>3 DEF Revert
  <2>2. CASE call[s].pc = "sent" /\ SetPc(s, "reverted")
    <3>1. "reverted" \in {"sent", "reverted", "orphan"}
      OBVIOUS
    <3> QED BY <2>1, <2>2, <3>1, PcKeeps
  <2>3. CASE call[s].pc = "orphan" /\ Finish(s)
    <3>1. call[s].pc # "mined"
      BY <2>3
    <3> QED BY <2>1, <2>3, <3>1, FinishKeeps
  <2> QED BY <1>3, <2>2, <2>3 DEF Revert
<1>4. CASE UNCHANGED allVars
  <2>1. UNCHANGED phase /\ UNCHANGED judge /\ UNCHANGED row /\ UNCHANGED call /\ UNCHANGED excuse
    BY <1>4 DEF allVars, lifecycleVars, serviceVars
  <2>2. CallsSound'
    <3>1. ASSUME NEW t \in Slot, NEW e \in Call, call'[t] = e PROVE CallSound(e)'
      <4>1. CallSound(e)
        BY <2>1, <3>1 DEF ServiceInv, CallsSound
      <4> QED BY <2>1, <4>1, CallStays
    <3> QED BY <3>1 DEF CallsSound
  <2>3. ServiceTypes'
    BY <2>1 DEF ServiceInv, ServiceTypes
  <2>4. RowsSound'
    BY <2>1 DEF ServiceInv, RowsSound, RowSound
  <2>5. Mirrors'
    BY <2>1 DEF ServiceInv, Mirrors, Saving
  <2>6. VerifiedIsVerified'
    BY <2>1 DEF ServiceInv, VerifiedIsVerified
  <2> QED BY <2>2, <2>3, <2>4, <2>5, <2>6 DEF ServiceInv
<1> QED BY <1>1, <1>2, <1>3, <1>4, RequestKeeps, MineKeeps, GiveUpKeeps, SaveKeeps
        DEF ServiceNext, Answer

-----------------------------------------------------------------------------
(* The theorems.                                                           *)

\* The inductive invariant of the job service.
THEOREM ServiceInvariant == ServiceSpec => []ServiceInv
BY ServiceInvInit, ServiceInvStep, PTL DEF ServiceSpec

\* The types of the rows and the requests.
LEMMA ServiceTypesCorrect == ServiceInv => ServiceTypeOK
<1> SUFFICES ASSUME ServiceInv PROVE ServiceTypeOK
  OBVIOUS
<1>1. row \in [JobId -> Row]
  BY DEF ServiceInv, ServiceTypes
<1>2. ASSUME NEW s \in Slot, call[s] # Idle
      PROVE  /\ call[s].pc \in {"checked", "sent", "mined", "reverted", "orphan"}
             /\ call[s].op \in Op /\ call[s].job \in JobId
             /\ call[s].actor \in Person /\ call[s].arg \in Person \cup {Nobody}
             /\ call[s].read \in Row
  <2>1. call[s] \in Call
    BY <1>2 DEF ServiceInv, ServiceTypes
  <2> QED BY <2>1 DEF Call
<1>3. \A j \in JobId : row[j].status \notin {"NONE", "CREATED"} => row[j].assignedTo \in Person
  BY DEF ServiceInv, RowsSound, RowSound
<1> QED BY <1>1, <1>2, <1>3 DEF ServiceTypeOK

\* As long as no transaction of a job took effect after its request was given
\* up, and none on a row that was stale by then, the row and the chain agree on
\* the job, or the one request that has the receipt is about to make them
\* agree: all other races between requests have exactly one winner.
THEOREM RowMirrorsCorrect == ServiceSpec => []RowMirrorsChain
<1>1. ASSUME ServiceInv PROVE RowMirrorsChain
  <2>1. ASSUME NEW j \in JobId, excuse[j] = {}
        PROVE  \/ row[j].status = phase[j]
               \/ \E s \in Slot : /\ call[s].pc = "mined" /\ call[s].job = j
                                  /\ call[s].read = row[j] /\ Written(call[s]).status = phase[j]
    <3>1. CASE \A s \in Slot : ~Saving(s, j)
      BY <1>1, <2>1, <3>1 DEF ServiceInv, Mirrors
    <3>2. ASSUME NEW s \in Slot, Saving(s, j)
          PROVE  /\ call[s].pc = "mined" /\ call[s].job = j
                 /\ call[s].read = row[j] /\ Written(call[s]).status = phase[j]
      <4>1. call[s].pc = "mined" /\ call[s].job = j /\ call[s].pc # "idle"
        BY <3>2 DEF Saving
      <4>2. call[s].read = row[j] /\ To[call[s].op] = phase[j]
        BY <1>1, <2>1, <3>2 DEF ServiceInv, Mirrors
      <4>3. PICK c \in Call : c = call[s]
        BY <1>1, <4>1, InFlight DEF ServiceInv
      <4>4. CallSound(c)
        BY <1>1, <4>3 DEF ServiceInv, CallsSound
      <4>5. Written(c).status = To[c.op]
        BY <4>4, WrittenRow
      <4> QED BY <4>1, <4>2, <4>3, <4>5
    <3> QED BY <3>1, <3>2
  <2> QED BY <1>1, <2>1, ServiceTypesCorrect DEF RowMirrorsChain
<1> QED BY <1>1, ServiceInvariant, PTL

\* A row that says VERIFIED is verified on the chain, by the person the row
\* names, who is not the one the row says did the work.
THEOREM VerifiedCorrect == ServiceSpec => []VerifiedIsVerified
<1>1. ASSUME ServiceInv PROVE VerifiedIsVerified
  BY <1>1 DEF ServiceInv
<1> QED BY <1>1, ServiceInvariant, PTL
=============================================================================
