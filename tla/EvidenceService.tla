--------------------------- MODULE EvidenceService ---------------------------
(***************************************************************************)
(* backend/src/evidence: documents of a job, their bytes in IPFS, their    *)
(* records in the database, and the completion of a job with one of them   *)
(* (routes/jobs.routes.ts).                                                *)
(*                                                                         *)
(* A request is its accesses one after the other.  Bytes are known by      *)
(* their content, which stands for their SHA-256 and for the CID as well;  *)
(* the node may come to serve other bytes under a CID (THREAT_MODEL T14).  *)
(* Jobs move as JobsService moves them, completion in one step.            *)
(***************************************************************************)
EXTENDS Naturals, Sequences

CONSTANTS
    Job, Person,
    Viewer,             \* who may see the evidence of every job; others their own
    EvidenceId,         \* bound: records; randomUUID
    Content, SizeOf,    \* what files hold, and their length
    MaxFileSize,        \* EVIDENCE_MAX_FILE_SIZE_MB
    Slot,               \* bound: requests in flight
    None

ASSUME EvidenceAssumption ==
    /\ Viewer \subseteq Person
    /\ SizeOf \in [Content -> Nat] /\ MaxFileSize \in Nat
    /\ None \notin Job \cup Person \cup EvidenceId \cup Content

VARIABLES
    job,        \* job rows: status and assignedTo
    object,     \* IPFS: what is served under each CID
    record,     \* evidence rows
    completed,  \* the last completion of each job: the hash, and the record named
    req,
    answer,     \* the status code of the last answer, with the bytes it carried
    pinned,     \* history: the bytes the node has accepted
    late        \* history: records saved when their job was no longer IN_PROGRESS

evidenceVars == <<job, object, record, completed, req, answer, pinned, late>>

NoRecord == [job |-> None, cid |-> None, sha256 |-> None, uploadedBy |-> None]
NoAnswer == [code |-> 0, kind |-> None, id |-> None, bytes |-> None]
Idle     == [todo |-> <<>>]

At(s, step) == req[s] # Idle /\ Head(req[s].todo) = step
Pass(s)     == req' = [req EXCEPT ![s].todo = Tail(@)] /\ answer' = NoAnswer

Answer(s, code, id, bytes) ==
    /\ req' = [req EXCEPT ![s] = Idle]
    /\ answer' = [code |-> code, kind |-> req[s].kind, id |-> id, bytes |-> bytes]
Refuse(s, code) == Answer(s, code, None, None)

-----------------------------------------------------------------------------
(* Requests.                                                               *)

Begin(s, kind, j, p, id, bytes, todo) ==
    /\ req[s] = Idle
    /\ req' = [req EXCEPT ![s] = [kind |-> kind, job |-> j, actor |-> p, id |-> id,
                                  bytes |-> bytes, todo |-> todo]]
    /\ answer' = NoAnswer
    /\ UNCHANGED <<job, object, record, completed, pinned, late>>

\* readEvidenceMultipart and validateUpload: neither empty nor too long.
ValidUpload(c) == SizeOf[c] > 0 /\ SizeOf[c] <= MaxFileSize

Upload(s, j, p, c) ==
    ValidUpload(c) /\ Begin(s, "upload", j, p, None, c, <<"job", "store", "record">>)

Download(s, j, p, id) == Begin(s, "download", j, p, id, None, <<"job", "find", "cat">>)

\* The completion route: with a record, whose hash is looked up and compared
\* with a hash that is sent along, or with a hash alone.
CompleteWith(s, j, p, id, hash) ==
    Begin(s, "complete", j, p, id, hash, <<"job", "find", "complete">>)
CompleteWithHash(s, j, p, hash) == Begin(s, "complete", j, p, None, hash, <<"complete">>)

-----------------------------------------------------------------------------
(* Accesses.                                                               *)

\* assertCanUpload, or assertCanView.
AssertCan(r) ==
    IF r.kind = "upload"
    THEN job[r.job].assignedTo = r.actor /\ job[r.job].status = "IN_PROGRESS"
    ELSE r.actor \in Viewer \/ job[r.job].assignedTo = r.actor

RequireJob(s) ==
    LET r == req[s] IN
    /\ At(s, "job")
    /\ \/ AssertCan(r) /\ Pass(s)
       \/ ~AssertCan(r) /\ r.kind = "upload" /\ job[r.job].assignedTo = r.actor /\ Refuse(s, 400)
       \/ ~AssertCan(r) /\ ~(r.kind = "upload" /\ job[r.job].assignedTo = r.actor) /\ Refuse(s, 403)
    /\ UNCHANGED <<job, object, record, completed, pinned, late>>

\* storage.upload: pinned by the node, or 503.
Store(s) ==
    LET r == req[s] IN
    /\ At(s, "store")
    /\ \/ /\ object' = [object EXCEPT ![r.bytes] = r.bytes]
          /\ pinned' = pinned \cup {r.bytes}
          /\ IF Len(r.todo) > 1 THEN Pass(s) ELSE Refuse(s, 201)
       \/ Refuse(s, 503) /\ UNCHANGED <<object, pinned>>
    /\ UNCHANGED <<job, record, completed, late>>

\* repository.save, under a fresh id.  When it fails the object stays pinned.
SaveRecord(s) ==
    LET r == req[s] IN
    /\ At(s, "record")
    /\ \/ \E id \in EvidenceId :
             /\ record[id] = NoRecord
             /\ record' = [record EXCEPT ![id] =
                   [job |-> r.job, cid |-> r.bytes, sha256 |-> r.bytes, uploadedBy |-> r.actor]]
             /\ late' = IF job[r.job] = [status |-> "IN_PROGRESS", assignedTo |-> r.actor]
                        THEN late ELSE late \cup {id}
             /\ IF Len(r.todo) > 1 THEN Pass(s) ELSE Answer(s, 201, id, None)
       \/ Refuse(s, 500) /\ UNCHANGED <<record, late>>
    /\ UNCHANGED <<job, object, completed, pinned>>

\* Faulty variant: a record of any job will do.
FindAnywhere(s) ==
    LET r == req[s] row == record[r.id] IN
    /\ At(s, "find")
    /\ IF row = NoRecord THEN Refuse(s, 404)
       ELSE req' = [req EXCEPT ![s].todo = Tail(@), ![s].bytes = row.sha256] /\ answer' = NoAnswer
    /\ UNCHANGED <<job, object, record, completed, pinned, late>>

\* repository.findById and the comparison of the job, in download and getHash.
\* The Prisma repository maps a row that is not there and fails on it.
FindRecord(s) ==
    LET r == req[s] row == record[r.id] IN
    /\ At(s, "find")
    /\ CASE row = NoRecord     -> Refuse(s, 500)
         [] row # NoRecord /\ row.job # r.job -> Refuse(s, 404)
         [] row # NoRecord /\ row.job = r.job ->
              IF r.kind = "complete" /\ r.bytes \notin {None, row.sha256} THEN Refuse(s, 400)
              ELSE req' = [req EXCEPT ![s].todo = Tail(@), ![s].bytes = row.sha256]
                   /\ answer' = NoAnswer
    /\ UNCHANGED <<job, object, record, completed, pinned, late>>

\* Faulty variant: the bytes are passed on as the node gives them.
CatUnverified(s) ==
    /\ At(s, "cat") /\ object[req[s].bytes] # None
    /\ Answer(s, 200, req[s].id, object[req[s].bytes])
    /\ UNCHANGED <<job, object, record, completed, pinned, late>>

\* storage.download, bounded, and the hash of what came.
Cat(s) ==
    LET r == req[s] bytes == object[record[r.id].cid] IN
    /\ At(s, "cat")
    /\ \/ Refuse(s, 503)
       \/ /\ bytes # None
          /\ IF SizeOf[bytes] > MaxFileSize THEN Refuse(s, 503)
             ELSE IF bytes # r.bytes THEN Refuse(s, 409) ELSE Answer(s, 200, r.id, bytes)
    /\ UNCHANGED <<job, object, record, completed, pinned, late>>

\* jobs.complete: the job is read and checked again.
Complete(s) ==
    LET r == req[s] IN
    /\ At(s, "complete")
    /\ IF job[r.job] = [status |-> "IN_PROGRESS", assignedTo |-> r.actor]
       THEN /\ job' = [job EXCEPT ![r.job].status = "COMPLETED"]
            /\ completed' = [completed EXCEPT ![r.job] = [hash |-> r.bytes, id |-> r.id]]
            /\ Answer(s, 200, None, None)
       ELSE Refuse(s, 409) /\ UNCHANGED <<job, completed>>
    /\ UNCHANGED <<object, record, pinned, late>>

-----------------------------------------------------------------------------
(* The surroundings.                                                       *)

\* JobsService: assign, start, reject and assign again.
MoveJob(j) ==
    /\ \/ /\ job[j].status \in {"CREATED", "REJECTED"}
          /\ \E p \in Person : job' = [job EXCEPT ![j] = [status |-> "ASSIGNED", assignedTo |-> p]]
       \/ job[j].status = "ASSIGNED"  /\ job' = [job EXCEPT ![j].status = "IN_PROGRESS"]
       \/ job[j].status = "COMPLETED" /\ job' = [job EXCEPT ![j].status = "REJECTED"]
       \/ job[j].status = "COMPLETED" /\ job' = [job EXCEPT ![j].status = "VERIFIED"]
    /\ answer' = NoAnswer
    /\ UNCHANGED <<object, record, completed, req, pinned, late>>

\* The node loses an object, or serves others.
Corrupt(c) ==
    /\ object[c] # None
    /\ \E other \in (Content \cup {None}) \ {object[c]} : object' = [object EXCEPT ![c] = other]
    /\ answer' = NoAnswer
    /\ UNCHANGED <<job, record, completed, req, pinned, late>>

-----------------------------------------------------------------------------
EvidenceInit ==
    /\ job = [j \in Job |-> [status |-> "CREATED", assignedTo |-> None]]
    /\ object = [c \in Content |-> None]
    /\ record = [id \in EvidenceId |-> NoRecord]
    /\ completed = [j \in Job |-> [hash |-> None, id |-> None]]
    /\ req = [s \in Slot |-> Idle]
    /\ answer = NoAnswer
    /\ pinned = {}
    /\ late = {}

Client(s) ==
    \E j \in Job, p \in Person :
        \/ \E c \in Content : Upload(s, j, p, c) \/ CompleteWithHash(s, j, p, c)
        \/ \E id \in EvidenceId :
              Download(s, j, p, id) \/ \E c \in Content \cup {None} : CompleteWith(s, j, p, id, c)

Serve(s) ==
    RequireJob(s) \/ Store(s) \/ SaveRecord(s) \/ FindRecord(s) \/ Cat(s) \/ Complete(s)

EvidenceNext ==
    \/ \E s \in Slot : Client(s) \/ Serve(s)
    \/ \E j \in Job : MoveJob(j)
    \/ \E c \in Content : Corrupt(c)

EvidenceSpec == EvidenceInit /\ [][EvidenceNext]_evidenceVars

-----------------------------------------------------------------------------
(* Properties.                                                             *)

\* Rows are well formed, and a record stands for bytes the node had accepted
\* before it was saved, with their hash (they may be lost or spoilt since).
EvidenceTypeOK ==
    /\ \A j \in Job : job[j].assignedTo \in Person \cup {None}
    /\ \A id \in EvidenceId : record[id] # NoRecord =>
          /\ record[id].job \in Job /\ record[id].uploadedBy \in Person
          /\ record[id].cid \in pinned /\ record[id].sha256 = record[id].cid

\* THREAT_MODEL T14: "The backend recalculates SHA-256 over retrieved bytes and
\* compares it with the PostgreSQL record before returning the file".  Whatever
\* the node serves meanwhile, the bytes of an answer are those of the record.
ServedIntact ==
    /\ EvidenceTypeOK
    /\ (answer.code = 200 /\ answer.bytes # None) => answer.bytes = record[answer.id].sha256

\* API_SPEC.yaml: "when supplied its stored SHA-256 is used and checked".  A job
\* that was completed with an evidence record carries the hash of that record,
\* which is a record of the same job.
CompletedWithOwnEvidence ==
    \A j \in Job : completed[j].id # None =>
        /\ record[completed[j].id].job = j
        /\ completed[j].hash = record[completed[j].id].sha256

-----------------------------------------------------------------------------
(* Statements of the documentation that do not hold (see the README).      *)

\* evidence.service.ts:115: "Evidence may only be uploaded while the job is
\* IN_PROGRESS".  No record is saved after its job was completed, or passed to
\* somebody else.  The job is read before the bytes are stored and not again.
NoLateEvidence == late = {}

\* evidence.service.ts:81: an unknown id is a NotFoundError.  No request that
\* reads fails with a 500 (storage errors are 503).
UnknownIsNotFound == answer.code = 500 => answer.kind = "upload"
=============================================================================
