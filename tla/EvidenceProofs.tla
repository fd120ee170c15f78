--------------------------- MODULE EvidenceProofs ----------------------------
(***************************************************************************)
(* Proofs about the evidence service (EvidenceService): the bytes that are *)
(* served and the hash a job is completed with, for any number of jobs,    *)
(* people, records and requests, and whatever the storage node does.       *)
(***************************************************************************)
EXTENDS EvidenceService, TLAPS

-----------------------------------------------------------------------------
(* The inductive invariant.                                                *)

JobRow  == [status : {"CREATED", "ASSIGNED", "IN_PROGRESS", "COMPLETED", "VERIFIED", "REJECTED"},
            assignedTo : Person \cup {None}]
Record  == [job : Job, cid : Content, sha256 : Content, uploadedBy : Person]
Access  == {"job", "store", "record", "find", "cat", "complete"}
Request == [kind : {"upload", "download", "complete"}, job : Job, actor : Person,
            id : EvidenceId \cup {None}, bytes : Content \cup {None}, todo : Seq(Access)]

EvidenceTypes ==
    /\ job \in [Job -> JobRow]
    /\ object \in [Content -> Content \cup {None}]
    /\ record \in [EvidenceId -> Record \cup {NoRecord}]
    /\ completed \in [Job -> [hash : Content \cup {None}, id : EvidenceId \cup {None}]]
    /\ req \in [Slot -> Request \cup {Idle}]
    /\ pinned \subseteq Content

\* What a request of each kind has left to do.
OnScript(r) ==
    \/ /\ r.kind = "upload"
       /\ r.todo \in {<<"job", "store", "record">>, <<"store", "record">>, <<"record">>}
    \/ /\ r.kind = "download" /\ r.id \in EvidenceId
       /\ r.todo \in {<<"job", "find", "cat">>, <<"find", "cat">>, <<"cat">>}
    \/ /\ r.kind = "complete" /\ r.id \in EvidenceId
       /\ r.todo \in {<<"job", "find", "complete">>, <<"find", "complete">>, <<"complete">>}
    \/ r.kind = "complete" /\ r.id = None /\ r.todo = <<"complete">>

\* Record id is there, belongs to job j and has the hash h.
Holds(id, j, h) == record[id] # NoRecord /\ record[id].job = j /\ record[id].sha256 = h

\* What a request relies on after an await: the bytes it is about to record
\* were accepted by the node, and the hash it carries on after the lookup is
\* that of a record of its job.
RequestSound(r) ==
    /\ OnScript(r)
    /\ r.kind = "upload" => r.bytes \in Content
    /\ Head(r.todo) = "record" => r.bytes \in pinned
    /\ r.id # None /\ Head(r.todo) \in {"cat", "complete"} => Holds(r.id, r.job, r.bytes)

RequestsSound == \A s \in Slot, r \in Request : req[s] = r => RequestSound(r)

\* A record stands for bytes the node accepted, under their hash.
RecordsSound ==
    \A id \in EvidenceId : record[id] # NoRecord =>
        record[id].cid \in pinned /\ record[id].sha256 = record[id].cid

CompletedSound ==
    \A j \in Job : completed[j].id # None => Holds(completed[j].id, j, completed[j].hash)

AnswerSound ==
    (answer.code = 200 /\ answer.bytes # None) => answer.bytes = record[answer.id].sha256

EvidenceInv ==
    /\ EvidenceTypes
    /\ RequestsSound
    /\ RecordsSound
    /\ CompletedSound
    /\ AnswerSound

-----------------------------------------------------------------------------
(* Requests and their scripts.                                             *)

LEMMA RequestIsNotIdle == \A r \in Request : r # Idle
<1>1. \A r \in Request : "kind" \in DOMAIN r
  BY DEF Request
<1>2. "kind" \notin DOMAIN Idle
  BY DEF Idle
<1> QED BY <1>1, <1>2

\* The access after the present one.
Onward(r) == [r EXCEPT !.todo = Tail(r.todo)]

LEMMA Tuples ==
    ASSUME NEW a \in Access, NEW b \in Access, NEW c \in Access
    PROVE  /\ Head(<<a>>) = a /\ Len(<<a>>) = 1
           /\ Head(<<a, b>>) = a /\ Len(<<a, b>>) = 2 /\ Tail(<<a, b>>) = <<b>>
           /\ Head(<<a, b, c>>) = a /\ Len(<<a, b, c>>) = 3 /\ Tail(<<a, b, c>>) = <<b, c>>
           /\ <<a>> \in Seq(Access) /\ <<a, b>> \in Seq(Access) /\ <<a, b, c>> \in Seq(Access)
OBVIOUS

\* Where a request is, by its next access.
LEMMA ScriptPlace ==
    ASSUME NEW r \in Request, OnScript(r)
    PROVE  /\ r.todo # <<>>
           /\ Head(r.todo) \in Access
           /\ Head(r.todo) = "job" =>
                /\ OnScript(Onward(r)) /\ Len(r.todo) = 3
                /\ Head(Tail(r.todo)) \in {"store", "find"}
           /\ Head(r.todo) = "store" =>
                /\ OnScript(Onward(r)) /\ Len(r.todo) = 2
                /\ Head(Tail(r.todo)) = "record" /\ r.kind = "upload"
           /\ Head(r.todo) = "record" => Len(r.todo) = 1 /\ r.kind = "upload"
           /\ Head(r.todo) = "find" =>
                /\ OnScript(Onward(r)) /\ Len(r.todo) = 2
                /\ Head(Tail(r.todo)) \in {"cat", "complete"}
                /\ r.kind # "upload" /\ r.id \in EvidenceId
           /\ Head(r.todo) = "cat" => r.kind = "download" /\ r.id \in EvidenceId
           /\ Head(r.todo) = "complete" => r.kind = "complete"
<1>1. "job" \in Access /\ "store" \in Access /\ "record" \in Access /\ "find" \in Access
      /\ "cat" \in Access /\ "complete" \in Access
  BY DEF Access
<1>2. PICK d : d = Onward(r)
  OBVIOUS
<1>3. d.kind = r.kind /\ d.id = r.id /\ d.todo = Tail(r.todo)
  BY <1>2 DEF Onward, Request
<1>4. OnScript(d) => OnScript(Onward(r))
  BY <1>2
<1>5. None \notin EvidenceId
  BY EvidenceAssumption
<1>6. CASE r.kind = "upload" /\ r.todo = <<"job", "store", "record">>
  <2>1. Head(r.todo) = "job" /\ Len(r.todo) = 3 /\ Tail(r.todo) = <<"store", "record">>
        /\ Head(Tail(r.todo)) = "store"
    BY <1>1, <1>6, Tuples
  <2>2. OnScript(d)
    BY <1>3, <1>6, <2>1 DEF OnScript
  <2> QED BY <1>1, <1>4, <1>6, <2>1, <2>2
<1>7. CASE r.kind = "upload" /\ r.todo = <<"store", "record">>
  <2>1. Head(r.todo) = "store" /\ Len(r.todo) = 2 /\ Tail(r.todo) = <<"record">>
        /\ Head(Tail(r.todo)) = "record"
    BY <1>1, <1>7, Tuples
  <2>2. OnScript(d)
    BY <1>3, <1>7, <2>1 DEF OnScript
  <2> QED BY <1>1, <1>4, <1>7, <2>1, <2>2
<1>8. CASE r.kind = "upload" /\ r.todo = <<"record">>
  <2>1. Head(r.todo) = "record" /\ Len(r.todo) = 1
    BY <1>1, <1>8, Tuples
  <2> QED BY <1>1, <1>8, <2>1
<1>9. CASE r.kind = "download" /\ r.id \in EvidenceId /\ r.todo = <<"job", "find", "cat">>
  <2>1. Head(r.todo) = "job" /\ Len(r.todo) = 3 /\ Tail(r.todo) = <<"find", "cat">>
        /\ Head(Tail(r.todo)) = "find"
    BY <1>1, <1>9, Tuples
  <2>2. OnScript(d)
    BY <1>3, <1>9, <2>1 DEF OnScript
  <2> QED BY <1>1, <1>4, <1>9, <2>1, <2>2
<1>10. CASE r.kind = "download" /\ r.id \in EvidenceId /\ r.todo = <<"find", "cat">>
  <2>1. Head(r.todo) = "find" /\ Len(r.todo) = 2 /\ Tail(r.todo) = <<"cat">>
        /\ Head(Tail(r.todo)) = "cat"
    BY <1>1, <1>10, Tuples
  <2>2. OnScript(d)
    BY <1>3, <1>10, <2>1 DEF OnScript
  <2> QED BY <1>1, <1>4, <1>10, <2>1, <2>2
<1>11. CASE r.kind = "download" /\ r.id \in EvidenceId /\ r.todo = <<"cat">>
  <2>1. Head(r.todo) = "cat" /\ Len(r.todo) = 1
    BY <1>1, <1>11, Tuples
  <2> QED BY <1>1, <1>11, <2>1
<1>12. CASE r.kind = "complete" /\ r.id \in EvidenceId /\ r.todo = <<"job", "find", "complete">>
  <2>1. Head(r.todo) = "job" /\ Len(r.todo) = 3 /\ Tail(r.todo) = <<"find", "complete">>
        /\ Head(Tail(r.todo)) = "find"
    BY <1>1, <1>12, Tuples
  <2>2. OnScript(d)
    BY <1>3, <1>12, <2>1 DEF OnScript
  <2> QED BY <1>1, <1>4, <1>12, <2>1, <2>2
<1>13. CASE r.kind = "complete" /\ r.id \in EvidenceId /\ r.todo = <<"find", "complete">>
  <2>1. Head(r.todo) = "find" /\ Len(r.todo) = 2 /\ Tail(r.todo) = <<"complete">>
        /\ Head(Tail(r.todo)) = "complete"
    BY <1>1, <1>13, Tuples
  <2>2. OnScript(d)
    BY <1>3, <1>13, <2>1 DEF OnScript
  <2> QED BY <1>1, <1>4, <1>13, <2>1, <2>2
<1>14. CASE r.kind = "complete" /\ r.todo = <<"complete">>
  <2>1. Head(r.todo) = "complete" /\ Len(r.todo) = 1
    BY <1>1, <1>14, Tuples
  <2> QED BY <1>1, <1>14, <2>1
<1> QED BY <1>6, <1>7, <1>8, <1>9, <1>10, <1>11, <1>12, <1>13, <1>14 DEF OnScript

\* The request of a slot that is at an access.
LEMMA AtRequest ==
    ASSUME EvidenceInv, NEW s \in Slot, NEW a, At(s, a)
    PROVE  req[s] \in Request /\ Head(req[s].todo) = a /\ RequestSound(req[s])
BY DEF EvidenceInv, EvidenceTypes, RequestsSound, At

-----------------------------------------------------------------------------
(* What steps leave alone.                                                 *)

\* Records are never overwritten and the node forgets nothing it accepted
\* (although it may come to serve something else).
Grows ==
    /\ pinned \subseteq pinned'
    /\ \A id \in EvidenceId : record[id] # NoRecord => record'[id] = record[id]

LEMMA RequestStaysSound ==
    ASSUME NEW r \in Request, RequestSound(r), Grows
    PROVE  RequestSound(r)'
<1>1. OnScript(r)' /\ (r.kind = "upload" => r.bytes \in Content)
  BY DEF RequestSound, OnScript
<1>2. Head(r.todo) = "record" => r.bytes \in pinned'
  BY DEF RequestSound, Grows
<1>3. r.id # None => r.id \in EvidenceId
  BY DEF Request
<1>4. r.id # None /\ Head(r.todo) \in {"cat", "complete"} => Holds(r.id, r.job, r.bytes)'
  BY <1>3 DEF RequestSound, Grows, Holds
<1> QED BY <1>1, <1>2, <1>4 DEF RequestSound

\* One slot changes.
LEMMA RequestsKeep ==
    ASSUME EvidenceInv, Grows, NEW s \in Slot, NEW d \in Request \cup {Idle},
           d \in Request => RequestSound(d)', req' = [req EXCEPT ![s] = d]
    PROVE  req' \in [Slot -> Request \cup {Idle}] /\ RequestsSound'
<1>1. req \in [Slot -> Request \cup {Idle}] /\ RequestsSound
  BY DEF EvidenceInv, EvidenceTypes
<1>2. ASSUME NEW t \in Slot, NEW r \in Request, req'[t] = r PROVE RequestSound(r)'
  <2>1. CASE t = s
    BY <1>1, <1>2, <2>1
  <2>2. CASE t # s
    <3>1. RequestSound(r)
      BY <1>1, <1>2, <2>2 DEF RequestsSound
    <3> QED BY <3>1, RequestStaysSound
  <2> QED BY <2>1, <2>2
<1> QED BY <1>1, <1>2 DEF RequestsSound

\* A step that changes neither a record, a completion nor what was pinned, and
\* answers without bytes.
LEMMA QuietStep ==
    ASSUME EvidenceInv,
           UNCHANGED <<record, completed, pinned>>,
           job' \in [Job -> JobRow],
           object' \in [Content -> Content \cup {None}],
           req' \in [Slot -> Request \cup {Idle}], RequestsSound',
           AnswerSound'
    PROVE  EvidenceInv'
<1>1. UNCHANGED record /\ UNCHANGED completed /\ UNCHANGED pinned
  OBVIOUS
<1>2. EvidenceTypes'
  BY <1>1 DEF EvidenceInv, EvidenceTypes
<1>3. RecordsSound'
  BY <1>1 DEF EvidenceInv, RecordsSound
<1>4. CompletedSound'
  BY <1>1 DEF EvidenceInv, CompletedSound, Holds
<1> QED BY <1>2, <1>3, <1>4 DEF EvidenceInv

LEMMA UnchangedGrows ==
    ASSUME UNCHANGED <<record, pinned>>
    PROVE  Grows
BY DEF Grows

LEMMA NoAnswerSound ==
    ASSUME answer' = NoAnswer
    PROVE  AnswerSound'
BY DEF AnswerSound, NoAnswer

LEMMA RefusedSound ==
    ASSUME NEW s \in Slot, NEW code, Refuse(s, code)
    PROVE  AnswerSound' /\ req' = [req EXCEPT ![s] = Idle]
BY DEF Refuse, Answer, AnswerSound

-----------------------------------------------------------------------------
(* Every step keeps the invariant.                                         *)

LEMMA EvidenceInvInit == EvidenceInit => EvidenceInv
<1> SUFFICES ASSUME EvidenceInit PROVE EvidenceInv
  OBVIOUS
<1>1. EvidenceTypes
  BY DEF EvidenceInit, EvidenceTypes, JobRow
<1>2. RequestsSound
  BY RequestIsNotIdle DEF EvidenceInit, RequestsSound
<1>3. RecordsSound
  BY DEF EvidenceInit, RecordsSound
<1>4. CompletedSound
  BY DEF EvidenceInit, CompletedSound
<1>5. AnswerSound
  BY DEF EvidenceInit, AnswerSound, NoAnswer
<1> QED BY <1>1, <1>2, <1>3, <1>4, <1>5 DEF EvidenceInv

LEMMA BeginKeeps ==
    ASSUME EvidenceInv, NEW s \in Slot, NEW d \in Request, OnScript(d),
           d.kind = "upload" => d.bytes \in Content,
           Head(d.todo) = "record" => FALSE,
           d.id # None => Head(d.todo) = "job",
           req' = [req EXCEPT ![s] = d], answer' = NoAnswer,
           UNCHANGED <<job, object, record, completed, pinned, late>>
    PROVE  EvidenceInv'
<1>1. RequestSound(d)
  BY DEF RequestSound
<1>2. Grows
  BY UnchangedGrows
<1>3. req' \in [Slot -> Request \cup {Idle}] /\ RequestsSound'
  BY <1>1, <1>2, RequestStaysSound, RequestsKeep
<1>4. /\ job' \in [Job -> JobRow]
      /\ object' \in [Content -> Content \cup {None}]
  BY DEF EvidenceInv, EvidenceTypes
<1> QED BY <1>3, <1>4, NoAnswerSound, QuietStep

LEMMA ClientKeeps ==
    ASSUME EvidenceInv, NEW s \in Slot, Client(s)
    PROVE  EvidenceInv'
<1> "job" \in Access /\ "store" \in Access /\ "record" \in Access /\ "find" \in Access
    /\ "cat" \in Access /\ "complete" \in Access
  BY DEF Access
<1>1. PICK j \in Job, p \in Person :
        \/ \E c \in Content : Upload(s, j, p, c) \/ CompleteWithHash(s, j, p, c)
        \/ \E id \in EvidenceId :
              Download(s, j, p, id) \/ \E c \in Content \cup {None} : CompleteWith(s, j, p, id, c)
  BY DEF Client
<1>2. ASSUME NEW c \in Content, Upload(s, j, p, c) PROVE EvidenceInv'
  <2>1. PICK d : d = [kind |-> "upload", job |-> j, actor |-> p, id |-> None, bytes |-> c,
                      todo |-> <<"job", "store", "record">>]
    OBVIOUS
  <2>2. <<"job", "store", "record">> \in Seq(Access) /\ Head(<<"job", "store", "record">>) = "job"
    BY Tuples
  <2>3. d \in Request /\ d.kind = "upload" /\ d.id = None /\ d.bytes = c
        /\ d.todo = <<"job", "store", "record">>
    BY <2>1, <2>2 DEF Request
  <2>4. OnScript(d)
    BY <2>3 DEF OnScript
  <2> QED BY <1>2, <2>1, <2>2, <2>3, <2>4, BeginKeeps DEF Upload, Begin
<1>3. ASSUME NEW c \in Content, CompleteWithHash(s, j, p, c) PROVE EvidenceInv'
  <2>1. PICK d : d = [kind |-> "complete", job |-> j, actor |-> p, id |-> None, bytes |-> c,
                      todo |-> <<"complete">>]
    OBVIOUS
  <2>2. <<"complete">> \in Seq(Access) /\ Head(<<"complete">>) = "complete"
    BY Tuples
  <2>3. d \in Request /\ d.kind = "complete" /\ d.id = None /\ d.todo = <<"complete">>
    BY <2>1, <2>2 DEF Request
  <2>4. OnScript(d)
    BY <2>3 DEF OnScript
  <2> QED BY <1>3, <2>1, <2>2, <2>3, <2>4, BeginKeeps DEF CompleteWithHash, Begin
<1>4. ASSUME NEW id \in EvidenceId, Download(s, j, p, id) PROVE EvidenceInv'
  <2>1. PICK d : d = [kind |-> "download", job |-> j, actor |-> p, id |-> id, bytes |-> None,
                      todo |-> <<"job", "find", "cat">>]
    OBVIOUS
  <2>2. <<"job", "find", "cat">> \in Seq(Access) /\ Head(<<"job", "find", "cat">>) = "job"
    BY Tuples
  <2>3. d \in Request /\ d.kind = "download" /\ d.id = id /\ d.todo = <<"job", "find", "cat">>
    BY <2>1, <2>2 DEF Request
  <2>4. OnScript(d)
    BY <2>3 DEF OnScript
  <2> QED BY <1>4, <2>1, <2>2, <2>3, <2>4, BeginKeeps DEF Download, Begin
<1>5. ASSUME NEW id \in EvidenceId, NEW c \in Content \cup {None}, CompleteWith(s, j, p, id, c)
      PROVE  EvidenceInv'
  <2>1. PICK d : d = [kind |-> "complete", job |-> j, actor |-> p, id |-> id, bytes |-> c,
                      todo |-> <<"job", "find", "complete">>]
    OBVIOUS
  <2>2. /\ <<"job", "find", "complete">> \in Seq(Access)
        /\ Head(<<"job", "find", "complete">>) = "job"
    BY Tuples
  <2>3. d \in Request /\ d.kind = "complete" /\ d.id = id /\ d.todo = <<"job", "find", "complete">>
    BY <2>1, <2>2 DEF Request
  <2>4. OnScript(d)
    BY <2>3 DEF OnScript
  <2> QED BY <1>5, <2>1, <2>2, <2>3, <2>4, BeginKeeps DEF CompleteWith, Begin
<1> QED BY <1>1, <1>2, <1>3, <1>4, <1>5

\* The request goes on to its next access.
LEMMA PassRequest ==
    ASSUME EvidenceInv, NEW s \in Slot, Pass(s), NEW r \in Request, r = req[s], r.todo # <<>>
    PROVE  /\ Onward(r) \in Request /\ req' = [req EXCEPT ![s] = Onward(r)]
           /\ Onward(r).kind = r.kind /\ Onward(r).job = r.job /\ Onward(r).id = r.id
           /\ Onward(r).bytes = r.bytes /\ Onward(r).todo = Tail(r.todo)
           /\ AnswerSound'
<1>1. req \in [Slot -> Request \cup {Idle}] /\ r.todo \in Seq(Access)
  BY DEF EvidenceInv, EvidenceTypes, Request
<1>2. Tail(r.todo) \in Seq(Access)
  BY <1>1
<1>3. req' = [req EXCEPT ![s] = Onward(r)]
  BY <1>1 DEF Pass, Onward
<1>4. AnswerSound'
  BY NoAnswerSound DEF Pass
<1> QED BY <1>2, <1>3, <1>4 DEF Onward, Request

\* The request ends without any other effect.
LEMMA RefuseKeeps ==
    ASSUME EvidenceInv, NEW s \in Slot, req' = [req EXCEPT ![s] = Idle], AnswerSound',
           UNCHANGED <<job, object, record, completed, pinned, late>>
    PROVE  EvidenceInv'
<1>1. Grows
  BY UnchangedGrows
<1>2. req' \in [Slot -> Request \cup {Idle}] /\ RequestsSound'
  BY <1>1, RequestIsNotIdle, RequestsKeep
<1>3. /\ job' \in [Job -> JobRow]
      /\ object' \in [Content -> Content \cup {None}]
  BY DEF EvidenceInv, EvidenceTypes
<1> QED BY <1>2, <1>3, QuietStep

LEMMA RequireJobKeeps ==
    ASSUME EvidenceInv, NEW s \in Slot, RequireJob(s)
    PROVE  EvidenceInv'
<1>1. At(s, "job") /\ UNCHANGED <<job, object, record, completed, pinned, late>>
      /\ (Pass(s) \/ \E code \in Nat : Refuse(s, code))
  BY DEF RequireJob
<1>2. PICK r \in Request : r = req[s] /\ Head(r.todo) = "job" /\ RequestSound(r)
  BY <1>1, AtRequest
<1>3. CASE Pass(s)
  <2>1. PICK d : d = Onward(r)
    OBVIOUS
  <2>2. r.todo # <<>> /\ OnScript(Onward(r)) /\ Head(Tail(r.todo)) \in {"store", "find"}
    BY <1>2, ScriptPlace DEF RequestSound
  <2>3. /\ d \in Request /\ req' = [req EXCEPT ![s] = d]
        /\ d.kind = r.kind /\ d.bytes = r.bytes /\ d.todo = Tail(r.todo) /\ AnswerSound'
    BY <1>2, <1>3, <2>1, <2>2, PassRequest
  <2>4. RequestSound(d)
    <3>1. OnScript(d) /\ Head(d.todo) \in {"store", "find"}
      BY <2>1, <2>2, <2>3
    <3>2. d.kind = "upload" => d.bytes \in Content
      BY <1>2, <2>3 DEF RequestSound
    <3> QED BY <3>1, <3>2 DEF RequestSound
  <2>5. Grows
    BY <1>1, UnchangedGrows
  <2>6. req' \in [Slot -> Request \cup {Idle}] /\ RequestsSound'
    BY <2>3, <2>4, <2>5, RequestStaysSound, RequestsKeep
  <2>7. /\ job' \in [Job -> JobRow]
        /\ object' \in [Content -> Content \cup {None}]
    BY <1>1 DEF EvidenceInv, EvidenceTypes
  <2> QED BY <1>1, <2>3, <2>6, <2>7, QuietStep
<1>4. ASSUME NEW code \in Nat, Refuse(s, code) PROVE EvidenceInv'
  BY <1>1, <1>4, RefusedSound, RefuseKeeps
<1> QED BY <1>1, <1>3, <1>4

LEMMA StoreKeeps ==
    ASSUME EvidenceInv, NEW s \in Slot, Store(s)
    PROVE  EvidenceInv'
<1>1. At(s, "store") /\ UNCHANGED <<job, record, completed, late>>
  BY DEF Store
<1>2. PICK r \in Request : r = req[s] /\ Head(r.todo) = "store" /\ RequestSound(r)
  BY <1>1, AtRequest
<1>3. /\ r.todo # <<>> /\ OnScript(Onward(r)) /\ Head(Tail(r.todo)) = "record"
      /\ Len(r.todo) = 2 /\ r.kind = "upload" /\ r.bytes \in Content
  BY <1>2, ScriptPlace DEF RequestSound
<1>4. CASE Refuse(s, 503) /\ UNCHANGED <<object, pinned>>
  <2>1. UNCHANGED <<job, object, record, completed, pinned, late>>
    BY <1>1, <1>4
  <2> QED BY <1>4, <2>1, RefusedSound, RefuseKeeps
<1>5. CASE /\ object' = [object EXCEPT ![r.bytes] = r.bytes]
           /\ pinned' = pinned \cup {r.bytes} /\ Pass(s)
  <2>1. PICK d : d = Onward(r)
    OBVIOUS
  <2>2. /\ d \in Request /\ req' = [req EXCEPT ![s] = d]
        /\ d.kind = r.kind /\ d.bytes = r.bytes /\ d.todo = Tail(r.todo) /\ AnswerSound'
    BY <1>2, <1>3, <1>5, <2>1, PassRequest
  <2>3. Grows
    BY <1>1, <1>5 DEF Grows
  <2>4. RequestSound(d)'
    <3>1. OnScript(d)
      BY <1>3, <2>1
    <3>2. OnScript(d)'
      BY <3>1 DEF OnScript
    <3>3. Head(d.todo) = "record" /\ d.bytes \in pinned' /\ d.bytes \in Content
      BY <1>3, <1>5, <2>2
    <3> QED BY <3>2, <3>3 DEF RequestSound
  <2>5. req' \in [Slot -> Request \cup {Idle}] /\ RequestsSound'
    BY <2>2, <2>3, <2>4, RequestsKeep
  <2>6. UNCHANGED job /\ UNCHANGED record /\ UNCHANGED completed
    BY <1>1
  <2>7. EvidenceTypes'
    BY <1>3, <1>5, <2>5, <2>6 DEF EvidenceInv, EvidenceTypes
  <2>8. RecordsSound'
    BY <1>5, <2>6 DEF EvidenceInv, RecordsSound
  <2>9. CompletedSound'
    BY <2>6 DEF EvidenceInv, CompletedSound, Holds
  <2> QED BY <2>2, <2>5, <2>7, <2>8, <2>9 DEF EvidenceInv
<1> QED BY <1>2, <1>3, <1>4, <1>5 DEF Store

LEMMA SaveRecordKeeps ==
    ASSUME EvidenceInv, NEW s \in Slot, SaveRecord(s)
    PROVE  EvidenceInv'
<1>1. At(s, "record") /\ UNCHANGED <<job, object, completed, pinned>>
  BY DEF SaveRecord
<1>2. PICK r \in Request : r = req[s] /\ Head(r.todo) = "record" /\ RequestSound(r)
  BY <1>1, AtRequest
<1>3. Len(r.todo) = 1 /\ r.kind = "upload" /\ r.bytes \in Content /\ r.bytes \in pinned
  BY <1>2, ScriptPlace DEF RequestSound
<1>4. CASE Refuse(s, 500) /\ UNCHANGED <<record, late>>
  <2>1. UNCHANGED <<job, object, record, completed, pinned, late>>
    BY <1>1, <1>4
  <2> QED BY <1>4, <2>1, RefusedSound, RefuseKeeps
<1>5. ASSUME NEW id \in EvidenceId, record[id] = NoRecord,
             record' = [record EXCEPT ![id] = [job |-> r.job, cid |-> r.bytes,
                                               sha256 |-> r.bytes, uploadedBy |-> r.actor]],
             Answer(s, 201, id, None)
      PROVE  EvidenceInv'
  <2>1. UNCHANGED job /\ UNCHANGED object /\ UNCHANGED completed /\ UNCHANGED pinned
    BY <1>1
  <2>2. PICK new : new = [job |-> r.job, cid |-> r.bytes, sha256 |-> r.bytes, uploadedBy |-> r.actor]
    OBVIOUS
  <2>3. new \in Record /\ new.cid = r.bytes /\ new.sha256 = r.bytes
    BY <1>3, <2>2 DEF Record, Request
  <2>4. record' = [record EXCEPT ![id] = new] /\ record \in [EvidenceId -> Record \cup {NoRecord}]
    BY <1>5, <2>2 DEF EvidenceInv, EvidenceTypes
  <2>5. Grows
    BY <1>5, <2>1, <2>4 DEF Grows
  <2>6. req' = [req EXCEPT ![s] = Idle] /\ AnswerSound'
    BY <1>5 DEF Answer, AnswerSound
  <2>7. req' \in [Slot -> Request \cup {Idle}] /\ RequestsSound'
    BY <2>5, <2>6, RequestIsNotIdle, RequestsKeep
  <2>8. EvidenceTypes'
    BY <2>1, <2>3, <2>4, <2>7 DEF EvidenceInv, EvidenceTypes
  <2>9. RecordsSound'
    BY <1>3, <2>1, <2>3, <2>4 DEF EvidenceInv, RecordsSound
  <2>10. CompletedSound'
    <3>1. \A j \in Job : completed[j].id # None => completed[j].id \in EvidenceId
      BY DEF EvidenceInv, EvidenceTypes
    <3> QED BY <2>1, <2>5, <3>1 DEF EvidenceInv, CompletedSound, Holds, Grows
  <2> QED BY <2>6, <2>7, <2>8, <2>9, <2>10 DEF EvidenceInv
<1>6. \/ \E id \in EvidenceId :
            /\ record[id] = NoRecord
            /\ record' = [record EXCEPT ![id] = [job |-> r.job, cid |-> r.bytes,
                                                 sha256 |-> r.bytes, uploadedBy |-> r.actor]]
            /\ Answer(s, 201, id, None)
      \/ Refuse(s, 500) /\ UNCHANGED <<record, late>>
  BY <1>2, <1>3 DEF SaveRecord
<1> QED BY <1>4, <1>5, <1>6

LEMMA FindRecordKeeps ==
    ASSUME EvidenceInv, NEW s \in Slot, FindRecord(s)
    PROVE  EvidenceInv'
<1>1. At(s, "find") /\ UNCHANGED <<job, object, record, completed, pinned, late>>
  BY DEF FindRecord
<1>2. PICK r \in Request : r = req[s] /\ Head(r.todo) = "find" /\ RequestSound(r)
  BY <1>1, AtRequest
<1>3. /\ r.todo # <<>> /\ OnScript(Onward(r)) /\ Head(Tail(r.todo)) \in {"cat", "complete"}
      /\ r.kind # "upload" /\ r.id \in EvidenceId /\ r.todo \in Seq(Access)
  BY <1>2, ScriptPlace DEF RequestSound, Request
<1>4. record[r.id] \in Record \cup {NoRecord} /\ req \in [Slot -> Request \cup {Idle}]
  BY <1>3 DEF EvidenceInv, EvidenceTypes
<1>5. \/ \E code \in Nat : Refuse(s, code)
      \/ /\ record[r.id] # NoRecord /\ record[r.id].job = r.job
         /\ req' = [req EXCEPT ![s].todo = Tail(@), ![s].bytes = record[r.id].sha256]
         /\ answer' = NoAnswer
  <2>1. CASE record[r.id] = NoRecord
    <3>1. Refuse(s, 500)
      BY <1>2, <2>1 DEF FindRecord
    <3> QED BY <3>1
  <2>2. CASE record[r.id] # NoRecord /\ record[r.id].job # r.job
    <3>1. Refuse(s, 404)
      BY <1>2, <2>2 DEF FindRecord
    <3> QED BY <3>1
  <2>3. CASE record[r.id] # NoRecord /\ record[r.id].job = r.job
    <3>1. \/ Refuse(s, 400)
          \/ /\ req' = [req EXCEPT ![s].todo = Tail(@), ![s].bytes = record[r.id].sha256]
             /\ answer' = NoAnswer
      BY <1>2, <2>3 DEF FindRecord
    <3>2. 400 \in Nat
      OBVIOUS
    <3>3. CASE Refuse(s, 400)
      BY <3>2, <3>3
    <3> QED BY <2>3, <3>1, <3>3
  <2> QED BY <2>1, <2>2, <2>3
<1>6. ASSUME NEW code \in Nat, Refuse(s, code) PROVE EvidenceInv'
  BY <1>1, <1>6, RefusedSound, RefuseKeeps
<1>7. CASE /\ record[r.id] # NoRecord /\ record[r.id].job = r.job
           /\ req' = [req EXCEPT ![s].todo = Tail(@), ![s].bytes = record[r.id].sha256]
           /\ answer' = NoAnswer
  <2>1. PICK h : h = record[r.id].sha256
    OBVIOUS
  <2>2. PICK d : d = [r EXCEPT !.todo = Tail(r.todo), !.bytes = h]
    OBVIOUS
  <2>3. h \in Content
    BY <1>4, <1>7, <2>1 DEF Record
  <2>4. Tail(r.todo) \in Seq(Access)
    BY <1>3
  <2>5. /\ d \in Request /\ d.kind = r.kind /\ d.job = r.job /\ d.id = r.id /\ d.bytes = h
        /\ d.todo = Tail(r.todo)
    BY <2>2, <2>3, <2>4 DEF Request
  <2>6. req' = [req EXCEPT ![s] = d]
    BY <1>2, <1>4, <1>7, <2>1, <2>2
  <2>7. RequestSound(d)
    <3>1. Onward(r).kind = r.kind /\ Onward(r).id = r.id /\ Onward(r).todo = Tail(r.todo)
      BY DEF Onward, Request
    <3>2. OnScript(d)
      BY <1>3, <2>5, <3>1 DEF OnScript
    <3>3. Head(d.todo) \in {"cat", "complete"} /\ Holds(d.id, d.job, d.bytes)
      BY <1>3, <1>7, <2>1, <2>5 DEF Holds
    <3> QED BY <1>3, <2>5, <3>2, <3>3 DEF RequestSound
  <2>8. Grows
    BY <1>1, UnchangedGrows
  <2>9. req' \in [Slot -> Request \cup {Idle}] /\ RequestsSound'
    BY <2>5, <2>6, <2>7, <2>8, RequestStaysSound, RequestsKeep
  <2>10. /\ job' \in [Job -> JobRow]
         /\ object' \in [Content -> Content \cup {None}]
    BY <1>1 DEF EvidenceInv, EvidenceTypes
  <2> QED BY <1>1, <1>7, <2>9, <2>10, NoAnswerSound, QuietStep
<1> QED BY <1>5, <1>6, <1>7

LEMMA CatKeeps ==
    ASSUME EvidenceInv, NEW s \in Slot, Cat(s)
    PROVE  EvidenceInv'
<1>1. At(s, "cat") /\ UNCHANGED <<job, object, record, completed, pinned, late>>
  BY DEF Cat
<1>2. PICK r \in Request : r = req[s] /\ Head(r.todo) = "cat" /\ RequestSound(r)
  BY <1>1, AtRequest
<1>3. r.id \in EvidenceId /\ r.id # None
  BY <1>2, ScriptPlace, EvidenceAssumption DEF RequestSound
<1>4. record[r.id].sha256 = r.bytes
  BY <1>2, <1>3 DEF RequestSound, Holds
<1>5. \/ \E code \in Nat : Refuse(s, code)
      \/ \E bytes : bytes = r.bytes /\ Answer(s, 200, r.id, bytes)
  BY <1>2 DEF Cat
<1>6. ASSUME NEW code \in Nat, Refuse(s, code) PROVE EvidenceInv'
  BY <1>1, <1>6, RefusedSound, RefuseKeeps
<1>7. ASSUME Answer(s, 200, r.id, r.bytes) PROVE EvidenceInv'
  <2>1. req' = [req EXCEPT ![s] = Idle] /\ answer'.id = r.id /\ answer'.bytes = r.bytes
    BY <1>7 DEF Answer
  <2>2. AnswerSound'
    BY <1>1, <1>4, <2>1 DEF AnswerSound
  <2> QED BY <1>1, <2>1, <2>2, RefuseKeeps
<1> QED BY <1>5, <1>6, <1>7

LEMMA CompleteKeeps ==
    ASSUME EvidenceInv, NEW s \in Slot, Complete(s)
    PROVE  EvidenceInv'
<1>1. At(s, "complete") /\ UNCHANGED <<object, record, pinned, late>>
  BY DEF Complete
<1>2. PICK r \in Request : r = req[s] /\ Head(r.todo) = "complete" /\ RequestSound(r)
  BY <1>1, AtRequest
<1>3. r.job \in Job /\ r.id \in EvidenceId \cup {None} /\ r.bytes \in Content \cup {None}
  BY DEF Request
<1>4. \/ Refuse(s, 409) /\ UNCHANGED <<job, completed>>
      \/ /\ job' = [job EXCEPT ![r.job].status = "COMPLETED"]
         /\ completed' = [completed EXCEPT ![r.job] = [hash |-> r.bytes, id |-> r.id]]
         /\ Answer(s, 200, None, None)
  BY <1>2 DEF Complete
<1>5. CASE Refuse(s, 409) /\ UNCHANGED <<job, completed>>
  <2>1. UNCHANGED <<job, object, record, completed, pinned, late>>
    BY <1>1, <1>5
  <2> QED BY <1>5, <2>1, RefusedSound, RefuseKeeps
<1>6. CASE /\ job' = [job EXCEPT ![r.job].status = "COMPLETED"]
           /\ completed' = [completed EXCEPT ![r.job] = [hash |-> r.bytes, id |-> r.id]]
           /\ Answer(s, 200, None, None)
  <2>1. UNCHANGED object /\ UNCHANGED record /\ UNCHANGED pinned
    BY <1>1
  <2>2. Grows
    BY <1>1, UnchangedGrows
  <2>3. req' = [req EXCEPT ![s] = Idle] /\ AnswerSound'
    BY <1>6 DEF Answer, AnswerSound
  <2>4. req' \in [Slot -> Request \cup {Idle}] /\ RequestsSound'
    BY <2>2, <2>3, RequestIsNotIdle, RequestsKeep
  <2>5. job' \in [Job -> JobRow]
    BY <1>3, <1>6 DEF EvidenceInv, EvidenceTypes, JobRow
  <2>6. completed' \in [Job -> [hash : Content \cup {None}, id : EvidenceId \cup {None}]]
    BY <1>3, <1>6 DEF EvidenceInv, EvidenceTypes
  <2>7. EvidenceTypes'
    BY <2>1, <2>4, <2>5, <2>6 DEF EvidenceInv, EvidenceTypes
  <2>8. RecordsSound'
    BY <2>1 DEF EvidenceInv, RecordsSound
  <2>9. CompletedSound'
    <3>1. r.id # None => Holds(r.id, r.job, r.bytes)
      BY <1>2 DEF RequestSound
    <3>2. /\ completed'[r.job].id = r.id /\ completed'[r.job].hash = r.bytes
          /\ \A j \in Job : j # r.job => completed'[j] = completed[j]
      BY <1>3, <1>6 DEF EvidenceInv, EvidenceTypes
    <3> QED BY <2>1, <3>1, <3>2 DEF EvidenceInv, CompletedSound, Holds
  <2> QED BY <2>3, <2>4, <2>7, <2>8, <2>9 DEF EvidenceInv
<1> QED BY <1>4, <1>5, <1>6

\* Steps of the surroundings: the requests stay where they are.
LEMMA AroundKeeps ==
    ASSUME EvidenceInv, UNCHANGED <<record, completed, req, pinned>>,
           job' \in [Job -> JobRow],
           object' \in [Content -> Content \cup {None}],
           AnswerSound'
    PROVE  EvidenceInv'
<1>1. Grows
  BY UnchangedGrows
<1>2. UNCHANGED req
  OBVIOUS
<1>3. ASSUME NEW t \in Slot, NEW r \in Request, req'[t] = r PROVE RequestSound(r)'
  <2>1. RequestSound(r)
    BY <1>2, <1>3 DEF EvidenceInv, RequestsSound
  <2> QED BY <1>1, <2>1, RequestStaysSound
<1>4. RequestsSound'
  BY <1>3 DEF RequestsSound
<1>5. req' \in [Slot -> Request \cup {Idle}]
  BY <1>2 DEF EvidenceInv, EvidenceTypes
<1>6. UNCHANGED <<record, completed, pinned>>
  OBVIOUS
<1> QED BY <1>4, <1>5, <1>6, QuietStep

LEMMA EvidenceInvStep == EvidenceInv /\ [EvidenceNext]_evidenceVars => EvidenceInv'
<1> SUFFICES ASSUME EvidenceInv, [EvidenceNext]_evidenceVars PROVE EvidenceInv'
  OBVIOUS
<1>1. /\ job \in [Job -> JobRow] /\ object \in [Content -> Content \cup {None}] /\ AnswerSound
  BY DEF EvidenceInv, EvidenceTypes
<1>2. ASSUME NEW s \in Slot, Client(s) \/ Serve(s) PROVE EvidenceInv'
  BY <1>2, ClientKeeps, RequireJobKeeps, StoreKeeps, SaveRecordKeeps, FindRecordKeeps, CatKeeps,
     CompleteKeeps DEF Serve
<1>3. ASSUME NEW j \in Job, MoveJob(j) PROVE EvidenceInv'
  <2>1. /\ UNCHANGED <<record, completed, req, pinned>> /\ UNCHANGED object
        /\ answer' = NoAnswer
    BY <1>3 DEF MoveJob
  <2>2. job' \in [Job -> JobRow]
    BY <1>1, <1>3 DEF MoveJob, JobRow
  <2>3. object' \in [Content -> Content \cup {None}]
    BY <1>1, <2>1
  <2> QED BY <2>1, <2>2, <2>3, NoAnswerSound, AroundKeeps
<1>4. ASSUME NEW c \in Content, Corrupt(c) PROVE EvidenceInv'
  <2>1. /\ UNCHANGED <<record, completed, req, pinned>> /\ UNCHANGED job
        /\ answer' = NoAnswer
    BY <1>4 DEF Corrupt
  <2>2. object' \in [Content -> Content \cup {None}]
    BY <1>1, <1>4 DEF Corrupt
  <2>3. job' \in [Job -> JobRow]
    BY <1>1, <2>1
  <2> QED BY <2>1, <2>2, <2>3, NoAnswerSound, AroundKeeps
<1>5. CASE UNCHANGED evidenceVars
  <2>1. /\ UNCHANGED <<record, completed, req, pinned>> /\ UNCHANGED job /\ UNCHANGED object
        /\ UNCHANGED answer /\ UNCHANGED record
    BY <1>5 DEF evidenceVars
  <2>2. AnswerSound'
    BY <1>1, <2>1 DEF AnswerSound
  <2>3. job' \in [Job -> JobRow] /\ object' \in [Content -> Content \cup {None}]
    BY <1>1, <2>1
  <2> QED BY <2>1, <2>2, <2>3, AroundKeeps
<1> QED BY <1>2, <1>3, <1>4, <1>5 DEF EvidenceNext

-----------------------------------------------------------------------------
(* The theorems.                                                           *)

\* The inductive invariant of the evidence service.
THEOREM EvidenceInvariant == EvidenceSpec => []EvidenceInv
BY EvidenceInvInit, EvidenceInvStep, PTL DEF EvidenceSpec

\* Whatever the storage node loses or replaces, and whatever is uploaded
\* meanwhile, a download answers with the bytes its record was made for, and
\* every record stands for bytes the node had accepted.
THEOREM ServedIntactCorrect == EvidenceSpec => []ServedIntact
<1>1. ASSUME EvidenceInv PROVE ServedIntact
  <2>1. \A j \in Job : job[j].assignedTo \in Person \cup {None}
    BY <1>1 DEF EvidenceInv, EvidenceTypes, JobRow
  <2>2. ASSUME NEW id \in EvidenceId, record[id] # NoRecord
        PROVE  /\ record[id].job \in Job /\ record[id].uploadedBy \in Person
               /\ record[id].cid \in pinned /\ record[id].sha256 = record[id].cid
    <3>1. record[id] \in Record
      BY <1>1, <2>2 DEF EvidenceInv, EvidenceTypes
    <3> QED BY <1>1, <2>2, <3>1 DEF EvidenceInv, RecordsSound, Record
  <2> QED BY <1>1, <2>1, <2>2 DEF EvidenceInv, AnswerSound, ServedIntact, EvidenceTypeOK
<1> QED BY <1>1, EvidenceInvariant, PTL

\* A job that was completed with an evidence record carries the hash of that
\* record, and the record is one of the same job.
THEOREM OwnEvidenceCorrect == EvidenceSpec => []CompletedWithOwnEvidence
<1>1. ASSUME EvidenceInv PROVE CompletedWithOwnEvidence
  BY <1>1 DEF EvidenceInv, CompletedSound, Holds, CompletedWithOwnEvidence
<1> QED BY <1>1, EvidenceInvariant, PTL
=============================================================================
