-------------------------- MODULE ValidatorService --------------------------
(***************************************************************************)
(* backend/src/validators/validator.service.ts over the ValidatorRegistry  *)
(* contract: the rows of the administrators' list, the history and the     *)
(* notices, for every interleaving of requests, blocks and lost answers.   *)
(*                                                                         *)
(* A request is a chain of awaits: it reads a row, reads the head, submits *)
(* a transaction, waits for its receipt, then saves the row, appends to    *)
(* the history and notifies everyone.  Any await may fail, and the process *)
(* may stop: a failed save or append has stored nothing, and what the      *)
(* request had still to do is not done.  Only administrators get this far. *)
(* All of them act through one wallet here.                                *)
(***************************************************************************)
EXTENDS ValidatorRegistry

CONSTANTS
    Person,         \* identities that are ACTIVE and have a user row
    Slot,           \* bound: requests in flight
    MaxEvents       \* bound: accepted transactions per validator

ASSUME ServiceAssumption == IsFiniteSet(Slot)

VARIABLES
    row,            \* validator_registration rows
    req,            \* the request in each slot
    pool,           \* transactions that nobody waits for any longer
    events,         \* history: accepted transactions per validator
    lost,           \* history: those whose request did not see the receipt
    unsaved,        \* history: those whose request ended before it saved the row,
    unrecorded,     \*   before it appended to the history,
    untold,         \*   before it had told everyone
    newest,         \* history: requests yet to save the newest transaction of a validator
    behind,         \* history: validators whose row is not of their newest transaction
    overtaken,      \* history: validators with a row saved over that of a newer one
    entries,        \* SUCCESS records of validator_history, per validator
    notices         \* IN_APP and EMAIL records per validator and person

endVars     == <<unsaved, unrecorded, untold>>
orderVars   == <<newest, behind, overtaken>>
serviceVars == <<row, req, pool, events, lost, endVars, orderVars, entries, notices>>
chainVars   == <<allValidatorVars, events>>

NoRow == [status |-> "NONE"]
Idle  == [at |-> "idle"]
Op    == {"VALIDATOR_ADD", "VALIDATOR_REMOVE", "VALIDATOR_RESTORE", "VALIDATOR_REMOVE_CANCEL"}

-----------------------------------------------------------------------------

\* Faulty variant: a removal is in effect one block late.
EffectiveLate(r, head) ==
    CASE r.status = "PENDING" /\ r.act <= head -> "ACTIVE"
      [] r.status = "REMOVAL_SCHEDULED" /\ r.rem < head -> "REMOVED"
      [] OTHER -> r.status

\* effectiveRegistration: what a stored status means at a height.
Effective(r, head) ==
    CASE r.status = "PENDING" /\ r.act <= head -> "ACTIVE"
      [] r.status = "REMOVAL_SCHEDULED" /\ r.rem <= head -> "REMOVED"
      [] OTHER -> r.status

\* getStatus never throws: an unreachable node reports height 0.
Heads == {height, 0}

\* What an operation writes into the row once the chain has confirmed it.
Written(op, r, arg) ==
    CASE op = "VALIDATOR_ADD"    -> [status |-> "PENDING", act |-> arg, rem |-> 0]
      [] op = "VALIDATOR_REMOVE" -> [r EXCEPT !.status = "REMOVAL_SCHEDULED", !.rem = arg]
      [] OTHER                   -> [r EXCEPT !.status = "ACTIVE", !.rem = 0]

\* The contract call of each operation.
Transact(op, v, arg) ==
    CASE op = "VALIDATOR_ADD"     -> AddValidator(BootstrapWallet, v, arg)
      [] op = "VALIDATOR_REMOVE"  -> RemoveValidator(BootstrapWallet, v, arg)
      [] op = "VALIDATOR_RESTORE" -> RestoreValidator(BootstrapWallet, v)
      [] OTHER                    -> CancelScheduledRemoval(BootstrapWallet, v)

Reverts(op, v, arg) == ~ENABLED Transact(op, v, arg)

Goto(s, where) == req' = [req EXCEPT ![s].at = where]
Finish(s)      == req' = [req EXCEPT ![s] = Idle]

\* A request passes the routes; add and remove carry a height.
Arrive(s, op, v, arg) ==
    /\ req[s] = Idle
    /\ arg # 0 <=> op \in {"VALIDATOR_ADD", "VALIDATOR_REMOVE"}
    /\ req' = [req EXCEPT ![s] = [at |-> "row", op |-> op, v |-> v, arg |-> arg, reg |-> NoRow]]
    /\ UNCHANGED <<chainVars, row, pool, lost, endVars, orderVars, entries, notices>>

\* findByValidatorId.  Adding wants no row, or one that says REMOVED; the
\* others want one, and read the head to see its effective status.
ReadRow(s) ==
    LET r == req[s] IN
    /\ r.at = "row"
    /\ IF r.op = "VALIDATOR_ADD"
       THEN IF row[r.v] = NoRow \/ row[r.v].status = "REMOVED" THEN Goto(s, "head") ELSE Finish(s)
       ELSE IF row[r.v] = NoRow THEN Finish(s)
            ELSE req' = [req EXCEPT ![s].at = "effective", ![s].reg = row[r.v]]
    /\ UNCHANGED <<chainVars, row, pool, lost, endVars, orderVars, entries, notices>>

\* Removable: PENDING or ACTIVE; to cancel: REMOVAL_SCHEDULED.
ReadEffective(s) ==
    LET r == req[s] IN
    /\ r.at = "effective"
    /\ \E head \in Heads :
          LET now  == Effective(r.reg, head)
              next == [r EXCEPT !.reg.status = now]
          IN req' = [req EXCEPT ![s] =
               CASE r.op = "VALIDATOR_REMOVE" /\ now \in {"PENDING", "ACTIVE"}
                      -> [next EXCEPT !.at = "head"]
                 [] r.op = "VALIDATOR_RESTORE" -> [next EXCEPT !.at = "head"]
                 [] r.op = "VALIDATOR_REMOVE_CANCEL" /\ now = "REMOVAL_SCHEDULED"
                      -> [next EXCEPT !.at = "submit"]
                 [] OTHER -> Idle]
    /\ UNCHANGED <<chainVars, row, pool, lost, endVars, orderVars, entries, notices>>

\* getStatus().height once more, and the heights are compared.
ReadHead(s) ==
    LET r == req[s] IN
    /\ r.at = "head"
    /\ \E head \in Heads :
          LET ok == CASE r.op = "VALIDATOR_ADD"    -> r.arg > head
                      [] r.op = "VALIDATOR_REMOVE" -> r.arg > head /\ r.arg > r.reg.act
                      [] OTHER -> /\ Effective(r.reg, head) = "REMOVED"
                                  /\ r.reg.rem \in 1..head
          IN IF ok THEN Goto(s, "submit") ELSE Finish(s)
    /\ UNCHANGED <<chainVars, row, pool, lost, endVars, orderVars, entries, notices>>

\* submitTransaction: a call that would revert, or a node that does not
\* answer, fails the request; else the transaction is broadcast.
Submit(s) ==
    LET r == req[s] IN
    /\ r.at = "submit"
    /\ \/ Goto(s, "failed")
       \/ ~Reverts(r.op, r.v, r.arg) /\ Goto(s, "wait")
    /\ UNCHANGED <<chainVars, row, pool, lost, endVars, orderVars, entries, notices>>

\* A transaction of v is mined, which the requests in who have yet to save.
Overtake(v, who) ==
    /\ newest' = {s \in newest : req[s].v # v} \cup who
    /\ behind' = behind \cup {v}

\* The transaction is mined and its receipt arrives.
Mine(s) ==
    LET r == req[s] IN
    /\ r.at = "wait"
    /\ \/ /\ events[r.v] < MaxEvents
          /\ Transact(r.op, r.v, r.arg)
          /\ events' = [events EXCEPT ![r.v] = @ + 1]
          /\ Goto(s, "save")
          /\ Overtake(r.v, {s})
       \/ /\ Reverts(r.op, r.v, r.arg)
          /\ Goto(s, "failed")
          /\ UNCHANGED <<chainVars, newest, behind>>
    /\ UNCHANGED <<row, pool, lost, endVars, overtaken, entries, notices>>

\* tx.wait() times out: the service reports a failure, the transaction lives.
TimeOut(s) ==
    /\ req[s].at = "wait"
    /\ pool' = pool \cup {[op |-> req[s].op, v |-> req[s].v, arg |-> req[s].arg]}
    /\ Goto(s, "failed")
    /\ UNCHANGED <<chainVars, row, lost, endVars, orderVars, entries, notices>>

MineLate(t) ==
    /\ pool' = pool \ {t}
    /\ \/ /\ events[t.v] < MaxEvents
          /\ Transact(t.op, t.v, t.arg)
          /\ events' = [events EXCEPT ![t.v] = @ + 1]
          /\ lost' = [lost EXCEPT ![t.v] = @ + 1]
          /\ Overtake(t.v, {})
       \/ Reverts(t.op, t.v, t.arg) /\ UNCHANGED <<chainVars, lost, newest, behind>>
    /\ UNCHANGED <<row, req, endVars, overtaken, entries, notices>>

\* The FAILED record, and the error is thrown on.
RecordFailure(s) ==
    /\ req[s].at = "failed"
    /\ Finish(s)
    /\ UNCHANGED <<chainVars, row, pool, lost, endVars, orderVars, entries, notices>>

\* validators.save(registration)
SaveRow(s) ==
    LET r == req[s] IN
    /\ r.at = "save"
    /\ row' = [row EXCEPT ![r.v] = Written(r.op, r.reg, r.arg)]
    /\ req' = [req EXCEPT ![s] = [at |-> "history", v |-> r.v]]
    /\ newest' = newest \ {s}
    /\ IF s \in newest THEN behind' = behind \ {r.v} /\ UNCHANGED overtaken
       ELSE behind' = behind \cup {r.v} /\ overtaken' = overtaken \cup {r.v}
    /\ UNCHANGED <<chainVars, pool, lost, endVars, entries, notices>>

\* recordHistory, then validatorChanged reads whom to tell.
RecordHistory(s) ==
    LET r == req[s] IN
    /\ r.at = "history"
    /\ entries' = [entries EXCEPT ![r.v] = @ + 1]
    /\ req' = [req EXCEPT ![s] = [at |-> "notify", v |-> r.v, left |-> Person]]
    /\ UNCHANGED <<chainVars, row, pool, lost, endVars, orderVars, notices>>

\* Faulty variant: a mail that cannot be sent ends the loop.
NotifyUntilFailure(s) ==
    LET r == req[s] IN
    /\ r.at = "notify"
    /\ \/ r.left = {} /\ Finish(s) /\ UNCHANGED notices
       \/ \E p \in r.left, sent \in BOOLEAN :
             /\ notices' = [notices EXCEPT ![r.v][p] = @ + (IF sent THEN 2 ELSE 1)]
             /\ IF sent THEN req' = [req EXCEPT ![s].left = @ \ {p}] ELSE Finish(s)
    /\ UNCHANGED <<chainVars, row, pool, lost, endVars, orderVars, entries>>

\* The loop of validatorChanged: a notice in the application, then a mail that
\* is recorded as DELIVERED or FAILED: two records whether it was sent or not.
Notify(s) ==
    LET r == req[s] IN
    /\ r.at = "notify"
    /\ \/ r.left = {} /\ Finish(s) /\ UNCHANGED notices
       \/ \E p \in r.left, sent \in BOOLEAN :
             /\ notices' = [notices EXCEPT ![r.v][p] = @ + 2]
             /\ req' = [req EXCEPT ![s].left = @ \ {p}]
    /\ UNCHANGED <<chainVars, row, pool, lost, endVars, orderVars, entries>>

\* An await fails or the process stops before the transaction is broadcast, or
\* when the request has failed already.
BreakEarly(s) ==
    /\ req[s].at \in {"row", "effective", "head", "submit", "failed"}
    /\ Finish(s)
    /\ UNCHANGED <<chainVars, row, pool, lost, endVars, orderVars, entries, notices>>

\* The process stops while it waits: the transaction lives.
BreakWaiting(s) ==
    /\ req[s].at = "wait"
    /\ pool' = pool \cup {[op |-> req[s].op, v |-> req[s].v, arg |-> req[s].arg]}
    /\ Finish(s)
    /\ UNCHANGED <<chainVars, row, lost, endVars, orderVars, entries, notices>>

\* validators.save fails, or the process stops before it.
BreakSaving(s) ==
    /\ req[s].at = "save"
    /\ unsaved' = [unsaved EXCEPT ![req[s].v] = @ + 1]
    /\ newest' = newest \ {s}
    /\ Finish(s)
    /\ UNCHANGED <<chainVars, row, pool, lost, unrecorded, untold, behind, overtaken,
                   entries, notices>>

\* validatorHistory.append fails, or the process stops before it.
BreakRecording(s) ==
    /\ req[s].at = "history"
    /\ unrecorded' = [unrecorded EXCEPT ![req[s].v] = @ + 1]
    /\ Finish(s)
    /\ UNCHANGED <<chainVars, row, pool, lost, unsaved, untold, orderVars, entries, notices>>

\* listByStatus or notifications.append fails, or the process stops in the loop:
\* of the person it was about to tell one record may be there.
BreakNotifying(s) ==
    LET r == req[s] IN
    /\ r.at = "notify"
    /\ \/ UNCHANGED notices
       \/ \E p \in r.left : notices' = [notices EXCEPT ![r.v][p] = @ + 1]
    /\ untold' = [untold EXCEPT ![r.v] = @ + 1]
    /\ Finish(s)
    /\ UNCHANGED <<chainVars, row, pool, lost, unsaved, unrecorded, orderVars, entries>>

Block ==
    /\ NextBlock
    /\ UNCHANGED serviceVars

-----------------------------------------------------------------------------
ServiceInit ==
    /\ ValidatorInit
    /\ row = [v \in Validator |-> NoRow]
    /\ req = [s \in Slot |-> Idle]
    /\ pool = {}
    /\ events = [v \in Validator |-> 0]
    /\ lost = [v \in Validator |-> 0]
    /\ unsaved = [v \in Validator |-> 0]
    /\ unrecorded = [v \in Validator |-> 0]
    /\ untold = [v \in Validator |-> 0]
    /\ newest = {} /\ behind = {} /\ overtaken = {}
    /\ entries = [v \in Validator |-> 0]
    /\ notices = [v \in Validator |-> [p \in Person |-> 0]]

Step(s) ==
    \/ ReadRow(s) \/ ReadEffective(s) \/ ReadHead(s) \/ Submit(s) \/ Mine(s) \/ TimeOut(s)
    \/ RecordFailure(s) \/ SaveRow(s) \/ RecordHistory(s) \/ Notify(s)

Break(s) ==
    \/ BreakEarly(s) \/ BreakWaiting(s) \/ BreakSaving(s) \/ BreakRecording(s)
    \/ BreakNotifying(s)

ServiceNext ==
    \/ \E s \in Slot, op \in Op, v \in Validator, arg \in 0..MaxHeight : Arrive(s, op, v, arg)
    \/ \E s \in Slot : Step(s) \/ Break(s)
    \/ \E t \in pool : MineLate(t)
    \/ Block

ServiceSpec == ServiceInit /\ [][ServiceNext]_<<allValidatorVars, serviceVars>>

-----------------------------------------------------------------------------
(* Properties.                                                             *)

AtRest(v) == \A s \in Slot : req[s] = Idle \/ req[s].v # v

\* Rows have the statuses that the service writes, never REMOVED, and a row
\* with a removal is one that says so.
RowsTypeOK ==
    \A v \in Validator : row[v] # NoRow =>
        /\ row[v].status \in {"PENDING", "ACTIVE", "REMOVAL_SCHEDULED"}
        /\ row[v].act \in 1..MaxHeight
        /\ row[v].rem # 0 <=> row[v].status = "REMOVAL_SCHEDULED"

\* The row of v has the heights of the contract, and its effective status is
\* removed exactly when the contract's is.
RowMatches(v) ==
    /\ row[v] = NoRow <=> ~records[v].registered
    /\ row[v] # NoRow =>
         /\ row[v].act = records[v].activationHeight
         /\ row[v].rem = records[v].removalHeight
         /\ Effective(row[v], height) = "REMOVED" <=> records[v].removalHeight \in 1..height

\* docs/DATA_MODEL.md: "Validator application state is a projection of
\* successful on-chain ADD, REMOVE, and RESTORE transactions."  However requests
\* overlap and end, a row that was last saved by the request of the newest
\* accepted transaction matches the contract, although it was put together from
\* a row read before several awaits and judged by a head that may be old or that
\* of an unreachable node.  And once the requests for a validator are over, the
\* row is that one unless a receipt was missed, a save failed, or of two
\* overlapping requests the one with the older transaction saved last.
RowProjectsChain ==
    RowsTypeOK /\ \A v \in Validator :
        /\ v \notin behind => RowMatches(v)
        /\ AtRest(v) /\ v \in behind => lost[v] + unsaved[v] > 0 \/ v \in overtaken

\* Accepted transactions that no SUCCESS record will tell of.
Missed(v) == lost[v] + unsaved[v] + unrecorded[v]

\* The history never has a SUCCESS record for a refused transaction.  Once the
\* requests for a validator are over it has one for each accepted transaction
\* but those whose receipt was missed and those whose request broke off before
\* the append; and every active identity has an in-app and a mail record of
\* each, also when sending the mail failed, unless the loop itself broke off.
HistoryAndNotices ==
    \A v \in Validator :
        /\ entries[v] + Missed(v) <= events[v]
        /\ AtRest(v) =>
             /\ entries[v] + Missed(v) = events[v]
             /\ \A p \in Person : /\ 2 * (entries[v] - untold[v]) <= notices[v][p]
                                   /\ notices[v][p] <= 2 * entries[v]

-----------------------------------------------------------------------------
(* Statements of the documentation that do not hold (see the README).      *)

\* The sentence of RowProjectsChain, also after a request that missed its
\* receipt: at the latest when no transaction is left in the pool a registered
\* validator has a row.
RegisteredHasRow ==
    \A v \in Validator :
        AtRest(v) /\ (\A t \in pool : t.v # v) /\ records[v].registered => row[v] # NoRow

\* The sentence for overlapping requests none of which failed: the one whose
\* transaction was mined first may save last, and the row keeps the older state.
OverlapsProject ==
    \A v \in Validator : AtRest(v) /\ lost[v] + unsaved[v] = 0 => RowMatches(v)

\* The same sentence for the list: a validator listed as ACTIVE is active.
ListedActiveIsActive ==
    \A v \in Validator :
        v \notin behind /\ row[v] # NoRow /\ Effective(row[v], height) = "ACTIVE"
            => IsActiveAt(records[v], height)
=============================================================================
