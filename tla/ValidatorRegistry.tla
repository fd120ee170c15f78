-------------------------- MODULE ValidatorRegistry --------------------------
(***************************************************************************)
(* contracts/src/ValidatorRegistry.sol: which validators are active at     *)
(* which block height, scheduled ahead of time by administrators.  The     *)
(* access state is that of AccessControl and goes on changing.  Key        *)
(* material, node metadata and reasons are left out.                       *)
(***************************************************************************)
EXTENDS AccessControl

CONSTANTS
    Validator,          \* addresses the administrators name, Bootstrap included
    Bootstrap,          \* _bootstrapValidators
    MinimumPopulation,  \* minimumPopulation
    MaxHeight           \* bound: block numbers and scheduled heights

\* The checks of the constructor.
ASSUME ValidatorAssumption ==
    /\ IsFiniteSet(Validator) /\ Bootstrap \subseteq Validator
    /\ MinimumPopulation \in Nat \ {0}
    /\ Cardinality(Bootstrap) >= MinimumPopulation
    /\ MaxHeight \in Nat

VARIABLES
    height,             \* block.number
    records,            \* _records
    validatorList       \* _validators

validatorVars == <<height, records, validatorList>>

NoRecord == [registered |-> FALSE, activationHeight |-> 0, removalHeight |-> 0]

-----------------------------------------------------------------------------

\* _isActive
IsActiveAt(record, h) ==
    /\ record.registered
    /\ record.activationHeight <= h
    /\ record.removalHeight = 0 \/ h < record.removalHeight

\* validatorCountAt: the bootstrap validators and a walk through the list.
ValidatorCountAt(h) ==
    Cardinality(Bootstrap) +
    Cardinality({i \in DOMAIN validatorList : IsActiveAt(records[validatorList[i]], h)})

\* _activeAt, the answer of getValidators and getValidatorsAt, as a set.
ActiveAt(h) ==
    Bootstrap \cup
    {v \in {validatorList[i] : i \in DOMAIN validatorList} : IsActiveAt(records[v], h)}

ValidatorAudit(caller, v, action) ==
    Audit("ValidatorRegistry", caller, "VALIDATOR", v, action)

\* Faulty variant: the current block may be the activation height.
AddValidatorAtOnce(caller, v, activationHeight) ==
    /\ CheckRoles("ValidatorRegistry", caller, {"ADMIN"})
    /\ v \notin Bootstrap
    /\ activationHeight >= height
    /\ ~records[v].registered
    /\ records' = [records EXCEPT ![v] = [registered |-> TRUE,
                      activationHeight |-> activationHeight, removalHeight |-> 0]]
    /\ validatorList' = Append(validatorList, v)
    /\ ValidatorAudit(caller, v, "VALIDATOR_ADD")
    /\ UNCHANGED <<accessVars, height>>

\* VALIDATOR_ADD: once per address, for ever.
AddValidator(caller, v, activationHeight) ==
    /\ CheckRoles("ValidatorRegistry", caller, {"ADMIN"})
    /\ v \notin Bootstrap
    /\ activationHeight > height
    /\ ~records[v].registered
    /\ records' = [records EXCEPT ![v] = [registered |-> TRUE,
                      activationHeight |-> activationHeight, removalHeight |-> 0]]
    /\ validatorList' = Append(validatorList, v)
    /\ ValidatorAudit(caller, v, "VALIDATOR_ADD")
    /\ UNCHANGED <<accessVars, height>>

\* VALIDATOR_REMOVE: takes effect at a height still to come.
RemoveValidator(caller, v, removalHeight) ==
    /\ CheckRoles("ValidatorRegistry", caller, {"ADMIN"})
    /\ v \notin Bootstrap
    /\ records[v].registered
    /\ removalHeight > height /\ removalHeight > records[v].activationHeight
    /\ records[v].removalHeight = 0
    /\ ValidatorCountAt(removalHeight) - 1 >= MinimumPopulation
    /\ records' = [records EXCEPT ![v].removalHeight = removalHeight]
    /\ ValidatorAudit(caller, v, "VALIDATOR_REMOVE")
    /\ UNCHANGED <<accessVars, height, validatorList>>

\* Faulty variant: a restored validator is listed again.
RestoreValidatorRelisted(caller, v) ==
    /\ CheckRoles("ValidatorRegistry", caller, {"ADMIN"})
    /\ records[v].registered
    /\ v \notin Bootstrap
    /\ records[v].removalHeight \in 1..height
    /\ records' = [records EXCEPT ![v].removalHeight = 0]
    /\ validatorList' = Append(validatorList, v)
    /\ ValidatorAudit(caller, v, "VALIDATOR_RESTORE")
    /\ UNCHANGED <<accessVars, height>>

\* VALIDATOR_RESTORE: undoes a removal that is in effect, from now on.
RestoreValidator(caller, v) ==
    /\ CheckRoles("ValidatorRegistry", caller, {"ADMIN"})
    /\ records[v].registered
    /\ v \notin Bootstrap
    /\ records[v].removalHeight \in 1..height
    /\ records' = [records EXCEPT ![v].removalHeight = 0]
    /\ ValidatorAudit(caller, v, "VALIDATOR_RESTORE")
    /\ UNCHANGED <<accessVars, height, validatorList>>

\* Faulty variant: a removal that takes effect at the current block is cancelled.
CancelRemovalInEffect(caller, v) ==
    /\ CheckRoles("ValidatorRegistry", caller, {"ADMIN"})
    /\ records[v].registered
    /\ records[v].removalHeight # 0 /\ records[v].removalHeight >= height
    /\ records' = [records EXCEPT ![v].removalHeight = 0]
    /\ ValidatorAudit(caller, v, "VALIDATOR_REMOVE_CANCEL")
    /\ UNCHANGED <<accessVars, height, validatorList>>

\* VALIDATOR_REMOVE_CANCEL: withdraws a removal that is not yet in effect.
CancelScheduledRemoval(caller, v) ==
    /\ CheckRoles("ValidatorRegistry", caller, {"ADMIN"})
    /\ records[v].registered
    /\ records[v].removalHeight > height
    /\ records' = [records EXCEPT ![v].removalHeight = 0]
    /\ ValidatorAudit(caller, v, "VALIDATOR_REMOVE_CANCEL")
    /\ UNCHANGED <<accessVars, height, validatorList>>

NextBlock ==
    /\ height < MaxHeight
    /\ height' = height + 1
    /\ UNCHANGED <<accessVars, log, records, validatorList>>

ValidatorInit ==
    /\ AccessInit
    /\ wired = Registry
    /\ height = 0
    /\ records = [v \in Validator |-> NoRecord]
    /\ validatorList = <<>>

ValidatorTransaction(caller, v) ==
    \/ \E h \in 0..MaxHeight : AddValidator(caller, v, h) \/ RemoveValidator(caller, v, h)
    \/ RestoreValidator(caller, v)
    \/ CancelScheduledRemoval(caller, v)

ValidatorNext ==
    \/ \E caller \in Wallet, v \in Validator : ValidatorTransaction(caller, v)
    \/ AccessNext /\ UNCHANGED validatorVars
    \/ NextBlock

allValidatorVars == <<accessVars, log, validatorVars>>

ValidatorSpec == ValidatorInit /\ [][ValidatorNext]_allValidatorVars

-----------------------------------------------------------------------------
(* Properties.                                                             *)

\* The records and the list have the types of their declarations, and a
\* removal is scheduled after the activation it ends.
ValidatorTypeOK ==
    /\ height \in Nat
    /\ records \in [Validator -> [registered : BOOLEAN, activationHeight : Nat,
                                  removalHeight : Nat]]
    /\ validatorList \in Seq(Validator)
    /\ \A v \in Validator : records[v].removalHeight # 0 =>
          records[v].removalHeight > records[v].activationHeight

\* The counting walk of validatorCountAt and the addresses of _activeAt agree
\* at every height: no validator is listed twice, however often it is removed
\* and restored, and none is forgotten.
CountExact ==
    ValidatorTypeOK /\ \A h \in 0..(MaxHeight + 1) :
        /\ ValidatorCountAt(h) = Cardinality(ActiveAt(h))
        /\ ActiveAt(h) = Bootstrap \cup {v \in Validator : IsActiveAt(records[v], h)}

NoticeStep ==
    \A h \in 0..height :
        /\ ActiveAt(h) \subseteq ActiveAt(h)'
        /\ \A v \in ActiveAt(h)' \ ActiveAt(h) :
              /\ records[v].removalHeight \in 1..h
              /\ records'[v].removalHeight = 0

\* Consensus is given notice: no transaction takes a validator out of the set
\* of the current or an earlier height, and only the restoration of a removed
\* validator puts one in.  (A restoration does: getValidatorsAt then answers
\* for the heights of the removal as if it had never been.)
ChangesAnnounced == [][NoticeStep]_allValidatorVars

ValidatorAccountableStep ==
    \A v \in Validator : records'[v] # records[v] =>
        LET r == log'[Len(log) + 1] IN
        /\ Len(log') = Len(log) + 1
        /\ r.entityType = "VALIDATOR" /\ r.entityId = v /\ r.recorder = "ValidatorRegistry"
        /\ status[r.actor] = "ACTIVE" /\ "ADMIN" \in RolesOf(r.actor)
        /\ r.action = "VALIDATOR_RESTORE" <=> v \in ActiveAt(height)' \ ActiveAt(height)

\* Every change of a validator is one audit record, of a wallet that is ACTIVE
\* and whose identity is an ADMIN at that moment, whatever became of wallets and
\* roles since the validator was added.  The record tells a reader of the log
\* what happened: a change of the current set is recorded as a restoration, and
\* a restoration is always one ("without pretending that a REMOVE and RESTORE
\* occurred", ValidatorRegistry.sol on the cancellation).
ValidatorsAccountable == [][ValidatorAccountableStep]_allValidatorVars
=============================================================================
