--------------------------- MODULE ValidatorProofs ---------------------------
(***************************************************************************)
(* Proofs about ValidatorRegistry and the ValidatorService over it, for     *)
(* any set of validators, any bootstrap set the constructor accepts and    *)
(* any minimum population.  The inductive invariant of the registry is     *)
(* ValidatorInv: the list repeats nothing, holds exactly the registered    *)
(* addresses, and none of them is a bootstrap validator.  The access state *)
(* does not matter to any of it.  That of the service is ServiceInv, which *)
(* counts what the requests in flight still owe the history and the        *)
(* notices, and RowInv, which follows the rows through their overlaps.     *)
(***************************************************************************)
EXTENDS ValidatorService, FiniteSetTheorems, TLAPS

\* _validators lists no address twice.
ListedOnce ==
    \A i, j \in DOMAIN validatorList : validatorList[i] = validatorList[j] => i = j

\* The record of an address says registered exactly when the list has it.
ListedIffRegistered ==
    \A v \in Validator :
        records[v].registered <=> \E i \in DOMAIN validatorList : validatorList[i] = v

\* The constructor's validators are never registered again.
BootstrapApart == \A v \in Bootstrap : ~records[v].registered

ValidatorInv == ValidatorTypeOK /\ ListedOnce /\ ListedIffRegistered /\ BootstrapApart

\* A transaction on a validator as far as the registry's own state goes: what
\* each of the four functions requires of the record and makes of it.
ValidatorCall(v) ==
    /\ v \notin Bootstrap \/ records[v].registered
    /\ UNCHANGED height
    /\ \/ \E h \in Nat :
             /\ v \notin Bootstrap
             /\ h > height /\ ~records[v].registered
             /\ records' = [records EXCEPT ![v] = [registered |-> TRUE,
                               activationHeight |-> h, removalHeight |-> 0]]
             /\ validatorList' = Append(validatorList, v)
       \/ \E h \in Nat :
             /\ records[v].registered /\ h > height
             /\ records[v].removalHeight = 0 /\ h > records[v].activationHeight
             /\ records' = [records EXCEPT ![v].removalHeight = h]
             /\ UNCHANGED validatorList
       \/ /\ records[v].registered /\ records[v].removalHeight # 0
          /\ records' = [records EXCEPT ![v].removalHeight = 0]
          /\ UNCHANGED validatorList

\* Every step of the specification is a call on one validator, a new block, or
\* leaves the registry's own state alone.
LEMMA ValidatorStepCases ==
  ASSUME ValidatorTypeOK, [ValidatorNext]_allValidatorVars
  PROVE  \/ \E v \in Validator : ValidatorCall(v)
         \/ height' = height + 1 /\ UNCHANGED <<records, validatorList>>
         \/ UNCHANGED validatorVars
<1> USE ValidatorAssumption DEF ValidatorTypeOK
<1>1. ASSUME NEW caller \in Wallet, NEW v \in Validator, ValidatorTransaction(caller, v)
      PROVE  ValidatorCall(v)
  <2>1. ASSUME NEW h \in 0..MaxHeight, AddValidator(caller, v, h)
        PROVE  ValidatorCall(v)
    <3>1. /\ h \in Nat /\ UNCHANGED height /\ v \notin Bootstrap
          /\ h > height /\ ~records[v].registered
          /\ records' = [records EXCEPT ![v] = [registered |-> TRUE,
                            activationHeight |-> h, removalHeight |-> 0]]
          /\ validatorList' = Append(validatorList, v)
      BY <2>1 DEF AddValidator
    <3> QED BY <3>1 DEF ValidatorCall
  <2>2. ASSUME NEW h \in 0..MaxHeight, RemoveValidator(caller, v, h)
        PROVE  ValidatorCall(v)
    <3>1. /\ h \in Nat /\ UNCHANGED height /\ v \notin Bootstrap
          /\ records[v].registered /\ h > height
          /\ records[v].removalHeight = 0 /\ h > records[v].activationHeight
          /\ records' = [records EXCEPT ![v].removalHeight = h]
          /\ UNCHANGED validatorList
      BY <2>2 DEF RemoveValidator
    <3> QED BY <3>1 DEF ValidatorCall
  <2>3. CASE RestoreValidator(caller, v)
    BY <2>3 DEF RestoreValidator, ValidatorCall
  <2>4. CASE CancelScheduledRemoval(caller, v)
    BY <2>4 DEF CancelScheduledRemoval, ValidatorCall
  <2> QED BY <1>1, <2>1, <2>2, <2>3, <2>4 DEF ValidatorTransaction
<1>2. CASE NextBlock
  BY <1>2 DEF NextBlock
<1> QED BY <1>1, <1>2 DEF ValidatorNext, allValidatorVars, validatorVars

LEMMA ValidatorInvInit == ValidatorInit => ValidatorInv
<1> SUFFICES ASSUME ValidatorInit PROVE ValidatorInv
  OBVIOUS
<1>1. ValidatorTypeOK
  BY DEF ValidatorInit, ValidatorTypeOK, NoRecord
<1>2. DOMAIN validatorList = {} /\ \A v \in Validator : ~records[v].registered
  BY DEF ValidatorInit, NoRecord
<1> QED BY <1>1, <1>2, ValidatorAssumption
        DEF ValidatorInv, ListedOnce, ListedIffRegistered, BootstrapApart

\* addValidator is the only writer of the list: the address it appends was
\* not registered, hence not in the list.
LEMMA ValidatorInvStep ==
  ASSUME ValidatorInv, [ValidatorNext]_allValidatorVars
  PROVE  ValidatorInv'
<1> USE DEF ValidatorTypeOK
<1>1. ASSUME NEW v \in Validator, ValidatorCall(v), validatorList' = validatorList
      PROVE  ValidatorInv'
  <2>1. ValidatorTypeOK /\ UNCHANGED height /\ records[v].registered
    <3>1. Append(validatorList, v) # validatorList
      BY DEF ValidatorInv
    <3> QED BY <1>1, <3>1 DEF ValidatorCall, ValidatorInv
  <2>2. PICK h \in Nat : /\ records' = [records EXCEPT ![v].removalHeight = h]
                         /\ h = 0 \/ h > records[v].activationHeight
    <3>1. Append(validatorList, v) # validatorList
      BY DEF ValidatorInv
    <3> QED BY <1>1, <3>1 DEF ValidatorCall
  <2>3. ValidatorTypeOK'
    BY <1>1, <2>1, <2>2
  <2>4. \A w \in Validator : records'[w].registered = records[w].registered
    BY <2>1, <2>2
  <2> QED BY <1>1, <2>3, <2>4, ValidatorAssumption
          DEF ValidatorInv, ListedOnce, ListedIffRegistered, BootstrapApart
<1>2. ASSUME NEW v \in Validator, ValidatorCall(v), validatorList' # validatorList
      PROVE  ValidatorInv'
  <2> DEFINE s == validatorList
             n == Len(validatorList) + 1
  <2>1. ValidatorTypeOK /\ UNCHANGED height /\ v \notin Bootstrap /\ ~records[v].registered
    BY <1>2 DEF ValidatorCall, ValidatorInv
  <2>2. PICK h \in Nat :
          /\ records' = [records EXCEPT ![v] = [registered |-> TRUE,
                            activationHeight |-> h, removalHeight |-> 0]]
          /\ validatorList' = Append(s, v)
    BY <1>2 DEF ValidatorCall
  <2>3. /\ ValidatorTypeOK'
        /\ DOMAIN s = 1..(n - 1) /\ n \in Nat /\ n \notin DOMAIN s
        /\ DOMAIN validatorList' = 1..n
        /\ DOMAIN validatorList' = DOMAIN s \cup {n}
        /\ validatorList'[n] = v
        /\ \A i \in DOMAIN s : validatorList'[i] = s[i]
    BY <2>1, <2>2
  <2>4. \A i \in DOMAIN s : s[i] # v /\ s[i] \in Validator
    BY <2>1 DEF ValidatorInv, ListedIffRegistered
  <2>5. ListedOnce'
    BY <2>3, <2>4 DEF ValidatorInv, ListedOnce
  <2>6. /\ records'[v].registered
        /\ \A w \in Validator \ {v} : records'[w] = records[w]
    BY <2>1, <2>2
  <2>7. ListedIffRegistered'
    <3> SUFFICES ASSUME NEW w \in Validator
                 PROVE  records'[w].registered <=>
                          \E i \in DOMAIN validatorList' : validatorList'[i] = w
      BY DEF ListedIffRegistered
    <3>1. CASE w = v
      BY <2>3, <2>6, <3>1
    <3>2. CASE w # v
      <4>1. (\E i \in DOMAIN validatorList' : validatorList'[i] = w)
              <=> \E i \in DOMAIN s : s[i] = w
        BY <2>3, <3>2
      <4> QED BY <2>6, <3>2, <4>1 DEF ValidatorInv, ListedIffRegistered
    <3> QED BY <3>1, <3>2
  <2>8. BootstrapApart'
    BY <2>1, <2>6, ValidatorAssumption DEF ValidatorInv, BootstrapApart
  <2> QED BY <2>3, <2>5, <2>7, <2>8 DEF ValidatorInv
<1>3. CASE height' = height + 1 /\ UNCHANGED <<records, validatorList>>
  BY <1>3 DEF ValidatorInv, ListedOnce, ListedIffRegistered, BootstrapApart
<1>4. CASE UNCHANGED validatorVars
  BY <1>4 DEF validatorVars, ValidatorInv, ListedOnce, ListedIffRegistered, BootstrapApart
<1> QED BY <1>1, <1>2, <1>3, <1>4, ValidatorStepCases DEF ValidatorInv

\* The inductive invariant of the validator registry.
THEOREM ValidatorInvariant == ValidatorSpec => []ValidatorInv
<1>1. ValidatorInv /\ [ValidatorNext]_allValidatorVars => ValidatorInv'
  BY ValidatorInvStep
<1> QED BY ValidatorInvInit, <1>1, PTL DEF ValidatorSpec

-----------------------------------------------------------------------------
(* What the list answers.                                                  *)

\* The addresses of _activeAt, from the records alone.
ActiveByRecord(h) == {v \in Validator : IsActiveAt(records[v], h)}

\* An unregistered record is never active and a registered one is listed: the walk
\* through the list misses nobody.
LEMMA ActiveIsRecorded ==
  ASSUME ValidatorInv, NEW h
  PROVE  /\ {v \in {validatorList[i] : i \in DOMAIN validatorList} :
                IsActiveAt(records[v], h)} = ActiveByRecord(h)
         /\ ActiveAt(h) = Bootstrap \cup ActiveByRecord(h)
         /\ Bootstrap \cap ActiveByRecord(h) = {}
<1> DEFINE L == {validatorList[i] : i \in DOMAIN validatorList}
<1>1. \A i \in DOMAIN validatorList : validatorList[i] \in Validator
  BY DEF ValidatorInv, ValidatorTypeOK
<1>2. \A v \in Validator : IsActiveAt(records[v], h) => v \in L
  BY DEF ValidatorInv, ListedIffRegistered, IsActiveAt
<1>3. {v \in L : IsActiveAt(records[v], h)} = ActiveByRecord(h)
  BY <1>1, <1>2 DEF ActiveByRecord
<1>4. Bootstrap \cap ActiveByRecord(h) = {}
  BY DEF ValidatorInv, BootstrapApart, IsActiveAt, ActiveByRecord
<1> QED BY <1>3, <1>4 DEF ActiveAt

\* The positions of the active addresses are as many as the addresses: reading
\* the list is a bijection, because it repeats nothing.
LEMMA WalkCountsOnce ==
  ASSUME ValidatorInv, NEW h
  PROVE  /\ IsFiniteSet(ActiveByRecord(h))
         /\ ValidatorCountAt(h) = Cardinality(Bootstrap) + Cardinality(ActiveByRecord(h))
<1> DEFINE I == {i \in DOMAIN validatorList : IsActiveAt(records[validatorList[i]], h)}
           A == ActiveByRecord(h)
           f == [i \in I |-> validatorList[i]]
<1>1. IsFiniteSet(DOMAIN validatorList)
  <2>1. Len(validatorList) \in Int /\ DOMAIN validatorList = 1..Len(validatorList)
    BY DEF ValidatorInv, ValidatorTypeOK
  <2> QED BY <2>1, FS_Interval
<1>2. IsFiniteSet(I)
  <2>1. I \in SUBSET DOMAIN validatorList
    OBVIOUS
  <2> QED BY <1>1, <2>1, FS_Subset, Zenon
<1>3. A = {v \in {validatorList[i] : i \in DOMAIN validatorList} : IsActiveAt(records[v], h)}
  BY ActiveIsRecorded
<1>4. f \in Bijection(I, A)
  <2>1. f \in [I -> A]
    BY <1>3
  <2>2. \A i, j \in I : f[i] = f[j] => i = j
    BY DEF ValidatorInv, ListedOnce
  <2>3. \A v \in A : \E i \in I : f[i] = v
    BY <1>3
  <2> HIDE DEF I, A, f
  <2> QED BY <2>1, <2>2, <2>3 DEF Bijection, Injection, Surjection, IsInjective
<1>5. ExistsBijection(I, A)
  BY <1>4 DEF ExistsBijection
<1>6. IsFiniteSet(A) /\ Cardinality(A) = Cardinality(I)
  <2> HIDE DEF I, A
  <2> QED BY <1>2, <1>5, FS_Bijection
<1> QED BY <1>6 DEF ValidatorCountAt

\* The bootstrap set is finite, with a size the minimum population fits in.
LEMMA BootstrapSize ==
  IsFiniteSet(Bootstrap) /\ Cardinality(Bootstrap) \in Nat
<1>1. IsFiniteSet(Bootstrap)
  BY ValidatorAssumption, FS_Subset
<1> QED BY <1>1, FS_CardinalityType

\* Counting and listing agree at any height, past or scheduled.
LEMMA CountIsPopulation ==
  ASSUME ValidatorInv, NEW h
  PROVE  ValidatorCountAt(h) = Cardinality(ActiveAt(h))
<1> DEFINE A == ActiveByRecord(h)
<1>1. /\ IsFiniteSet(A) /\ ActiveAt(h) = Bootstrap \cup A /\ Bootstrap \cap A = {}
      /\ ValidatorCountAt(h) = Cardinality(Bootstrap) + Cardinality(A)
  BY ActiveIsRecorded, WalkCountsOnce
<1> HIDE DEF A
<1>2. Cardinality(A) \in Nat
  BY <1>1, FS_CardinalityType
<1>3. Cardinality(Bootstrap \cup A) =
        Cardinality(Bootstrap) + Cardinality(A) - Cardinality(Bootstrap \cap A)
  BY <1>1, BootstrapSize, FS_Union
<1>4. Cardinality(Bootstrap \cap A) = 0
  BY <1>1, FS_EmptySet
<1> QED BY <1>1, <1>2, <1>3, <1>4, BootstrapSize

\* validatorCountAt and getValidatorsAt agree at every height, and both agree
\* with the records: no validator is counted twice after any sequence of
\* removals and restorations, and none is missed.
THEOREM CountCorrect == ValidatorSpec => []CountExact
<1>1. ValidatorInv => CountExact
  BY CountIsPopulation, ActiveIsRecorded DEF CountExact, ActiveByRecord, ValidatorInv
<1> QED BY ValidatorInvariant, <1>1, PTL

\* Consensus gets notice: addValidator and removeValidator schedule beyond the
\* current height, and what a cancelled or undone removal changes at a height
\* already reached is only to put the removed validator back.
THEOREM NoticeCorrect == ValidatorSpec => ChangesAnnounced
<1>1. ASSUME ValidatorInv, ValidatorInv', [ValidatorNext]_allValidatorVars
      PROVE  NoticeStep
  <2> SUFFICES ASSUME NEW h \in 0..height
               PROVE  /\ ActiveAt(h) \subseteq ActiveAt(h)'
                      /\ \A v \in ActiveAt(h)' \ ActiveAt(h) :
                            /\ records[v].removalHeight \in 1..h
                            /\ records'[v].removalHeight = 0
    BY DEF NoticeStep
  <2> USE DEF ValidatorTypeOK
  <2>1. ActiveAt(h) = Bootstrap \cup {v \in Validator : IsActiveAt(records[v], h)}
    BY <1>1, ActiveIsRecorded DEF ActiveByRecord
  <2>2. ActiveAt(h)' = Bootstrap \cup {v \in Validator : IsActiveAt(records'[v], h)}
    <3>1. {validatorList'[i] : i \in DOMAIN validatorList'} \subseteq Validator
      BY <1>1 DEF ValidatorInv
    <3>2. \A v \in Validator : IsActiveAt(records'[v], h) =>
             v \in {validatorList'[i] : i \in DOMAIN validatorList'}
      BY <1>1 DEF ValidatorInv, ListedIffRegistered, IsActiveAt
    <3> QED BY <3>1, <3>2 DEF ActiveAt
  <2>3. SUFFICES ASSUME NEW w \in Validator
                 PROVE  /\ IsActiveAt(records[w], h) => IsActiveAt(records'[w], h)
                        /\ IsActiveAt(records'[w], h) /\ ~IsActiveAt(records[w], h) =>
                             /\ records[w].removalHeight \in 1..h
                             /\ records'[w].removalHeight = 0
    BY <2>1, <2>2
  <2>4. CASE records'[w] = records[w]
    BY <2>4
  <2>5. ASSUME NEW v \in Validator, ValidatorCall(v), w # v
        PROVE  records'[w] = records[w]
    BY <1>1, <2>5 DEF ValidatorCall, ValidatorInv
  <2>6. CASE ValidatorCall(w)
    <3> DEFINE r == records[w]
               q == records'[w]
    <3>1. /\ r.activationHeight \in Nat /\ r.removalHeight \in Nat
          /\ height \in Nat /\ h \in Nat /\ h <= height
      BY <1>1 DEF ValidatorInv
    <3>2. \/ ~r.registered /\ q.activationHeight > height
          \/ /\ q.registered = r.registered /\ q.activationHeight = r.activationHeight
             /\ \/ r.removalHeight = 0 /\ q.removalHeight > height
                \/ r.removalHeight # 0 /\ q.removalHeight = 0
      BY <1>1, <2>6 DEF ValidatorCall, ValidatorInv
    <3>3. q.activationHeight \in Nat /\ q.removalHeight \in Nat
      BY <1>1 DEF ValidatorInv
    <3> HIDE DEF r, q
    <3>4. /\ IsActiveAt(r, h) => IsActiveAt(q, h)
          /\ IsActiveAt(q, h) /\ ~IsActiveAt(r, h) =>
               r.removalHeight \in 1..h /\ q.removalHeight = 0
      BY <3>1, <3>2, <3>3 DEF IsActiveAt
    <3> QED BY <3>4 DEF r, q
  <2> QED BY <1>1, <2>4, <2>5, <2>6, ValidatorStepCases DEF ValidatorInv, validatorVars
<1> QED BY ValidatorInvariant, <1>1, PTL DEF ValidatorSpec, ChangesAnnounced

\* The log is a sequence, whatever the records in it.
LogIsSeq == \E E : log \in Seq(E)

LEMMA LogGrows ==
  ASSUME LogIsSeq, NEW r, log' = Append(log, r)
  PROVE  LogIsSeq' /\ Len(log') = Len(log) + 1 /\ log'[Len(log) + 1] = r
<1>1. PICK E : log \in Seq(E)
  BY DEF LogIsSeq
<1>2. PICK F : F = E \cup {r}
  OBVIOUS
<1>3. log \in Seq(F) /\ r \in F
  <2>1. E \subseteq F /\ r \in F
    BY <1>2
  <2>2. log \in Seq(F)
    BY <1>1, <2>1
  <2> QED BY <2>1, <2>2
<1>4. log' \in Seq(F) /\ Len(log') = Len(log) + 1 /\ log'[Len(log) + 1] = r
  BY <1>3
<1> QED BY <1>4 DEF LogIsSeq

\* Whatever a transaction of any registry does to the log, it appends a record.
LEMMA StepAppends ==
  ASSUME [ValidatorNext]_allValidatorVars
  PROVE  UNCHANGED log \/ \E r : log' = Append(log, r)
<1> USE DEF Audit, Record
<1>1. ASSUME NEW caller \in Wallet, NEW v \in Validator, ValidatorTransaction(caller, v)
      PROVE  \E r : log' = Append(log, r)
  BY <1>1 DEF ValidatorTransaction, AddValidator, RemoveValidator, RestoreValidator,
     CancelScheduledRemoval, ValidatorAudit
<1>2. ASSUME AccessNext PROVE \E r : log' = Append(log, r)
  BY <1>2 DEF AccessNext, CreateIdentity, ActivateWallet, RevokeWallet, AssignRole,
     RevokeRole, RecordAudit
<1> QED BY <1>1, <1>2 DEF ValidatorNext, NextBlock, allValidatorVars

\* Every change of a validator is accounted for by one audit record of an ACTIVE
\* administrator, across any interleaving with changes of wallets and roles; and
\* the log says VALIDATOR_RESTORE exactly of the changes of the current set.
THEOREM ValidatorsAccountableCorrect == ValidatorSpec => ValidatorsAccountable
<1>1. ValidatorInit => LogIsSeq
  <2>1. <<>> \in Seq({})
    OBVIOUS
  <2> QED BY <2>1 DEF ValidatorInit, AccessInit, LogIsSeq
<1>2. LogIsSeq /\ [ValidatorNext]_allValidatorVars => LogIsSeq'
  BY StepAppends, LogGrows DEF LogIsSeq
<1>3. ASSUME ValidatorInv, ValidatorInv', LogIsSeq, [ValidatorNext]_allValidatorVars
      PROVE  ValidatorAccountableStep
  <2> SUFFICES ASSUME NEW v \in Validator, records'[v] # records[v]
               PROVE  LET r == log'[Len(log) + 1] IN
                      /\ Len(log') = Len(log) + 1
                      /\ r.entityType = "VALIDATOR" /\ r.entityId = v
                      /\ r.recorder = "ValidatorRegistry"
                      /\ status[r.actor] = "ACTIVE" /\ "ADMIN" \in RolesOf(r.actor)
                      /\ r.action = "VALIDATOR_RESTORE" <=>
                            v \in ActiveAt(height)' \ ActiveAt(height)
    BY DEF ValidatorAccountableStep
  <2> USE DEF ValidatorTypeOK
  <2>1. PICK caller \in Wallet, w \in Validator : ValidatorTransaction(caller, w)
    BY <1>3 DEF ValidatorNext, NextBlock, allValidatorVars, validatorVars
  <2>2. w = v
    BY <1>3, <2>1 DEF ValidatorInv, ValidatorTransaction, AddValidator, RemoveValidator,
       RestoreValidator, CancelScheduledRemoval
  <2>3. /\ v \in ActiveAt(height) <=> v \in Bootstrap \/ IsActiveAt(records[v], height)
        /\ height' = height
        /\ v \in ActiveAt(height)' <=> v \in Bootstrap \/ IsActiveAt(records'[v], height)
    <3>1. v \in ActiveAt(height) <=> v \in Bootstrap \/ IsActiveAt(records[v], height)
      BY <1>3 DEF ValidatorInv, ListedIffRegistered, ActiveAt, IsActiveAt
    <3>2. height' = height
      BY <2>1 DEF ValidatorTransaction, AddValidator, RemoveValidator, RestoreValidator,
         CancelScheduledRemoval
    <3>3. records'[v].registered <=>
            \E i \in DOMAIN validatorList' : validatorList'[i] = v
      BY <1>3 DEF ValidatorInv, ListedIffRegistered
    <3>4. v \in ActiveAt(height)' <=> v \in Bootstrap \/ IsActiveAt(records'[v], height')
      BY <3>3 DEF ActiveAt, IsActiveAt
    <3> QED BY <3>1, <3>2, <3>4
  <2> DEFINE q == records[v]
             Told(a) == [entityType |-> "VALIDATOR", entityId |-> v, action |-> a,
                         actor |-> caller, recorder |-> "ValidatorRegistry"]
             Restored == ~IsActiveAt(q, height) /\ IsActiveAt(records'[v], height)
             Goal ==
                /\ status[caller] = "ACTIVE" /\ "ADMIN" \in RolesOf(caller)
                /\ v \notin Bootstrap
                /\ \E a : log' = Append(log, Told(a)) /\ (a = "VALIDATOR_RESTORE" <=> Restored)
  <2>4. /\ height \in Nat /\ q.activationHeight \in Nat /\ q.removalHeight \in Nat
        /\ q.removalHeight # 0 => q.removalHeight > q.activationHeight
        /\ q.registered \in BOOLEAN /\ q = records[v]
        /\ v \in Bootstrap => ~q.registered
    BY <1>3 DEF ValidatorInv, BootstrapApart
  <2>5. Goal
    <3>1. ASSUME NEW h \in 0..MaxHeight, AddValidator(caller, v, h)
          PROVE  Goal
      <4>1. h \in Nat /\ h > height /\ records'[v].activationHeight = h
        BY <1>3, <3>1, ValidatorAssumption DEF AddValidator, ValidatorInv
      <4>2. ~Restored
        BY <2>4, <4>1 DEF IsActiveAt
      <4> HIDE DEF Restored
      <4>3. log' = Append(log, Told("VALIDATOR_ADD"))
        BY <3>1 DEF AddValidator, ValidatorAudit, Audit, Record
      <4> HIDE DEF Told
      <4>4. status[caller] = "ACTIVE" /\ "ADMIN" \in RolesOf(caller) /\ v \notin Bootstrap
        BY <3>1 DEF AddValidator, CheckRoles, IsActiveWallet, HasAnyRole
      <4> QED BY <4>2, <4>3, <4>4
    <3>2. ASSUME NEW h \in 0..MaxHeight, RemoveValidator(caller, v, h)
          PROVE  Goal
      <4>1. /\ h \in Nat /\ h > height /\ q.removalHeight = 0
            /\ records'[v] = [q EXCEPT !.removalHeight = h]
        BY <1>3, <3>2, ValidatorAssumption DEF RemoveValidator, ValidatorInv
      <4>2. ~Restored
        <5>1. records'[v].registered = q.registered /\ records'[v].activationHeight = q.activationHeight
          BY <1>3, <4>1 DEF ValidatorInv
        <5> HIDE DEF q
        <5> QED BY <2>4, <4>1, <5>1 DEF IsActiveAt
      <4> HIDE DEF Restored
      <4>3. log' = Append(log, Told("VALIDATOR_REMOVE"))
        BY <3>2 DEF RemoveValidator, ValidatorAudit, Audit, Record
      <4> HIDE DEF Told
      <4>4. status[caller] = "ACTIVE" /\ "ADMIN" \in RolesOf(caller) /\ v \notin Bootstrap
        BY <3>2 DEF RemoveValidator, CheckRoles, IsActiveWallet, HasAnyRole
      <4> QED BY <4>2, <4>3, <4>4
    <3>3. ASSUME RestoreValidator(caller, v) PROVE Goal
      <4>1. /\ q.registered /\ q.removalHeight \in 1..height
            /\ records'[v] = [q EXCEPT !.removalHeight = 0]
        BY <1>3, <3>3 DEF RestoreValidator, ValidatorInv
      <4>2. Restored
        <5>1. /\ records'[v].registered = q.registered
              /\ records'[v].activationHeight = q.activationHeight
              /\ records'[v].removalHeight = 0
          BY <1>3, <4>1 DEF ValidatorInv
        <5> HIDE DEF q
        <5> QED BY <2>4, <4>1, <5>1 DEF IsActiveAt
      <4> HIDE DEF Restored
      <4>3. log' = Append(log, Told("VALIDATOR_RESTORE"))
        BY <3>3 DEF RestoreValidator, ValidatorAudit, Audit, Record
      <4> HIDE DEF Told
      <4>4. status[caller] = "ACTIVE" /\ "ADMIN" \in RolesOf(caller) /\ v \notin Bootstrap
        BY <3>3 DEF RestoreValidator, CheckRoles, IsActiveWallet, HasAnyRole
      <4> QED BY <4>2, <4>3, <4>4
    <3>4. ASSUME CancelScheduledRemoval(caller, v) PROVE Goal
      <4>1. /\ q.registered /\ q.removalHeight > height
            /\ records'[v] = [q EXCEPT !.removalHeight = 0]
        BY <1>3, <3>4 DEF CancelScheduledRemoval, ValidatorInv
      <4>2. ~Restored
        <5>1. records'[v].registered = q.registered /\ records'[v].activationHeight = q.activationHeight
          BY <1>3, <4>1 DEF ValidatorInv
        <5> HIDE DEF q
        <5> QED BY <2>4, <4>1, <5>1 DEF IsActiveAt
      <4> HIDE DEF Restored
      <4>3. log' = Append(log, Told("VALIDATOR_REMOVE_CANCEL"))
        BY <3>4 DEF CancelScheduledRemoval, ValidatorAudit, Audit, Record
      <4> HIDE DEF Told
      <4>4. status[caller] = "ACTIVE" /\ "ADMIN" \in RolesOf(caller)
        BY <3>4 DEF CancelScheduledRemoval, CheckRoles, IsActiveWallet, HasAnyRole
      <4>5. v \notin Bootstrap
        BY <2>4, <4>1
      <4> QED BY <4>2, <4>3, <4>4, <4>5
    <3> QED BY <2>1, <2>2, <3>1, <3>2, <3>3, <3>4 DEF ValidatorTransaction
  <2> HIDE DEF q, Restored, Told
  <2>6. PICK a : log' = Append(log, Told(a)) /\ (a = "VALIDATOR_RESTORE" <=> Restored)
    BY <2>5
  <2>7. Len(log') = Len(log) + 1 /\ log'[Len(log) + 1] = Told(a)
    BY <1>3, <2>6, LogGrows
  <2>8. Restored <=> v \in ActiveAt(height)' \ ActiveAt(height)
    BY <2>3, <2>5 DEF Restored, q
  <2> QED BY <2>5, <2>6, <2>7, <2>8 DEF Told
<1> QED BY <1>1, <1>2, <1>3, ValidatorInvariant, PTL DEF ValidatorSpec, ValidatorsAccountable

-----------------------------------------------------------------------------
(* The service over the registry.                                          *)

Status     == {"PENDING", "ACTIVE", "REMOVAL_SCHEDULED", "REMOVED"}
Reg        == [status : Status, act : 0..MaxHeight, rem : 0..MaxHeight]
Working    == [at : {"row", "effective", "head", "submit", "wait", "failed", "save"}, op : Op,
               v : Validator, arg : 0..MaxHeight, reg : Reg \cup {NoRow}]
Recording  == [at : {"history"}, v : Validator]
Announcing == [at : {"notify"}, v : Validator, left : SUBSET Person]

ServiceTypes ==
    /\ row \in [Validator -> Reg \cup {NoRow}]
    /\ req \in [Slot -> Working \cup Recording \cup Announcing \cup {Idle}]
    /\ pool \subseteq [op : Op, v : Validator, arg : 0..MaxHeight]
    /\ events \in [Validator -> Nat] /\ lost \in [Validator -> Nat]
    /\ unsaved \in [Validator -> Nat] /\ unrecorded \in [Validator -> Nat]
    /\ untold \in [Validator -> Nat]
    /\ entries \in [Validator -> Nat]
    /\ notices \in [Validator -> [Person -> Nat]]

\* A request that changes a row has that row in hand once it was read.
Sound(r) == r.at \in {"effective", "head", "submit", "wait", "save"} =>
                (r.op # "VALIDATOR_ADD" => r.reg \in Reg) /\ (r.at = "effective" => r.reg \in Reg)

RequestsSound == \A s \in Slot, r \in Working : req[s] = r => Sound(r)

\* A request that owes the history a record, or person p its notices.
Owes(r, v)       == r.at \in {"save", "history"} /\ r.v = v
Tells(r, v, p)   == r.at = "notify" /\ r.v = v /\ p \in r.left
Owing(q, v)      == {s \in Slot : Owes(q[s], v)}
Telling(q, v, p) == {s \in Slot : Tells(q[s], v, p)}

\* What is still to be recorded, and to be told, makes up the difference.
EventsCounted  == \A v \in Validator : events[v] = entries[v] + Missed(v) + Cardinality(Owing(req, v))
Told(v, p) ==
    LET n == notices[v][p] + 2 * Cardinality(Telling(req, v, p)) IN
    2 * (entries[v] - untold[v]) <= n /\ n <= 2 * entries[v]
NoticesCounted == \A v \in Validator, p \in Person : Told(v, p)

ServiceInv == ServiceTypes /\ RequestsSound /\ EventsCounted /\ NoticesCounted

\* The row says of a validator what the contract says.
Matches(r, record) ==
    /\ r = NoRow <=> ~record.registered
    /\ r # NoRow => r.act = record.activationHeight /\ r.rem = record.removalHeight

\* What holds of the rows besides.  A request works on a row with the activation
\* height of the contract, which never changes; the row of the newest
\* transaction, saved or about to be, matches the contract; and a row that is
\* not of it is one whose request is about to save, or has a reason.
Current(r) ==
    /\ r.op \in {"VALIDATOR_ADD", "VALIDATOR_REMOVE"} => r.arg # 0
    /\ r.at \in {"effective", "head", "submit", "wait", "save"} /\ r.op # "VALIDATOR_ADD" =>
         /\ records[r.v].registered
         /\ r.reg.act = records[r.v].activationHeight /\ r.reg.act \in 1..MaxHeight
    /\ r.at = "save" /\ r.op = "VALIDATOR_ADD" =>
         records[r.v].registered /\ r.arg = records[r.v].activationHeight

RequestsCurrent == \A s \in Slot, r \in Working : req[s] = r => Current(r)

OrderTypes == newest \subseteq Slot /\ behind \subseteq Validator

RowsKnown ==
    \A v \in Validator : row[v] # NoRow =>
        records[v].registered /\ row[v].act = records[v].activationHeight

NewestMatch ==
    \A s \in newest :
        /\ req[s].at = "save"
        /\ Matches(Written(req[s].op, req[s].reg, req[s].arg), records[req[s].v])

RowsMatch == \A v \in Validator : v \notin behind => Matches(row[v], records[v])

BehindBecause ==
    \A v \in behind : \/ lost[v] + unsaved[v] > 0 \/ v \in overtaken
                      \/ \E s \in newest : req[s].v = v

RowFacts ==
    /\ RowsTypeOK /\ OrderTypes /\ RequestsCurrent /\ RowsKnown
    /\ NewestMatch /\ RowsMatch /\ BehindBecause

RowInv == ServiceInv /\ RowFacts

-----------------------------------------------------------------------------
(* Counting requests.                                                      *)

LEMMA CountAdds ==
    ASSUME NEW A \in SUBSET Slot, NEW B \in SUBSET Slot, NEW s \in Slot, s \notin A, B = A \cup {s}
    PROVE  /\ Cardinality(A) \in Nat /\ Cardinality(B) \in Nat
           /\ Cardinality(B) = Cardinality(A) + 1
<1>1. IsFiniteSet(A) /\ IsFiniteSet(B)
  BY ServiceAssumption, FS_Subset
<1>2. Cardinality(A \cup {s}) = Cardinality(A) + 1
  BY <1>1, FS_AddElement
<1> QED BY <1>1, <1>2, FS_CardinalityType

LEMMA OwingNat ==
    ASSUME NEW q, NEW v PROVE Cardinality(Owing(q, v)) \in Nat
<1>1. IsFiniteSet(Owing(q, v))
  BY ServiceAssumption, FS_Subset DEF Owing
<1> QED BY <1>1, FS_CardinalityType

LEMMA MissedNat ==
    ASSUME ServiceTypes, NEW v \in Validator
    PROVE  /\ Missed(v) \in Nat /\ events[v] \in Nat /\ entries[v] \in Nat
           /\ untold[v] \in Nat
BY DEF ServiceTypes, Missed

LEMMA TellingNat ==
    ASSUME NEW q, NEW v, NEW p PROVE Cardinality(Telling(q, v, p)) \in Nat
<1>1. IsFiniteSet(Telling(q, v, p))
  BY ServiceAssumption, FS_Subset DEF Telling
<1> QED BY <1>1, FS_CardinalityType

\* What becomes of the counts when one slot gets another request.
LEMMA OwingSame ==
    ASSUME ServiceTypes, NEW s \in Slot, NEW r, r = req[s], NEW d, NEW v \in Validator,
           req' = [req EXCEPT ![s] = d],
           \/ Owes(r, v) /\ Owes(d, v)
           \/ ~Owes(r, v) /\ ~Owes(d, v)
    PROVE  Cardinality(Owing(req', v)) = Cardinality(Owing(req, v))
<1>1. \A t \in Slot : req'[t] = IF t = s THEN d ELSE req[t]
  BY DEF ServiceTypes
<1>2. Owing(req', v) = Owing(req, v)
  BY <1>1 DEF Owing
<1> QED BY <1>2

LEMMA OwingMore ==
    ASSUME ServiceTypes, NEW s \in Slot, NEW r, r = req[s], NEW d, NEW v \in Validator,
           req' = [req EXCEPT ![s] = d],
           ~Owes(r, v), Owes(d, v)
    PROVE  /\ Cardinality(Owing(req, v)) \in Nat
           /\ Cardinality(Owing(req', v)) = Cardinality(Owing(req, v)) + 1
<1>1. \A t \in Slot : req'[t] = IF t = s THEN d ELSE req[t]
  BY DEF ServiceTypes
<1>2. PICK A : A = Owing(req, v)
  OBVIOUS
<1>3. PICK B : B = Owing(req', v)
  OBVIOUS
<1>4. A \in SUBSET Slot /\ B \in SUBSET Slot
  BY <1>2, <1>3 DEF Owing
<1>5. s \notin A /\ B = A \cup {s}
  BY <1>1, <1>2, <1>3 DEF Owing
<1>6. /\ Cardinality(A) \in Nat
      /\ Cardinality(B) = Cardinality(A) + 1
  BY <1>4, <1>5, CountAdds
<1> QED BY <1>2, <1>3, <1>6

LEMMA OwingLess ==
    ASSUME ServiceTypes, NEW s \in Slot, NEW r, r = req[s], NEW d, NEW v \in Validator,
           req' = [req EXCEPT ![s] = d],
           Owes(r, v), ~Owes(d, v)
    PROVE  /\ Cardinality(Owing(req', v)) \in Nat
           /\ Cardinality(Owing(req, v)) = Cardinality(Owing(req', v)) + 1
<1>1. \A t \in Slot : req'[t] = IF t = s THEN d ELSE req[t]
  BY DEF ServiceTypes
<1>2. PICK A : A = Owing(req, v)
  OBVIOUS
<1>3. PICK B : B = Owing(req', v)
  OBVIOUS
<1>4. A \in SUBSET Slot /\ B \in SUBSET Slot
  BY <1>2, <1>3 DEF Owing
<1>5. s \notin B /\ A = B \cup {s}
  BY <1>1, <1>2, <1>3 DEF Owing
<1>6. /\ Cardinality(B) \in Nat
      /\ Cardinality(A) = Cardinality(B) + 1
  BY <1>4, <1>5, CountAdds
<1> QED BY <1>2, <1>3, <1>6

LEMMA TellingSame ==
    ASSUME ServiceTypes, NEW s \in Slot, NEW r, r = req[s], NEW d, NEW v \in Validator, NEW p \in Person,
           req' = [req EXCEPT ![s] = d],
           \/ Tells(r, v, p) /\ Tells(d, v, p)
           \/ ~Tells(r, v, p) /\ ~Tells(d, v, p)
    PROVE  Cardinality(Telling(req', v, p)) = Cardinality(Telling(req, v, p))
<1>1. \A t \in Slot : req'[t] = IF t = s THEN d ELSE req[t]
  BY DEF ServiceTypes
<1>2. Telling(req', v, p) = Telling(req, v, p)
  BY <1>1 DEF Telling
<1> QED BY <1>2

LEMMA TellingMore ==
    ASSUME ServiceTypes, NEW s \in Slot, NEW r, r = req[s], NEW d, NEW v \in Validator, NEW p \in Person,
           req' = [req EXCEPT ![s] = d],
           ~Tells(r, v, p), Tells(d, v, p)
    PROVE  /\ Cardinality(Telling(req, v, p)) \in Nat
           /\ Cardinality(Telling(req', v, p)) = Cardinality(Telling(req, v, p)) + 1
<1>1. \A t \in Slot : req'[t] = IF t = s THEN d ELSE req[t]
  BY DEF ServiceTypes
<1>2. PICK A : A = Telling(req, v, p)
  OBVIOUS
<1>3. PICK B : B = Telling(req', v, p)
  OBVIOUS
<1>4. A \in SUBSET Slot /\ B \in SUBSET Slot
  BY <1>2, <1>3 DEF Telling
<1>5. s \notin A /\ B = A \cup {s}
  BY <1>1, <1>2, <1>3 DEF Telling
<1>6. /\ Cardinality(A) \in Nat
      /\ Cardinality(B) = Cardinality(A) + 1
  BY <1>4, <1>5, CountAdds
<1> QED BY <1>2, <1>3, <1>6

LEMMA TellingLess ==
    ASSUME ServiceTypes, NEW s \in Slot, NEW r, r = req[s], NEW d, NEW v \in Validator, NEW p \in Person,
           req' = [req EXCEPT ![s] = d],
           Tells(r, v, p), ~Tells(d, v, p)
    PROVE  /\ Cardinality(Telling(req', v, p)) \in Nat
           /\ Cardinality(Telling(req, v, p)) = Cardinality(Telling(req', v, p)) + 1
<1>1. \A t \in Slot : req'[t] = IF t = s THEN d ELSE req[t]
  BY DEF ServiceTypes
<1>2. PICK A : A = Telling(req, v, p)
  OBVIOUS
<1>3. PICK B : B = Telling(req', v, p)
  OBVIOUS
<1>4. A \in SUBSET Slot /\ B \in SUBSET Slot
  BY <1>2, <1>3 DEF Telling
<1>5. s \notin B /\ A = B \cup {s}
  BY <1>1, <1>2, <1>3 DEF Telling
<1>6. /\ Cardinality(B) \in Nat
      /\ Cardinality(A) = Cardinality(B) + 1
  BY <1>4, <1>5, CountAdds
<1> QED BY <1>2, <1>3, <1>6

-----------------------------------------------------------------------------
(* The records and the notices: every step keeps the counts.               *)

\* The kinds of requests are told apart by where they are.
LEMMA Kinds ==
    ASSUME NEW r \in Working \cup Recording \cup Announcing \cup {Idle}
    PROVE  /\ r.at \in {"row", "effective", "head", "submit", "wait", "failed", "save"} => r \in Working
           /\ r.at = "history" => r \in Recording
           /\ r.at = "notify" => r \in Announcing
           /\ r \in Working \cup Recording \cup Announcing => r # Idle /\ r.v \in Validator
           /\ r \in Working => r \notin Recording \cup Announcing \cup {Idle}
<1>1. ASSUME r \in Working PROVE r.at \in {"row", "effective", "head", "submit", "wait", "failed", "save"} /\ r.v \in Validator
  BY <1>1 DEF Working
<1>2. ASSUME r \in Recording PROVE r.at = "history" /\ r.v \in Validator
  BY <1>2 DEF Recording
<1>3. ASSUME r \in Announcing PROVE r.at = "notify" /\ r.v \in Validator
  BY <1>3 DEF Announcing
<1>4. Idle.at = "idle"
  BY DEF Idle
<1> QED BY <1>1, <1>2, <1>3, <1>4

LEMMA ServiceInvInit == ServiceInit => ServiceInv
<1> SUFFICES ASSUME ServiceInit PROVE ServiceInv
  OBVIOUS
<1>1. ServiceTypes
  BY DEF ServiceInit, ServiceTypes
<1>2. \A s \in Slot : req[s] = Idle /\ Idle.at = "idle"
  BY DEF ServiceInit, Idle
<1>3. RequestsSound
  BY <1>2, Kinds DEF RequestsSound
<1>4. \A v \in Validator : Owing(req, v) = {} /\ \A p \in Person : Telling(req, v, p) = {}
  BY <1>2 DEF Owing, Owes, Telling, Tells
<1>5. Cardinality({}) = 0
  BY FS_EmptySet
<1>6. EventsCounted
  <2> SUFFICES ASSUME NEW v \in Validator
               PROVE  events[v] = entries[v] + Missed(v) + Cardinality(Owing(req, v))
    BY DEF EventsCounted
  <2>1. events[v] = 0 /\ entries[v] = 0 /\ lost[v] = 0 /\ unsaved[v] = 0 /\ unrecorded[v] = 0
    BY DEF ServiceInit
  <2>2. Missed(v) = 0
    BY <2>1 DEF Missed
  <2>3. Cardinality(Owing(req, v)) = 0
    BY <1>4, <1>5
  <2> QED BY <2>1, <2>2, <2>3
<1>7. NoticesCounted
  <2> SUFFICES ASSUME NEW v \in Validator, NEW p \in Person PROVE Told(v, p)
    BY DEF NoticesCounted
  <2>1. entries[v] = 0 /\ untold[v] = 0 /\ notices[v][p] = 0
    BY DEF ServiceInit
  <2>2. Cardinality(Telling(req, v, p)) = 0
    BY <1>4, <1>5
  <2> QED BY <2>1, <2>2 DEF Told
<1> QED BY <1>1, <1>3, <1>6, <1>7 DEF ServiceInv

\* Working requests that move on, without owing anything before or after.
LEMMA QuietMove ==
    ASSUME ServiceInv, NEW s \in Slot, NEW r \in Working \cup {Idle}, r = req[s],
           r.at # "save",
           NEW d \in Working \cup {Idle}, d.at # "save", d \in Working => Sound(d),
           req' = [req EXCEPT ![s] = d],
           pool' \subseteq [op : Op, v : Validator, arg : 0..MaxHeight],
           UNCHANGED <<row, events, lost, unsaved, unrecorded, untold, entries, notices>>
    PROVE  ServiceInv'
<1>1. ServiceTypes /\ RequestsSound /\ EventsCounted /\ NoticesCounted
  BY DEF ServiceInv
<1>2. r.at \notin {"save", "history", "notify"} /\ d.at \notin {"save", "history", "notify"}
  BY DEF Working, Idle
<1>3. ServiceTypes'
  BY <1>1 DEF ServiceTypes
<1>4. RequestsSound'
  <2>1. \A t \in Slot : req'[t] = IF t = s THEN d ELSE req[t]
    BY <1>1 DEF ServiceTypes
  <2> QED BY <1>1, <2>1 DEF RequestsSound, Sound
<1>5. UNCHANGED events /\ UNCHANGED <<lost, unsaved, unrecorded, untold>> /\ UNCHANGED entries /\ UNCHANGED notices
  OBVIOUS
<1>6. ASSUME NEW v \in Validator PROVE Cardinality(Owing(req', v)) = Cardinality(Owing(req, v))
  <2>1. ~Owes(r, v) /\ ~Owes(d, v)
    BY <1>2 DEF Owes
  <2> QED BY <1>1, <2>1, OwingSame
<1>7. ASSUME NEW v \in Validator, NEW p \in Person
      PROVE  Cardinality(Telling(req', v, p)) = Cardinality(Telling(req, v, p))
  <2>1. ~Tells(r, v, p) /\ ~Tells(d, v, p)
    BY <1>2 DEF Tells
  <2> QED BY <1>1, <2>1, TellingSame
<1>8. EventsCounted'
  BY <1>1, <1>5, <1>6 DEF EventsCounted, Missed
<1>9. NoticesCounted'
  BY <1>1, <1>5, <1>7 DEF NoticesCounted, Told
<1> QED BY <1>3, <1>4, <1>8, <1>9 DEF ServiceInv

\* What a request at a step before its receipt looks like.
LEMMA WorkingAt ==
    ASSUME ServiceInv, NEW s \in Slot,
           req[s].at \in {"row", "effective", "head", "submit", "wait", "failed", "save"}
    PROVE  req[s] \in Working /\ Sound(req[s])
<1>1. req[s] \in Working
  BY Kinds DEF ServiceInv, ServiceTypes
<1> QED BY <1>1 DEF ServiceInv, RequestsSound

\* Going on to another step.
LEMMA GotoRequest ==
    ASSUME ServiceInv, NEW s \in Slot, NEW r \in Working, r = req[s],
           NEW where \in {"head", "submit", "wait", "failed", "save"}, Goto(s, where)
    PROVE  \E d \in Working :
              /\ req' = [req EXCEPT ![s] = d] /\ d.at = where
              /\ d.op = r.op /\ d.v = r.v /\ d.arg = r.arg /\ d.reg = r.reg
<1>1. PICK d : d = [r EXCEPT !.at = where]
  OBVIOUS
<1>2. d \in Working /\ d.at = where /\ d.op = r.op /\ d.v = r.v /\ d.arg = r.arg /\ d.reg = r.reg
  BY <1>1 DEF Working
<1>3. req' = [req EXCEPT ![s] = d]
  BY <1>1 DEF Goto, ServiceInv, ServiceTypes
<1> QED BY <1>2, <1>3

\* A working request goes on, or is dropped, before its receipt.
LEMMA GotoKeeps ==
    ASSUME ServiceInv, NEW s \in Slot, NEW r \in Working, r = req[s], r.at # "save",
           NEW where \in {"head", "submit", "wait", "failed"}, Goto(s, where),
           r.op # "VALIDATOR_ADD" => r.reg \in Reg \/ where = "failed",
           pool' \subseteq [op : Op, v : Validator, arg : 0..MaxHeight],
           UNCHANGED <<row, events, lost, unsaved, unrecorded, untold, entries, notices>>
    PROVE  ServiceInv'
<1>1. PICK d \in Working :
        /\ req' = [req EXCEPT ![s] = d] /\ d.at = where
        /\ d.op = r.op /\ d.v = r.v /\ d.arg = r.arg /\ d.reg = r.reg
  BY GotoRequest
<1>2. Sound(d)
  BY <1>1 DEF Sound
<1> QED BY <1>1, <1>2, QuietMove

LEMMA FinishKeeps ==
    ASSUME ServiceInv, NEW s \in Slot, NEW r \in Working, r = req[s], r.at # "save", Finish(s),
           UNCHANGED <<row, pool, events, lost, unsaved, unrecorded, untold, entries, notices>>
    PROVE  ServiceInv'
<1>1. Idle.at # "save" /\ Idle \notin Working
  BY Kinds DEF Idle
<1>2. pool' \subseteq [op : Op, v : Validator, arg : 0..MaxHeight]
  BY DEF ServiceInv, ServiceTypes
<1> QED BY <1>1, <1>2, QuietMove DEF Finish

LEMMA ArriveKeeps ==
    ASSUME ServiceInv, NEW s \in Slot, NEW op \in Op, NEW v \in Validator,
           NEW arg \in 0..MaxHeight, Arrive(s, op, v, arg)
    PROVE  ServiceInv'
<1>1. PICK d : d = [at |-> "row", op |-> op, v |-> v, arg |-> arg, reg |-> NoRow]
  OBVIOUS
<1>2. d \in Working /\ d.at = "row"
  BY <1>1 DEF Working
<1>3. Sound(d)
  BY <1>2 DEF Sound
<1>4. Idle.at # "save"
  BY DEF Idle
<1>5. /\ req[s] = Idle /\ req' = [req EXCEPT ![s] = d]
      /\ UNCHANGED <<row, events, lost, unsaved, unrecorded, untold, entries, notices>> /\ UNCHANGED pool
  BY <1>1 DEF Arrive, chainVars, endVars
<1>6. pool' \subseteq [op : Op, v : Validator, arg : 0..MaxHeight]
  BY <1>5 DEF ServiceInv, ServiceTypes
<1>7. d.at # "save"
  BY <1>2
<1> QED BY <1>2, <1>3, <1>4, <1>5, <1>6, <1>7, QuietMove

LEMMA ReadRowKeeps ==
    ASSUME ServiceInv, NEW s \in Slot, ReadRow(s)
    PROVE  ServiceInv'
<1>1. req[s].at = "row" /\ UNCHANGED <<row, pool, events, lost, unsaved, unrecorded, untold, entries, notices>>
      /\ UNCHANGED <<row, events, lost, unsaved, unrecorded, untold, entries, notices>>
  BY DEF ReadRow, chainVars, endVars
<1>2. PICK r \in Working : r = req[s] /\ r.at = "row" /\ Sound(r)
  BY <1>1, WorkingAt
<1>3. pool' \subseteq [op : Op, v : Validator, arg : 0..MaxHeight]
  BY <1>1 DEF ServiceInv, ServiceTypes
<1>4. r.at # "save" /\ r.v \in Validator
  BY <1>2 DEF Working
<1>5. \/ Finish(s)
      \/ r.op = "VALIDATOR_ADD" /\ Goto(s, "head")
      \/ /\ row[r.v] # NoRow /\ req' = [req EXCEPT ![s].at = "effective", ![s].reg = row[r.v]]
  BY <1>2 DEF ReadRow
<1>6. CASE Finish(s)
  BY <1>1, <1>2, <1>4, <1>6, FinishKeeps
<1>7. CASE r.op = "VALIDATOR_ADD" /\ Goto(s, "head")
  <2>1. "head" \in {"head", "submit", "wait", "failed"}
    OBVIOUS
  <2> QED BY <1>1, <1>2, <1>3, <1>4, <1>7, <2>1, GotoKeeps
<1>8. CASE row[r.v] # NoRow /\ req' = [req EXCEPT ![s].at = "effective", ![s].reg = row[r.v]]
  <2>1. PICK g \in Reg : g = row[r.v]
    BY <1>4, <1>8 DEF ServiceInv, ServiceTypes
  <2>2. PICK d : d = [r EXCEPT !.at = "effective", !.reg = g]
    OBVIOUS
  <2>3. d \in Working /\ d.at = "effective" /\ d.reg = g
    BY <2>2 DEF Working
  <2>4. req' = [req EXCEPT ![s] = d]
    BY <1>2, <1>8, <2>1, <2>2 DEF ServiceInv, ServiceTypes
  <2>5. Sound(d) /\ d.at # "save"
    BY <2>3 DEF Sound
  <2> QED BY <1>1, <1>2, <1>3, <1>4, <2>3, <2>4, <2>5, QuietMove
<1> QED BY <1>5, <1>6, <1>7, <1>8

LEMMA EffectiveStatus ==
    ASSUME NEW g \in Reg, NEW head
    PROVE  Effective(g, head) \in Status
BY DEF Effective, Reg, Status

\* A request whose row says `now` at the head it read.
LEMMA ReadEffectiveCases ==
    ASSUME ServiceInv, NEW s \in Slot, ReadEffective(s), NEW r \in Working, r = req[s]
    PROVE  \/ Finish(s)
           \/ \E d \in Working :
                /\ req' = [req EXCEPT ![s] = d] /\ d.at \in {"head", "submit"}
                /\ d.op = r.op /\ d.v = r.v /\ d.arg = r.arg
                /\ d.reg \in Reg /\ d.reg.act = r.reg.act /\ d.reg.rem = r.reg.rem
<1>1. r.at = "effective" /\ Sound(r)
  BY WorkingAt DEF ReadEffective
<1>2. r.reg \in Reg
  BY <1>1 DEF Sound
<1>3. PICK head \in Heads :
        LET now  == Effective(r.reg, head)
            next == [r EXCEPT !.reg.status = now]
        IN req' = [req EXCEPT ![s] =
             CASE r.op = "VALIDATOR_REMOVE" /\ now \in {"PENDING", "ACTIVE"}
                    -> [next EXCEPT !.at = "head"]
               [] r.op = "VALIDATOR_RESTORE" -> [next EXCEPT !.at = "head"]
               [] r.op = "VALIDATOR_REMOVE_CANCEL" /\ now = "REMOVAL_SCHEDULED"
                    -> [next EXCEPT !.at = "submit"]
               [] OTHER -> Idle]
  BY DEF ReadEffective
<1>4. PICK now \in Status : now = Effective(r.reg, head)
  BY <1>2, EffectiveStatus
<1>5. PICK g : g = [r.reg EXCEPT !.status = now]
  OBVIOUS
<1>6. g \in Reg /\ g.act = r.reg.act /\ g.rem = r.reg.rem
  BY <1>2, <1>5 DEF Reg
<1>7. PICK next : next = [r EXCEPT !.reg = g]
  OBVIOUS
<1>8. next = [r EXCEPT !.reg.status = now]
  BY <1>5, <1>7 DEF Working
<1>9. next \in Working /\ next.op = r.op /\ next.v = r.v /\ next.arg = r.arg /\ next.reg = g
  BY <1>6, <1>7 DEF Working
<1>10. \/ req' = [req EXCEPT ![s] = [next EXCEPT !.at = "head"]]
       \/ req' = [req EXCEPT ![s] = [next EXCEPT !.at = "submit"]]
       \/ req' = [req EXCEPT ![s] = Idle]
  <2>1. req' = [req EXCEPT ![s] =
             CASE r.op = "VALIDATOR_REMOVE" /\ now \in {"PENDING", "ACTIVE"}
                    -> [next EXCEPT !.at = "head"]
               [] r.op = "VALIDATOR_RESTORE" -> [next EXCEPT !.at = "head"]
               [] r.op = "VALIDATOR_REMOVE_CANCEL" /\ now = "REMOVAL_SCHEDULED"
                    -> [next EXCEPT !.at = "submit"]
               [] OTHER -> Idle]
    BY <1>3, <1>4, <1>8
  <2>2. CASE r.op = "VALIDATOR_REMOVE" /\ now \in {"PENDING", "ACTIVE"}
    BY <2>1, <2>2
  <2>3. CASE r.op = "VALIDATOR_RESTORE"
    BY <2>1, <2>3
  <2>4. CASE r.op = "VALIDATOR_REMOVE_CANCEL" /\ now = "REMOVAL_SCHEDULED"
    BY <2>1, <2>4
  <2>5. CASE /\ ~(r.op = "VALIDATOR_REMOVE" /\ now \in {"PENDING", "ACTIVE"})
             /\ r.op # "VALIDATOR_RESTORE"
             /\ ~(r.op = "VALIDATOR_REMOVE_CANCEL" /\ now = "REMOVAL_SCHEDULED")
    BY <2>1, <2>5
  <2> QED BY <2>2, <2>3, <2>4, <2>5
<1>11. ASSUME NEW where \in {"head", "submit"}, req' = [req EXCEPT ![s] = [next EXCEPT !.at = where]]
       PROVE  \E d \in Working :
                /\ req' = [req EXCEPT ![s] = d] /\ d.at \in {"head", "submit"}
                /\ d.op = r.op /\ d.v = r.v /\ d.arg = r.arg
                /\ d.reg \in Reg /\ d.reg.act = r.reg.act /\ d.reg.rem = r.reg.rem
  <2>1. PICK d : d = [next EXCEPT !.at = where]
    OBVIOUS
  <2>2. d \in Working /\ d.at = where /\ d.op = r.op /\ d.v = r.v /\ d.arg = r.arg /\ d.reg = g
    BY <1>9, <2>1 DEF Working
  <2> QED BY <1>6, <1>11, <2>1, <2>2
<1> QED BY <1>10, <1>11 DEF Finish

LEMMA ReadEffectiveKeeps ==
    ASSUME ServiceInv, NEW s \in Slot, ReadEffective(s)
    PROVE  ServiceInv'
<1>1. req[s].at = "effective" /\ UNCHANGED <<row, pool, events, lost, unsaved, unrecorded, untold, entries, notices>>
      /\ UNCHANGED <<row, events, lost, unsaved, unrecorded, untold, entries, notices>>
  BY DEF ReadEffective, chainVars, endVars
<1>2. PICK r \in Working : r = req[s] /\ r.at # "save"
  BY <1>1, WorkingAt
<1>3. pool' \subseteq [op : Op, v : Validator, arg : 0..MaxHeight]
  BY <1>1 DEF ServiceInv, ServiceTypes
<1>4. CASE Finish(s)
  BY <1>1, <1>2, <1>4, FinishKeeps
<1>5. ASSUME NEW d \in Working, req' = [req EXCEPT ![s] = d], d.at \in {"head", "submit"},
             d.reg \in Reg
      PROVE  ServiceInv'
  <2>1. Sound(d) /\ d.at # "save"
    BY <1>5 DEF Sound
  <2> QED BY <1>1, <1>2, <1>3, <1>5, <2>1, QuietMove
<1> QED BY <1>2, <1>4, <1>5, ReadEffectiveCases

LEMMA ReadHeadKeeps ==
    ASSUME ServiceInv, NEW s \in Slot, ReadHead(s)
    PROVE  ServiceInv'
<1>1. req[s].at = "head" /\ UNCHANGED <<row, pool, events, lost, unsaved, unrecorded, untold, entries, notices>>
      /\ UNCHANGED <<row, events, lost, unsaved, unrecorded, untold, entries, notices>> /\ (Goto(s, "submit") \/ Finish(s))
  BY DEF ReadHead, chainVars, endVars
<1>2. PICK r \in Working : r = req[s] /\ r.at = "head" /\ Sound(r)
  BY <1>1, WorkingAt
<1>3. pool' \subseteq [op : Op, v : Validator, arg : 0..MaxHeight]
  BY <1>1 DEF ServiceInv, ServiceTypes
<1>4. r.at # "save" /\ (r.op # "VALIDATOR_ADD" => r.reg \in Reg)
  BY <1>2 DEF Sound
<1>5. "submit" \in {"head", "submit", "wait", "failed"}
  OBVIOUS
<1> QED BY <1>1, <1>2, <1>3, <1>4, <1>5, GotoKeeps, FinishKeeps

LEMMA SubmitKeeps ==
    ASSUME ServiceInv, NEW s \in Slot, Submit(s)
    PROVE  ServiceInv'
<1>1. req[s].at = "submit" /\ UNCHANGED <<row, pool, events, lost, unsaved, unrecorded, untold, entries, notices>>
      /\ UNCHANGED <<row, events, lost, unsaved, unrecorded, untold, entries, notices>> /\ (Goto(s, "failed") \/ Goto(s, "wait"))
  BY DEF Submit, chainVars, endVars
<1>2. PICK r \in Working : r = req[s] /\ r.at = "submit" /\ Sound(r)
  BY <1>1, WorkingAt
<1>3. pool' \subseteq [op : Op, v : Validator, arg : 0..MaxHeight]
  BY <1>1 DEF ServiceInv, ServiceTypes
<1>4. r.at # "save" /\ (r.op # "VALIDATOR_ADD" => r.reg \in Reg)
  BY <1>2 DEF Sound
<1>5. "wait" \in {"head", "submit", "wait", "failed"} /\ "failed" \in {"head", "submit", "wait", "failed"}
  OBVIOUS
<1> QED BY <1>1, <1>2, <1>3, <1>4, <1>5, GotoKeeps

LEMMA TimeOutKeeps ==
    ASSUME ServiceInv, NEW s \in Slot, TimeOut(s)
    PROVE  ServiceInv'
<1>1. req[s].at = "wait" /\ UNCHANGED <<row, events, lost, unsaved, unrecorded, untold, entries, notices>> /\ Goto(s, "failed")
      /\ pool' = pool \cup {[op |-> req[s].op, v |-> req[s].v, arg |-> req[s].arg]}
  BY DEF TimeOut, chainVars, endVars
<1>2. PICK r \in Working : r = req[s] /\ r.at = "wait"
  BY <1>1, WorkingAt
<1>3. [op |-> r.op, v |-> r.v, arg |-> r.arg] \in [op : Op, v : Validator, arg : 0..MaxHeight]
  BY DEF Working
<1>4. pool' \subseteq [op : Op, v : Validator, arg : 0..MaxHeight]
  BY <1>1, <1>2, <1>3 DEF ServiceInv, ServiceTypes
<1>5. "failed" \in {"head", "submit", "wait", "failed"} /\ r.at # "save"
  BY <1>2
<1> QED BY <1>1, <1>2, <1>4, <1>5, GotoKeeps

LEMMA RecordFailureKeeps ==
    ASSUME ServiceInv, NEW s \in Slot, RecordFailure(s)
    PROVE  ServiceInv'
<1>1. req[s].at = "failed" /\ UNCHANGED <<row, pool, events, lost, unsaved, unrecorded, untold, entries, notices>> /\ Finish(s)
  BY DEF RecordFailure, chainVars, endVars
<1>2. PICK r \in Working : r = req[s] /\ r.at = "failed"
  BY <1>1, WorkingAt
<1>3. r.at # "save"
  BY <1>2
<1> QED BY <1>1, <1>2, <1>3, FinishKeeps

\* The receipt is in: an event the request owes the history.
LEMMA MineKeeps ==
    ASSUME ServiceInv, NEW s \in Slot, Mine(s)
    PROVE  ServiceInv'
<1>1. req[s].at = "wait" /\ UNCHANGED <<row, pool, lost, unsaved, unrecorded, untold, entries, notices>>
  BY DEF Mine, endVars
<1>2. PICK r \in Working : r = req[s] /\ r.at = "wait" /\ Sound(r)
  BY <1>1, WorkingAt
<1>3. r.v \in Validator /\ r.at # "save" /\ (r.op # "VALIDATOR_ADD" => r.reg \in Reg)
  BY <1>2 DEF Working, Sound
<1>4. \/ events' = [events EXCEPT ![r.v] = @ + 1] /\ Goto(s, "save")
      \/ UNCHANGED events /\ Goto(s, "failed")
  BY <1>2 DEF Mine, chainVars, endVars
<1>5. CASE UNCHANGED events /\ Goto(s, "failed")
  <2>1. pool' \subseteq [op : Op, v : Validator, arg : 0..MaxHeight]
    BY <1>1 DEF ServiceInv, ServiceTypes
  <2>2. "failed" \in {"head", "submit", "wait", "failed"}
    OBVIOUS
  <2>3. UNCHANGED <<row, events, lost, unsaved, unrecorded, untold, entries, notices>>
    BY <1>1, <1>5
  <2> QED BY <1>2, <1>3, <1>5, <2>1, <2>2, <2>3, GotoKeeps
<1>6. CASE events' = [events EXCEPT ![r.v] = @ + 1] /\ Goto(s, "save")
  <2>1. ServiceTypes /\ RequestsSound /\ EventsCounted /\ NoticesCounted
    BY DEF ServiceInv
  <2>2. "save" \in {"head", "submit", "wait", "failed", "save"}
    OBVIOUS
  <2>3. PICK d \in Working :
          /\ req' = [req EXCEPT ![s] = d] /\ d.at = "save"
          /\ d.op = r.op /\ d.v = r.v /\ d.arg = r.arg /\ d.reg = r.reg
    BY <1>2, <1>6, <2>2, GotoRequest
  <2>4. UNCHANGED <<lost, unsaved, unrecorded, untold>> /\ UNCHANGED entries /\ UNCHANGED notices
    BY <1>1
  <2>5. ServiceTypes'
    BY <1>1, <1>3, <1>6, <2>1, <2>3 DEF ServiceTypes
  <2>6. RequestsSound'
    <3>1. \A t \in Slot : req'[t] = IF t = s THEN d ELSE req[t]
      BY <2>1, <2>3 DEF ServiceTypes
    <3>2. Sound(d)
      BY <1>3, <2>3 DEF Sound
    <3> QED BY <2>1, <3>1, <3>2 DEF RequestsSound, Sound
  <2>7. EventsCounted'
    <3>1. ASSUME NEW v \in Validator PROVE (events[v] = entries[v] + Missed(v) + Cardinality(Owing(req, v)))'
      <4>1. ~Owes(r, v) /\ (Owes(d, v) <=> v = r.v)
        BY <1>2, <2>3 DEF Owes
      <4>2. /\ Cardinality(Owing(req, v)) \in Nat
            /\ Cardinality(Owing(req', v)) = Cardinality(Owing(req, v)) + (IF v = r.v THEN 1 ELSE 0)
        <5>1. CASE v = r.v
          <6>1. ~Owes(r, v) /\ Owes(d, v)
            BY <4>1, <5>1
          <6> QED BY <1>2, <2>1, <2>3, <5>1, <6>1, OwingMore
        <5>2. CASE v # r.v
          <6>1. ~Owes(r, v) /\ ~Owes(d, v)
            BY <4>1, <5>2
          <6>2. Cardinality(Owing(req', v)) = Cardinality(Owing(req, v))
            BY <1>2, <2>1, <2>3, <6>1, OwingSame
          <6> QED BY <5>2, <6>2, OwingNat
        <5> QED BY <5>1, <5>2
      <4>3. events'[v] = events[v] + (IF v = r.v THEN 1 ELSE 0) /\ Missed(v)' = Missed(v)
        BY <1>6, <2>1, <2>4 DEF ServiceTypes, Missed
      <4>4. events[v] = entries[v] + Missed(v) + Cardinality(Owing(req, v))
        BY <2>1 DEF EventsCounted
      <4> QED BY <2>1, <2>4, <4>2, <4>3, <4>4, MissedNat
    <3> QED BY <3>1 DEF EventsCounted
  <2>8. NoticesCounted'
    <3>1. ASSUME NEW v \in Validator, NEW p \in Person
          PROVE  Told(v, p)'
      <4>1. ~Tells(r, v, p) /\ ~Tells(d, v, p)
        BY <1>2, <2>3 DEF Tells
      <4>2. Cardinality(Telling(req', v, p)) = Cardinality(Telling(req, v, p))
        BY <1>2, <2>1, <2>3, <4>1, TellingSame
      <4> QED BY <2>1, <2>4, <4>2 DEF NoticesCounted, Told
    <3> QED BY <3>1 DEF NoticesCounted, Told
  <2> QED BY <2>5, <2>6, <2>7, <2>8 DEF ServiceInv
<1> QED BY <1>4, <1>5, <1>6

LEMMA SaveRowKeeps ==
    ASSUME ServiceInv, NEW s \in Slot, SaveRow(s)
    PROVE  ServiceInv'
<1>1. req[s].at = "save"
  BY DEF SaveRow
<1>2. PICK r \in Working : r = req[s] /\ r.at = "save" /\ Sound(r)
  BY <1>1, WorkingAt
<1>3. r.v \in Validator /\ r.op \in Op /\ r.arg \in 0..MaxHeight /\ (r.op # "VALIDATOR_ADD" => r.reg \in Reg)
  BY <1>2 DEF Working, Sound
<1>4. PICK d : d = [at |-> "history", v |-> r.v]
  OBVIOUS
<1>5. /\ row' = [row EXCEPT ![r.v] = Written(r.op, r.reg, r.arg)]
      /\ req' = [req EXCEPT ![s] = d]
      /\ UNCHANGED pool /\ UNCHANGED events /\ UNCHANGED <<lost, unsaved, unrecorded, untold>> /\ UNCHANGED entries
      /\ UNCHANGED notices
  BY <1>2, <1>4 DEF SaveRow, chainVars, endVars
<1>6. d \in Recording /\ d.at = "history" /\ d.v = r.v
  BY <1>3, <1>4 DEF Recording
<1>7. ServiceTypes /\ RequestsSound /\ EventsCounted /\ NoticesCounted
  BY DEF ServiceInv
<1>8. Written(r.op, r.reg, r.arg) \in Reg
  <2>1. 0 \in 0..MaxHeight
    BY ValidatorAssumption
  <2> QED BY <1>3, <2>1 DEF Written, Reg, Status
<1>9. ServiceTypes'
  <2>1. row' \in [Validator -> Reg \cup {NoRow}]
    BY <1>5, <1>7, <1>8 DEF ServiceTypes
  <2>2. req' \in [Slot -> Working \cup Recording \cup Announcing \cup {Idle}]
    BY <1>5, <1>6, <1>7 DEF ServiceTypes
  <2> QED BY <1>5, <1>7, <2>1, <2>2 DEF ServiceTypes
<1>10. RequestsSound'
  <2>1. \A t \in Slot : req'[t] = IF t = s THEN d ELSE req[t]
    BY <1>5, <1>7 DEF ServiceTypes
  <2>2. d \notin Working
    BY <1>6, Kinds
  <2> QED BY <1>7, <2>1, <2>2 DEF RequestsSound, Sound
<1>11. EventsCounted'
  <2>1. ASSUME NEW v \in Validator PROVE (events[v] = entries[v] + Missed(v) + Cardinality(Owing(req, v)))'
    <3>1. (Owes(r, v) /\ Owes(d, v)) \/ (~Owes(r, v) /\ ~Owes(d, v))
      BY <1>2, <1>6 DEF Owes
    <3>2. Cardinality(Owing(req', v)) = Cardinality(Owing(req, v))
      BY <1>2, <1>5, <1>7, <3>1, OwingSame
    <3> QED BY <1>5, <1>7, <3>2 DEF EventsCounted, Missed
  <2> QED BY <2>1 DEF EventsCounted
<1>12. NoticesCounted'
  <2>1. ASSUME NEW v \in Validator, NEW p \in Person
        PROVE  Told(v, p)'
    <3>1. ~Tells(r, v, p) /\ ~Tells(d, v, p)
      BY <1>2, <1>6 DEF Tells
    <3>2. Cardinality(Telling(req', v, p)) = Cardinality(Telling(req, v, p))
      BY <1>2, <1>5, <1>7, <3>1, TellingSame
    <3> QED BY <1>5, <1>7, <3>2 DEF NoticesCounted, Told
  <2> QED BY <2>1 DEF NoticesCounted, Told
<1> QED BY <1>9, <1>10, <1>11, <1>12 DEF ServiceInv

LEMMA RecordHistoryKeeps ==
    ASSUME ServiceInv, NEW s \in Slot, RecordHistory(s)
    PROVE  ServiceInv'
<1>1. req[s].at = "history"
  BY DEF RecordHistory
<1>2. ServiceTypes /\ RequestsSound /\ EventsCounted /\ NoticesCounted
  BY DEF ServiceInv
<1>3. PICK r \in Recording : r = req[s] /\ r.at = "history"
  BY <1>1, <1>2, Kinds DEF ServiceTypes
<1>4. r.v \in Validator
  BY DEF Recording
<1>5. PICK d : d = [at |-> "notify", v |-> r.v, left |-> Person]
  OBVIOUS
<1>6. d \in Announcing /\ d.at = "notify" /\ d.v = r.v /\ d.left = Person
  BY <1>4, <1>5 DEF Announcing
<1>7. /\ entries' = [entries EXCEPT ![r.v] = @ + 1] /\ req' = [req EXCEPT ![s] = d]
      /\ UNCHANGED row /\ UNCHANGED pool /\ UNCHANGED events /\ UNCHANGED <<lost, unsaved, unrecorded, untold>> /\ UNCHANGED notices
  BY <1>3, <1>5 DEF RecordHistory, chainVars, endVars
<1>8. \A v \in Validator : /\ entries[v] \in Nat /\ untold[v] \in Nat
                           /\ entries'[v] = entries[v] + (IF v = r.v THEN 1 ELSE 0)
                           /\ Missed(v)' = Missed(v)
  BY <1>2, <1>7 DEF ServiceTypes, Missed
<1>9. ServiceTypes'
  <2>1. req' \in [Slot -> Working \cup Recording \cup Announcing \cup {Idle}]
    BY <1>2, <1>6, <1>7 DEF ServiceTypes
  <2>2. entries' \in [Validator -> Nat]
    BY <1>2, <1>4, <1>7 DEF ServiceTypes
  <2> QED BY <1>2, <1>7, <2>1, <2>2 DEF ServiceTypes
<1>10. RequestsSound'
  <2>1. \A t \in Slot : req'[t] = IF t = s THEN d ELSE req[t]
    BY <1>2, <1>7 DEF ServiceTypes
  <2>2. d \notin Working
    BY <1>6, Kinds
  <2> QED BY <1>2, <2>1, <2>2 DEF RequestsSound, Sound
<1>11. EventsCounted'
  <2>1. ASSUME NEW v \in Validator PROVE (events[v] = entries[v] + Missed(v) + Cardinality(Owing(req, v)))'
    <3>1. ~Owes(d, v) /\ (Owes(r, v) <=> v = r.v)
      BY <1>3, <1>6 DEF Owes
    <3>2. /\ Cardinality(Owing(req', v)) \in Nat
          /\ Cardinality(Owing(req, v)) = Cardinality(Owing(req', v)) + (IF v = r.v THEN 1 ELSE 0)
      <4>1. CASE v = r.v
        <5>1. Owes(r, v) /\ ~Owes(d, v)
          BY <3>1, <4>1
        <5> QED BY <1>2, <1>3, <1>7, <4>1, <5>1, OwingLess
      <4>2. CASE v # r.v
        <5>1. ~Owes(r, v) /\ ~Owes(d, v)
          BY <3>1, <4>2
        <5>2. Cardinality(Owing(req', v)) = Cardinality(Owing(req, v))
          BY <1>2, <1>3, <1>7, <5>1, OwingSame
        <5> QED BY <4>2, <5>2, OwingNat
      <4> QED BY <4>1, <4>2
    <3>3. events[v] = entries[v] + Missed(v) + Cardinality(Owing(req, v))
      BY <1>2 DEF EventsCounted
    <3> QED BY <1>2, <1>7, <1>8, <3>2, <3>3, MissedNat
  <2> QED BY <2>1 DEF EventsCounted
<1>12. NoticesCounted'
  <2>1. ASSUME NEW v \in Validator, NEW p \in Person
        PROVE  Told(v, p)'
    <3>1. ~Tells(r, v, p) /\ (Tells(d, v, p) <=> v = r.v)
      BY <1>3, <1>6 DEF Tells
    <3>2. /\ Cardinality(Telling(req, v, p)) \in Nat
          /\ Cardinality(Telling(req', v, p)) = Cardinality(Telling(req, v, p)) + (IF v = r.v THEN 1 ELSE 0)
      <4>1. CASE v = r.v
        <5>1. ~Tells(r, v, p) /\ Tells(d, v, p)
          BY <3>1, <4>1
        <5> QED BY <1>2, <1>3, <1>7, <4>1, <5>1, TellingMore
      <4>2. CASE v # r.v
        <5>1. ~Tells(r, v, p) /\ ~Tells(d, v, p)
          BY <3>1, <4>2
        <5>2. Cardinality(Telling(req', v, p)) = Cardinality(Telling(req, v, p))
          BY <1>2, <1>3, <1>7, <5>1, TellingSame
        <5> QED BY <4>2, <5>2, TellingNat
      <4> QED BY <4>1, <4>2
    <3>3. Told(v, p) /\ notices[v][p] \in Nat
      BY <1>2 DEF NoticesCounted, Told, ServiceTypes
    <3> QED BY <1>7, <1>8, <3>2, <3>3 DEF Told
  <2> QED BY <2>1 DEF NoticesCounted
<1> QED BY <1>9, <1>10, <1>11, <1>12 DEF ServiceInv

\* The loop goes on or ends: whoever is told has two records more; whoever is
\* not, though the loop had him on its list, is covered by the count of loops
\* that broke off.
LoopMoves(r, d) ==
    \A v \in Validator, p \in Person :
        \/ notices'[v][p] = notices[v][p] /\ (Tells(r, v, p) <=> Tells(d, v, p))
        \/ notices'[v][p] = notices[v][p] + 2 /\ Tells(r, v, p) /\ ~Tells(d, v, p)
        \/ /\ notices'[v][p] \in notices[v][p]..(notices[v][p] + 1)
           /\ Tells(r, v, p) /\ ~Tells(d, v, p) /\ untold'[v] = untold[v] + 1

LEMMA NotifyMove ==
    ASSUME ServiceInv, NEW s \in Slot, NEW r \in Announcing, r = req[s],
           NEW d \in Announcing \cup {Idle}, req' = [req EXCEPT ![s] = d],
           notices' \in [Validator -> [Person -> Nat]], untold' \in [Validator -> Nat],
           UNCHANGED row, UNCHANGED pool, UNCHANGED events, UNCHANGED entries,
           UNCHANGED <<lost, unsaved, unrecorded>>,
           \A v \in Validator : untold'[v] >= untold[v],
           LoopMoves(r, d)
    PROVE  ServiceInv'
<1>1. s \in Slot /\ r = req[s] /\ req' = [req EXCEPT ![s] = d]
  OBVIOUS
<1>2. ServiceTypes /\ RequestsSound /\ EventsCounted /\ NoticesCounted
  BY DEF ServiceInv
<1>3. r.at = "notify"
  BY DEF Announcing
<1>4. ServiceTypes'
  BY <1>2 DEF ServiceTypes
<1>5. d \notin Working /\ d.at \notin {"save", "history"}
  BY Kinds DEF Announcing, Idle
<1>6. RequestsSound'
  <2>1. \A t \in Slot : req'[t] = IF t = s THEN d ELSE req[t]
    BY <1>2 DEF ServiceTypes
  <2> QED BY <1>2, <1>5, <2>1 DEF RequestsSound, Sound
<1>7. EventsCounted'
  <2>1. ASSUME NEW v \in Validator PROVE (events[v] = entries[v] + Missed(v) + Cardinality(Owing(req, v)))'
    <3>1. ~Owes(r, v) /\ ~Owes(d, v)
      BY <1>3, <1>5 DEF Owes
    <3>2. Cardinality(Owing(req', v)) = Cardinality(Owing(req, v))
      BY <1>2, <3>1, OwingSame
    <3> QED BY <1>2, <3>2 DEF EventsCounted, Missed
  <2> QED BY <2>1 DEF EventsCounted
<1>8. NoticesCounted'
  <2>1. ASSUME NEW v \in Validator, NEW p \in Person
        PROVE  Told(v, p)'
    <3>1. /\ Told(v, p) /\ entries'[v] = entries[v]
          /\ notices[v][p] \in Nat /\ entries[v] \in Nat /\ untold[v] \in Nat
          /\ notices'[v][p] \in Nat /\ untold'[v] \in Nat /\ untold'[v] >= untold[v]
      BY <1>2 DEF NoticesCounted, ServiceTypes
    <3>2. CASE notices'[v][p] = notices[v][p] /\ (Tells(r, v, p) <=> Tells(d, v, p))
      <4>1. (Tells(r, v, p) /\ Tells(d, v, p)) \/ (~Tells(r, v, p) /\ ~Tells(d, v, p))
        BY <3>2
      <4>2. Cardinality(Telling(req', v, p)) = Cardinality(Telling(req, v, p))
        BY <1>2, <4>1, TellingSame
      <4> QED BY <3>1, <3>2, <4>2, TellingNat DEF Told
    <3>3. CASE /\ Tells(r, v, p)
               /\ ~Tells(d, v, p)
               /\ \/ notices'[v][p] = notices[v][p] + 2
                  \/ /\ notices'[v][p] \in notices[v][p]..(notices[v][p] + 1)
                     /\ untold'[v] = untold[v] + 1
      <4>1. /\ Cardinality(Telling(req', v, p)) \in Nat
            /\ Cardinality(Telling(req, v, p)) = Cardinality(Telling(req', v, p)) + 1
        <5>1. ServiceTypes
          BY <1>2
        <5>2. r = req[s]
          BY <1>1
        <5>3. req' = [req EXCEPT ![s] = d]
          BY <1>1
        <5>4. Tells(r, v, p)
          BY <3>3
        <5>5. ~Tells(d, v, p)
          BY <3>3
        <5> QED BY ONLY <5>1, <5>2, <5>3, <5>4, <5>5, s \in Slot, v \in Validator, p \in Person,
                        TellingLess
      <4>2. \/ notices'[v][p] = notices[v][p] + 2
            \/ /\ notices'[v][p] = notices[v][p] \/ notices'[v][p] = notices[v][p] + 1
               /\ untold'[v] = untold[v] + 1
        BY ONLY <3>1, <3>3
      <4> QED BY ONLY <3>1, <4>1, <4>2 DEF Told
    <3> QED BY <3>2, <3>3 DEF LoopMoves
  <2> QED BY <2>1 DEF NoticesCounted
<1> QED BY <1>4, <1>6, <1>7, <1>8 DEF ServiceInv

\* A person that was told: two records more, whatever became of the mail.
LEMMA NotifyKeeps ==
    ASSUME ServiceInv, NEW s \in Slot, Notify(s)
    PROVE  ServiceInv'
<1>1. req[s].at = "notify" /\ UNCHANGED row /\ UNCHANGED pool /\ UNCHANGED events
      /\ UNCHANGED <<lost, unsaved, unrecorded>> /\ UNCHANGED untold /\ UNCHANGED entries
  BY DEF Notify, chainVars, endVars
<1>2. ServiceTypes
  BY DEF ServiceInv
<1>3. PICK r \in Announcing : r = req[s] /\ r.at = "notify"
  BY <1>1, <1>2, Kinds DEF ServiceTypes
<1>4. r.v \in Validator /\ r.left \subseteq Person
  BY DEF Announcing
<1>5. untold' \in [Validator -> Nat] /\ \A v \in Validator : untold'[v] >= untold[v]
  BY <1>1, <1>2 DEF ServiceTypes
<1>6. CASE r.left = {} /\ Finish(s) /\ UNCHANGED notices
  <2>1. Idle.at = "idle"
    BY DEF Idle
  <2>2. \A v \in Validator, p \in Person : ~Tells(r, v, p) /\ ~Tells(Idle, v, p)
    BY <1>6, <2>1 DEF Tells
  <2>3. notices' \in [Validator -> [Person -> Nat]]
    BY <1>2, <1>6 DEF ServiceTypes
  <2>4. PICK d : d = Idle
    OBVIOUS
  <2>5. /\ d \in Announcing \cup {Idle} /\ req' = [req EXCEPT ![s] = d]
        /\ \A v \in Validator, p \in Person :
             notices'[v][p] = notices[v][p] /\ (Tells(r, v, p) <=> Tells(d, v, p))
    BY <1>6, <2>2, <2>4 DEF Finish
  <2>6. LoopMoves(r, d)
    BY <2>5 DEF LoopMoves
  <2> QED BY <1>1, <1>3, <1>5, <2>3, <2>5, <2>6, NotifyMove
<1>7. ASSUME NEW p \in r.left, notices' = [notices EXCEPT ![r.v][p] = @ + 2],
             req' = [req EXCEPT ![s].left = @ \ {p}]
      PROVE  ServiceInv'
  <2>1. PICK d : d = [r EXCEPT !.left = r.left \ {p}]
    OBVIOUS
  <2>2. d \in Announcing /\ d.at = "notify" /\ d.v = r.v /\ d.left = r.left \ {p}
    BY <1>3, <2>1 DEF Announcing
  <2>3. req' = [req EXCEPT ![s] = d]
    BY <1>2, <1>3, <1>7, <2>1 DEF ServiceTypes
  <2>4. notices \in [Validator -> [Person -> Nat]] /\ p \in Person
    BY <1>2, <1>4 DEF ServiceTypes
  <2>5. PICK of : of = notices[r.v]
    OBVIOUS
  <2>6. of \in [Person -> Nat] /\ notices' = [notices EXCEPT ![r.v] = [of EXCEPT ![p] = of[p] + 2]]
    BY <1>4, <1>7, <2>4, <2>5
  <2>7. notices' \in [Validator -> [Person -> Nat]]
    BY <1>4, <2>4, <2>6
  <2>8. \A v \in Validator, q \in Person :
           notices'[v][q] = IF v = r.v /\ q = p THEN notices[v][q] + 2 ELSE notices[v][q]
    BY <1>4, <2>4, <2>5, <2>6
  <2>9. \A v \in Validator, q \in Person :
          /\ v = r.v /\ q = p => Tells(r, v, q) /\ ~Tells(d, v, q)
          /\ ~(v = r.v /\ q = p) => (Tells(r, v, q) <=> Tells(d, v, q))
    BY <1>3, <1>7, <2>2 DEF Tells
  <2>10. \A v \in Validator, q \in Person :
            \/ notices'[v][q] = notices[v][q] /\ (Tells(r, v, q) <=> Tells(d, v, q))
            \/ notices'[v][q] = notices[v][q] + 2 /\ Tells(r, v, q) /\ ~Tells(d, v, q)
    BY <2>8, <2>9
  <2>11. d \in Announcing \cup {Idle}
    BY <2>2
  <2>12. LoopMoves(r, d)
    BY <2>10 DEF LoopMoves
  <2> QED BY <1>1, <1>3, <1>5, <2>3, <2>7, <2>11, <2>12, NotifyMove
<1> QED BY <1>3, <1>6, <1>7 DEF Notify

\* A transaction whose request no longer waits: an event that is lost.
LEMMA MineLateKeeps ==
    ASSUME ServiceInv, NEW t \in pool, MineLate(t)
    PROVE  ServiceInv'
<1>1. ServiceTypes /\ RequestsSound /\ EventsCounted /\ NoticesCounted
  BY DEF ServiceInv
<1>2. t.v \in Validator /\ pool' \subseteq pool
  BY <1>1 DEF ServiceTypes, MineLate
<1>3. /\ UNCHANGED row /\ UNCHANGED req /\ UNCHANGED entries /\ UNCHANGED notices
      /\ UNCHANGED <<unsaved, unrecorded, untold>>
  BY DEF MineLate, endVars
<1>4. \/ events' = [events EXCEPT ![t.v] = @ + 1] /\ lost' = [lost EXCEPT ![t.v] = @ + 1]
      \/ UNCHANGED events /\ UNCHANGED lost
  BY DEF MineLate, chainVars
<1>5. ServiceTypes'
  <2>1. events' \in [Validator -> Nat] /\ lost' \in [Validator -> Nat]
    <3>1. events \in [Validator -> Nat] /\ lost \in [Validator -> Nat]
      BY <1>1 DEF ServiceTypes
    <3>2. events[t.v] + 1 \in Nat /\ lost[t.v] + 1 \in Nat
      BY <1>2, <3>1
    <3> QED BY <1>2, <1>4, <3>1, <3>2
  <2>2. pool' \subseteq [op : Op, v : Validator, arg : 0..MaxHeight]
    BY <1>1, <1>2 DEF ServiceTypes
  <2> QED BY <1>1, <1>3, <2>1, <2>2 DEF ServiceTypes
<1>6. RequestsSound'
  BY <1>1, <1>3 DEF RequestsSound, Sound
<1>7. \A v \in Validator, p \in Person : Owing(req', v) = Owing(req, v) /\ Telling(req', v, p) = Telling(req, v, p)
  BY <1>3 DEF Owing, Owes, Telling, Tells
<1>8. \A v \in Validator : Owing(req', v) = Owing(req, v)
  BY <1>3 DEF Owing, Owes
<1>9. EventsCounted'
  <2>1. ASSUME NEW v \in Validator PROVE (events[v] = entries[v] + Missed(v) + Cardinality(Owing(req, v)))'
    <3>1. events[v] = entries[v] + Missed(v) + Cardinality(Owing(req, v))
      BY <1>1 DEF EventsCounted
    <3>3. Cardinality(Owing(req, v)) \in Nat
      BY OwingNat
    <3>4. \/ events'[v] = events[v] /\ lost'[v] = lost[v]
          \/ events'[v] = events[v] + 1 /\ lost'[v] = lost[v] + 1
      BY <1>1, <1>2, <1>4 DEF ServiceTypes
    <3>5. lost[v] \in Nat /\ unsaved[v] \in Nat /\ unrecorded[v] \in Nat
      BY <1>1 DEF ServiceTypes
    <3>6. \/ events'[v] = events[v] /\ Missed(v)' = Missed(v)
          \/ events'[v] = events[v] + 1 /\ Missed(v)' = Missed(v) + 1
      BY <1>3, <3>4, <3>5 DEF Missed
    <3> QED BY <1>1, <1>3, <1>8, <3>1, <3>3, <3>6, MissedNat
  <2> QED BY <2>1 DEF EventsCounted
<1>10. NoticesCounted'
  BY <1>1, <1>3, <1>7 DEF NoticesCounted, Told
<1> QED BY <1>5, <1>6, <1>9, <1>10 DEF ServiceInv

LEMMA BreakEarlyKeeps ==
    ASSUME ServiceInv, NEW s \in Slot, BreakEarly(s)
    PROVE  ServiceInv'
<1>1. /\ req[s].at \in {"row", "effective", "head", "submit", "failed"} /\ Finish(s)
      /\ UNCHANGED <<row, pool, events, lost, unsaved, unrecorded, untold, entries, notices>>
  BY DEF BreakEarly, chainVars, endVars
<1>2. PICK r \in Working : r = req[s] /\ r.at # "save"
  BY <1>1, WorkingAt
<1> QED BY <1>1, <1>2, FinishKeeps

LEMMA BreakWaitingKeeps ==
    ASSUME ServiceInv, NEW s \in Slot, BreakWaiting(s)
    PROVE  ServiceInv'
<1>1. /\ req[s].at = "wait" /\ req' = [req EXCEPT ![s] = Idle]
      /\ UNCHANGED <<row, events, lost, unsaved, unrecorded, untold, entries, notices>>
      /\ pool' = pool \cup {[op |-> req[s].op, v |-> req[s].v, arg |-> req[s].arg]}
  BY DEF BreakWaiting, Finish, chainVars, endVars
<1>2. PICK r \in Working : r = req[s] /\ r.at = "wait"
  BY <1>1, WorkingAt
<1>3. [op |-> r.op, v |-> r.v, arg |-> r.arg] \in [op : Op, v : Validator, arg : 0..MaxHeight]
  BY DEF Working
<1>4. pool' \subseteq [op : Op, v : Validator, arg : 0..MaxHeight]
  BY <1>1, <1>2, <1>3 DEF ServiceInv, ServiceTypes
<1>5. Idle.at # "save" /\ Idle \notin Working /\ r.at # "save"
  BY <1>2, Kinds DEF Idle
<1> QED BY <1>1, <1>2, <1>4, <1>5, QuietMove

\* A request that ends while it owes the history a record: one more is missed.
LEMMA OwedIsMissed ==
    ASSUME ServiceInv, NEW s \in Slot, NEW r \in Working \cup Recording, r = req[s],
           r.at \in {"save", "history"}, Finish(s),
           UNCHANGED <<row, pool, events, lost, untold, entries, notices>>,
           \/ unsaved' = [unsaved EXCEPT ![r.v] = @ + 1] /\ UNCHANGED unrecorded
           \/ unrecorded' = [unrecorded EXCEPT ![r.v] = @ + 1] /\ UNCHANGED unsaved
    PROVE  ServiceInv'
<1>1. ServiceTypes /\ RequestsSound /\ EventsCounted /\ NoticesCounted
  BY DEF ServiceInv
<1>2. PICK d : d = Idle
  OBVIOUS
<1>3. /\ d.at = "idle" /\ d \notin Working /\ req' = [req EXCEPT ![s] = d] /\ r.v \in Validator
      /\ r = req[s] /\ s \in Slot
  BY <1>2, Kinds DEF Finish, Idle, Working, Recording
<1>4. \A v \in Validator :
        /\ unsaved'[v] \in Nat /\ unrecorded'[v] \in Nat /\ lost[v] \in Nat
        /\ unsaved'[v] + unrecorded'[v] = unsaved[v] + unrecorded[v] + (IF v = r.v THEN 1 ELSE 0)
  <2>1. unsaved \in [Validator -> Nat] /\ unrecorded \in [Validator -> Nat] /\ lost \in [Validator -> Nat]
    BY <1>1 DEF ServiceTypes
  <2>2. CASE unsaved' = [unsaved EXCEPT ![r.v] = @ + 1] /\ UNCHANGED unrecorded
    BY <1>3, <2>1, <2>2
  <2>3. CASE unrecorded' = [unrecorded EXCEPT ![r.v] = @ + 1] /\ UNCHANGED unsaved
    BY <1>3, <2>1, <2>3
  <2> QED BY <2>2, <2>3
<1>5. ServiceTypes'
  <2>1. unsaved' \in [Validator -> Nat] /\ unrecorded' \in [Validator -> Nat]
    BY <1>1, <1>3 DEF ServiceTypes
  <2>2. req' \in [Slot -> Working \cup Recording \cup Announcing \cup {Idle}]
    BY <1>1, <1>2, <1>3 DEF ServiceTypes
  <2> QED BY <1>1, <2>1, <2>2 DEF ServiceTypes
<1>6. RequestsSound'
  <2>1. \A t \in Slot : req'[t] = IF t = s THEN d ELSE req[t]
    BY <1>1, <1>3 DEF ServiceTypes
  <2> QED BY <1>1, <1>3, <2>1 DEF RequestsSound, Sound
<1>7. EventsCounted'
  <2>1. ASSUME NEW v \in Validator PROVE (events[v] = entries[v] + Missed(v) + Cardinality(Owing(req, v)))'
    <3>1. events[v] = entries[v] + Missed(v) + Cardinality(Owing(req, v)) /\ Missed(v) \in Nat
          /\ events'[v] = events[v] /\ entries'[v] = entries[v] /\ entries[v] \in Nat
      BY <1>1, MissedNat DEF EventsCounted
    <3>2. Missed(v)' = Missed(v) + (IF v = r.v THEN 1 ELSE 0)
      <4>1. unsaved[v] \in Nat /\ unrecorded[v] \in Nat /\ lost[v] \in Nat /\ lost'[v] = lost[v]
        BY <1>1 DEF ServiceTypes
      <4> QED BY <1>4, <4>1 DEF Missed
    <3>3. CASE v = r.v
      <4>1. Owes(r, v) /\ ~Owes(d, v)
        BY <1>3, <3>3 DEF Owes
      <4>2. /\ Cardinality(Owing(req', v)) \in Nat
            /\ Cardinality(Owing(req, v)) = Cardinality(Owing(req', v)) + 1
        BY ONLY <1>1, <1>3, <4>1, v \in Validator, OwingLess
      <4> QED BY <3>1, <3>2, <3>3, <4>2
    <3>4. CASE v # r.v
      <4>1. ~Owes(r, v) /\ ~Owes(d, v)
        BY <1>3, <3>4 DEF Owes
      <4>2. Cardinality(Owing(req', v)) = Cardinality(Owing(req, v))
        BY ONLY <1>1, <1>3, <4>1, v \in Validator, OwingSame
      <4> QED BY <3>1, <3>2, <3>4, <4>2
    <3> QED BY <3>3, <3>4
  <2> QED BY <2>1 DEF EventsCounted
<1>8. NoticesCounted'
  <2>1. ASSUME NEW v \in Validator, NEW p \in Person PROVE Told(v, p)'
    <3>1. ~Tells(r, v, p) /\ ~Tells(d, v, p)
      BY <1>3 DEF Tells
    <3>2. Cardinality(Telling(req', v, p)) = Cardinality(Telling(req, v, p))
      BY ONLY <1>1, <1>3, <3>1, v \in Validator, p \in Person, TellingSame
    <3> QED BY <1>1, <3>2 DEF NoticesCounted, Told
  <2> QED BY <2>1 DEF NoticesCounted
<1> QED BY <1>5, <1>6, <1>7, <1>8 DEF ServiceInv

LEMMA BreakSavingKeeps ==
    ASSUME ServiceInv, NEW s \in Slot, BreakSaving(s)
    PROVE  ServiceInv'
<1>1. req[s].at = "save"
  BY DEF BreakSaving
<1>2. PICK r \in Working : r = req[s] /\ r.at = "save"
  BY <1>1, WorkingAt
<1>3. /\ Finish(s) /\ unsaved' = [unsaved EXCEPT ![r.v] = @ + 1] /\ UNCHANGED unrecorded
      /\ UNCHANGED <<row, pool, events, lost, untold, entries, notices>>
  BY <1>2 DEF BreakSaving, chainVars
<1> QED BY <1>2, <1>3, OwedIsMissed

LEMMA BreakRecordingKeeps ==
    ASSUME ServiceInv, NEW s \in Slot, BreakRecording(s)
    PROVE  ServiceInv'
<1>1. req[s].at = "history"
  BY DEF BreakRecording
<1>2. PICK r \in Recording : r = req[s] /\ r.at = "history"
  BY <1>1, Kinds DEF ServiceInv, ServiceTypes
<1>3. /\ Finish(s) /\ unrecorded' = [unrecorded EXCEPT ![r.v] = @ + 1] /\ UNCHANGED unsaved
      /\ UNCHANGED <<row, pool, events, lost, untold, entries, notices>>
  BY <1>2 DEF BreakRecording, chainVars
<1> QED BY <1>2, <1>3, OwedIsMissed

\* The loop breaks off: nobody left on its list has more than one record.
LEMMA BreakNotifyingKeeps ==
    ASSUME ServiceInv, NEW s \in Slot, BreakNotifying(s)
    PROVE  ServiceInv'
<1>1. req[s].at = "notify" /\ UNCHANGED row /\ UNCHANGED pool /\ UNCHANGED events
      /\ UNCHANGED <<lost, unsaved, unrecorded>> /\ UNCHANGED entries
  BY DEF BreakNotifying, chainVars
<1>2. ServiceTypes
  BY DEF ServiceInv
<1>3. PICK r \in Announcing : r = req[s] /\ r.at = "notify"
  BY <1>1, <1>2, Kinds DEF ServiceTypes
<1>4. r.v \in Validator /\ r.left \subseteq Person
  BY DEF Announcing
<1>5. /\ untold' = [untold EXCEPT ![r.v] = @ + 1] /\ req' = [req EXCEPT ![s] = Idle]
      /\ UNCHANGED notices \/ \E p \in r.left : notices' = [notices EXCEPT ![r.v][p] = @ + 1]
  BY <1>3 DEF BreakNotifying, Finish
<1>6. /\ untold' \in [Validator -> Nat] /\ \A v \in Validator : untold'[v] >= untold[v]
      /\ untold'[r.v] = untold[r.v] + 1
  BY <1>2, <1>4, <1>5 DEF ServiceTypes
<1>7. PICK d : d = Idle
  OBVIOUS
<1>8. d.at = "idle" /\ d \in Announcing \cup {Idle} /\ req' = [req EXCEPT ![s] = d]
  BY <1>5, <1>7 DEF Idle
<1>9. \A v \in Validator, p \in Person : ~Tells(d, v, p) /\ (Tells(r, v, p) <=> v = r.v /\ p \in r.left)
  BY <1>3, <1>8 DEF Tells
<1>10. notices \in [Validator -> [Person -> Nat]]
  BY <1>2 DEF ServiceTypes
<1>11. notices' \in [Validator -> [Person -> Nat]] /\ \A v \in Validator, p \in Person :
          /\ v = r.v /\ p \in r.left => notices'[v][p] \in notices[v][p]..(notices[v][p] + 1)
          /\ ~(v = r.v /\ p \in r.left) => notices'[v][p] = notices[v][p]
  <2>1. CASE UNCHANGED notices
    BY <1>10, <2>1
  <2>2. ASSUME NEW p \in r.left, notices' = [notices EXCEPT ![r.v][p] = @ + 1]
        PROVE  /\ notices' \in [Validator -> [Person -> Nat]]
               /\ \A v \in Validator, q \in Person :
                    notices'[v][q] = IF v = r.v /\ q = p THEN notices[v][q] + 1 ELSE notices[v][q]
    <3>1. PICK of : of = notices[r.v]
      OBVIOUS
    <3>2. /\ of \in [Person -> Nat] /\ p \in Person
          /\ notices' = [notices EXCEPT ![r.v] = [of EXCEPT ![p] = of[p] + 1]]
      BY <1>4, <1>10, <2>2, <3>1
    <3> QED BY <1>4, <1>10, <3>1, <3>2
  <2>3. ASSUME NEW p \in r.left, notices' = [notices EXCEPT ![r.v][p] = @ + 1]
        PROVE  /\ notices' \in [Validator -> [Person -> Nat]]
               /\ \A v \in Validator, q \in Person :
                    /\ v = r.v /\ q \in r.left => notices'[v][q] \in notices[v][q]..(notices[v][q] + 1)
                    /\ ~(v = r.v /\ q \in r.left) => notices'[v][q] = notices[v][q]
    <3>1. \A v \in Validator, q \in Person : notices[v][q] \in Nat
      BY <1>10
    <3>2. \A v \in Validator, q \in Person :
             notices'[v][q] = IF v = r.v /\ q = p THEN notices[v][q] + 1 ELSE notices[v][q]
      BY <2>2, <2>3
    <3>3. notices' \in [Validator -> [Person -> Nat]]
      BY <2>2, <2>3
    <3>4. ASSUME NEW v \in Validator, NEW q \in Person
          PROVE  /\ notices'[v][q] \in notices[v][q]..(notices[v][q] + 1)
                 /\ ~(v = r.v /\ q \in r.left) => notices'[v][q] = notices[v][q]
      BY <2>3, <3>1, <3>2
    <3> QED BY <3>3, <3>4
  <2> QED BY <1>5, <2>1, <2>3
<1>12. \A v \in Validator, p \in Person :
          \/ notices'[v][p] = notices[v][p] /\ (Tells(r, v, p) <=> Tells(d, v, p))
          \/ /\ notices'[v][p] \in notices[v][p]..(notices[v][p] + 1)
             /\ Tells(r, v, p) /\ ~Tells(d, v, p) /\ untold'[v] = untold[v] + 1
  BY <1>6, <1>9, <1>11
<1>13. LoopMoves(r, d)
  BY <1>12 DEF LoopMoves
<1>14. notices' \in [Validator -> [Person -> Nat]]
  BY <1>11
<1> QED BY <1>1, <1>3, <1>6, <1>8, <1>13, <1>14, NotifyMove

LEMMA ServiceInvStep ==
    ServiceInv /\ [ServiceNext]_<<allValidatorVars, serviceVars>> => ServiceInv'
<1> SUFFICES ASSUME ServiceInv, [ServiceNext]_<<allValidatorVars, serviceVars>> PROVE ServiceInv'
  OBVIOUS
<1>1. CASE UNCHANGED serviceVars
  <2>1. /\ UNCHANGED row /\ UNCHANGED req /\ UNCHANGED pool /\ UNCHANGED events
        /\ UNCHANGED <<lost, unsaved, unrecorded, untold>> /\ UNCHANGED entries /\ UNCHANGED notices
    BY <1>1 DEF serviceVars, endVars
  <2>2. ServiceTypes'
    BY <2>1 DEF ServiceInv, ServiceTypes
  <2>3. RequestsSound'
    BY <2>1 DEF ServiceInv, RequestsSound, Sound
  <2>4. EventsCounted'
    BY <2>1 DEF ServiceInv, EventsCounted, Missed, Owing, Owes
  <2>5. NoticesCounted'
    BY <2>1 DEF ServiceInv, NoticesCounted, Told, Telling, Tells
  <2> QED BY <2>2, <2>3, <2>4, <2>5 DEF ServiceInv
<1>2. ASSUME NEW s \in Slot, Step(s) PROVE ServiceInv'
  BY <1>2, ReadRowKeeps, ReadEffectiveKeeps, ReadHeadKeeps, SubmitKeeps, MineKeeps, TimeOutKeeps,
     RecordFailureKeeps, SaveRowKeeps, RecordHistoryKeeps, NotifyKeeps DEF Step
<1>3. ASSUME NEW s \in Slot, Break(s) PROVE ServiceInv'
  BY <1>3, BreakEarlyKeeps, BreakWaitingKeeps, BreakSavingKeeps, BreakRecordingKeeps,
     BreakNotifyingKeeps DEF Break
<1> QED BY <1>1, <1>2, <1>3, ArriveKeeps, MineLateKeeps DEF ServiceNext, Block

\* The inductive invariant of the service.
THEOREM ServiceInvariant == ServiceSpec => []ServiceInv
BY ServiceInvInit, ServiceInvStep, PTL DEF ServiceSpec

\* However requests overlap, time out, fail and break off, at any await, the
\* history has one record for every accepted transaction but the missed ones,
\* and once the requests are over everybody has two notices for each of these,
\* save those of the loops that broke off.
THEOREM HistoryCorrect == ServiceSpec => []HistoryAndNotices
<1>1. ASSUME ServiceInv PROVE HistoryAndNotices
  <2>1. ASSUME NEW v \in Validator
        PROVE  /\ entries[v] + Missed(v) <= events[v]
               /\ AtRest(v) => /\ entries[v] + Missed(v) = events[v]
                               /\ \A p \in Person : /\ 2 * (entries[v] - untold[v]) <= notices[v][p]
                                                     /\ notices[v][p] <= 2 * entries[v]
    <3>1. /\ events[v] = entries[v] + Missed(v) + Cardinality(Owing(req, v))
          /\ events[v] \in Nat /\ entries[v] \in Nat /\ Missed(v) \in Nat
      BY <1>1, MissedNat DEF ServiceInv, EventsCounted
    <3>3. Cardinality(Owing(req, v)) \in Nat
      BY OwingNat
    <3>4. ASSUME AtRest(v)
          PROVE  Owing(req, v) = {} /\ \A p \in Person : Telling(req, v, p) = {}
      <4>1. Idle.at = "idle"
        BY DEF Idle
      <4> QED BY <3>4, <4>1 DEF AtRest, Owing, Owes, Telling, Tells
    <3>5. Cardinality({}) = 0
      BY FS_EmptySet
    <3>6. ASSUME AtRest(v), NEW p \in Person
          PROVE  2 * (entries[v] - untold[v]) <= notices[v][p] /\ notices[v][p] <= 2 * entries[v]
      <4>1. Told(v, p) /\ notices[v][p] \in Nat
        BY <1>1 DEF ServiceInv, ServiceTypes, NoticesCounted
      <4>2. Cardinality(Telling(req, v, p)) = 0
        BY <3>4, <3>5, <3>6
      <4> QED BY <4>1, <4>2 DEF Told
    <3>7. ASSUME AtRest(v) PROVE Cardinality(Owing(req, v)) = 0
      BY <3>4, <3>5, <3>7
    <3>8. entries[v] + Missed(v) <= events[v]
      BY <3>1, <3>3
    <3>9. ASSUME AtRest(v) PROVE entries[v] + Missed(v) = events[v]
      BY <3>1, <3>7, <3>9
    <3> QED BY <3>6, <3>8, <3>9
  <2> QED BY <2>1 DEF HistoryAndNotices
<1> QED BY <1>1, ServiceInvariant, PTL

-----------------------------------------------------------------------------
(* The service's transactions are transactions of the registry, so all that  *)
(* is proved of the registry holds of the registry the service runs on.      *)

LEMMA TransactIsTransaction ==
    ASSUME NEW op \in Op, NEW v \in Validator, NEW arg \in 0..MaxHeight, Transact(op, v, arg)
    PROVE  ValidatorNext
<1>1. ValidatorTransaction(BootstrapWallet, v)
  BY DEF Transact, ValidatorTransaction, Op
<1> QED BY <1>1, BootstrapAssumption DEF ValidatorNext

LEMMA ServiceStepsRegistry ==
    ASSUME ServiceInv, [ServiceNext]_<<allValidatorVars, serviceVars>>
    PROVE  [ValidatorNext]_allValidatorVars
<1>1. ASSUME NEW s \in Slot, Mine(s) PROVE [ValidatorNext]_allValidatorVars
  <2>1. req[s].at = "wait"
    BY <1>1 DEF Mine
  <2>2. PICK r \in Working : r = req[s]
    BY <2>1, WorkingAt
  <2>3. r.op \in Op /\ r.v \in Validator /\ r.arg \in 0..MaxHeight
    BY DEF Working
  <2>4. Transact(r.op, r.v, r.arg) \/ UNCHANGED allValidatorVars
    BY <1>1, <2>2 DEF Mine, chainVars, endVars
  <2> QED BY <2>3, <2>4, TransactIsTransaction
<1>2. ASSUME NEW t \in pool, MineLate(t) PROVE [ValidatorNext]_allValidatorVars
  <2>1. t.op \in Op /\ t.v \in Validator /\ t.arg \in 0..MaxHeight
    BY DEF ServiceInv, ServiceTypes
  <2>2. Transact(t.op, t.v, t.arg) \/ UNCHANGED allValidatorVars
    BY <1>2 DEF MineLate, chainVars, endVars
  <2> QED BY <2>1, <2>2, TransactIsTransaction
<1>3. ASSUME NEW s \in Slot, Step(s) PROVE [ValidatorNext]_allValidatorVars
  BY <1>1, <1>3 DEF Step, ReadRow, ReadEffective, ReadHead, Submit, TimeOut, RecordFailure,
     SaveRow, RecordHistory, Notify, chainVars, endVars
<1>7. ASSUME NEW s \in Slot, Break(s) PROVE UNCHANGED allValidatorVars
  BY <1>7 DEF Break, BreakEarly, BreakWaiting, BreakSaving, BreakRecording, BreakNotifying, chainVars
<1>4. ASSUME NEW s \in Slot, NEW op \in Op, NEW v \in Validator, NEW arg \in 0..MaxHeight,
             Arrive(s, op, v, arg)
      PROVE  UNCHANGED allValidatorVars
  BY <1>4 DEF Arrive, chainVars, endVars
<1>5. ASSUME Block PROVE ValidatorNext
  BY <1>5 DEF Block, ValidatorNext
<1>6. CASE UNCHANGED <<allValidatorVars, serviceVars>>
  BY <1>6
<1> QED BY <1>2, <1>3, <1>4, <1>5, <1>6, <1>7 DEF ServiceNext

\* Whatever the service submits, and whenever it is mined, its steps are steps
\* of the registry's specification.
THEOREM ServiceImplementsRegistry == ServiceSpec => ValidatorSpec
<1>1. ServiceInit => ValidatorInit
  BY DEF ServiceInit
<1>2. ServiceInv /\ [ServiceNext]_<<allValidatorVars, serviceVars>> => [ValidatorNext]_allValidatorVars
  BY ServiceStepsRegistry
<1> QED BY <1>1, <1>2, ServiceInvariant, PTL DEF ServiceSpec, ValidatorSpec

-----------------------------------------------------------------------------
(* The rows.                                                                 *)

\* A step that leaves the rows, the records and their order alone, of a request
\* that is not about to save a row, before or after it.
RowsStill ==
    /\ UNCHANGED row /\ UNCHANGED records /\ UNCHANGED lost /\ UNCHANGED unsaved
    /\ UNCHANGED newest /\ UNCHANGED behind /\ UNCHANGED overtaken

LEMMA RowMove ==
    ASSUME RowInv, NEW s \in Slot, NEW r, r = req[s], r.at # "save",
           NEW d, d.at # "save", req' = [req EXCEPT ![s] = d], d \in Working => Current(d),
           RowsStill
    PROVE  RowFacts'
<1>1. /\ RowsTypeOK /\ OrderTypes /\ RequestsCurrent /\ RowsKnown
      /\ NewestMatch /\ RowsMatch /\ BehindBecause
  BY DEF RowInv, RowFacts
<1>2. \A t \in Slot : req'[t] = IF t = s THEN d ELSE req[t]
  BY DEF RowInv, ServiceInv, ServiceTypes
<1>3. s \notin newest /\ newest \subseteq Slot
  BY <1>1 DEF NewestMatch, OrderTypes
<1>4. \A t \in newest : req'[t] = req[t]
  BY <1>2, <1>3
<1>5. RowsTypeOK'
  BY <1>1 DEF RowsTypeOK, RowsStill
<1>6. OrderTypes'
  BY <1>1 DEF OrderTypes, RowsStill
<1>7. RequestsCurrent'
  <2>1. ASSUME NEW t \in Slot, NEW q \in Working, req'[t] = q PROVE Current(q)
    BY <1>1, <1>2, <2>1 DEF RequestsCurrent
  <2>2. \A q : Current(q)' <=> Current(q)
    BY DEF Current, RowsStill
  <2> QED BY <2>1, <2>2 DEF RequestsCurrent
<1>8. RowsKnown'
  BY <1>1 DEF RowsKnown, RowsStill
<1>9. NewestMatch'
  <2>1. ASSUME NEW t \in newest
        PROVE  /\ req'[t].at = "save"
               /\ Matches(Written(req'[t].op, req'[t].reg, req'[t].arg), records[req'[t].v])
    BY <1>1, <1>4 DEF NewestMatch
  <2> QED BY <2>1 DEF NewestMatch, RowsStill
<1>10. RowsMatch'
  BY <1>1 DEF RowsMatch, RowsStill
<1>11. BehindBecause'
  BY <1>1, <1>4 DEF BehindBecause, RowsStill
<1> QED BY <1>5, <1>6, <1>7, <1>8, <1>9, <1>10, <1>11 DEF RowFacts

LEMMA RowUnmoved ==
    ASSUME RowInv, UNCHANGED req, RowsStill PROVE RowFacts'
<1>1. /\ RowsTypeOK /\ OrderTypes /\ RequestsCurrent /\ RowsKnown
      /\ NewestMatch /\ RowsMatch /\ BehindBecause
  BY DEF RowInv, RowFacts
<1>2. RowsTypeOK' /\ OrderTypes' /\ RowsKnown' /\ RowsMatch'
  BY <1>1 DEF RowsTypeOK, OrderTypes, RowsKnown, RowsMatch, RowsStill
<1>3. RequestsCurrent'
  BY <1>1 DEF RequestsCurrent, Current, RowsStill
<1>4. NewestMatch'
  BY <1>1 DEF NewestMatch, RowsStill
<1>5. BehindBecause'
  BY <1>1 DEF BehindBecause, RowsStill
<1> QED BY <1>2, <1>3, <1>4, <1>5 DEF RowFacts

\* A request that goes on with the row it read.
LEMMA CurrentGoesOn ==
    ASSUME NEW r \in Working, NEW d \in Working, Current(r),
           r.at \in {"effective", "head", "submit", "wait"}, d.at # "save",
           d.op = r.op, d.v = r.v, d.arg = r.arg,
           d.op # "VALIDATOR_ADD" => d.reg.act = r.reg.act /\ d.reg.rem = r.reg.rem
    PROVE  Current(d)
BY DEF Current

\* What a transaction does to the record of its validator.
LEMMA TransactEffect ==
    ASSUME ValidatorTypeOK, NEW op \in Op, NEW v \in Validator, NEW arg \in 0..MaxHeight,
           Transact(op, v, arg)
    PROVE  /\ op # "VALIDATOR_ADD" <=> records[v].registered
           /\ \A w \in Validator : w # v => records'[w] = records[w]
           /\ records'[v].registered
           /\ records'[v].activationHeight =
                 IF op = "VALIDATOR_ADD" THEN arg ELSE records[v].activationHeight
           /\ records'[v].removalHeight = IF op = "VALIDATOR_REMOVE" THEN arg ELSE 0
<1> USE DEF ValidatorTypeOK
<1>1. CASE op = "VALIDATOR_ADD"
  <2>1. AddValidator(BootstrapWallet, v, arg)
    BY <1>1 DEF Transact
  <2> QED BY <1>1, <2>1 DEF AddValidator
<1>2. CASE op = "VALIDATOR_REMOVE"
  <2>1. RemoveValidator(BootstrapWallet, v, arg)
    BY <1>2 DEF Transact
  <2> QED BY <1>2, <2>1 DEF RemoveValidator
<1>3. CASE op = "VALIDATOR_RESTORE"
  <2>1. RestoreValidator(BootstrapWallet, v)
    BY <1>3 DEF Transact
  <2> QED BY <1>3, <2>1 DEF RestoreValidator
<1>4. CASE op = "VALIDATOR_REMOVE_CANCEL"
  <2>1. CancelScheduledRemoval(BootstrapWallet, v)
    BY <1>4 DEF Transact
  <2> QED BY <1>4, <2>1 DEF CancelScheduledRemoval
<1> QED BY <1>1, <1>2, <1>3, <1>4 DEF Op

\* No transaction takes a registration back or changes its activation height.
RecordsGrow ==
    \A w \in Validator : records[w].registered =>
        records'[w].registered /\ records'[w].activationHeight = records[w].activationHeight

LEMMA TransactGrows ==
    ASSUME ValidatorTypeOK, NEW op \in Op, NEW v \in Validator, NEW arg \in 0..MaxHeight,
           Transact(op, v, arg)
    PROVE  RecordsGrow
<1>1. ASSUME NEW w \in Validator, records[w].registered
      PROVE  records'[w].registered /\ records'[w].activationHeight = records[w].activationHeight
  <2>1. CASE w # v
    BY <1>1, <2>1, TransactEffect
  <2>2. CASE w = v
    <3>1. op # "VALIDATOR_ADD"
      BY <1>1, <2>2, TransactEffect
    <3> QED BY <2>2, <3>1, TransactEffect
  <2> QED BY <2>1, <2>2
<1> QED BY <1>1 DEF RecordsGrow

LEMMA CurrentGrows ==
    ASSUME NEW q \in Working, Current(q), RecordsGrow PROVE Current(q)'
<1>1. q.v \in Validator
  BY DEF Working
<1> QED BY <1>1 DEF Current, RecordsGrow

\* What is written is what the transaction made of the record.
LEMMA WrittenMatches ==
    ASSUME ValidatorTypeOK, NEW op \in Op, NEW v \in Validator, NEW arg \in 0..MaxHeight,
           Transact(op, v, arg), NEW g,
           op # "VALIDATOR_ADD" => g \in Reg /\ g.act = records[v].activationHeight
    PROVE  Matches(Written(op, g, arg), records'[v])
<1>1. PICK n : n = Written(op, g, arg)
  OBVIOUS
<1>2. /\ n.act = IF op = "VALIDATOR_ADD" THEN arg ELSE g.act
      /\ n.rem = IF op = "VALIDATOR_REMOVE" THEN arg ELSE 0
      /\ n \in Reg
  <2>1. 0 \in 0..MaxHeight
    BY ValidatorAssumption
  <2> QED BY <1>1, <2>1 DEF Written, Reg, Status
<1>3. n # NoRow
  BY <1>2 DEF Reg, NoRow, Status
<1> QED BY <1>1, <1>2, <1>3, TransactEffect DEF Matches

\* The request at hand, and what is known of it.
LEMMA CurrentAt ==
    ASSUME RowInv, NEW s \in Slot,
           req[s].at \in {"row", "effective", "head", "submit", "wait", "failed", "save"}
    PROVE  req[s] \in Working /\ Sound(req[s]) /\ Current(req[s])
<1>1. req[s] \in Working /\ Sound(req[s])
  BY WorkingAt DEF RowInv
<1> QED BY <1>1 DEF RowInv, RowFacts, RequestsCurrent

LEMMA RowGoto ==
    ASSUME RowInv, NEW s \in Slot, NEW r \in Working, r = req[s], Current(r),
           r.at \in {"effective", "head", "submit", "wait"},
           NEW where \in {"head", "submit", "wait", "failed"}, Goto(s, where),
           RowsStill
    PROVE  RowFacts'
<1>1. where \in {"head", "submit", "wait", "failed", "save"} /\ ServiceInv
  BY DEF RowInv
<1>2. PICK d \in Working :
        /\ req' = [req EXCEPT ![s] = d] /\ d.at = where
        /\ d.op = r.op /\ d.v = r.v /\ d.arg = r.arg /\ d.reg = r.reg
  BY <1>1, GotoRequest
<1>3. d.at # "save" /\ r.at # "save"
  BY <1>2
<1>4. Current(d)
  BY <1>2, <1>3, CurrentGoesOn
<1> QED BY <1>2, <1>3, <1>4, RowMove

LEMMA RowFinish ==
    ASSUME RowInv, NEW s \in Slot, req[s].at # "save", Finish(s),
           RowsStill
    PROVE  RowFacts'
<1>1. PICK r : r = req[s]
  OBVIOUS
<1>2. PICK d : d = Idle
  OBVIOUS
<1>3. d.at # "save" /\ d \notin Working /\ req' = [req EXCEPT ![s] = d]
  BY <1>2, Kinds DEF Idle, Finish
<1> QED BY <1>1, <1>3, RowMove

LEMMA RowArrive ==
    ASSUME RowInv, NEW s \in Slot, NEW op \in Op, NEW v \in Validator,
           NEW arg \in 0..MaxHeight, Arrive(s, op, v, arg)
    PROVE  RowFacts'
<1>1. PICK d : d = [at |-> "row", op |-> op, v |-> v, arg |-> arg, reg |-> NoRow]
  OBVIOUS
<1>2. d \in Working /\ d.at = "row" /\ d.op = op /\ d.arg = arg
  BY <1>1 DEF Working
<1>3. Current(d)
  BY <1>2 DEF Current, Arrive
<1>4. req[s] = Idle /\ req' = [req EXCEPT ![s] = d] /\ RowsStill
  BY <1>1 DEF Arrive, RowsStill, chainVars, endVars, orderVars,
     allValidatorVars, validatorVars
<1>5. PICK r : r = req[s]
  OBVIOUS
<1>6. r.at # "save" /\ d.at # "save"
  BY <1>2, <1>4, <1>5 DEF Idle
<1> QED BY <1>3, <1>4, <1>5, <1>6, RowMove

LEMMA RowReadRow ==
    ASSUME RowInv, NEW s \in Slot, ReadRow(s)
    PROVE  RowFacts'
<1>1. req[s].at = "row" /\ RowsStill
  BY DEF ReadRow, RowsStill, chainVars, endVars, orderVars,
     allValidatorVars, validatorVars
<1>2. PICK r \in Working : r = req[s] /\ r.at = "row" /\ Sound(r) /\ Current(r)
  BY <1>1, CurrentAt
<1>3. r.at # "save" /\ r.v \in Validator
  BY <1>2 DEF Working
<1>4. ASSUME NEW d \in Working, req' = [req EXCEPT ![s] = d], d.at # "save", d.op = r.op,
             d.v = r.v, d.arg = r.arg,
             d.op # "VALIDATOR_ADD" => row[r.v] # NoRow /\ d.reg = row[r.v]
      PROVE  RowFacts'
  <2>1. row[r.v] # NoRow => /\ records[r.v].registered
                            /\ row[r.v].act = records[r.v].activationHeight
                            /\ row[r.v].act \in 1..MaxHeight
    BY <1>3 DEF RowInv, RowFacts, RowsKnown, RowsTypeOK
  <2>2. Current(d)
    BY <1>2, <1>4, <2>1 DEF Current
  <2> QED BY <1>1, <1>2, <1>3, <1>4, <2>2, RowMove
<1>5. \/ Finish(s)
      \/ r.op = "VALIDATOR_ADD" /\ Goto(s, "head")
      \/ /\ row[r.v] # NoRow /\ req' = [req EXCEPT ![s].at = "effective", ![s].reg = row[r.v]]
  BY <1>2 DEF ReadRow
<1>6. CASE Finish(s)
  BY <1>1, <1>2, <1>3, <1>6, RowFinish
<1>7. CASE r.op = "VALIDATOR_ADD" /\ Goto(s, "head")
  <2>1. "head" \in {"head", "submit", "wait", "failed", "save"} /\ ServiceInv
    BY DEF RowInv
  <2>2. PICK d \in Working :
          /\ req' = [req EXCEPT ![s] = d] /\ d.at = "head"
          /\ d.op = r.op /\ d.v = r.v /\ d.arg = r.arg /\ d.reg = r.reg
    BY <1>2, <1>7, <2>1, GotoRequest
  <2>3. d.at # "save"
    BY <2>2
  <2> QED BY <1>4, <1>7, <2>2, <2>3
<1>8. CASE row[r.v] # NoRow /\ req' = [req EXCEPT ![s].at = "effective", ![s].reg = row[r.v]]
  <2>1. PICK g \in Reg : g = row[r.v]
    BY <1>3, <1>8 DEF RowInv, ServiceInv, ServiceTypes
  <2>2. PICK d : d = [r EXCEPT !.at = "effective", !.reg = g]
    OBVIOUS
  <2>3. /\ d \in Working /\ d.at = "effective" /\ d.reg = g /\ d.op = r.op /\ d.v = r.v
        /\ d.arg = r.arg
    BY <2>2 DEF Working
  <2>4. req' = [req EXCEPT ![s] = d] /\ d.at # "save"
    BY <1>2, <1>8, <2>1, <2>2, <2>3 DEF RowInv, ServiceInv, ServiceTypes
  <2> QED BY <1>4, <1>8, <2>1, <2>3, <2>4
<1> QED BY <1>5, <1>6, <1>7, <1>8

LEMMA RowReadEffective ==
    ASSUME RowInv, NEW s \in Slot, ReadEffective(s)
    PROVE  RowFacts'
<1>1. req[s].at = "effective" /\ RowsStill
  BY DEF ReadEffective, RowsStill, chainVars, endVars, orderVars,
     allValidatorVars, validatorVars
<1>2. PICK r \in Working : r = req[s] /\ r.at = "effective" /\ Current(r)
  BY <1>1, CurrentAt
<1>3. r.at # "save" /\ ServiceInv
  BY <1>2 DEF RowInv
<1>4. CASE Finish(s)
  BY <1>1, <1>2, <1>3, <1>4, RowFinish
<1>5. ASSUME NEW d \in Working, req' = [req EXCEPT ![s] = d], d.at \in {"head", "submit"},
             d.op = r.op, d.v = r.v, d.arg = r.arg, d.reg.act = r.reg.act, d.reg.rem = r.reg.rem
      PROVE  RowFacts'
  <2>1. d.at # "save"
    BY <1>5
  <2>2. Current(d)
    BY <1>2, <1>5, <2>1, CurrentGoesOn
  <2> QED BY <1>1, <1>2, <1>3, <1>5, <2>1, <2>2, RowMove
<1> QED BY <1>2, <1>3, <1>4, <1>5, ReadEffectiveCases

LEMMA RowReadHead ==
    ASSUME RowInv, NEW s \in Slot, ReadHead(s)
    PROVE  RowFacts'
<1>1. /\ req[s].at = "head" /\ RowsStill
      /\ Goto(s, "submit") \/ Finish(s)
  BY DEF ReadHead, RowsStill, chainVars, endVars, orderVars,
     allValidatorVars, validatorVars
<1>2. PICK r \in Working : r = req[s] /\ r.at = "head" /\ Current(r)
  BY <1>1, CurrentAt
<1>3. "submit" \in {"head", "submit", "wait", "failed"} /\ req[s].at # "save"
  BY <1>1
<1> QED BY <1>1, <1>2, <1>3, RowGoto, RowFinish

LEMMA RowSubmit ==
    ASSUME RowInv, NEW s \in Slot, Submit(s)
    PROVE  RowFacts'
<1>1. /\ req[s].at = "submit" /\ RowsStill
      /\ Goto(s, "failed") \/ Goto(s, "wait")
  BY DEF Submit, RowsStill, chainVars, endVars, orderVars,
     allValidatorVars, validatorVars
<1>2. PICK r \in Working : r = req[s] /\ r.at = "submit" /\ Current(r)
  BY <1>1, CurrentAt
<1>3. "wait" \in {"head", "submit", "wait", "failed"} /\ "failed" \in {"head", "submit", "wait", "failed"}
  OBVIOUS
<1> QED BY <1>1, <1>2, <1>3, RowGoto

LEMMA RowTimeOut ==
    ASSUME RowInv, NEW s \in Slot, TimeOut(s)
    PROVE  RowFacts'
<1>1. /\ req[s].at = "wait" /\ RowsStill
      /\ Goto(s, "failed")
  BY DEF TimeOut, RowsStill, chainVars, endVars, orderVars,
     allValidatorVars, validatorVars
<1>2. PICK r \in Working : r = req[s] /\ r.at = "wait" /\ Current(r)
  BY <1>1, CurrentAt
<1>3. "failed" \in {"head", "submit", "wait", "failed"}
  OBVIOUS
<1> QED BY <1>1, <1>2, <1>3, RowGoto

LEMMA RowRecordFailure ==
    ASSUME RowInv, NEW s \in Slot, RecordFailure(s)
    PROVE  RowFacts'
<1>1. /\ req[s].at = "failed" /\ RowsStill
      /\ Finish(s)
  BY DEF RecordFailure, RowsStill, chainVars, endVars, orderVars,
     allValidatorVars, validatorVars
<1>2. req[s].at # "save"
  BY <1>1
<1> QED BY <1>1, <1>2, RowFinish

LEMMA RowRecordHistory ==
    ASSUME RowInv, NEW s \in Slot, RecordHistory(s)
    PROVE  RowFacts'
<1>1. PICK r : r = req[s]
  OBVIOUS
<1>2. PICK d : d = [at |-> "notify", v |-> r.v, left |-> Person]
  OBVIOUS
<1>3. /\ r.at = "history" /\ RowsStill
      /\ req' = [req EXCEPT ![s] = d]
  BY <1>1, <1>2 DEF RecordHistory, RowsStill, chainVars, endVars, orderVars,
     allValidatorVars, validatorVars
<1>4. d.at = "notify"
  BY <1>2
<1>5. d \notin Working
  BY <1>4 DEF Working
<1>6. r.at # "save" /\ d.at # "save"
  BY <1>3, <1>4
<1> QED BY <1>1, <1>3, <1>5, <1>6, RowMove

LEMMA RowNotify ==
    ASSUME RowInv, NEW s \in Slot, Notify(s)
    PROVE  RowFacts'
<1>1. req[s].at = "notify" /\ RowsStill
  BY DEF Notify, RowsStill, chainVars, endVars, orderVars,
     allValidatorVars, validatorVars
<1>2. PICK r \in Announcing : r = req[s] /\ r.at = "notify"
  BY <1>1, Kinds DEF RowInv, ServiceInv, ServiceTypes
<1>3. r.at # "save" /\ req[s].at # "save"
  BY <1>2
<1>4. CASE Finish(s)
  BY <1>1, <1>3, <1>4, RowFinish
<1>5. ASSUME NEW p \in r.left, req' = [req EXCEPT ![s].left = @ \ {p}]
      PROVE  RowFacts'
  <2>1. PICK d : d = [r EXCEPT !.left = r.left \ {p}]
    OBVIOUS
  <2>2. d \in Announcing
    BY <2>1 DEF Announcing
  <2>3. d.at # "save" /\ d \notin Working
    BY <2>2, Kinds DEF Announcing
  <2>4. req' = [req EXCEPT ![s] = d]
    BY <1>2, <1>5, <2>1 DEF RowInv, ServiceInv, ServiceTypes
  <2> QED BY <1>1, <1>2, <1>3, <2>3, <2>4, RowMove
<1> QED BY <1>2, <1>4, <1>5 DEF Notify

LEMMA RowBreakQuietly ==
    ASSUME RowInv, NEW s \in Slot,
           BreakEarly(s) \/ BreakWaiting(s) \/ BreakRecording(s) \/ BreakNotifying(s)
    PROVE  RowFacts'
<1>1. req[s].at # "save" /\ Finish(s)
  BY DEF BreakEarly, BreakWaiting, BreakRecording, BreakNotifying
<1>2. RowsStill
  BY DEF BreakEarly, BreakWaiting, BreakRecording, BreakNotifying, RowsStill, chainVars, endVars,
     orderVars, allValidatorVars, validatorVars
<1> QED BY <1>1, <1>2, RowFinish

\* A transaction was mined, whose row the requests in who have yet to save: the
\* other validators' rows, saved and to be saved, are not touched by it.
LEMMA OthersKeep ==
    ASSUME RowInv, ValidatorTypeOK, NEW op \in Op, NEW v \in Validator, NEW arg \in 0..MaxHeight,
           Transact(op, v, arg), NEW who \in SUBSET Slot, Overtake(v, who), UNCHANGED row,
           \A t \in Slot \ who : req'[t] = req[t]
    PROVE  /\ RowsTypeOK' /\ OrderTypes' /\ RowsKnown' /\ RowsMatch' /\ RecordsGrow
           /\ \A t \in newest' \ who :
                /\ req'[t].at = "save"
                /\ Matches(Written(req'[t].op, req'[t].reg, req'[t].arg), records'[req'[t].v])
<1>1. RowsTypeOK /\ OrderTypes /\ RowsKnown /\ NewestMatch /\ RowsMatch /\ ServiceTypes
  BY DEF RowInv, RowFacts, ServiceInv
<1>2. newest' = {s \in newest : req[s].v # v} \cup who /\ behind' = behind \cup {v}
  BY DEF Overtake
<1>3. RecordsGrow
  BY TransactGrows
<1>4. \A w \in Validator : w # v => records'[w] = records[w]
  BY TransactEffect
<1>5. RowsTypeOK'
  BY <1>1 DEF RowsTypeOK
<1>6. OrderTypes'
  BY <1>1, <1>2 DEF OrderTypes
<1>7. RowsKnown'
  BY <1>1, <1>3 DEF RowsKnown, RecordsGrow
<1>8. RowsMatch'
  <2>1. ASSUME NEW w \in Validator, w \notin behind' PROVE Matches(row[w], records'[w])
    <3>1. w # v /\ w \notin behind
      BY <1>2, <2>1
    <3>2. Matches(row[w], records[w]) /\ records'[w] = records[w]
      BY <1>1, <1>4, <3>1 DEF RowsMatch
    <3> QED BY <3>2
  <2> QED BY <2>1 DEF RowsMatch
<1>9. ASSUME NEW t \in newest', t \notin who
      PROVE  /\ req'[t].at = "save"
             /\ Matches(Written(req'[t].op, req'[t].reg, req'[t].arg), records'[req'[t].v])
  <2>1. t \in newest /\ req[t].v # v /\ t \in Slot /\ req'[t] = req[t]
    BY <1>1, <1>2, <1>9 DEF OrderTypes
  <2>2. PICK q : q = req[t]
    OBVIOUS
  <2>3. q.at = "save" /\ Matches(Written(q.op, q.reg, q.arg), records[q.v]) /\ q.v # v
    BY <1>1, <2>1, <2>2 DEF NewestMatch
  <2>4. q \in Working \cup Recording \cup Announcing \cup {Idle}
    BY <1>1, <2>1, <2>2 DEF ServiceTypes
  <2>5. q \in Working
    BY <2>3, <2>4, Kinds
  <2>6. records'[q.v] = records[q.v]
    BY <1>4, <2>3, <2>5 DEF Working
  <2> QED BY <2>1, <2>2, <2>3, <2>6
<1> QED BY <1>3, <1>5, <1>6, <1>7, <1>8, <1>9

\* The row about to be saved is the one the contract asks for.
LEMMA RowMine ==
    ASSUME RowInv, ValidatorTypeOK, NEW s \in Slot, Mine(s)
    PROVE  RowFacts'
<1>1. req[s].at = "wait" /\ UNCHANGED row /\ UNCHANGED lost /\ UNCHANGED unsaved /\ UNCHANGED overtaken
  BY DEF Mine, endVars
<1>2. PICK r \in Working : r = req[s] /\ r.at = "wait" /\ Sound(r) /\ Current(r)
  BY <1>1, CurrentAt
<1>3. \/ Transact(r.op, r.v, r.arg) /\ Goto(s, "save") /\ Overtake(r.v, {s})
      \/ Goto(s, "failed") /\ RowsStill
  BY <1>1, <1>2 DEF Mine, RowsStill, chainVars, allValidatorVars, validatorVars
<1>4. CASE Goto(s, "failed") /\ RowsStill
  <2>1. "failed" \in {"head", "submit", "wait", "failed"}
    OBVIOUS
  <2> QED BY <1>2, <1>4, <2>1, RowGoto
<1>5. CASE Transact(r.op, r.v, r.arg) /\ Goto(s, "save") /\ Overtake(r.v, {s})
  <2>1. "save" \in {"head", "submit", "wait", "failed", "save"} /\ ServiceInv
    BY DEF RowInv
  <2>2. PICK d \in Working :
          /\ req' = [req EXCEPT ![s] = d] /\ d.at = "save"
          /\ d.op = r.op /\ d.v = r.v /\ d.arg = r.arg /\ d.reg = r.reg
    BY <1>2, <1>5, <2>1, GotoRequest
  <2>3. \A t \in Slot : req'[t] = IF t = s THEN d ELSE req[t]
    BY <2>2 DEF RowInv, ServiceInv, ServiceTypes
  <2>4. /\ r.op \in Op /\ r.v \in Validator /\ r.arg \in 0..MaxHeight
        /\ r.op # "VALIDATOR_ADD" => r.reg \in Reg /\ r.reg.act = records[r.v].activationHeight
    BY <1>2 DEF Working, Sound, Current
  <2>5. \A t \in Slot \ {s} : req'[t] = req[t]
    BY <2>3
  <2>6. /\ RowsTypeOK' /\ OrderTypes' /\ RowsKnown' /\ RowsMatch' /\ RecordsGrow
        /\ \A t \in newest' \ {s} :
             /\ req'[t].at = "save"
             /\ Matches(Written(req'[t].op, req'[t].reg, req'[t].arg), records'[req'[t].v])
    <3>1. {s} \in SUBSET Slot
      OBVIOUS
    <3> QED BY <1>1, <1>5, <2>4, <2>5, <3>1, OthersKeep
  <2>7. Matches(Written(r.op, r.reg, r.arg), records'[r.v])
    BY <1>5, <2>4, WrittenMatches
  <2>8. RequestsCurrent'
    <3>1. Current(d)'
      <4>1. /\ records'[r.v].registered
            /\ records'[r.v].activationHeight =
                  IF r.op = "VALIDATOR_ADD" THEN r.arg ELSE records[r.v].activationHeight
        BY <1>5, <2>4, TransactEffect
      <4> QED BY <1>2, <2>2, <4>1 DEF Current
    <3>2. ASSUME NEW t \in Slot, NEW q \in Working, req'[t] = q PROVE Current(q)'
      <4>1. CASE t = s
        BY <2>3, <3>1, <3>2, <4>1
      <4>2. CASE t # s
        <5>1. Current(q)
          BY <2>3, <3>2, <4>2 DEF RowInv, RowFacts, RequestsCurrent
        <5> QED BY <2>6, <5>1, CurrentGrows
      <4> QED BY <4>1, <4>2
    <3> QED BY <3>2 DEF RequestsCurrent
  <2>9. newest' = {t \in newest : req[t].v # r.v} \cup {s} /\ behind' = behind \cup {r.v}
    BY <1>5 DEF Overtake
  <2>10. NewestMatch'
    <3>1. ASSUME NEW t \in newest'
          PROVE  /\ req'[t].at = "save"
                 /\ Matches(Written(req'[t].op, req'[t].reg, req'[t].arg), records'[req'[t].v])
      <4>1. CASE t = s
        BY <2>2, <2>3, <2>7, <4>1
      <4>2. CASE t # s
        BY <2>6, <4>2
      <4> QED BY <4>1, <4>2
    <3> QED BY <3>1 DEF NewestMatch
  <2>11. BehindBecause'
    <3>1. ASSUME NEW v \in behind'
          PROVE  lost[v] + unsaved[v] > 0 \/ v \in overtaken \/ \E t \in newest' : req'[t].v = v
      <4>1. CASE v = r.v
        BY <2>2, <2>3, <2>9, <4>1
      <4>2. CASE v # r.v
        <5>1. v \in behind
          BY <2>9, <4>2
        <5>2. lost[v] + unsaved[v] > 0 \/ v \in overtaken \/ \E t \in newest : req[t].v = v
          BY <5>1 DEF RowInv, RowFacts, BehindBecause
        <5>3. ASSUME NEW t \in newest, req[t].v = v PROVE t \in newest' /\ req'[t].v = v
          BY <1>2, <2>3, <2>9, <4>2, <5>3 DEF RowInv, RowFacts, OrderTypes
        <5> QED BY <5>2, <5>3
      <4> QED BY <4>1, <4>2
    <3> QED BY <1>1, <3>1 DEF BehindBecause
  <2> QED BY <2>6, <2>8, <2>10, <2>11 DEF RowFacts
<1> QED BY <1>3, <1>4, <1>5

\* A row is saved: that of the newest transaction, or an older one over it.
LEMMA RowSaveRow ==
    ASSUME RowInv, NEW s \in Slot, SaveRow(s)
    PROVE  RowFacts'
<1>1. req[s].at = "save"
  BY DEF SaveRow
<1>2. PICK r \in Working : r = req[s] /\ r.at = "save" /\ Sound(r) /\ Current(r)
  BY <1>1, CurrentAt
<1>3. PICK n : n = Written(r.op, r.reg, r.arg)
  OBVIOUS
<1>4. PICK d : d = [at |-> "history", v |-> r.v]
  OBVIOUS
<1>5. /\ row' = [row EXCEPT ![r.v] = n] /\ req' = [req EXCEPT ![s] = d]
      /\ UNCHANGED lost /\ UNCHANGED unsaved /\ UNCHANGED records
      /\ newest' = newest \ {s}
      /\ IF s \in newest THEN behind' = behind \ {r.v} /\ UNCHANGED overtaken
         ELSE behind' = behind \cup {r.v} /\ overtaken' = overtaken \cup {r.v}
  BY <1>2, <1>3, <1>4 DEF SaveRow, chainVars, endVars, allValidatorVars, validatorVars
<1>6. /\ r.op \in Op /\ r.v \in Validator /\ r.arg \in 0..MaxHeight
      /\ r.op \in {"VALIDATOR_ADD", "VALIDATOR_REMOVE"} => r.arg # 0
      /\ r.op # "VALIDATOR_ADD" =>
            r.reg \in Reg /\ r.reg.act = records[r.v].activationHeight /\ r.reg.act \in 1..MaxHeight
      /\ r.op = "VALIDATOR_ADD" => r.arg = records[r.v].activationHeight
      /\ records[r.v].registered
  BY <1>2 DEF Working, Sound, Current
<1>7. d \notin Working
  <2>1. d.at = "history"
    BY <1>4
  <2> QED BY <2>1 DEF Working
<1>8. \A t \in Slot : req'[t] = IF t = s THEN d ELSE req[t]
  BY <1>5 DEF RowInv, ServiceInv, ServiceTypes
<1>9. /\ RowsTypeOK /\ OrderTypes /\ RequestsCurrent /\ RowsKnown
      /\ NewestMatch /\ RowsMatch /\ BehindBecause
  BY DEF RowInv, RowFacts
<1>10. \A v \in Validator : row'[v] = IF v = r.v THEN n ELSE row[v]
  BY <1>5, <1>6 DEF RowInv, ServiceInv, ServiceTypes
<1>11. /\ n.status \in {"PENDING", "ACTIVE", "REMOVAL_SCHEDULED"}
       /\ n.act \in 1..MaxHeight /\ n.act = records[r.v].activationHeight
       /\ n.rem # 0 <=> n.status = "REMOVAL_SCHEDULED"
  <2>1. CASE r.op = "VALIDATOR_ADD"
    <3>1. n.status = "PENDING" /\ n.act = r.arg /\ n.rem = 0
      BY <1>3, <2>1 DEF Written
    <3> QED BY <1>6, <2>1, <3>1, ValidatorAssumption
  <2>2. CASE r.op = "VALIDATOR_REMOVE"
    <3>1. n.status = "REMOVAL_SCHEDULED" /\ n.act = r.reg.act /\ n.rem = r.arg
      BY <1>3, <1>6, <2>2 DEF Written, Reg
    <3> QED BY <1>6, <2>2, <3>1
  <2>3. CASE r.op \notin {"VALIDATOR_ADD", "VALIDATOR_REMOVE"}
    <3>1. n.status = "ACTIVE" /\ n.act = r.reg.act /\ n.rem = 0
      BY <1>3, <1>6, <2>3 DEF Written, Reg
    <3> QED BY <1>6, <2>3, <3>1
  <2> QED BY <2>1, <2>2, <2>3
<1>12. RowsTypeOK'
  BY <1>9, <1>10, <1>11 DEF RowsTypeOK
<1>13. OrderTypes'
  BY <1>5, <1>6, <1>9 DEF OrderTypes
<1>14. RequestsCurrent'
  <2>1. \A q : Current(q)' <=> Current(q)
    BY <1>5 DEF Current
  <2>2. ASSUME NEW t \in Slot, NEW q \in Working, req'[t] = q PROVE Current(q)
    BY <1>7, <1>8, <1>9, <2>2 DEF RequestsCurrent
  <2> QED BY <2>1, <2>2 DEF RequestsCurrent
<1>15. RowsKnown'
  BY <1>5, <1>6, <1>9, <1>10, <1>11 DEF RowsKnown
<1>16. \A t \in newest' : t \in newest /\ t # s /\ req'[t] = req[t]
  BY <1>5, <1>8, <1>9 DEF OrderTypes
<1>17. NewestMatch'
  <2>1. ASSUME NEW t \in newest'
        PROVE  /\ req'[t].at = "save"
               /\ Matches(Written(req'[t].op, req'[t].reg, req'[t].arg), records[req'[t].v])
    BY <1>9, <1>16 DEF NewestMatch
  <2> QED BY <1>5, <2>1 DEF NewestMatch
<1>18. RowsMatch'
  <2>1. ASSUME NEW v \in Validator, v \notin behind' PROVE Matches(row'[v], records[v])
    <3>1. CASE v = r.v
      <4>1. s \in newest
        BY <1>5, <2>1, <3>1
      <4>2. Matches(n, records[r.v])
        BY <1>2, <1>3, <1>9, <4>1 DEF NewestMatch
      <4> QED BY <1>10, <3>1, <4>2
    <3>2. CASE v # r.v
      <4>1. v \notin behind
        BY <1>5, <2>1, <3>2
      <4>2. Matches(row[v], records[v])
        BY <1>9, <4>1 DEF RowsMatch
      <4> QED BY <1>10, <3>2, <4>2
    <3> QED BY <3>1, <3>2
  <2> QED BY <1>5, <2>1 DEF RowsMatch
<1>19. BehindBecause'
  <2>1. ASSUME NEW v \in behind'
        PROVE  lost[v] + unsaved[v] > 0 \/ v \in overtaken' \/ \E t \in newest' : req'[t].v = v
    <3>1. CASE v = r.v
      BY <1>5, <2>1, <3>1
    <3>2. CASE v # r.v
      <4>1. v \in behind /\ (v \in overtaken => v \in overtaken')
        BY <1>5, <2>1, <3>2
      <4>2. lost[v] + unsaved[v] > 0 \/ v \in overtaken \/ \E t \in newest : req[t].v = v
        BY <1>9, <4>1 DEF BehindBecause
      <4>3. ASSUME NEW t \in newest, req[t].v = v PROVE t \in newest' /\ req'[t].v = v
        BY <1>2, <1>5, <1>16, <3>2, <4>3
      <4> QED BY <4>1, <4>2, <4>3
    <3> QED BY <3>1, <3>2
  <2> QED BY <1>5, <2>1 DEF BehindBecause
<1> QED BY <1>12, <1>13, <1>14, <1>15, <1>17, <1>18, <1>19 DEF RowFacts

\* A row that is never saved: the row stays behind, and there is the reason.
LEMMA RowBreakSaving ==
    ASSUME RowInv, NEW s \in Slot, BreakSaving(s)
    PROVE  RowFacts'
<1>1. req[s].at = "save"
  BY DEF BreakSaving
<1>2. PICK r \in Working : r = req[s]
  BY <1>1, CurrentAt
<1>3. PICK d : d = Idle
  OBVIOUS
<1>4. /\ unsaved' = [unsaved EXCEPT ![r.v] = @ + 1] /\ newest' = newest \ {s}
      /\ req' = [req EXCEPT ![s] = d]
      /\ UNCHANGED row /\ UNCHANGED lost /\ UNCHANGED behind /\ UNCHANGED overtaken
      /\ UNCHANGED records
  BY <1>2, <1>3 DEF BreakSaving, Finish, chainVars, allValidatorVars, validatorVars
<1>5. d \notin Working
  BY <1>3, Kinds
<1>6. \A t \in Slot : req'[t] = IF t = s THEN d ELSE req[t]
  BY <1>4 DEF RowInv, ServiceInv, ServiceTypes
<1>7. /\ RowsTypeOK /\ OrderTypes /\ RequestsCurrent /\ RowsKnown
      /\ NewestMatch /\ RowsMatch /\ BehindBecause /\ ServiceTypes
  BY DEF RowInv, RowFacts, ServiceInv
<1>8. RowsTypeOK' /\ OrderTypes' /\ RowsKnown' /\ RowsMatch'
  BY <1>4, <1>7 DEF RowsTypeOK, OrderTypes, RowsKnown, RowsMatch
<1>9. RequestsCurrent'
  <2>1. \A q : Current(q)' <=> Current(q)
    BY <1>4 DEF Current
  <2>2. ASSUME NEW t \in Slot, NEW q \in Working, req'[t] = q PROVE Current(q)
    BY <1>5, <1>6, <1>7, <2>2 DEF RequestsCurrent
  <2> QED BY <2>1, <2>2 DEF RequestsCurrent
<1>10. \A t \in newest' : t \in newest /\ t # s /\ req'[t] = req[t]
  BY <1>4, <1>6, <1>7 DEF OrderTypes
<1>11. NewestMatch'
  <2>1. ASSUME NEW t \in newest'
        PROVE  /\ req'[t].at = "save"
               /\ Matches(Written(req'[t].op, req'[t].reg, req'[t].arg), records[req'[t].v])
    BY <1>7, <1>10 DEF NewestMatch
  <2> QED BY <1>4, <2>1 DEF NewestMatch
<1>12. BehindBecause'
  <2>1. ASSUME NEW v \in behind
        PROVE  lost[v] + unsaved'[v] > 0 \/ v \in overtaken \/ \E t \in newest' : req'[t].v = v
    <3>1. /\ lost[v] \in Nat /\ unsaved[v] \in Nat
          /\ unsaved'[v] = IF v = r.v THEN unsaved[v] + 1 ELSE unsaved[v]
      BY <1>4, <1>7 DEF ServiceTypes, OrderTypes
    <3>2. CASE v = r.v
      BY <3>1, <3>2
    <3>3. CASE v # r.v
      <4>1. lost[v] + unsaved[v] > 0 \/ v \in overtaken \/ \E t \in newest : req[t].v = v
        BY <1>7 DEF BehindBecause
      <4>2. ASSUME NEW t \in newest, req[t].v = v PROVE t \in newest' /\ req'[t].v = v
        BY <1>2, <1>4, <1>10, <3>3, <4>2
      <4> QED BY <3>1, <3>3, <4>1, <4>2
    <3> QED BY <3>2, <3>3
  <2> QED BY <1>4, <2>1 DEF BehindBecause
<1> QED BY <1>8, <1>9, <1>11, <1>12 DEF RowFacts

\* A receipt that was missed: the row stays behind, and there is the reason.
LEMMA RowMineLate ==
    ASSUME RowInv, ValidatorTypeOK, NEW t \in pool, MineLate(t)
    PROVE  RowFacts'
<1>1. UNCHANGED row /\ UNCHANGED req /\ UNCHANGED unsaved /\ UNCHANGED overtaken
  BY DEF MineLate, endVars
<1>2. t.op \in Op /\ t.v \in Validator /\ t.arg \in 0..MaxHeight
  BY DEF RowInv, ServiceInv, ServiceTypes
<1>3. \/ /\ Transact(t.op, t.v, t.arg) /\ Overtake(t.v, {})
         /\ lost' = [lost EXCEPT ![t.v] = @ + 1]
      \/ RowsStill
  BY <1>1 DEF MineLate, RowsStill, chainVars, allValidatorVars, validatorVars
<1>4. CASE RowsStill
  BY <1>1, <1>4, RowUnmoved
<1>5. CASE /\ Transact(t.op, t.v, t.arg) /\ Overtake(t.v, {})
           /\ lost' = [lost EXCEPT ![t.v] = @ + 1]
  <2>1. /\ RowsTypeOK' /\ OrderTypes' /\ RowsKnown' /\ RowsMatch' /\ RecordsGrow
        /\ \A s \in newest' \ {} :
             /\ req'[s].at = "save"
             /\ Matches(Written(req'[s].op, req'[s].reg, req'[s].arg), records'[req'[s].v])
    <3>1. {} \in SUBSET Slot /\ \A s \in Slot \ {} : req'[s] = req[s]
      BY <1>1
    <3> QED BY <1>1, <1>2, <1>5, <3>1, OthersKeep
  <2>2. RequestsCurrent'
    <3>1. ASSUME NEW s \in Slot, NEW q \in Working, req'[s] = q PROVE Current(q)'
      <4>1. Current(q)
        BY <1>1, <3>1 DEF RowInv, RowFacts, RequestsCurrent
      <4> QED BY <2>1, <4>1, CurrentGrows
    <3> QED BY <3>1 DEF RequestsCurrent
  <2>3. NewestMatch'
    BY <2>1 DEF NewestMatch
  <2>4. newest' = {s \in newest : req[s].v # t.v} /\ behind' = behind \cup {t.v}
    BY <1>5 DEF Overtake
  <2>5. BehindBecause'
    <3>1. ASSUME NEW v \in behind'
          PROVE  lost'[v] + unsaved[v] > 0 \/ v \in overtaken \/ \E s \in newest' : req[s].v = v
      <4>1. /\ v \in Validator /\ lost[v] \in Nat /\ unsaved[v] \in Nat
            /\ lost'[v] = IF v = t.v THEN lost[v] + 1 ELSE lost[v]
        BY <1>2, <1>5, <2>4 DEF RowInv, RowFacts, OrderTypes, ServiceInv, ServiceTypes
      <4>2. CASE v = t.v
        BY <4>1, <4>2
      <4>3. CASE v # t.v
        <5>1. lost[v] + unsaved[v] > 0 \/ v \in overtaken \/ \E s \in newest : req[s].v = v
          BY <2>4, <4>3 DEF RowInv, RowFacts, BehindBecause
        <5> QED BY <2>4, <4>1, <4>3, <5>1
      <4> QED BY <4>2, <4>3
    <3> QED BY <1>1, <3>1 DEF BehindBecause
  <2> QED BY <2>1, <2>2, <2>3, <2>5 DEF RowFacts
<1> QED BY <1>3, <1>4, <1>5

LEMMA RowInvInit == ServiceInit => RowInv
<1> SUFFICES ASSUME ServiceInit PROVE RowInv
  OBVIOUS
<1>1. \A s \in Slot : req[s] = Idle /\ Idle \notin Working
  BY Kinds DEF ServiceInit
<1>2. \A v \in Validator : row[v] = NoRow /\ ~records[v].registered
  BY DEF ServiceInit, ValidatorInit, NoRecord
<1>3. RowsTypeOK /\ RowsKnown
  BY <1>2 DEF RowsTypeOK, RowsKnown
<1>4. RequestsCurrent
  BY <1>1 DEF RequestsCurrent
<1>5. RowsMatch
  BY <1>2 DEF RowsMatch, Matches
<1>6. newest = {} /\ behind = {}
  BY DEF ServiceInit
<1>7. OrderTypes /\ NewestMatch /\ BehindBecause
  BY <1>6 DEF OrderTypes, NewestMatch, BehindBecause
<1> QED BY <1>3, <1>4, <1>5, <1>7, ServiceInvInit DEF RowInv, RowFacts

LEMMA RowInvStep ==
    ASSUME RowInv, ValidatorTypeOK, [ServiceNext]_<<allValidatorVars, serviceVars>>
    PROVE  RowInv'
<1>1. ServiceInv'
  BY ServiceInvStep DEF RowInv
<1>2. CASE UNCHANGED <<allValidatorVars, serviceVars>>
  <2>1. UNCHANGED req /\ RowsStill
    BY <1>2 DEF RowsStill, allValidatorVars, validatorVars, serviceVars, endVars, orderVars
  <2> QED BY <1>1, <2>1, RowUnmoved DEF RowInv
<1>3. CASE Block
  <2>1. UNCHANGED req /\ RowsStill
    BY <1>3 DEF Block, NextBlock, RowsStill, serviceVars, endVars, orderVars
  <2> QED BY <1>1, <2>1, RowUnmoved DEF RowInv
<1>4. ASSUME NEW s \in Slot, Step(s) PROVE RowFacts'
  BY <1>4, RowReadRow, RowReadEffective, RowReadHead, RowSubmit, RowMine, RowTimeOut,
     RowRecordFailure, RowSaveRow, RowRecordHistory, RowNotify DEF Step
<1>5. ASSUME NEW s \in Slot, Break(s) PROVE RowFacts'
  BY <1>5, RowBreakQuietly, RowBreakSaving DEF Break
<1> QED BY <1>1, <1>2, <1>3, <1>4, <1>5, RowArrive, RowMineLate DEF ServiceNext, RowInv

\* However requests overlap, time out and break off, a row saved last by the
\* request of the newest transaction is what the contract says, whatever head the
\* service was shown; and a row at rest is that one, unless a receipt was missed,
\* a save failed or an overlapping request with an older transaction saved last.
THEOREM RowCorrect == ServiceSpec => []RowProjectsChain
<1>1. RowInv /\ ValidatorInv /\ [ServiceNext]_<<allValidatorVars, serviceVars>> => RowInv'
  BY RowInvStep DEF ValidatorInv
<1>2. ASSUME RowInv, ValidatorInv PROVE RowProjectsChain
  <2>1. RowsTypeOK /\ NewestMatch /\ RowsMatch /\ BehindBecause
    BY <1>2 DEF RowInv, RowFacts
  <2>2. ASSUME NEW v \in Validator, v \notin behind PROVE RowMatches(v)
    <3>1. Matches(row[v], records[v])
      BY <2>1, <2>2 DEF RowsMatch
    <3>2. ASSUME row[v] # NoRow
          PROVE  Effective(row[v], height) = "REMOVED" <=> records[v].removalHeight \in 1..height
      <4>1. PICK g \in Reg : g = row[v]
        BY <1>2, <3>2 DEF RowInv, ServiceInv, ServiceTypes
      <4>2. /\ g.status \in {"PENDING", "ACTIVE", "REMOVAL_SCHEDULED"}
            /\ g.rem # 0 <=> g.status = "REMOVAL_SCHEDULED"
            /\ g.rem = records[v].removalHeight
        BY <2>1, <3>1, <3>2, <4>1 DEF RowsTypeOK, Matches
      <4>3. Effective(g, height) = "REMOVED" <=> g.status = "REMOVAL_SCHEDULED" /\ g.rem <= height
        BY <4>2 DEF Effective
      <4>4. g.rem \in Nat /\ height \in Nat
        BY <1>2, ValidatorAssumption DEF Reg, ValidatorInv, ValidatorTypeOK
      <4>5. g.rem \in 1..height <=> g.rem # 0 /\ g.rem <= height
        BY <4>4
      <4> QED BY <4>1, <4>2, <4>3, <4>5
    <3> QED BY <3>1, <3>2 DEF Matches, RowMatches
  <2>3. ASSUME NEW v \in Validator, AtRest(v), v \in behind
        PROVE  lost[v] + unsaved[v] > 0 \/ v \in overtaken
    <3>1. ASSUME NEW s \in newest, req[s].v = v PROVE FALSE
      <4>1. s \in Slot /\ req[s].at = "save" /\ Idle.at = "idle"
        BY <1>2, <2>1 DEF NewestMatch, RowInv, RowFacts, OrderTypes, Idle
      <4> QED BY <2>3, <3>1, <4>1 DEF AtRest
    <3> QED BY <2>1, <2>3, <3>1 DEF BehindBecause
  <2> QED BY <2>1, <2>2, <2>3 DEF RowProjectsChain
<1> QED BY <1>1, <1>2, RowInvInit, ServiceImplementsRegistry, ValidatorInvariant, PTL
        DEF ServiceSpec
=============================================================================
