---------------------------- MODULE UsersProofs ----------------------------
(***************************************************************************)
(* Proofs about UsersService, for any number of identities, wallets, roles *)
(* and requests in flight: no row is ahead of the chain.  The inductive    *)
(* invariant is UsersInv.  Each request stands at a step of the script of  *)
(* its operation (Stands), holds what the steps left to it will use        *)
(* (Holding), and what its earlier transactions did is on the chain still  *)
(* (Confirmed), because the chain only grows (Grows).                      *)
(***************************************************************************)
EXTENDS UsersService, WellFoundedInduction, FiniteSetTheorems, SequenceTheorems, TLAPS

IdentityRow == [status : {"NONE", "PENDING", "ACTIVE"}, role : Role \cup {None}, verified : BOOLEAN]
UserRow     == [wallet : Wallet, role : Role]
Steps       == {"newIdentity", "newDevice", "newWallet", "saveVerified", "saveRole", "saveUserRole",
                "saveActive", "saveDevice", "saveWallet", "saveUser", "readUser", "saveUserWallet",
                "saveRevoked", "dropDevice"} \cup Transaction
Work        == [todo : Seq(Steps) \ {<<>>}, actor : Identity \cup {None}, id : Identity,
                wallet : Wallet \cup {None}, role : Role \cup {None}, old : Seq(Wallet),
                row : IdentityRow, user : UserRow \cup {NoUser}]
Status      == {"NONE", "PENDING", "ACTIVE", "REVOKED"}

UsersTypes ==
    /\ identity \in [Identity -> IdentityRow] /\ user \in [Identity -> UserRow \cup {NoUser}]
    /\ device \in [Wallet -> Status] /\ wallet \in [Wallet -> Status]
    /\ chainWallet \in [Wallet -> Status] /\ chainRoles \in [Identity -> SUBSET Role]
    /\ req \in [Slot -> Work \cup {Idle}]

\* The scripts of the operations; a replacement is at its first two steps once
\* for each wallet it revokes.
Script ==
    [register |-> <<"newIdentity", "newDevice", "newWallet">>,
     verify   |-> <<"saveVerified">>,
     choose   |-> <<"saveRole">>,
     assign   |-> <<"submitRole", "saveRole", "saveUserRole">>,
     activate |-> <<"ensureCreated", "ensureRole", "ensureActive",
                    "saveActive", "saveDevice", "saveWallet", "saveUser">>,
     device   |-> <<"saveDevice">>,
     wallet   |-> <<"newWallet">>,
     replace  |-> <<"revoke", "saveRevoked", "ensureCreated", "ensureActive",
                    "saveWallet", "readUser", "saveUserWallet">>,
     revoke   |-> <<"revoke", "saveRevoked">>,
     drop     |-> <<"ensureRevoked", "dropDevice", "saveRevoked">>,
     forget   |-> <<"dropDevice">>]
Op          == DOMAIN Script
From(op, k) == SubSeq(Script[op], k, Len(Script[op]))

\* What the chain has confirmed when an operation has come to its step k.
Revoked(w)   == chainWallet[w] = "REVOKED"
Activated(w) == chainWallet[w] \in {"ACTIVE", "REVOKED"}
Confirmed(r, op, k) ==
    /\ op = "assign" /\ k > 1                               => r.role \in chainRoles[r.id]
    /\ op = "activate" /\ k > 2                             => r.row.role \in chainRoles[r.id]
    /\ op = "replace" /\ k > 6                              => r.user.role \in chainRoles[r.id]
    /\ (op = "activate" /\ k > 3) \/ (op = "replace" /\ k > 4) => Activated(r.wallet)
    /\ (op \in {"replace", "revoke"} /\ k = 2) \/ (op = "drop" /\ k > 1) => Revoked(Head(r.old))

\* What a request that is at step k of an operation has in hand.
Holding(r, op, k) ==
    /\ op \in {"register", "device", "wallet", "activate", "replace"} => r.wallet \in Wallet
    /\ op \in {"activate", "replace"} => HolderOf[r.wallet] = r.id
    /\ op \in {"verify", "choose"} => r.row.status = "PENDING"
    /\ op \in {"choose", "assign"} => r.role \in Role
    /\ op = "assign" => r.user # NoUser /\ HolderOf[r.user.wallet] = r.id
    /\ op = "activate" => r.row.role \in Role /\ (k < 3 => r.role = r.row.role)
    /\ op \in {"revoke", "drop", "forget"} => Len(r.old) = 1
    /\ op = "replace" /\ k < 3 => r.old # <<>>
    /\ op = "replace" /\ k > 6 => r.user # NoUser

Stands(r, op, k) ==
    /\ op \in Op /\ k \in 1..Len(Script[op]) /\ r.todo = From(op, k)
    /\ Holding(r, op, k) /\ Confirmed(r, op, k)

RequestsStand == \A s \in Slot, r \in Work : req[s] = r => \E op \in Op, k \in Nat : Stands(r, op, k)

\* The rows against the chain.
RowsSound ==
    /\ \A w \in Wallet :
        /\ wallet[w] = "REVOKED" => Revoked(w)
        /\ wallet[w] = "ACTIVE"  => Activated(w)
    /\ \A i \in Identity :
        /\ user[i] # NoUser => user[i].role \in chainRoles[i] /\ HolderOf[user[i].wallet] = i
        /\ identity[i].status = "ACTIVE" => identity[i].role \in chainRoles[i]

UsersInv == UsersTypes /\ RequestsStand /\ RowsSound

-----------------------------------------------------------------------------
(* Scripts.                                                                *)

\* The scripts one by one.
LEMMA Scripts ==
    /\ Op = {"register", "verify", "choose", "assign", "activate", "device", "wallet", "replace",
             "revoke", "drop", "forget"}
    /\ Script["register"] = <<"newIdentity", "newDevice", "newWallet">>
    /\ Script["verify"] = <<"saveVerified">>
    /\ Script["choose"] = <<"saveRole">>
    /\ Script["assign"] = <<"submitRole", "saveRole", "saveUserRole">>
    /\ Script["activate"] = <<"ensureCreated", "ensureRole", "ensureActive", "saveActive",
                              "saveDevice", "saveWallet", "saveUser">>
    /\ Script["device"] = <<"saveDevice">>
    /\ Script["wallet"] = <<"newWallet">>
    /\ Script["replace"] = <<"revoke", "saveRevoked", "ensureCreated", "ensureActive",
                             "saveWallet", "readUser", "saveUserWallet">>
    /\ Script["revoke"] = <<"revoke", "saveRevoked">>
    /\ Script["drop"] = <<"ensureRevoked", "dropDevice", "saveRevoked">>
    /\ Script["forget"] = <<"dropDevice">>
BY DEF Op, Script

\* Each is a short list of steps.
LEMMA ScriptsTyped ==
    ASSUME NEW op \in Op
    PROVE  Script[op] \in Seq(Steps) /\ Len(Script[op]) \in 1..7
<1>1. CASE op = "register"
  BY <1>1, Scripts DEF Steps, Transaction
<1>2. CASE op = "verify"
  BY <1>2, Scripts DEF Steps, Transaction
<1>3. CASE op = "choose"
  BY <1>3, Scripts DEF Steps, Transaction
<1>4. CASE op = "assign"
  BY <1>4, Scripts DEF Steps, Transaction
<1>5. CASE op = "activate"
  BY <1>5, Scripts DEF Steps, Transaction
<1>6. CASE op = "device"
  BY <1>6, Scripts DEF Steps, Transaction
<1>7. CASE op = "wallet"
  BY <1>7, Scripts DEF Steps, Transaction
<1>8. CASE op = "replace"
  BY <1>8, Scripts DEF Steps, Transaction
<1>9. CASE op = "revoke"
  BY <1>9, Scripts DEF Steps, Transaction
<1>10. CASE op = "drop"
  BY <1>10, Scripts DEF Steps, Transaction
<1>11. CASE op = "forget"
  BY <1>11, Scripts DEF Steps, Transaction
<1> QED BY <1>1, <1>2, <1>3, <1>4, <1>5, <1>6, <1>7, <1>8, <1>9, <1>10, <1>11, Scripts

\* The operation and the place of each step.
LEMMA Places ==
    ASSUME NEW op \in Op, NEW k \in 1..Len(Script[op])
    PROVE  /\ Script[op][k] = "newIdentity" => op = "register" /\ k = 1
           /\ Script[op][k] = "newDevice" => op = "register" /\ k = 2
           /\ Script[op][k] = "newWallet" => (op = "register" /\ k = 3) \/ (op = "wallet" /\ k = 1)
           /\ Script[op][k] = "saveVerified" => op = "verify" /\ k = 1
           /\ Script[op][k] = "saveRole" => (op = "choose" /\ k = 1) \/ (op = "assign" /\ k = 2)
           /\ Script[op][k] = "submitRole" => op = "assign" /\ k = 1
           /\ Script[op][k] = "saveUserRole" => op = "assign" /\ k = 3
           /\ Script[op][k] = "ensureCreated" => (op = "activate" /\ k = 1) \/ (op = "replace" /\ k = 3)
           /\ Script[op][k] = "ensureRole" => op = "activate" /\ k = 2
           /\ Script[op][k] = "ensureActive" => (op = "activate" /\ k = 3) \/ (op = "replace" /\ k = 4)
           /\ Script[op][k] = "saveActive" => op = "activate" /\ k = 4
           /\ Script[op][k] = "saveDevice" => (op = "activate" /\ k = 5) \/ (op = "device" /\ k = 1)
           /\ Script[op][k] = "saveWallet" => (op = "activate" /\ k = 6) \/ (op = "replace" /\ k = 5)
           /\ Script[op][k] = "saveUser" => op = "activate" /\ k = 7
           /\ Script[op][k] = "readUser" => op = "replace" /\ k = 6
           /\ Script[op][k] = "saveUserWallet" => op = "replace" /\ k = 7
           /\ Script[op][k] = "revoke" => op \in {"replace", "revoke"} /\ k = 1
           /\ Script[op][k] = "saveRevoked" => (op \in {"replace", "revoke"} /\ k = 2) \/ (op = "drop" /\ k = 3)
           /\ Script[op][k] = "ensureRevoked" => op = "drop" /\ k = 1
           /\ Script[op][k] = "dropDevice" => (op = "drop" /\ k = 2) \/ (op = "forget" /\ k = 1)
<1>1. CASE op = "register"
  BY <1>1, Scripts
<1>2. CASE op = "verify"
  BY <1>2, Scripts
<1>3. CASE op = "choose"
  BY <1>3, Scripts
<1>4. CASE op = "assign"
  BY <1>4, Scripts
<1>5. CASE op = "activate"
  BY <1>5, Scripts
<1>6. CASE op = "device"
  BY <1>6, Scripts
<1>7. CASE op = "wallet"
  BY <1>7, Scripts
<1>8. CASE op = "replace"
  BY <1>8, Scripts
<1>9. CASE op = "revoke"
  BY <1>9, Scripts
<1>10. CASE op = "drop"
  BY <1>10, Scripts
<1>11. CASE op = "forget"
  BY <1>11, Scripts
<1> QED BY <1>1, <1>2, <1>3, <1>4, <1>5, <1>6, <1>7, <1>8, <1>9, <1>10, <1>11, Scripts

\* What is left of a script: its first step, what follows, and where a step is.
LEMMA FromStep ==
    ASSUME NEW op \in Op, NEW k \in 1..Len(Script[op])
    PROVE  /\ From(op, k) \in Seq(Steps) /\ From(op, k) # <<>>
           /\ Head(From(op, k)) = Script[op][k]
           /\ k < Len(Script[op]) => Tail(From(op, k)) = From(op, k + 1)
           /\ k = Len(Script[op]) => Tail(From(op, k)) = <<>>
           /\ \A j \in k..Len(Script[op]) :
                 j - k + 1 \in DOMAIN From(op, k) /\ From(op, k)[j - k + 1] = Script[op][j]
<1>0. PICK q, n : q = Script[op] /\ n = Len(Script[op])
  OBVIOUS
<1>1. q \in Seq(Steps) /\ n = Len(q) /\ n \in Nat /\ k \in 1..n
  BY <1>0, ScriptsTyped
<1>2. PICK f : f = SubSeq(q, k, n)
  OBVIOUS
<1>3. /\ f \in Seq(Steps) /\ Len(f) = n - k + 1
      /\ \A i \in 1..(n - k + 1) : f[i] = q[k + i - 1]
  BY <1>1, <1>2
<1>4. f # <<>> /\ Head(f) = q[k] /\ Tail(f) = SubSeq(q, k + 1, n)
  <2>1. n \in k..Len(q)
    BY <1>1
  <2>2. k \in 1..Len(q)
    BY <1>1
  <2>3. Head(f) = q[k] /\ Tail(f) = SubSeq(q, k + 1, n)
    BY ONLY <1>1, <1>2, <2>1, <2>2, HeadTailOfSubSeq
  <2>4. f # <<>>
    BY <1>1, <1>3
  <2> QED BY <2>3, <2>4
<1>6. ASSUME k = n PROVE SubSeq(q, k + 1, n) = <<>>
  BY <1>1, <1>6, SubSeqEmpty
<1>7. ASSUME NEW j \in k..n PROVE j - k + 1 \in DOMAIN f /\ f[j - k + 1] = q[j]
  <2>1. DOMAIN f = 1..(n - k + 1)
    BY <1>3, LenProperties
  <2>2. j - k + 1 \in 1..(n - k + 1) /\ k + (j - k + 1) - 1 = j
    BY <1>1
  <2> QED BY <1>3, <2>1, <2>2
<1>8. From(op, k) = f /\ From(op, k + 1) = SubSeq(q, k + 1, n)
  BY <1>0, <1>2 DEF From
<1> QED BY <1>0, <1>1, <1>3, <1>4, <1>6, <1>7, <1>8

\* The loop of a replacement begins again.
LEMMA LoopAgain == <<"revoke">> \o From("replace", 2) = From("replace", 1)
<1>1. PICK q : q = Script["replace"]
  OBVIOUS
<1>2. q \in Seq(Steps) /\ Len(q) = 7 /\ q[1] = "revoke"
  <2>1. "replace" \in Op
    BY Scripts
  <2>2. q \in Seq(Steps)
    BY <1>1, <2>1, ScriptsTyped
  <2>3. Len(q) = 7 /\ q[1] = "revoke"
    BY <1>1, Scripts
  <2> QED BY <2>2, <2>3
<1>3. SubSeq(q, 1, 7) = <<q[1]>> \o SubSeq(q, 1 + 1, 7)
  <2>1. 1 \in 1..Len(q) /\ 7 \in 1..Len(q)
    BY <1>2
  <2> QED BY <1>2, <2>1, SubSeqRecursiveFirst
<1> QED BY <1>1, <1>2, <1>3 DEF From

-----------------------------------------------------------------------------
(* The requests in flight.                                                 *)

\* What Keeping blanks is of no use to the steps that are left.
LEMMA KeepingFields ==
    ASSUME NEW r \in Work, NEW op \in Op, NEW k \in 1..Len(Script[op]), r.todo = From(op, k)
    PROVE  /\ Keeping(r) \in Work
           /\ Keeping(r).todo = r.todo /\ Keeping(r).id = r.id
           /\ Keeping(r).wallet = r.wallet /\ Keeping(r).old = r.old
           /\ op \in {"choose", "assign"} \/ (op = "activate" /\ k < 3) => Keeping(r).role = r.role
           /\ op \in {"verify", "choose", "activate"} => Keeping(r).row = r.row
           /\ op = "assign" => Keeping(r).user = r.user
<1> DEFINE Left(steps) == \E m \in DOMAIN r.todo : r.todo[m] \in steps
<1>1. ASSUME NEW j \in k..Len(Script[op]), NEW S, Script[op][j] \in S PROVE Left(S)
  <2>1. j - k + 1 \in DOMAIN r.todo /\ r.todo[j - k + 1] = Script[op][j]
    BY FromStep
  <2> QED BY <1>1, <2>1
<1>2. PICK a, b, c, d :
        /\ a = IF Left(Transaction) THEN r.actor ELSE None
        /\ b = IF Left({"ensureRole", "submitRole", "saveRole", "saveUserRole"}) THEN r.role ELSE None
        /\ c = IF Left({"saveVerified", "saveRole", "saveActive", "saveUser"}) THEN r.row ELSE NoIdentity
        /\ d = IF Left({"saveUserRole"}) THEN r.user ELSE NoUser
  OBVIOUS
<1>3. Keeping(r) = [r EXCEPT !.actor = a, !.role = b, !.row = c, !.user = d]
  BY <1>2 DEF Keeping
<1>a. Len(Script[op]) \in Nat /\ k \in Nat
  BY ScriptsTyped
<1>4. op \in {"choose", "assign"} \/ (op = "activate" /\ k < 3) => b = r.role
  <2>1. CASE op = "choose"
    <3>1. 1 \in k..Len(Script[op]) /\ Script[op][1] = "saveRole"
      BY <2>1, Scripts
    <3> HIDE DEF Left
    <3> QED BY <1>1, <1>2, <3>1
  <2>2. CASE op = "assign"
    <3>1. 3 \in k..Len(Script[op]) /\ Script[op][3] = "saveUserRole"
      BY <2>2, Scripts
    <3> HIDE DEF Left
    <3> QED BY <1>1, <1>2, <3>1
  <2>3. CASE op = "activate" /\ k < 3
    <3>1. 2 \in k..Len(Script[op]) /\ Script[op][2] = "ensureRole"
      BY <2>3, Scripts
    <3> HIDE DEF Left
    <3> QED BY <1>1, <1>2, <3>1
  <2> QED BY <2>1, <2>2, <2>3
<1>5. op \in {"verify", "choose", "activate"} => c = r.row
  <2>1. CASE op = "verify"
    <3>1. 1 \in k..Len(Script[op]) /\ Script[op][1] = "saveVerified"
      BY <2>1, Scripts
    <3> HIDE DEF Left
    <3> QED BY <1>1, <1>2, <3>1
  <2>2. CASE op = "choose"
    <3>1. 1 \in k..Len(Script[op]) /\ Script[op][1] = "saveRole"
      BY <2>2, Scripts
    <3> HIDE DEF Left
    <3> QED BY <1>1, <1>2, <3>1
  <2>3. CASE op = "activate"
    <3>1. 7 \in k..Len(Script[op]) /\ Script[op][7] = "saveUser"
      BY <2>3, Scripts
    <3> HIDE DEF Left
    <3> QED BY <1>1, <1>2, <3>1
  <2> QED BY <2>1, <2>2, <2>3
<1>6. op = "assign" => d = r.user
  <2> SUFFICES ASSUME op = "assign" PROVE d = r.user
    OBVIOUS
  <2>1. 3 \in k..Len(Script[op]) /\ Script[op][3] = "saveUserRole"
    BY Scripts
  <2> HIDE DEF Left
  <2> QED BY <1>1, <1>2, <2>1
<1>7. /\ a \in Identity \cup {None} /\ b \in Role \cup {None} /\ c \in IdentityRow
      /\ d \in UserRow \cup {NoUser}
  <2>1. NoIdentity \in IdentityRow
    BY DEF NoIdentity, IdentityRow
  <2>2. /\ r.actor \in Identity \cup {None} /\ r.role \in Role \cup {None} /\ r.row \in IdentityRow
        /\ r.user \in UserRow \cup {NoUser}
    BY DEF Work
  <2> HIDE DEF Left
  <2> QED BY <1>2, <2>1, <2>2
<1>8. Keeping(r) \in Work
  BY <1>3, <1>7 DEF Work
<1>9. /\ Keeping(r).todo = r.todo /\ Keeping(r).id = r.id /\ Keeping(r).wallet = r.wallet
      /\ Keeping(r).old = r.old /\ Keeping(r).role = b /\ Keeping(r).row = c /\ Keeping(r).user = d
  BY <1>3 DEF Work
<1> QED BY <1>4, <1>5, <1>6, <1>8, <1>9

\* The chain only ever adds: a revoked wallet stays revoked, one that was
\* activated is never pending again, and roles are not taken away.
Grows ==
    /\ \A w \in Wallet : (Revoked(w) => Revoked(w)') /\ (Activated(w) => Activated(w)')
    /\ \A i \in Identity : chainRoles[i] \subseteq chainRoles'[i]

\* A request the step is not about stands where it did: the chain only grows.
LEMMA StandsStill ==
    ASSUME NEW r \in Work, NEW op \in Op, NEW k \in Nat, Stands(r, op, k), Grows
    PROVE  Stands(r, op, k)'
<1>1. r.id \in Identity /\ r.old \in Seq(Wallet) /\ (Len(r.old) = 1 => r.old # <<>>)
  BY DEF Work
<1>2. (op \in {"replace", "revoke"} /\ k = 2) \/ (op = "drop" /\ k > 1) => Head(r.old) \in Wallet
  <2>1. (op \in {"replace", "revoke"} /\ k = 2) \/ (op = "drop" /\ k > 1) => r.old # <<>>
    BY <1>1 DEF Stands, Holding
  <2> QED BY <1>1, <2>1
<1>3. op \in {"activate", "replace"} => r.wallet \in Wallet
  BY DEF Stands, Holding
<1>4. Confirmed(r, op, k)
  BY DEF Stands
<1>5. Confirmed(r, op, k)'
  <2>1. op = "assign" /\ k > 1 => r.role \in chainRoles'[r.id]
    BY <1>1, <1>4 DEF Confirmed, Grows
  <2>2. op = "activate" /\ k > 2 => r.row.role \in chainRoles'[r.id]
    BY <1>1, <1>4 DEF Confirmed, Grows
  <2>5. op = "replace" /\ k > 6 => r.user.role \in chainRoles'[r.id]
    BY <1>1, <1>4 DEF Confirmed, Grows
  <2>3. (op = "activate" /\ k > 3) \/ (op = "replace" /\ k > 4) => Activated(r.wallet)'
    BY <1>3, <1>4 DEF Confirmed, Grows
  <2>4. (op \in {"replace", "revoke"} /\ k = 2) \/ (op = "drop" /\ k > 1) => Revoked(Head(r.old))'
    BY <1>2, <1>4 DEF Confirmed, Grows
  <2> QED BY <2>1, <2>2, <2>3, <2>4, <2>5 DEF Confirmed
<1> QED BY <1>5 DEF Stands

\* A request stands where it stood, or where its own step has brought it.
LEMMA RequestMoves ==
    ASSUME UsersInv, Grows, NEW s \in Slot, NEW q, req' = [req EXCEPT ![s] = q],
           q = Idle \/ (q \in Work /\ \E op \in Op, k \in Nat : Stands(q, op, k)')
    PROVE  req' \in [Slot -> Work \cup {Idle}] /\ RequestsStand'
<1>0. req \in [Slot -> Work \cup {Idle}] /\ Idle \notin Work
  BY DEF UsersInv, UsersTypes, Work, Idle
<1>1. req' \in [Slot -> Work \cup {Idle}]
  BY <1>0
<1>2. ASSUME NEW t \in Slot, NEW r \in Work, req'[t] = r
      PROVE  \E op \in Op, k \in Nat : Stands(r, op, k)'
  <2>1. CASE t = s
    BY <1>0, <1>2, <2>1
  <2>2. CASE t # s
    <3>1. PICK op \in Op, k \in Nat : Stands(r, op, k)
      BY <1>0, <1>2, <2>2 DEF UsersInv, RequestsStand
    <3> QED BY <3>1, StandsStill
  <2> QED BY <2>1, <2>2
<1> QED BY <1>1, <1>2 DEF RequestsStand

\* A request comes to a place of its script; what activateWallet reads last is
\* not Keeping's to keep.
LEMMA KeepingMoves ==
    ASSUME UsersInv, Grows, NEW s \in Slot, NEW d \in Work,
           NEW op \in Op, NEW k \in 1..Len(Script[op]), ~(op = "replace" /\ k > 6),
           d.todo = From(op, k), Holding(d, op, k), Confirmed(d, op, k)', req' = [req EXCEPT ![s] = Keeping(d)]
    PROVE  req' \in [Slot -> Work \cup {Idle}] /\ RequestsStand'
<1>1. PICK q : q = Keeping(d)
  OBVIOUS
<1>2. /\ q \in Work /\ q.todo = d.todo /\ q.id = d.id /\ q.wallet = d.wallet /\ q.old = d.old
      /\ op \in {"choose", "assign"} \/ (op = "activate" /\ k < 3) => q.role = d.role
      /\ op \in {"verify", "choose", "activate"} => q.row = d.row
      /\ op = "assign" => q.user = d.user
  BY <1>1, KeepingFields
<1>3. Holding(q, op, k)
  BY <1>2 DEF Holding
<1>4. Confirmed(q, op, k)'
  BY <1>2 DEF Confirmed, Revoked, Activated
<1>5. k \in Nat /\ Stands(q, op, k)'
  BY <1>2, <1>3, <1>4, ScriptsTyped DEF Stands
<1> QED BY <1>1, <1>2, <1>5, RequestMoves

\* A request goes on to a step whose needs are met.
LEMMA OnwardMoves ==
    ASSUME UsersInv, Grows, NEW s \in Slot, NEW r \in Work, r = req[s],
           NEW op \in Op, NEW k \in 1..Len(Script[op]), ~(op = "replace" /\ k > 6),
           NEW old \in Seq(Wallet), NEW d,
           d = [r EXCEPT !.todo = From(op, k), !.old = old],
           Holding(d, op, k), Confirmed(d, op, k)', Onward(s, From(op, k), old)
    PROVE  req' \in [Slot -> Work \cup {Idle}] /\ RequestsStand'
<1>1. From(op, k) \in Seq(Steps) /\ From(op, k) # <<>>
  BY FromStep
<1>2. d \in Work /\ d.todo = From(op, k)
  BY <1>1 DEF Work
<1>3. req' = [req EXCEPT ![s] = Keeping(d)]
  BY <1>1 DEF Onward
<1> QED BY <1>2, <1>3, KeepingMoves

\* A request that ends.
LEMMA EndMoves ==
    ASSUME UsersInv, Grows, NEW s \in Slot, req' = [req EXCEPT ![s] = Idle]
    PROVE  req' \in [Slot -> Work \cup {Idle}] /\ RequestsStand'
BY RequestMoves

\* What a step is there for: the transaction that is confirmed by it.
Done(r, op, k) ==
    /\ op = "assign" /\ k = 1 => r.role \in chainRoles[r.id]
    /\ op = "activate" /\ k = 2 => r.role \in chainRoles[r.id]
    /\ (op = "activate" /\ k = 3) \/ (op = "replace" /\ k = 4) => Activated(r.wallet)
    /\ op \in {"replace", "revoke", "drop"} /\ k = 1 => Revoked(Head(r.old))

\* A request passes from one step to the next.
LEMMA PassMoves ==
    ASSUME UsersInv, Grows, NEW s \in Slot, NEW r \in Work, r = req[s],
           NEW op \in Op, NEW k \in Nat, ~(op = "replace" /\ k = 6), Stands(r, op, k),
           Done(r, op, k)', Pass(s)
    PROVE  req' \in [Slot -> Work \cup {Idle}] /\ RequestsStand'
<1>0. /\ r.todo = From(op, k) /\ k \in 1..Len(Script[op]) /\ r.old \in Seq(Wallet)
      /\ Len(Script[op]) \in Nat /\ Holding(r, op, k) /\ r # Idle
  <2>1. r.todo # <<>> /\ r.old \in Seq(Wallet)
    BY DEF Work
  <2>2. r # Idle
    BY <2>1 DEF Idle
  <2> QED BY <2>1, <2>2, ScriptsTyped DEF Stands
<1>c. /\ Len(r.old) = 1 => r.old # <<>>
      /\ Len(r.old) \in Nat
  <2>1. r.old \in Seq(Wallet)
    BY <1>0
  <2>2. Len(<<>>) = 0
    BY EmptySeq
  <2> QED BY ONLY <2>1, <2>2, LenProperties
<1>d. Script[op][k] = "saveRevoked" =>
        (op \in {"replace", "revoke"} /\ k = 2) \/ (op = "drop" /\ k = 3)
  BY <1>0, Places
<1>a. Stands(r, op, k)'
  BY StandsStill
<1>b. At(s, "saveRevoked") <=> Script[op][k] = "saveRevoked"
  BY <1>0, FromStep DEF At
<1>1. CASE k = Len(Script[op]) /\ ~(At(s, "saveRevoked") /\ Len(r.old) > 1)
  <2>1. Tail(r.todo) = <<>>
    <3>1. k = Len(Script[op]) => Tail(From(op, k)) = <<>>
      BY <1>0, FromStep
    <3> QED BY <1>0, <1>1, <3>1
  <2>2. req' = [req EXCEPT ![s] = Idle]
    BY <1>1, <2>1 DEF Pass, Onward
  <2> QED BY <2>2, EndMoves
<1>2. CASE At(s, "saveRevoked") /\ Len(r.old) > 1
  <2>1. op = "replace" /\ k = 2
    <3>1. (op \in {"replace", "revoke"} /\ k = 2) \/ (op = "drop" /\ k = 3)
      BY <1>2, <1>b, <1>d
    <3>2. op \notin {"revoke", "drop"}
      <4>1. op \in {"revoke", "drop"} => Len(r.old) = 1
        BY <1>0 DEF Holding
      <4>2. Len(r.old) > 1 /\ Len(r.old) \in Nat
        BY <1>2, <1>c
      <4>3. Len(r.old) # 1
        <5>1. ASSUME NEW n \in Nat, n > 1 PROVE n # 1
          BY <5>1
        <5> QED BY <4>2, <5>1, Zenon
      <4> QED BY <4>1, <4>3, Zenon
    <3> QED BY <3>1, <3>2
  <2>2. PICK old : old = Tail(r.old)
    OBVIOUS
  <2>3. old \in Seq(Wallet) /\ old # <<>>
    <3>1. r.old # <<>>
      BY <1>0, <1>2
    <3>2. old \in Seq(Wallet) /\ Len(old) = Len(r.old) - 1
      BY <1>0, <2>2, <3>1, HeadTailProperties
    <3> QED BY <1>0, <1>2, <3>2
  <2>4. Onward(s, From("replace", 1), old)
    BY <1>0, <1>2, <2>1, <2>2, LoopAgain DEF Pass
  <2>5. "replace" \in Op /\ 1 \in 1..Len(Script["replace"])
    BY Scripts
  <2>6. PICK d : d = [r EXCEPT !.todo = From("replace", 1), !.old = old]
    OBVIOUS
  <2>7. d.wallet = r.wallet /\ d.id = r.id /\ d.old = old
    BY <2>6 DEF Work
  <2>8. Holding(d, "replace", 1) /\ Confirmed(d, "replace", 1)'
    BY <1>0, <2>1, <2>3, <2>7 DEF Holding, Confirmed
  <2>9. ~("replace" = "replace" /\ 1 > 6)
    OBVIOUS
  <2> QED BY <2>3, <2>4, <2>5, <2>6, <2>8, <2>9, OnwardMoves
<1>3. CASE k < Len(Script[op]) /\ ~(At(s, "saveRevoked") /\ Len(r.old) > 1)
  <2>1. Tail(r.todo) = From(op, k + 1) /\ k + 1 \in 1..Len(Script[op])
    BY <1>0, <1>3, FromStep
  <2>2. PICK old : old = IF At(s, "saveRevoked") THEN Tail(r.old) ELSE r.old
    OBVIOUS
  <2>3. old \in Seq(Wallet)
    <3>1. At(s, "saveRevoked") => r.old # <<>>
      BY <1>0, <1>b, <1>c, <1>d DEF Holding
    <3> QED BY <1>0, <2>2, <3>1, HeadTailProperties
  <2>4. Onward(s, From(op, k + 1), old)
    BY <1>3, <2>1, <2>2 DEF Pass
  <2>5. PICK d : d = [r EXCEPT !.todo = From(op, k + 1), !.old = old]
    OBVIOUS
  <2>6. /\ d.wallet = r.wallet /\ d.id = r.id /\ d.old = old /\ d.role = r.role /\ d.row = r.row
        /\ d.user = r.user
    BY <2>5 DEF Work
  <2>7. At(s, "saveRevoked") => op = "replace" /\ k = 2
    <3>2. ASSUME Script[op][k] = "saveRevoked" PROVE op = "replace" /\ k = 2
      <4>1. (op \in {"replace", "revoke"} /\ k = 2) \/ (op = "drop" /\ k = 3)
        BY <1>d, <3>2
      <4>2. Len(Script["revoke"]) = 2 /\ Len(Script["drop"]) = 3
        BY Scripts
      <4>3. k # Len(Script[op])
        BY <1>0, <1>3
      <4> QED BY <4>1, <4>2, <4>3, Zenon
    <3> QED BY <1>b, <3>2
  <2>8. op = "replace" /\ k = 2 => At(s, "saveRevoked")
    BY <1>b, Scripts
  <2>9. Holding(d, op, k + 1)
    BY <1>0, <2>2, <2>6, <2>7, <2>8 DEF Holding
  <2>10. Confirmed(d, op, k + 1)'
    BY <1>0, <1>a, <2>2, <2>6, <2>7, <2>8 DEF Stands, Holding, Confirmed, Done, Activated, Revoked
  <2>11. ~(op = "replace" /\ k + 1 > 6)
    <3>1. Len(Script["replace"]) = 7
      BY Scripts
    <3>2. SUFFICES ASSUME op = "replace" PROVE ~(k + 1 > 6)
      OBVIOUS
    <3>3. k < 7 /\ k # 6 /\ k \in Nat
      BY <1>3, <3>1, <3>2
    <3> QED BY <3>3
  <2> QED BY <2>1, <2>3, <2>4, <2>5, <2>9, <2>10, <2>11, OnwardMoves
<1> QED BY <1>0, <1>1, <1>2, <1>3

-----------------------------------------------------------------------------
(* The steps of requests.                                                  *)

\* The place at which a step is taken.
LEMMA AtPlace ==
    ASSUME UsersInv, NEW s \in Slot, NEW step, At(s, step)
    PROVE  /\ req[s] \in Work
           /\ \E op \in Op, k \in Nat :
                 Stands(req[s], op, k) /\ k \in 1..Len(Script[op]) /\ Script[op][k] = step
<1>1. req[s] \in Work
  BY DEF UsersInv, UsersTypes, At
<1>2. PICK op \in Op, k \in Nat : Stands(req[s], op, k)
  BY <1>1 DEF UsersInv, RequestsStand
<1>3. k \in 1..Len(Script[op]) /\ req[s].todo = From(op, k)
  BY <1>2 DEF Stands
<1>4. Script[op][k] = step
  BY <1>3, FromStep DEF At
<1> QED BY <1>1, <1>2, <1>3, <1>4

\* Rows that are not written stay behind a chain that only adds.
LEMMA RowsKept ==
    ASSUME UsersInv, Grows, UNCHANGED rows
    PROVE  RowsSound'
<1>1. UNCHANGED <<identity, device, wallet, user>>
  BY DEF rows
<1>2. \A w \in Wallet : (wallet[w] = "REVOKED" => Revoked(w)') /\ (wallet[w] = "ACTIVE" => Activated(w)')
  BY DEF UsersInv, RowsSound, Grows
<1>3. \A i \in Identity :
        /\ user[i] # NoUser => user[i].role \in chainRoles'[i] /\ HolderOf[user[i].wallet] = i
        /\ identity[i].status = "ACTIVE" => identity[i].role \in chainRoles'[i]
  BY DEF UsersInv, RowsSound, Grows
<1> QED BY <1>1, <1>2, <1>3 DEF RowsSound

\* A save leaves the chain alone.
LEMMA StillGrows ==
    ASSUME UNCHANGED chainVars
    PROVE  Grows
BY DEF chainVars, Grows, Revoked, Activated

\* A transaction: the chain changes, a receipt is awaited.
LEMMA TransactionKeeps ==
    ASSUME UsersInv, Grows, NEW s \in Slot, UNCHANGED rows,
           chainWallet' \in [Wallet -> Status], chainRoles' \in [Identity -> SUBSET Role],
           req' \in [Slot -> Work \cup {Idle}], RequestsStand'
    PROVE  UsersInv'
<1>1. UNCHANGED <<identity, device, wallet, user>>
  BY DEF rows
<1>2. UsersTypes'
  BY <1>1 DEF UsersInv, UsersTypes
<1>3. RowsSound'
  BY RowsKept
<1> QED BY <1>2, <1>3 DEF UsersInv

\* WALLET_REVOKE, and ensureWalletRevoked.
LEMMA RevokeKeeps ==
    ASSUME UsersInv, NEW s \in Slot, Revoke(s)
    PROVE  UsersInv'
<1>0. PICK r : r = req[s]
  OBVIOUS
<1>1. PICK step : step \in {"revoke", "ensureRevoked"} /\ At(s, step)
  BY DEF Revoke
<1>2. PICK op \in Op, k \in Nat :
        r \in Work /\ Stands(r, op, k) /\ k \in 1..Len(Script[op]) /\ Script[op][k] = step
  BY <1>0, <1>1, AtPlace
<1>3. k = 1 /\ op \in {"replace", "revoke", "drop"}
  BY <1>1, <1>2, Places
<1>4. PICK w : w = Head(r.old)
  OBVIOUS
<1>5. w \in Wallet
  <2>1. r.old \in Seq(Wallet)
    BY <1>2 DEF Work
  <2>2. r.old # <<>>
    <3>1. op = "replace" => r.old # <<>>
      BY <1>2, <1>3 DEF Stands, Holding
    <3>2. op \in {"revoke", "drop"} => Len(r.old) = 1
      BY <1>2 DEF Stands, Holding
    <3>3. Len(<<>>) # 1
      BY EmptySeq
    <3> QED BY <1>3, <3>1, <3>2, <3>3, Zenon
  <2> QED BY <1>4, <2>1, <2>2, HeadTailProperties
<1>6. chainWallet \in [Wallet -> Status] /\ chainRoles \in [Identity -> SUBSET Role]
  BY DEF UsersInv, UsersTypes
<1>7. /\ UNCHANGED <<rows, chainRoles>>
      /\ chainWallet' = [chainWallet EXCEPT ![w] = "REVOKED"]
      /\ Pass(s) \/ req' = [req EXCEPT ![s] = Idle]
  <2>1. CASE SetChain(w, "REVOKED") /\ Receipt(s)
    BY <2>1 DEF Revoke, SetChain, Receipt
  <2>2. CASE chainWallet[w] = "REVOKED" /\ Pass(s) /\ UNCHANGED chainWallet
    BY <1>5, <1>6, <2>2 DEF Revoke
  <2> QED BY <1>0, <1>4, <2>1, <2>2 DEF Revoke
<1>8. chainWallet' \in [Wallet -> Status] /\ Revoked(w)'
  BY <1>5, <1>6, <1>7 DEF Status, Revoked
<1>9. Grows
  BY <1>5, <1>6, <1>7 DEF Grows, Revoked, Activated
<1>10. Done(r, op, k)'
  BY <1>3, <1>4, <1>8 DEF Done
<1>11. req' \in [Slot -> Work \cup {Idle}] /\ RequestsStand'
  <2>1. ~(op = "replace" /\ k = 6)
    BY <1>3
  <2> QED BY <1>0, <1>2, <1>7, <1>9, <1>10, <2>1, PassMoves, EndMoves
<1> QED BY <1>6, <1>7, <1>8, <1>9, <1>11, TransactionKeeps

\* ensureIdentityCreated and ensureWalletActive.
LEMMA WalletStepKeeps ==
    ASSUME UsersInv, NEW s \in Slot, EnsureIdentityCreated(s) \/ EnsureWalletActive(s)
    PROVE  UsersInv'
<1>0. PICK r : r = req[s]
  OBVIOUS
<1>1. PICK step : /\ step \in {"ensureCreated", "ensureActive"} /\ At(s, step)
                  /\ step = "ensureCreated" => EnsureIdentityCreated(s)
                  /\ step = "ensureActive" => EnsureWalletActive(s)
  BY DEF EnsureIdentityCreated, EnsureWalletActive
<1>2. PICK op \in Op, k \in Nat :
        r \in Work /\ Stands(r, op, k) /\ k \in 1..Len(Script[op]) /\ Script[op][k] = step
  BY <1>0, <1>1, AtPlace
<1>3. /\ op \in {"activate", "replace"}
      /\ step = "ensureCreated" => (op = "activate" /\ k = 1) \/ (op = "replace" /\ k = 3)
      /\ step = "ensureActive" => (op = "activate" /\ k = 3) \/ (op = "replace" /\ k = 4)
  BY <1>1, <1>2, Places
<1>4. PICK w : w = r.wallet
  OBVIOUS
<1>5. w \in Wallet
  BY <1>2, <1>3, <1>4 DEF Stands, Holding
<1>6. chainWallet \in [Wallet -> Status] /\ chainRoles \in [Identity -> SUBSET Role]
  BY DEF UsersInv, UsersTypes
<1>7. /\ UNCHANGED <<rows, chainRoles>>
      /\ Pass(s) \/ req' = [req EXCEPT ![s] = Idle]
  BY <1>1 DEF EnsureIdentityCreated, EnsureWalletActive, Receipt
<1>8. \/ UNCHANGED chainWallet
      \/ chainWallet[w] = "NONE" /\ chainWallet' = [chainWallet EXCEPT ![w] = "PENDING"]
      \/ chainWallet[w] = "PENDING" /\ chainWallet' = [chainWallet EXCEPT ![w] = "ACTIVE"]
  BY <1>0, <1>1, <1>4 DEF EnsureIdentityCreated, EnsureWalletActive, SetChain
<1>9. chainWallet' \in [Wallet -> Status]
  BY <1>5, <1>6, <1>8 DEF Status
<1>10. Grows
  BY <1>5, <1>6, <1>7, <1>8 DEF Grows, Revoked, Activated
<1>11. Done(r, op, k)'
  <2>1. step = "ensureActive" => Activated(w)'
    BY <1>0, <1>1, <1>4, <1>5, <1>6 DEF EnsureWalletActive, SetChain, Activated
  <2> QED BY <1>1, <1>3, <1>4, <2>1 DEF Done
<1>12. req' \in [Slot -> Work \cup {Idle}] /\ RequestsStand'
  <2>1. ~(op = "replace" /\ k = 6)
    BY <1>1, <1>3
  <2> QED BY <1>0, <1>2, <1>7, <1>10, <1>11, <2>1, PassMoves, EndMoves
<1> QED BY <1>6, <1>7, <1>9, <1>10, <1>12, TransactionKeeps

\* The role that getIdentity reports is one the chain has given.
LEMMA ReportedIsHeld ==
    ASSUME NEW i \in Identity, chainRoles[i] \subseteq Role, ChainRole(i) # None
    PROVE  ChainRole(i) \in chainRoles[i]
<1> DEFINE T == {k \in DOMAIN RoleOrder : RoleOrder[k] \in chainRoles[i]}
<1>1. T \in SUBSET Nat
  BY UsersAssumption
<1>2. T # {}
  <2>1. PICK x \in chainRoles[i] : TRUE
    BY DEF ChainRole
  <2>2. x \in Role
    BY <2>1
  <2> QED BY <2>1, <2>2 DEF Role
<1>3. \E n \in T : \A m \in T : n <= m
  <2> HIDE DEF T
  <2>1. IsWellFoundedOn(OpToRel(<, Nat), Nat)
    BY NatLessThanWellFounded
  <2>2. PICK n \in T : \A m \in T : ~(<<m, n>> \in OpToRel(<, Nat))
    BY <1>1, <1>2, <2>1, WFMin
  <2>3. \A a, b \in Nat : a < b => <<a, b>> \in OpToRel(<, Nat)
    BY Zenon DEF OpToRel
  <2>4. \A m \in T : m \in Nat /\ n \in Nat /\ ~(m < n)
    BY <1>1, <2>2, <2>3, Zenon
  <2> QED BY <2>4
<1>4. Min(T) \in T
  <2> HIDE DEF T
  <2> QED BY <1>3 DEF Min
<1>5. ChainRole(i) = RoleOrder[Min(T)]
  BY DEF ChainRole
<1> QED BY <1>4, <1>5

\* ROLE_ASSIGN, and ensureRoleAssigned.
LEMMA RoleStepKeeps ==
    ASSUME UsersInv, NEW s \in Slot, EnsureRoleAssigned(s)
    PROVE  UsersInv'
<1>0. PICK r : r = req[s]
  OBVIOUS
<1>1. PICK step : step \in {"ensureRole", "submitRole"} /\ At(s, step)
  BY DEF EnsureRoleAssigned
<1>2. PICK op \in Op, k \in Nat :
        r \in Work /\ Stands(r, op, k) /\ k \in 1..Len(Script[op]) /\ Script[op][k] = step
  BY <1>0, <1>1, AtPlace
<1>3. (op = "activate" /\ k = 2) \/ (op = "assign" /\ k = 1)
  BY <1>1, <1>2, Places
<1>4. r.role \in Role /\ r.id \in Identity /\ r.role # None
  <2>1. r.role \in Role
    BY <1>2, <1>3 DEF Stands, Holding
  <2> QED BY <1>2, <2>1, UsersAssumption DEF Work
<1>5. chainWallet \in [Wallet -> Status] /\ chainRoles \in [Identity -> SUBSET Role]
  BY DEF UsersInv, UsersTypes
<1>6. /\ UNCHANGED <<rows, chainWallet>>
      /\ chainRoles' = [chainRoles EXCEPT ![r.id] = @ \cup {r.role}]
      /\ Pass(s) \/ req' = [req EXCEPT ![s] = Idle]
  <2>1. CASE SubmitRole(s)
    BY <1>0, <2>1 DEF EnsureRoleAssigned, SubmitRole, Receipt
  <2>2. CASE ChainRole(r.id) = r.role /\ Pass(s) /\ UNCHANGED chainRoles
    <3>1. r.role \in chainRoles[r.id]
      BY <1>4, <1>5, <2>2, ReportedIsHeld
    <3> QED BY <1>4, <1>5, <2>2, <3>1 DEF EnsureRoleAssigned
  <2> QED BY <1>0, <2>1, <2>2 DEF EnsureRoleAssigned
<1>7. chainRoles' \in [Identity -> SUBSET Role] /\ r.role \in chainRoles'[r.id]
  BY <1>4, <1>5, <1>6
<1>8. Grows
  BY <1>4, <1>5, <1>6 DEF Grows, Revoked, Activated
<1>9. Done(r, op, k)'
  BY <1>3, <1>7 DEF Done
<1>10. req' \in [Slot -> Work \cup {Idle}] /\ RequestsStand'
  <2>1. ~(op = "replace" /\ k = 6)
    BY <1>3
  <2> QED BY <1>0, <1>2, <1>6, <1>8, <1>9, <2>1, PassMoves, EndMoves
<1> QED BY <1>5, <1>6, <1>7, <1>8, <1>10, TransactionKeeps

\* After a step that is no transaction nothing more needs to be confirmed.
LEMMA SaveMoves ==
    ASSUME UsersInv, NEW s \in Slot, NEW step, step \notin Transaction, step # "readUser", At(s, step), Pass(s),
           UNCHANGED chainVars
    PROVE  /\ req' \in [Slot -> Work \cup {Idle}] /\ RequestsStand'
           /\ chainWallet' \in [Wallet -> Status] /\ chainRoles' \in [Identity -> SUBSET Role]
<1>0. PICK r : r = req[s]
  OBVIOUS
<1>1. PICK op \in Op, k \in Nat :
        r \in Work /\ Stands(r, op, k) /\ k \in 1..Len(Script[op]) /\ Script[op][k] = step
  BY <1>0, AtPlace
<1>2. /\ ~(op = "assign" /\ k = 1) /\ ~(op = "activate" /\ k \in {2, 3})
      /\ ~(op = "replace" /\ k \in {1, 4}) /\ ~(op \in {"revoke", "drop"} /\ k = 1)
  <2>1. ~(op = "assign" /\ k = 1)
    BY <1>1, Scripts DEF Transaction
  <2>2. ~(op = "activate" /\ k \in {2, 3})
    BY <1>1, Scripts DEF Transaction
  <2>3. ~(op = "replace" /\ k \in {1, 4})
    BY <1>1, Scripts DEF Transaction
  <2>4. ~(op = "revoke" /\ k = 1)
    BY <1>1, Scripts DEF Transaction
  <2>5. ~(op = "drop" /\ k = 1)
    BY <1>1, Scripts DEF Transaction
  <2> QED BY <2>1, <2>2, <2>3, <2>4, <2>5
<1>5. ~(op = "replace" /\ k = 6)
  BY <1>1, Scripts
<1>3. Done(r, op, k)'
  BY <1>2 DEF Done
<1>4. Grows
  BY StillGrows
<1> QED BY <1>0, <1>1, <1>3, <1>4, <1>5, PassMoves DEF UsersInv, UsersTypes, chainVars

\* The saves of identity rows: only an activation makes one ACTIVE, and its
\* role was confirmed before.
LEMMA SaveIdentityKeeps ==
    ASSUME UsersInv, NEW s \in Slot, SaveIdentity(s)
    PROVE  UsersInv'
<1>0. PICK r : r = req[s]
  OBVIOUS
<1>1. PICK step : step \in {"newIdentity", "saveVerified", "saveRole", "saveActive"} /\ At(s, step)
  BY DEF SaveIdentity
<1>2. PICK op \in Op, k \in Nat :
        r \in Work /\ Stands(r, op, k) /\ k \in 1..Len(Script[op]) /\ Script[op][k] = step
  BY <1>0, <1>1, AtPlace
<1>3. PICK row : /\ identity' = [identity EXCEPT ![r.id] = row]
                 /\ step = "newIdentity"  => row = [NoIdentity EXCEPT !.status = "PENDING"]
                 /\ step = "saveVerified" => row = [r.row EXCEPT !.verified = TRUE]
                 /\ step = "saveRole"     => row = [r.row EXCEPT !.role = r.role]
                 /\ step = "saveActive"   => row = [r.row EXCEPT !.status = "ACTIVE"]
  BY <1>0, <1>1 DEF SaveIdentity, At
<1>4. UNCHANGED <<device, wallet, user, chainWallet, chainRoles>> /\ UNCHANGED chainVars
  BY DEF SaveIdentity, chainVars
<1>5. r.id \in Identity /\ r.row \in IdentityRow /\ r.role \in Role \cup {None}
  BY <1>2 DEF Work
<1>6. row \in IdentityRow /\ (row.status = "ACTIVE" => row.role \in chainRoles[r.id])
  <2>1. CASE step = "newIdentity"
    BY <1>3, <2>1 DEF NoIdentity, IdentityRow
  <2>2. CASE step = "saveVerified"
    <3>1. op = "verify"
      BY <1>2, <2>2, Places
    <3>2. r.row.status = "PENDING"
      BY <1>2, <3>1 DEF Stands, Holding
    <3> QED BY <1>3, <1>5, <2>2, <3>2 DEF IdentityRow
  <2>3. CASE step = "saveRole"
    <3>1. op = "choose" \/ (op = "assign" /\ k = 2)
      BY <1>2, <2>3, Places
    <3>2. op = "choose" => r.row.status = "PENDING"
      BY <1>2 DEF Stands, Holding
    <3>3. op = "assign" /\ k = 2 => r.role \in chainRoles[r.id]
      BY <1>2 DEF Stands, Confirmed
    <3>4. row \in IdentityRow /\ row.status = r.row.status /\ row.role = r.role
      BY <1>3, <1>5, <2>3 DEF IdentityRow
    <3> QED BY <3>1, <3>2, <3>3, <3>4
  <2>4. CASE step = "saveActive"
    <3>1. op = "activate" /\ k = 4
      BY <1>2, <2>4, Places
    <3>2. r.row.role \in chainRoles[r.id]
      BY <1>2, <3>1 DEF Stands, Confirmed
    <3> QED BY <1>3, <1>5, <2>4, <3>2 DEF IdentityRow
  <2> QED BY <1>1, <2>1, <2>2, <2>3, <2>4
<1>7. /\ req' \in [Slot -> Work \cup {Idle}] /\ RequestsStand'
      /\ chainWallet' \in [Wallet -> Status] /\ chainRoles' \in [Identity -> SUBSET Role]
  <2>1. step \notin Transaction /\ step # "readUser"
    BY <1>1 DEF Transaction
  <2>2. Pass(s)
    BY DEF SaveIdentity
  <2> QED BY <1>1, <1>4, <2>1, <2>2, SaveMoves
<1>8. identity' \in [Identity -> IdentityRow] /\ \A i \in Identity : i # r.id => identity'[i] = identity[i]
  BY <1>3, <1>5, <1>6 DEF UsersInv, UsersTypes
<1>9. identity'[r.id] = row
  BY <1>3, <1>5 DEF UsersInv, UsersTypes
<1>10. UsersTypes'
  BY <1>4, <1>7, <1>8 DEF UsersInv, UsersTypes
<1>11. RowsSound'
  BY <1>4, <1>6, <1>8, <1>9 DEF UsersInv, RowsSound, Revoked, Activated
<1> QED BY <1>7, <1>10, <1>11 DEF UsersInv

\* The saves of device rows, of which the chain knows nothing.
LEMMA SaveDeviceKeeps ==
    ASSUME UsersInv, NEW s \in Slot, SaveDevice(s)
    PROVE  UsersInv'
<1>1. PICK step : step \in {"newDevice", "saveDevice", "dropDevice"} /\ At(s, step)
  BY DEF SaveDevice
<1>2. UNCHANGED <<identity, wallet, user, chainWallet, chainRoles>> /\ UNCHANGED chainVars
  BY DEF SaveDevice, chainVars
<1>3. /\ req' \in [Slot -> Work \cup {Idle}] /\ RequestsStand'
      /\ chainWallet' \in [Wallet -> Status] /\ chainRoles' \in [Identity -> SUBSET Role]
  <2>1. step \notin Transaction /\ step # "readUser"
    BY <1>1 DEF Transaction
  <2>2. Pass(s)
    BY DEF SaveDevice
  <2> QED BY <1>1, <1>2, <2>1, <2>2, SaveMoves
<1>4. device' \in [Wallet -> Status]
  <2>1. \E w : \E v \in Status : device' = [device EXCEPT ![w] = v]
    BY DEF SaveDevice, Status
  <2> QED BY <2>1 DEF UsersInv, UsersTypes
<1>5. UsersTypes'
  BY <1>2, <1>3, <1>4 DEF UsersInv, UsersTypes
<1>6. RowsSound'
  BY <1>2 DEF UsersInv, RowsSound, Revoked, Activated
<1> QED BY <1>3, <1>5, <1>6 DEF UsersInv

\* The saves of wallet rows: each follows the transaction it reports.
LEMMA SaveWalletKeeps ==
    ASSUME UsersInv, NEW s \in Slot, SaveWallet(s)
    PROVE  UsersInv'
<1>0. PICK r : r = req[s]
  OBVIOUS
<1>1. PICK step, w, v :
        /\ step \in {"newWallet", "saveWallet", "saveRevoked"} /\ At(s, step)
        /\ wallet' = [wallet EXCEPT ![w] = v]
        /\ step = "newWallet"   => w = r.wallet /\ v = "PENDING"
        /\ step = "saveWallet"  => w = r.wallet /\ v = "ACTIVE"
        /\ step = "saveRevoked" => w = Head(r.old) /\ v = "REVOKED"
  BY <1>0 DEF SaveWallet
<1>2. PICK op \in Op, k \in Nat :
        r \in Work /\ Stands(r, op, k) /\ k \in 1..Len(Script[op]) /\ Script[op][k] = step
  BY <1>0, <1>1, AtPlace
<1>3. UNCHANGED <<identity, device, user, chainWallet, chainRoles>> /\ UNCHANGED chainVars
  BY DEF SaveWallet, chainVars
<1>4. /\ v \in {"PENDING", "ACTIVE", "REVOKED"}
      /\ v = "ACTIVE" => Activated(w)
      /\ v = "REVOKED" => Revoked(w)
  <2>1. CASE step = "newWallet"
    BY <1>1, <2>1
  <2>2. CASE step = "saveWallet"
    <3>1. (op = "activate" /\ k = 6) \/ (op = "replace" /\ k = 5)
      BY <1>2, <2>2, Places
    <3>2. Activated(r.wallet)
      BY <1>2, <3>1 DEF Stands, Confirmed
    <3> QED BY <1>1, <2>2, <3>2
  <2>3. CASE step = "saveRevoked"
    <3>1. (op \in {"replace", "revoke"} /\ k = 2) \/ (op = "drop" /\ k = 3)
      BY <1>2, <2>3, Places
    <3>2. Revoked(Head(r.old))
      BY <1>2, <3>1 DEF Stands, Confirmed
    <3> QED BY <1>1, <2>3, <3>2
  <2> QED BY <1>1, <2>1, <2>2, <2>3
<1>5. /\ req' \in [Slot -> Work \cup {Idle}] /\ RequestsStand'
      /\ chainWallet' \in [Wallet -> Status] /\ chainRoles' \in [Identity -> SUBSET Role]
  <2>1. step \notin Transaction /\ step # "readUser"
    BY <1>1 DEF Transaction
  <2>2. Pass(s)
    BY DEF SaveWallet
  <2> QED BY <1>1, <1>3, <2>1, <2>2, SaveMoves
<1>6. /\ wallet' \in [Wallet -> Status]
      /\ \A x \in Wallet : wallet'[x] = IF x = w THEN v ELSE wallet[x]
  BY <1>1, <1>4 DEF UsersInv, UsersTypes, Status
<1>7. UsersTypes'
  BY <1>3, <1>5, <1>6 DEF UsersInv, UsersTypes
<1>8. RowsSound'
  BY <1>3, <1>4, <1>6 DEF UsersInv, RowsSound, Revoked, Activated
<1> QED BY <1>5, <1>7, <1>8 DEF UsersInv

\* The saves of user rows: the role was confirmed, the wallet is the person's.
LEMMA SaveUserKeeps ==
    ASSUME UsersInv, NEW s \in Slot, SaveUser(s)
    PROVE  UsersInv'
<1>0. PICK r : r = req[s]
  OBVIOUS
<1>1. PICK step : /\ step \in {"saveUser", "saveUserRole", "saveUserWallet"} /\ At(s, step)
                  /\ step = "saveUser" =>
                       user' = [user EXCEPT ![r.id] = [wallet |-> r.wallet, role |-> r.row.role]]
                  /\ step = "saveUserRole" =>
                       user' = [user EXCEPT ![r.id] = [r.user EXCEPT !.role = r.role]]
                  /\ step = "saveUserWallet" =>
                       user' = [user EXCEPT ![r.id] = [r.user EXCEPT !.wallet = r.wallet]]
  BY <1>0 DEF SaveUser
<1>2. PICK op \in Op, k \in Nat :
        r \in Work /\ Stands(r, op, k) /\ k \in 1..Len(Script[op]) /\ Script[op][k] = step
  BY <1>0, <1>1, AtPlace
<1>3. UNCHANGED <<identity, device, wallet, chainWallet, chainRoles>> /\ UNCHANGED chainVars
  BY DEF SaveUser, chainVars
<1>4. r.id \in Identity /\ user \in [Identity -> UserRow \cup {NoUser}] /\ r.user \in UserRow \cup {NoUser}
  BY <1>2 DEF Work, UsersInv, UsersTypes
<1>5. PICK row : /\ user' = [user EXCEPT ![r.id] = row]
                 /\ row = NoUser \/ (/\ row \in UserRow /\ row.role \in chainRoles[r.id]
                                     /\ HolderOf[row.wallet] = r.id)
  <2>0. chainRoles[r.id] \subseteq Role
    BY <1>4 DEF UsersInv, UsersTypes
  <2>1. CASE step = "saveUser"
    <3>1. op = "activate" /\ k = 7
      BY <1>2, <2>1, Places
    <3>2. r.row.role \in chainRoles[r.id] /\ r.wallet \in Wallet /\ HolderOf[r.wallet] = r.id
      BY <1>2, <3>1 DEF Stands, Holding, Confirmed
    <3>3. PICK row : row = [wallet |-> r.wallet, role |-> r.row.role]
      OBVIOUS
    <3>4. row \in UserRow /\ row.role \in chainRoles[r.id] /\ HolderOf[row.wallet] = r.id
      BY <2>0, <3>2, <3>3 DEF UserRow
    <3> QED BY <1>1, <2>1, <3>3, <3>4
  <2>2. CASE step = "saveUserRole"
    <3>1. op = "assign" /\ k = 3
      BY <1>2, <2>2, Places
    <3>2. r.user # NoUser /\ HolderOf[r.user.wallet] = r.id /\ r.role \in chainRoles[r.id]
      BY <1>2, <3>1 DEF Stands, Holding, Confirmed
    <3>3. PICK row : row = [r.user EXCEPT !.role = r.role]
      OBVIOUS
    <3>4. row \in UserRow /\ row.role \in chainRoles[r.id] /\ HolderOf[row.wallet] = r.id
      BY <1>4, <2>0, <3>2, <3>3 DEF UserRow
    <3> QED BY <1>1, <2>2, <3>3, <3>4
  <2>3. CASE step = "saveUserWallet"
    <3>1. op = "replace" /\ k = 7
      BY <1>2, <2>3, Places
    <3>2. /\ r.wallet \in Wallet /\ HolderOf[r.wallet] = r.id
          /\ r.user # NoUser /\ r.user.role \in chainRoles[r.id]
      BY <1>2, <3>1 DEF Stands, Holding, Confirmed
    <3>3. PICK row : row = [r.user EXCEPT !.wallet = r.wallet]
      OBVIOUS
    <3>4. row \in UserRow /\ row.role \in chainRoles[r.id] /\ HolderOf[row.wallet] = r.id
      BY <1>4, <3>2, <3>3 DEF UserRow
    <3> QED BY <1>1, <2>3, <3>3, <3>4
  <2> QED BY <1>1, <2>1, <2>2, <2>3
<1>6. /\ req' \in [Slot -> Work \cup {Idle}] /\ RequestsStand'
      /\ chainWallet' \in [Wallet -> Status] /\ chainRoles' \in [Identity -> SUBSET Role]
  <2>1. step \notin Transaction /\ step # "readUser"
    BY <1>1 DEF Transaction
  <2>2. Pass(s)
    BY DEF SaveUser
  <2> QED BY <1>1, <1>3, <2>1, <2>2, SaveMoves
<1>7. /\ user' \in [Identity -> UserRow \cup {NoUser}] /\ user'[r.id] = row
      /\ \A i \in Identity : i # r.id => user'[i] = user[i]
  BY <1>4, <1>5
<1>8. UsersTypes'
  BY <1>3, <1>6, <1>7 DEF UsersInv, UsersTypes
<1>9. RowsSound'
  BY <1>3, <1>4, <1>5, <1>7 DEF UsersInv, RowsSound, Revoked, Activated
<1> QED BY <1>6, <1>8, <1>9 DEF UsersInv

\* activateWallet reads the user row, whose role the chain has given.
LEMMA ReadUserKeeps ==
    ASSUME UsersInv, NEW s \in Slot, ReadUser(s)
    PROVE  UsersInv'
<1>0. PICK r : r = req[s]
  OBVIOUS
<1>1. PICK op \in Op, k \in Nat :
        r \in Work /\ Stands(r, op, k) /\ k \in 1..Len(Script[op]) /\ Script[op][k] = "readUser"
  BY <1>0, AtPlace DEF ReadUser
<1>2. op = "replace" /\ k = 6
  BY <1>1, Places
<1>3. /\ UNCHANGED rows /\ UNCHANGED chainVars /\ UNCHANGED <<chainWallet, chainRoles>>
      /\ chainWallet' \in [Wallet -> Status] /\ chainRoles' \in [Identity -> SUBSET Role]
  BY DEF ReadUser, chainVars, UsersInv, UsersTypes
<1>4. Grows
  BY <1>3, StillGrows
<1>5. req' \in [Slot -> Work \cup {Idle}] /\ RequestsStand'
  <2>1. CASE user[r.id] = NoUser
    BY <1>0, <1>4, <2>1, EndMoves DEF ReadUser
  <2>2. CASE user[r.id] # NoUser
    <3>1. PICK q : q = [r EXCEPT !.todo = Tail(@), !.user = user[r.id]]
      OBVIOUS
    <3>2. req' = [req EXCEPT ![s] = q]
      BY <1>0, <2>2, <3>1 DEF ReadUser
    <3>3. Tail(r.todo) = From("replace", 7) /\ 7 \in 1..Len(Script["replace"])
      <4>1. r.todo = From("replace", 6)
        BY <1>1, <1>2 DEF Stands
      <4>2. "replace" \in Op /\ Len(Script["replace"]) = 7
        BY Scripts
      <4>3. 6 \in 1..Len(Script["replace"]) /\ 6 < Len(Script["replace"])
        BY <4>2
      <4>4. Tail(From("replace", 6)) = From("replace", 6 + 1)
        BY ONLY <4>2, <4>3, FromStep
      <4> QED BY <4>1, <4>2, <4>4
    <3>4. From("replace", 7) \in Seq(Steps) /\ From("replace", 7) # <<>>
      BY <3>3, FromStep, Scripts
    <3>5. r.id \in Identity /\ user[r.id] \in UserRow /\ user[r.id].role \in chainRoles[r.id]
      BY <1>1, <2>2 DEF Work, UsersInv, UsersTypes, RowsSound
    <3>6. /\ q \in Work /\ q.todo = From("replace", 7) /\ q.user = user[r.id]
          /\ q.id = r.id /\ q.wallet = r.wallet /\ q.old = r.old
      BY <1>1, <3>1, <3>3, <3>4, <3>5 DEF Work
    <3>7. r.wallet \in Wallet /\ HolderOf[r.wallet] = r.id /\ Activated(r.wallet)
      BY <1>1, <1>2 DEF Stands, Holding, Confirmed
    <3>8. Holding(q, "replace", 7)
      BY <2>2, <3>6, <3>7 DEF Holding
    <3>9. Confirmed(q, "replace", 7)'
      BY <1>3, <3>5, <3>6, <3>7 DEF Confirmed, Activated
    <3>10. Stands(q, "replace", 7)' /\ "replace" \in Op /\ 7 \in Nat
      BY <1>1, <1>2, <3>3, <3>6, <3>8, <3>9 DEF Stands
    <3> QED BY <1>4, <3>2, <3>6, <3>10, RequestMoves
  <2> QED BY <2>1, <2>2
<1> QED BY <1>3, <1>4, <1>5, TransactionKeeps

\* A request that ends half-way leaves rows that lag, none that lead.
LEMMA AbandonKeeps ==
    ASSUME UsersInv, NEW s \in Slot, Abandon(s)
    PROVE  UsersInv'
<1>1. /\ UNCHANGED rows /\ UNCHANGED chainVars /\ req' = [req EXCEPT ![s] = Idle]
      /\ chainWallet' \in [Wallet -> Status] /\ chainRoles' \in [Identity -> SUBSET Role]
  BY DEF Abandon, chainVars, UsersInv, UsersTypes
<1>2. Grows
  BY <1>1, StillGrows
<1>3. req' \in [Slot -> Work \cup {Idle}] /\ RequestsStand'
  BY <1>1, <1>2, EndMoves
<1> QED BY <1>1, <1>2, <1>3, TransactionKeeps

-----------------------------------------------------------------------------
(* New requests.                                                           *)

\* An operation begins with the whole script.
LEMMA FromFirst ==
    ASSUME NEW op \in Op
    PROVE  From(op, 1) = Script[op] /\ 1 \in 1..Len(Script[op])
<1>1. PICK q : q = Script[op]
  OBVIOUS
<1>2. q \in Seq(Steps) /\ Len(q) \in 1..7
  BY <1>1, ScriptsTyped
<1>3. SubSeq(q, 1, Len(q)) = q
  BY ONLY <1>2, SubSeqFull
<1>4. From(op, 1) = Script[op]
  BY <1>1, <1>3 DEF From
<1>5. 1 \in 1..Len(q)
  <2>1. \A n \in 1..7 : 1 \in 1..n
    OBVIOUS
  <2>2. Len(q) \in 1..7
    BY <1>2
  <2> QED BY <2>1, <2>2, Zenon
<1> QED BY <1>1, <1>4, <1>5, Zenon

\* What a replacement has left when there is no wallet to replace.
LEMMA AfterLoop ==
    From("replace", 3) = <<"ensureCreated", "ensureActive", "saveWallet", "readUser", "saveUserWallet">>
<1>1. PICK q, f : q = Script["replace"] /\ f = SubSeq(q, 3, 7)
  OBVIOUS
<1>2. /\ q \in Seq(Steps) /\ Len(q) = 7
      /\ q[3] = "ensureCreated" /\ q[4] = "ensureActive" /\ q[5] = "saveWallet"
      /\ q[6] = "readUser" /\ q[7] = "saveUserWallet"
  <2>1. "replace" \in Op
    BY Scripts
  <2>2. q \in Seq(Steps)
    BY <1>1, <2>1, ScriptsTyped
  <2>3. /\ Len(q) = 7
        /\ q[3] = "ensureCreated" /\ q[4] = "ensureActive" /\ q[5] = "saveWallet"
        /\ q[6] = "readUser" /\ q[7] = "saveUserWallet"
    BY <1>1, Scripts
  <2> QED BY <2>2, <2>3
<1>3. /\ f \in Seq(Steps) /\ Len(f) = 5
      /\ f[1] = q[3] /\ f[2] = q[4] /\ f[3] = q[5] /\ f[4] = q[6] /\ f[5] = q[7]
  BY <1>1, <1>2, SubSeqProperties
<1>4. f = <<f[1], f[2], f[3], f[4], f[5]>>
  BY ONLY <1>3
<1> QED BY <1>1, <1>2, <1>3, <1>4 DEF From

\* An operation that begins stands at its first step, or past the loop.
LEMMA BeginKeeps ==
    ASSUME UsersInv, NEW s \in Slot, NEW a \in Identity \cup {None}, NEW i \in Identity,
           NEW w \in Wallet \cup {None}, NEW role \in Role \cup {None}, NEW old \in Seq(Wallet),
           NEW op \in Op, NEW k \in 1..Len(Script[op]), k = 1 \/ (op = "replace" /\ k = 3),
           NEW todo, todo = From(op, k), NEW d,
           d = [todo |-> todo, actor |-> a, id |-> i, wallet |-> w, role |-> role,
                old |-> old, row |-> identity[i], user |-> user[i]],
           Holding(d, op, k), Begin(s, a, i, w, role, old, todo)
    PROVE  UsersInv'
<1>1. /\ UNCHANGED rows /\ UNCHANGED chainVars /\ req' = [req EXCEPT ![s] = Keeping(d)]
      /\ chainWallet' \in [Wallet -> Status] /\ chainRoles' \in [Identity -> SUBSET Role]
  BY DEF Begin, chainVars, UsersInv, UsersTypes
<1>2. Grows
  BY <1>1, StillGrows
<1>3. d \in Work /\ d.todo = From(op, k)
  <2>1. todo \in Seq(Steps) /\ todo # <<>>
    BY FromStep
  <2> QED BY <2>1 DEF Work, UsersInv, UsersTypes
<1>4. Confirmed(d, op, k)'
  BY DEF Confirmed
<1>5. req' \in [Slot -> Work \cup {Idle}] /\ RequestsStand'
  <2>1. ~(op = "replace" /\ k > 6)
    OBVIOUS
  <2> QED BY <1>1, <1>2, <1>3, <1>4, <2>1, KeepingMoves
<1> QED BY <1>1, <1>2, <1>5, TransactionKeeps

\* initializeAccount.
LEMMA RegisterKeeps ==
    ASSUME UsersInv, NEW s \in Slot, NEW w \in Wallet, InitializeAccount(s, w)
    PROVE  UsersInv'
<1>1. PICK i, todo, op, d :
        /\ i = HolderOf[w] /\ todo = <<"newIdentity", "newDevice", "newWallet">> /\ op = "register"
        /\ d = [todo |-> todo, actor |-> None, id |-> i, wallet |-> w, role |-> None,
                old |-> <<>>, row |-> identity[i], user |-> user[i]]
  OBVIOUS
<1>2. op \in Op /\ todo = From(op, 1) /\ 1 \in 1..Len(Script[op])
  BY <1>1, Scripts, FromFirst
<1>3. Holding(d, op, 1)
  BY <1>1 DEF Holding
<1>4. i \in Identity
  BY <1>1, UsersAssumption
<1>5. Begin(s, None, i, w, None, <<>>, todo)
  BY <1>1 DEF InitializeAccount
<1>6. <<>> \in Seq(Wallet)
  OBVIOUS
<1> QED BY <1>1, <1>2, <1>3, <1>4, <1>5, <1>6, BeginKeeps

\* verifyRegistration.
LEMMA VerifyKeeps ==
    ASSUME UsersInv, NEW s \in Slot, NEW a \in Identity, NEW i \in Identity, VerifyRegistration(s, a, i)
    PROVE  UsersInv'
<1>1. PICK todo, op, d :
        /\ todo = <<"saveVerified">> /\ op = "verify"
        /\ d = [todo |-> todo, actor |-> a, id |-> i, wallet |-> None, role |-> None,
                old |-> <<>>, row |-> identity[i], user |-> user[i]]
  OBVIOUS
<1>2. op \in Op /\ todo = From(op, 1) /\ 1 \in 1..Len(Script[op])
  BY <1>1, Scripts, FromFirst
<1>3. Holding(d, op, 1)
  BY <1>1 DEF Holding, VerifyRegistration
<1>4. Begin(s, a, i, None, None, <<>>, todo)
  BY <1>1 DEF VerifyRegistration
<1>5. <<>> \in Seq(Wallet)
  OBVIOUS
<1> QED BY <1>1, <1>2, <1>3, <1>4, <1>5, BeginKeeps

\* assignRole, of a pending registration and of an employee.
LEMMA AssignKeeps ==
    ASSUME UsersInv, NEW s \in Slot, NEW a \in Identity, NEW i \in Identity, NEW role \in Role,
           AssignRole(s, a, i, role)
    PROVE  UsersInv'
<1>1. PICK todo, op, d :
        /\ \/ todo = <<"saveRole">> /\ op = "choose" /\ identity[i].status = "PENDING"
           \/ todo = <<"submitRole", "saveRole", "saveUserRole">> /\ op = "assign" /\ user[i] # NoUser
        /\ Begin(s, a, i, None, role, <<>>, todo)
        /\ d = [todo |-> todo, actor |-> a, id |-> i, wallet |-> None, role |-> role,
                old |-> <<>>, row |-> identity[i], user |-> user[i]]
  BY DEF AssignRole
<1>2. op \in Op /\ todo = From(op, 1) /\ 1 \in 1..Len(Script[op])
  <2>1. CASE op = "choose"
    BY <1>1, <2>1, Scripts, FromFirst
  <2>2. CASE op = "assign"
    BY <1>1, <2>2, Scripts, FromFirst
  <2> QED BY <1>1, <2>1, <2>2
<1>3. Holding(d, op, 1)
  BY <1>1 DEF Holding, UsersInv, RowsSound
<1>4. <<>> \in Seq(Wallet)
  OBVIOUS
<1> QED BY <1>1, <1>2, <1>3, <1>4, BeginKeeps

\* activateRegistration.
LEMMA ActivateKeeps ==
    ASSUME UsersInv, NEW s \in Slot, NEW a \in Identity, NEW i \in Identity, NEW w \in Wallet,
           ActivateRegistration(s, a, i, w)
    PROVE  UsersInv'
<1>1. PICK todo, op, d :
        /\ todo = <<"ensureCreated", "ensureRole", "ensureActive",
                    "saveActive", "saveDevice", "saveWallet", "saveUser">> /\ op = "activate"
        /\ d = [todo |-> todo, actor |-> a, id |-> i, wallet |-> w, role |-> identity[i].role,
                old |-> <<>>, row |-> identity[i], user |-> user[i]]
  OBVIOUS
<1>2. op \in Op /\ todo = From(op, 1) /\ 1 \in 1..Len(Script[op])
  BY <1>1, Scripts, FromFirst
<1>3. identity[i].role \in Role /\ HolderOf[w] = i
  BY DEF ActivateRegistration, UsersInv, UsersTypes, IdentityRow
<1>4. Holding(d, op, 1)
  BY <1>1, <1>3 DEF Holding
<1>5. Begin(s, a, i, w, identity[i].role, <<>>, todo)
  BY <1>1 DEF ActivateRegistration
<1>6. <<>> \in Seq(Wallet)
  OBVIOUS
<1> QED BY <1>1, <1>2, <1>3, <1>4, <1>5, <1>6, BeginKeeps

\* registerDevice and registerWallet.
LEMMA RegisterDeviceKeeps ==
    ASSUME UsersInv, NEW s \in Slot, NEW a \in Identity, NEW w \in Wallet,
           RegisterDevice(s, a, w) \/ RegisterWallet(s, a, w)
    PROVE  UsersInv'
<1>1. PICK i, todo, op, d :
        /\ i = HolderOf[w]
        /\ \/ todo = <<"saveDevice">> /\ op = "device"
           \/ todo = <<"newWallet">> /\ op = "wallet"
        /\ Begin(s, a, i, w, None, <<>>, todo)
        /\ d = [todo |-> todo, actor |-> a, id |-> i, wallet |-> w, role |-> None,
                old |-> <<>>, row |-> identity[i], user |-> user[i]]
  BY DEF RegisterDevice, RegisterWallet
<1>2. op \in Op /\ todo = From(op, 1) /\ 1 \in 1..Len(Script[op])
  <2>1. CASE op = "device"
    BY <1>1, <2>1, Scripts, FromFirst
  <2>2. CASE op = "wallet"
    BY <1>1, <2>2, Scripts, FromFirst
  <2> QED BY <1>1, <2>1, <2>2
<1>3. Holding(d, op, 1)
  BY <1>1 DEF Holding
<1>4. i \in Identity
  BY <1>1, UsersAssumption
<1>5. <<>> \in Seq(Wallet)
  OBVIOUS
<1> QED BY <1>1, <1>2, <1>3, <1>4, <1>5, BeginKeeps

\* revokeWallet and revokeDevice.
LEMMA RevocationKeeps ==
    ASSUME UsersInv, NEW s \in Slot, NEW a \in Identity, NEW w \in Wallet,
           RevokeWallet(s, a, w) \/ RevokeDevice(s, a, w)
    PROVE  UsersInv'
<1>1. PICK i, todo, op, d :
        /\ i = HolderOf[w]
        /\ \/ todo = <<"revoke", "saveRevoked">> /\ op = "revoke"
           \/ todo = <<"ensureRevoked", "dropDevice", "saveRevoked">> /\ op = "drop"
           \/ todo = <<"dropDevice">> /\ op = "forget"
        /\ Begin(s, a, i, None, None, <<w>>, todo)
        /\ d = [todo |-> todo, actor |-> a, id |-> i, wallet |-> None, role |-> None,
                old |-> <<w>>, row |-> identity[i], user |-> user[i]]
  BY DEF RevokeWallet, RevokeDevice
<1>2. op \in Op /\ todo = From(op, 1) /\ 1 \in 1..Len(Script[op])
  <2>1. CASE op = "revoke"
    BY <1>1, <2>1, Scripts, FromFirst
  <2>2. CASE op = "drop"
    BY <1>1, <2>2, Scripts, FromFirst
  <2>3. CASE op = "forget"
    BY <1>1, <2>3, Scripts, FromFirst
  <2> QED BY <1>1, <2>1, <2>2, <2>3
<1>3. Holding(d, op, 1)
  BY <1>1 DEF Holding
<1>4. i \in Identity /\ <<w>> \in Seq(Wallet)
  BY <1>1, UsersAssumption
<1> QED BY <1>1, <1>2, <1>3, <1>4, BeginKeeps

\* The wallets to be replaced are finitely many, so that they can be listed.
LEMMA ActiveListed ==
    ASSUME NEW i
    PROVE  SetToSeq(ActiveWallets(i)) \in Seq(Wallet)
<1>1. PICK S : S = ActiveWallets(i)
  OBVIOUS
<1>2. S \subseteq Wallet
  BY <1>1 DEF ActiveWallets, WalletsOf
<1>3. IsFiniteSet(S)
  BY <1>2, UsersAssumption, FS_Subset
<1>4. Cardinality(S) \in Nat
  BY <1>3, FS_CardinalityType
<1>5. \E f \in [1..Cardinality(S) -> S] : IsInjective(f)
  <2>1. PICK f : f \in Bijection(1..Cardinality(S), S)
    BY <1>3, FS_CardinalityType DEF ExistsBijection
  <2>2. f \in [1..Cardinality(S) -> S] /\ \A m, n \in 1..Cardinality(S) : f[m] = f[n] => m = n
    BY <2>1 DEF Bijection, Injection, IsInjective
  <2> QED BY <2>2 DEF IsInjective
<1>6. SetToSeq(S) \in [1..Cardinality(S) -> S]
  BY <1>5 DEF SetToSeq
<1>7. SetToSeq(S) \in Seq(Wallet)
  BY <1>2, <1>4, <1>6
<1> QED BY <1>1, <1>7

\* activateWallet, with and without wallets to replace.
LEMMA ReplaceKeeps ==
    ASSUME UsersInv, NEW s \in Slot, NEW a \in Identity, NEW w \in Wallet, ActivateWallet(s, a, w)
    PROVE  UsersInv'
<1>1. PICK i, old, op, k, todo, d :
        /\ i = HolderOf[w] /\ old = SetToSeq(ActiveWallets(i)) /\ op = "replace"
        /\ \/ old # <<>> /\ k = 1
              /\ todo = <<"revoke", "saveRevoked">>
                         \o <<"ensureCreated", "ensureActive", "saveWallet", "readUser", "saveUserWallet">>
           \/ old = <<>> /\ k = 3
              /\ todo = <<"ensureCreated", "ensureActive", "saveWallet", "readUser", "saveUserWallet">>
        /\ Begin(s, a, i, w, None, old, todo)
        /\ d = [todo |-> todo, actor |-> a, id |-> i, wallet |-> w, role |-> None,
                old |-> old, row |-> identity[i], user |-> user[i]]
  BY DEF ActivateWallet
<1>2. op \in Op /\ k \in 1..Len(Script[op])
  BY <1>1, Scripts
<1>3. todo = From(op, k)
  <2>1. CASE k = 1
    <3>1. todo = Script["replace"]
      BY <1>1, <2>1, Scripts
    <3> QED BY <1>1, <1>2, <2>1, <3>1, FromFirst
  <2>2. CASE k = 3
    BY <1>1, <2>2, AfterLoop
  <2> QED BY <1>1, <2>1, <2>2
<1>4. i \in Identity /\ old \in Seq(Wallet)
  BY <1>1, UsersAssumption, ActiveListed
<1>5. Holding(d, op, k)
  BY <1>1 DEF Holding
<1> QED BY <1>1, <1>2, <1>3, <1>4, <1>5, BeginKeeps

\* Any new request.
LEMMA RequestKeeps ==
    ASSUME UsersInv, NEW s \in Slot, Request(s)
    PROVE  UsersInv'
<1>1. CASE \E w \in Wallet : InitializeAccount(s, w)
  BY <1>1, RegisterKeeps
<1>2. ASSUME NEW a \in Identity, NEW i \in Identity,
             \/ VerifyRegistration(s, a, i)
             \/ \E role \in Role : AssignRole(s, a, i, role)
             \/ \E w \in Wallet : ActivateRegistration(s, a, i, w)
      PROVE  UsersInv'
  BY <1>2, VerifyKeeps, AssignKeeps, ActivateKeeps
<1>3. ASSUME NEW a \in Identity, NEW w \in Wallet,
             \/ RegisterDevice(s, a, w) \/ RegisterWallet(s, a, w)
             \/ ActivateWallet(s, a, w)
             \/ RevokeWallet(s, a, w) \/ RevokeDevice(s, a, w)
      PROVE  UsersInv'
  BY <1>3, RegisterDeviceKeeps, ReplaceKeeps, RevocationKeeps
<1> QED BY <1>1, <1>2, <1>3 DEF Request

\* Any step of a request in flight.
LEMMA UsersStepKeeps ==
    ASSUME UsersInv, NEW s \in Slot, UsersStep(s)
    PROVE  UsersInv'
BY RevokeKeeps, WalletStepKeeps, RoleStepKeeps, SaveIdentityKeeps, SaveDeviceKeeps, SaveWalletKeeps,
   ReadUserKeeps, SaveUserKeeps, AbandonKeeps DEF UsersStep

-----------------------------------------------------------------------------
(* The theorems.                                                           *)

\* The seeded employees have their roles and wallets on the chain.
LEMMA UsersInitial == UsersInit => UsersInv
<1> SUFFICES ASSUME UsersInit PROVE UsersInv
  OBVIOUS
<1> DEFINE Employee == {HolderOf[w] : w \in seeded}
           Signs(i) == CHOOSE w \in seeded : HolderOf[w] = i
<1>1. /\ identity = [i \in Identity |-> IF i \in Employee
                        THEN [status |-> "ACTIVE", role |-> SeedRole[i], verified |-> TRUE]
                        ELSE NoIdentity]
      /\ device = [w \in Wallet |-> IF w \in seeded THEN "ACTIVE" ELSE "NONE"]
      /\ wallet = device /\ chainWallet = device
      /\ user = [i \in Identity |-> IF i \in Employee
                   THEN [wallet |-> Signs(i), role |-> SeedRole[i]] ELSE NoUser]
      /\ chainRoles = [i \in Identity |-> IF i \in Employee THEN {SeedRole[i]} ELSE {}]
      /\ req = [s \in Slot |-> Idle]
  BY DEF UsersInit
<1>2. seeded \subseteq Wallet /\ SeedRole \in [Identity -> Role]
  BY UsersAssumption DEF UsersInit
<1>3. \A i \in Employee : Signs(i) \in Wallet /\ HolderOf[Signs(i)] = i
  <2> TAKE i \in Employee
  <2>1. \E w \in seeded : HolderOf[w] = i
    OBVIOUS
  <2>2. Signs(i) \in seeded /\ HolderOf[Signs(i)] = i
    BY <2>1
  <2> QED BY <1>2, <2>2
<1> HIDE DEF Employee, Signs
<1>4. identity \in [Identity -> IdentityRow]
  BY <1>1, <1>2 DEF IdentityRow, NoIdentity
<1>5. user \in [Identity -> UserRow \cup {NoUser}]
  BY <1>1, <1>2, <1>3 DEF UserRow
<1>6. /\ device \in [Wallet -> Status] /\ wallet \in [Wallet -> Status]
      /\ chainWallet \in [Wallet -> Status] /\ chainRoles \in [Identity -> SUBSET Role]
  BY <1>1, <1>2 DEF Status
<1>7. Idle \notin Work
  BY DEF Work, Idle
<1>8. RequestsStand /\ req \in [Slot -> Work \cup {Idle}]
  BY <1>1, <1>7 DEF RequestsStand
<1>9. \A w \in Wallet : (wallet[w] = "REVOKED" => Revoked(w)) /\ (wallet[w] = "ACTIVE" => Activated(w))
  BY <1>1 DEF Revoked, Activated
<1>10. \A i \in Identity :
         /\ user[i] # NoUser => user[i].role \in chainRoles[i] /\ HolderOf[user[i].wallet] = i
         /\ identity[i].status = "ACTIVE" => identity[i].role \in chainRoles[i]
  BY <1>1, <1>3 DEF NoIdentity
<1> QED BY <1>4, <1>5, <1>6, <1>8, <1>9, <1>10 DEF UsersInv, UsersTypes, RowsSound

\* Stuttering.
LEMMA UsersStill ==
    ASSUME UsersInv, UNCHANGED usersVars
    PROVE  UsersInv'
<1>1. UNCHANGED <<identity, device, wallet, user, chainWallet, chainRoles, req>>
  BY DEF usersVars, rows, chainVars
<1>2. UsersTypes'
  BY <1>1 DEF UsersInv, UsersTypes
<1>3. RequestsStand'
  <2>1. \A r, op, k : Stands(r, op, k) => Stands(r, op, k)'
    BY <1>1 DEF Stands, Holding, Confirmed, Revoked, Activated
  <2> QED BY <1>1, <2>1 DEF UsersInv, RequestsStand
<1>4. RowsSound'
  BY <1>1 DEF UsersInv, RowsSound, Revoked, Activated
<1> QED BY <1>2, <1>3, <1>4 DEF UsersInv

\* The inductive invariant: every row is well formed and not ahead of the chain,
\* and every request stands at a step of its operation with what that step
\* needs in hand, the transactions the earlier steps await confirmed.
THEOREM UsersInvariant == UsersSpec => []UsersInv
<1>1. UsersInv /\ [UsersNext]_usersVars => UsersInv'
  BY RequestKeeps, UsersStepKeeps, UsersStill DEF UsersNext
<1> QED BY <1>1, UsersInitial, PTL DEF UsersSpec

\* The invariant says more than the property.
LEMMA InvGivesRows == UsersInv => RowsNotAhead
<1> SUFFICES ASSUME UsersInv PROVE RowsNotAhead
  OBVIOUS
<1>1. UsersTypeOK
  BY DEF UsersInv, UsersTypes, RowsSound, UsersTypeOK, IdentityRow, Status
<1> QED BY <1>1 DEF UsersInv, RowsSound, RowsNotAhead, Revoked, Activated

\* No row of users.service.ts is ahead of the chain, for any number of
\* identities, wallets and requests in flight: a wallet saved as REVOKED is
\* REVOKED there, one saved as ACTIVE was activated there, and the role of an
\* employee's rows was given to it there, whichever steps fail or interleave.
THEOREM RowsNotAheadCorrect == UsersSpec => []RowsNotAhead
BY UsersInvariant, InvGivesRows, PTL
=============================================================================
