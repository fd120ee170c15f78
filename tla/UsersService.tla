---------------------------- MODULE UsersService ----------------------------
(***************************************************************************)
(* backend/src/users/users.service.ts in EVM mode: registrations, roles,   *)
(* devices and wallets in the database, and their mirror on the chain.     *)
(*                                                                         *)
(* An operation reads its rows and checks them, makes its transactions one *)
(* after the other, and then saves whole rows one after the other; each is *)
(* a step, any other request may run in between, and at each the request   *)
(* may end: a revert, a lost receipt, a failed save or a crash.  The reads *)
(* of one operation's first check are one step.  A device holds one key,   *)
(* from which its wallet's address is derived, so that a device row goes   *)
(* by the name of the wallet.  The proof a device registers with, and its  *)
(* challenge, are taken as given (the single use of challenges is          *)
(* AuthService's); the integrity log only receives copies.                 *)
(***************************************************************************)
EXTENDS Naturals, SequencesExt

CONSTANTS
    Identity, Wallet,
    HolderOf,       \* the identity whose devices made the wallet
    RoleOrder,      \* ROLES: the roles in the order of their bits
    Seeding,        \* sets of wallets whose holders may be employees already
    SeedRole,       \* and their roles
    Slot,           \* bound: requests in flight
    Together,       \* bound: requests in flight at a time, by seeding
    None

Role == {RoleOrder[k] : k \in DOMAIN RoleOrder}

ASSUME UsersAssumption ==
    /\ HolderOf \in [Wallet -> Identity] /\ IsFiniteSet(Wallet)
    /\ RoleOrder \in Seq(Role)
    /\ Seeding \subseteq SUBSET Wallet /\ Together \in [Seeding -> Nat]
    /\ \A S \in Seeding : \A v, w \in S : HolderOf[v] = HolderOf[w] => v = w
    /\ SeedRole \in [Identity -> Role]
    /\ None \notin Identity \cup Wallet \cup Role

VARIABLES
    seeded,         \* the seeding, which stays
    identity,       \* identity rows
    device, wallet, \* device and wallet rows: their status
    user,           \* user rows: the wallet that signs, and the role
    chainWallet,    \* IdentityRegistry
    chainRoles,     \* RoleRegistry
    req

rows      == <<identity, device, wallet, user>>
chainVars == <<chainWallet, chainRoles>>
usersVars == <<seeded, rows, chainVars, req>>

NoIdentity == [status |-> "NONE", role |-> None, verified |-> FALSE]
NoUser     == [wallet |-> None, role |-> None]
Idle       == [todo |-> <<>>]

At(s, step) == req[s] # Idle /\ Head(req[s].todo) = step

\* A request keeps what the steps it has left will use.
Transaction == {"revoke", "ensureRevoked", "ensureCreated", "ensureRole", "submitRole", "ensureActive"}
Keeping(r) ==
    LET Left(steps) == \E k \in DOMAIN r.todo : r.todo[k] \in steps IN
    [r EXCEPT !.actor = IF Left(Transaction) THEN @ ELSE None,
              !.role  = IF Left({"ensureRole", "submitRole", "saveRole", "saveUserRole"}) THEN @ ELSE None,
              !.row   = IF Left({"saveVerified", "saveRole", "saveActive", "saveUser"}) THEN @ ELSE NoIdentity,
              !.user  = IF Left({"saveUserRole"}) THEN @ ELSE NoUser]

\* The request goes on to another step; without one it is answered.
Onward(s, todo, old) ==
    req' = [req EXCEPT ![s] = IF todo = <<>> THEN Idle
                              ELSE Keeping([@ EXCEPT !.todo = todo, !.old = old])]

\* On to the next step.  When a wallet is saved as REVOKED the next of those to
\* be revoked is taken, and the loop begins again when there is one.
Pass(s) ==
    LET r == req[s] IN
    IF At(s, "saveRevoked")
    THEN Onward(s, IF Len(r.old) > 1 THEN <<"revoke">> \o r.todo ELSE Tail(r.todo), Tail(r.old))
    ELSE Onward(s, Tail(r.todo), r.old)

\* The role getIdentity reports: the lowest bit of the mask; None while an
\* identity has no role.
ChainRole(i) ==
    IF chainRoles[i] = {} THEN None
    ELSE RoleOrder[Min({k \in DOMAIN RoleOrder : RoleOrder[k] \in chainRoles[i]})]

-----------------------------------------------------------------------------
(* Requests: the rows are read and checked.                                *)

IsAdmin(a) == identity[a].status = "ACTIVE" /\ identity[a].role = "ADMIN"

WalletsOf(i)     == {w \in Wallet : HolderOf[w] = i /\ wallet[w] # "NONE"}
ActiveWallets(i) == {w \in WalletsOf(i) : wallet[w] = "ACTIVE"}

Begin(s, a, i, w, role, old, todo) ==
    /\ req' = [req EXCEPT ![s] =
                 Keeping([todo |-> todo, actor |-> a, id |-> i, wallet |-> w, role |-> role,
                          old |-> old, row |-> identity[i], user |-> user[i]])]
    /\ UNCHANGED <<rows, chainVars>>

\* initializeAccount: a device that is not known registers itself, under a new
\* random identity that no other request can be about.
InitializeAccount(s, w) ==
    LET i == HolderOf[w] IN
    /\ \A t \in Slot : req[t] # Idle => req[t].id # i
    /\ identity[i] = NoIdentity /\ wallet[w] = "NONE" /\ device[w] = "NONE"
    /\ Begin(s, None, i, w, None, <<>>, <<"newIdentity", "newDevice", "newWallet">>)

VerifyRegistration(s, a, i) ==
    /\ IsAdmin(a) /\ identity[i].status = "PENDING"
    /\ Begin(s, a, i, None, None, <<>>, <<"saveVerified">>)

\* assignRole: a pending registration only in the row, an employee on the
\* chain first.
AssignRole(s, a, i, role) ==
    /\ IsAdmin(a)
    /\ \/ user[i] = NoUser /\ identity[i].status = "PENDING"
          /\ Begin(s, a, i, None, role, <<>>, <<"saveRole">>)
       \/ user[i] # NoUser
          /\ Begin(s, a, i, None, role, <<>>, <<"submitRole", "saveRole", "saveUserRole">>)

\* activateRegistration: verified, with a role, a pending device and wallet.
ActivateRegistration(s, a, i, w) ==
    /\ IsAdmin(a)
    /\ identity[i].status = "PENDING" /\ identity[i].verified /\ identity[i].role # None
    /\ HolderOf[w] = i /\ device[w] = "PENDING" /\ wallet[w] = "PENDING"
    /\ Begin(s, a, i, w, identity[i].role, <<>>,
             <<"ensureCreated", "ensureRole", "ensureActive",
               "saveActive", "saveDevice", "saveWallet", "saveUser">>)

RegisterDevice(s, a, w) ==
    /\ identity[HolderOf[w]] # NoIdentity /\ device[w] # "ACTIVE"
    /\ Begin(s, a, HolderOf[w], w, None, <<>>, <<"saveDevice">>)

RegisterWallet(s, a, w) ==
    /\ identity[HolderOf[w]].status = "ACTIVE" /\ device[w] = "ACTIVE" /\ wallet[w] = "NONE"
    /\ Begin(s, a, HolderOf[w], w, None, <<>>, <<"newWallet">>)

\* activateWallet: the other ACTIVE wallets of the identity are replaced first.
ActivateWallet(s, a, w) ==
    LET i     == HolderOf[w]
        old   == SetToSeq(ActiveWallets(i))
        loop  == <<"revoke", "saveRevoked">>
        after == <<"ensureCreated", "ensureActive", "saveWallet", "readUser", "saveUserWallet">>
    IN
    /\ identity[i].status = "ACTIVE" /\ device[w] = "ACTIVE" /\ wallet[w] = "PENDING"
    /\ Begin(s, a, i, w, None, old, IF old = <<>> THEN after ELSE loop \o after)

RevokeWallet(s, a, w) ==
    /\ wallet[w] = "ACTIVE"
    /\ Begin(s, a, HolderOf[w], None, None, <<w>>, <<"revoke", "saveRevoked">>)

\* Faulty variant: the device is marked before its wallet is revoked.
RevokeDeviceFirst(s, a, w) ==
    /\ device[w] # "NONE"
    /\ Begin(s, a, HolderOf[w], None, None, <<w>>,
             IF wallet[w] = "ACTIVE" THEN <<"dropDevice", "saveRevoked", "ensureRevoked">>
             ELSE <<"dropDevice">>)

\* revokeDevice: its ACTIVE wallets are revoked on the chain first.
RevokeDevice(s, a, w) ==
    /\ device[w] # "NONE"
    /\ Begin(s, a, HolderOf[w], None, None, <<w>>,
             IF wallet[w] = "ACTIVE" THEN <<"ensureRevoked", "dropDevice", "saveRevoked">>
             ELSE <<"dropDevice">>)

-----------------------------------------------------------------------------
(* Transactions.                                                           *)

\* submit(): signed with the actor's wallet by the user row, when that is an
\* ACTIVE row.  The contract wants an ACTIVE wallet of an ADMIN.
HasSigner(r) == user[r.actor].wallet # None /\ wallet[user[r.actor].wallet] = "ACTIVE"
Accepted(r)  == HasSigner(r) /\ chainWallet[user[r.actor].wallet] = "ACTIVE"
                             /\ "ADMIN" \in chainRoles[r.actor]

\* The receipt is awaited, and may be lost with the node or the process.
Receipt(s) == Pass(s) \/ req' = [req EXCEPT ![s] = Idle]

SetChain(w, status) == chainWallet' = [chainWallet EXCEPT ![w] = status]

\* WALLET_REVOKE.  ensureWalletRevoked makes it only when it is needed.
Revoke(s) ==
    LET r == req[s] IN
    /\ At(s, "revoke") \/ At(s, "ensureRevoked")
    /\ \/ /\ Accepted(r) /\ chainWallet[Head(r.old)] \in {"PENDING", "ACTIVE"}
          /\ SetChain(Head(r.old), "REVOKED") /\ Receipt(s)
       \/ /\ At(s, "ensureRevoked") /\ chainWallet[Head(r.old)] = "REVOKED"
          /\ Pass(s) /\ UNCHANGED chainWallet
    /\ UNCHANGED <<rows, chainRoles>>

\* IDENTITY_CREATE, unless the wallet is there.
EnsureIdentityCreated(s) ==
    LET r == req[s] IN
    /\ At(s, "ensureCreated")
    /\ \/ chainWallet[r.wallet] # "NONE" /\ Pass(s) /\ UNCHANGED chainWallet
       \/ /\ chainWallet[r.wallet] = "NONE" /\ Accepted(r)
          /\ SetChain(r.wallet, "PENDING") /\ Receipt(s)
    /\ UNCHANGED <<rows, chainRoles>>

\* ROLE_ASSIGN: refused by the contract when the role is held already.
SubmitRole(s) ==
    LET r == req[s] IN
    /\ Accepted(r) /\ r.role \notin chainRoles[r.id]
    /\ chainRoles' = [chainRoles EXCEPT ![r.id] = @ \cup {r.role}]
    /\ Receipt(s)

EnsureRoleAssigned(s) ==
    LET r == req[s] IN
    /\ \/ At(s, "ensureRole") /\ ChainRole(r.id) = r.role /\ Pass(s) /\ UNCHANGED chainRoles
       \/ At(s, "ensureRole") /\ ChainRole(r.id) # r.role /\ SubmitRole(s)
       \/ At(s, "submitRole") /\ SubmitRole(s)
    /\ UNCHANGED <<rows, chainWallet>>

\* WALLET_ACTIVATE, unless it is ACTIVE; an error when it is REVOKED.
EnsureWalletActive(s) ==
    LET r == req[s] IN
    /\ At(s, "ensureActive")
    /\ \/ chainWallet[r.wallet] = "ACTIVE" /\ Pass(s) /\ UNCHANGED chainWallet
       \/ /\ chainWallet[r.wallet] = "PENDING" /\ Accepted(r)
          /\ SetChain(r.wallet, "ACTIVE") /\ Receipt(s)
    /\ UNCHANGED <<rows, chainRoles>>

-----------------------------------------------------------------------------
(* Saves: whole rows, from what the request read.                          *)

SaveIdentity(s) ==
    LET r == req[s] IN
    /\ \E step \in {"newIdentity", "saveVerified", "saveRole", "saveActive"} : At(s, step)
    /\ identity' = [identity EXCEPT ![r.id] =
          CASE At(s, "newIdentity")  -> [NoIdentity EXCEPT !.status = "PENDING"]
            [] At(s, "saveVerified") -> [r.row EXCEPT !.verified = TRUE]
            [] At(s, "saveRole")     -> [r.row EXCEPT !.role = r.role]
            [] At(s, "saveActive")   -> [r.row EXCEPT !.status = "ACTIVE"]]
    /\ Pass(s)
    /\ UNCHANGED <<device, wallet, user, chainVars>>

SaveDevice(s) ==
    LET r == req[s] IN
    /\ \/ At(s, "newDevice")  /\ device' = [device EXCEPT ![r.wallet] = "PENDING"]
       \/ At(s, "saveDevice") /\ device' = [device EXCEPT ![r.wallet] = "ACTIVE"]
       \/ At(s, "dropDevice") /\ device' = [device EXCEPT ![Head(r.old)] = "REVOKED"]
    /\ Pass(s)
    /\ UNCHANGED <<identity, wallet, user, chainVars>>

SaveWallet(s) ==
    LET r == req[s] IN
    /\ \/ At(s, "newWallet")   /\ wallet' = [wallet EXCEPT ![r.wallet] = "PENDING"]
       \/ At(s, "saveWallet")  /\ wallet' = [wallet EXCEPT ![r.wallet] = "ACTIVE"]
       \/ At(s, "saveRevoked") /\ wallet' = [wallet EXCEPT ![Head(r.old)] = "REVOKED"]
    /\ Pass(s)
    /\ UNCHANGED <<identity, device, user, chainVars>>

\* activateWallet reads the user row when the wallet is saved; an identity
\* without one gets none.
ReadUser(s) ==
    LET r == req[s] IN
    /\ At(s, "readUser")
    /\ req' = [req EXCEPT ![s] = IF user[r.id] = NoUser THEN Idle
                                 ELSE [r EXCEPT !.todo = Tail(@), !.user = user[r.id]]]
    /\ UNCHANGED <<rows, chainVars>>

SaveUser(s) ==
    LET r == req[s] IN
    /\ \/ /\ At(s, "saveUser")
          /\ user' = [user EXCEPT ![r.id] = [wallet |-> r.wallet, role |-> r.row.role]]
       \/ /\ At(s, "saveUserRole")
          /\ user' = [user EXCEPT ![r.id] = [r.user EXCEPT !.role = r.role]]
       \/ /\ At(s, "saveUserWallet")
          /\ user' = [user EXCEPT ![r.id] = [r.user EXCEPT !.wallet = r.wallet]]
    /\ Pass(s)
    /\ UNCHANGED <<identity, device, wallet, chainVars>>

\* A revert, an unreachable node, an error of the database, a crash.
Abandon(s) ==
    /\ req[s] # Idle
    /\ req' = [req EXCEPT ![s] = Idle]
    /\ UNCHANGED <<rows, chainVars>>

-----------------------------------------------------------------------------
\* The deployment's administrator, and employees it has activated.
UsersInit ==
    /\ seeded \in Seeding
    /\ LET Employee == {HolderOf[w] : w \in seeded} IN
       /\ identity = [i \in Identity |-> IF i \in Employee
                        THEN [status |-> "ACTIVE", role |-> SeedRole[i], verified |-> TRUE]
                        ELSE NoIdentity]
       /\ device = [w \in Wallet |-> IF w \in seeded THEN "ACTIVE" ELSE "NONE"]
       /\ wallet = device /\ chainWallet = device
       /\ user = [i \in Identity |-> IF i \in Employee
                    THEN [wallet |-> CHOOSE w \in seeded : HolderOf[w] = i, role |-> SeedRole[i]]
                    ELSE NoUser]
       /\ chainRoles = [i \in Identity |-> IF i \in Employee THEN {SeedRole[i]} ELSE {}]
    /\ req = [s \in Slot |-> Idle]

\* The gates let an ADMIN through (ISSUER's wallet activation is Rbac's).
Request(s) ==
    /\ req[s] = Idle
    /\ Cardinality({t \in Slot : req[t] # Idle}) < Together[seeded]
    /\ \/ \E w \in Wallet : InitializeAccount(s, w)
       \/ \E a \in Identity : IsAdmin(a) /\
             \/ \E i \in Identity :
                   \/ VerifyRegistration(s, a, i)
                   \/ \E role \in Role : AssignRole(s, a, i, role)
                   \/ \E w \in Wallet : ActivateRegistration(s, a, i, w)
             \/ \E w \in Wallet :
                   \/ RegisterDevice(s, a, w) \/ RegisterWallet(s, a, w)
                   \/ ActivateWallet(s, a, w)
                   \/ RevokeWallet(s, a, w) \/ RevokeDevice(s, a, w)

UsersStep(s) ==
    \/ Revoke(s) \/ EnsureIdentityCreated(s) \/ EnsureRoleAssigned(s) \/ EnsureWalletActive(s)
    \/ SaveIdentity(s) \/ SaveDevice(s) \/ SaveWallet(s) \/ ReadUser(s) \/ SaveUser(s)
    \/ Abandon(s)

UsersNext ==
    /\ \E s \in Slot : Request(s) \/ UsersStep(s)
    /\ UNCHANGED seeded

UsersSpec == UsersInit /\ [][UsersNext]_usersVars

-----------------------------------------------------------------------------
(* Properties.                                                             *)

\* The rows are well formed; a user signs with a wallet of its own.
UsersTypeOK ==
    /\ \A i \in Identity :
          /\ identity[i].status \in {"NONE", "PENDING", "ACTIVE"}
          /\ identity[i].role \in Role \cup {None}
          /\ user[i] # NoUser => HolderOf[user[i].wallet] = i
    /\ device \in [Wallet -> {"NONE", "PENDING", "ACTIVE", "REVOKED"}]
    /\ wallet \in [Wallet -> {"NONE", "PENDING", "ACTIVE", "REVOKED"}]
    /\ chainWallet \in [Wallet -> {"NONE", "PENDING", "ACTIVE", "REVOKED"}]

\* A wallet the database calls REVOKED is REVOKED on the chain, and one it calls
\* ACTIVE was activated there: whichever transactions, saves and crashes of
\* activations, replacements and revocations interleave, a row is never ahead
\* of the chain.  (It may lag: an ACTIVE row whose wallet was revoked since.)
\* And users.service.ts:324: "Submit first so a rejected ROLE_ASSIGN cannot
\* leave either PostgreSQL row claiming success".  Whatever role the row of an
\* employee names, the chain has given it to that employee.
RowsNotAhead ==
    /\ UsersTypeOK
    /\ \A w \in Wallet :
        /\ wallet[w] = "REVOKED" => chainWallet[w] = "REVOKED"
        /\ wallet[w] = "ACTIVE"  => chainWallet[w] \in {"ACTIVE", "REVOKED"}
    /\ \A i \in Identity :
        /\ user[i] # NoUser => user[i].role \in chainRoles[i]
        /\ identity[i].status = "ACTIVE" => identity[i].role \in chainRoles[i]

-----------------------------------------------------------------------------
(* Statements of the documentation that do not hold (see the README).      *)

\* users.service.ts:244: "Confirm every required chain transition before
\* changing any local lifecycle state.  This prevents PostgreSQL REVOKED /
\* chain ACTIVE."  The wallet of a device in state REVOKED is not ACTIVE on the
\* chain.  revokeDevice looks only for wallet rows that are ACTIVE, and the row
\* of a wallet the chain has activated may still be PENDING.
RevokedDeviceOffChain ==
    \A w \in Wallet : device[w] = "REVOKED" => chainWallet[w] # "ACTIVE"

\* docs/DECISIONS.md:25: a wallet "can be revoked and replaced without losing
\* role or history".  Once the old wallet is revoked the replacement has a
\* signer for the transactions that are left.  The signer of an administrator
\* who replaces its own wallet is the wallet that was just revoked.
ReplacementCanFinish ==
    \A s \in Slot :
        (At(s, "ensureCreated") /\ chainWallet[req[s].wallet] = "NONE") => HasSigner(req[s])

\* users.service.ts:420: an identity whose activation stopped half-way is at "a
\* valid, retryable activation checkpoint".  ensureRoleAssigned succeeds when
\* the activation is tried again: the chain reports the role, or can still
\* assign it.  A pending role may be changed after its ROLE_ASSIGN was mined,
\* and changed back.
ActivationRetryable ==
    (\A s \in Slot : req[s] = Idle) => \A i \in Identity :
        (identity[i].status = "PENDING" /\ identity[i].role # None)
            => ChainRole(i) = identity[i].role \/ identity[i].role \notin chainRoles[i]

\* users.service.ts:324: "The chain is authoritative for active role changes".
\* When a confirmed role change is saved, the chain reports that role.  The
\* contract adds the role to those held, and getIdentity reports the lowest.
ChainReportsNewRole ==
    \A s \in Slot :
        At(s, "saveUserRole") => ChainRole(req[s].id) = req[s].role
=============================================================================
