------------------------------- MODULE Grants --------------------------------
(***************************************************************************)
(* Transfer grants of one engineer for one asset: the rows of              *)
(* users.service.ts (createGrant, revokeGrant, validateGrant), one per     *)
(* grant, and the grants of AssetRegistry.sol, one per wallet of the       *)
(* engineer.  The transfer route asks the rows, the contract its own       *)
(* record.                                                                 *)
(*                                                                         *)
(* A request finds the wallet (walletOfIdentity), has the contract write   *)
(* its grant, and saves the row, an await each; it may die at every one of *)
(* them, and its transaction may still be mined afterwards.                *)
(***************************************************************************)
EXTENDS Naturals, Sequences

CONSTANTS
    GrantId,        \* bound: grants; randomUUID
    Wallet, Wallets,\* the wallets of the engineer, oldest first
    GrantSlot,      \* bound: requests in flight
    Expiry,         \* bound: expiry times of grants; 0: never
    MaxTime,        \* bound: the clock
    Nobody

ASSUME GrantAssumption ==
    /\ Wallets \in Seq(Wallet) /\ Len(Wallets) > 0
    /\ \A i, j \in DOMAIN Wallets : Wallets[i] = Wallets[j] => i = j
    /\ MaxTime \in Nat \ {0} /\ Expiry \subseteq 0..MaxTime
    /\ Nobody \notin Wallet \cup GrantId \cup {"ACTIVE", "REVOKED", "EXPIRED"}

VARIABLES
    row,        \* AuthorizationGrant rows
    granted,    \* _transferGrants of the asset, by wallet; id: as TransferGrantSet told
    grantee,    \* IdentityRegistry: status of each wallet
    now,        \* the time of the backend
    head,       \* block.timestamp, at most now
    request,
    late,       \* transactions whose receipt nobody waits for
    used,       \* ids given to a grant
    orphaned,   \* history: grants that were created and have no row
    shared      \* history: wallets that were ACTIVE beside another

world     == <<grantee, shared, now, head>>
grantVars == <<row, granted, world, request, late, used, orphaned>>

NoRow  == [status |-> Nobody, expires |-> 0]
NoRequest == [at |-> "idle"]

GrantIsExpired(r) == r.expires # 0 /\ r.expires <= now

\* Rows the transfer route and GET /users/me/grants accept.
ActiveGrants == {g \in GrantId : row[g].status = "ACTIVE" /\ ~GrantIsExpired(row[g])}

\* _hasActiveTransferGrant
HasTransferGrant(w) == granted[w].active /\ (granted[w].expires = 0 \/ granted[w].expires > head)

\* walletOfIdentity: the newest ACTIVE wallet, its reads in one step.
ActiveIndex == {i \in 1..Len(Wallets) : grantee[Wallets[i]] = "ACTIVE"}
NewestActive == IF ActiveIndex = {} THEN Nobody
                ELSE Wallets[CHOOSE i \in ActiveIndex : \A j \in ActiveIndex : j <= i]

End(s) == request' = [request EXCEPT ![s] = NoRequest]
Goto(s, at) == request' = [request EXCEPT ![s].at = at]

-----------------------------------------------------------------------------
(* Requests.                                                               *)

\* createGrant, for a fresh id.
CreateGrant(s, g, e) ==
    /\ request[s] = NoRequest /\ g \notin used
    /\ used' = used \cup {g}
    /\ request' = [request EXCEPT ![s] = [op |-> "create", at |-> "plan", id |-> g, to |-> Nobody,
                                  row |-> [status |-> "ACTIVE", expires |-> e]]]
    /\ UNCHANGED <<row, granted, world, late, orphaned>>

\* revokeGrant reads the row, whatever its status.
RevokeGrant(s, g) ==
    /\ request[s] = NoRequest /\ row[g] # NoRow
    /\ request' = [request EXCEPT ![s] = [op |-> "revoke", at |-> "plan", id |-> g, to |-> Nobody,
                                  row |-> [row[g] EXCEPT !.status = "REVOKED"]]]
    /\ UNCHANGED <<row, granted, world, late, used, orphaned>>

\* The transfer route: a row that is ACTIVE is looked at once more.
TransferWith(s, g) ==
    /\ request[s] = NoRequest /\ row[g].status = "ACTIVE"
    /\ request' = [request EXCEPT ![s] = [op |-> "transfer", at |-> "validate", id |-> g,
                                  to |-> Nobody, row |-> NoRow]]
    /\ UNCHANGED <<row, granted, world, late, used, orphaned>>

\* validateGrant: its read, and what follows from it.  With a row that is good the
\* route goes on to the contract, which decides (AssetRegistry.TransferAsset).
ValidateGrant(s) ==
    LET r == row[request[s].id] IN
    /\ request[s].at = "validate"
    /\ IF r.status = "ACTIVE" /\ GrantIsExpired(r)
       THEN request' = [request EXCEPT ![s].at = "save",
                                       ![s].row = [r EXCEPT !.status = "EXPIRED"]]
       ELSE End(s)
    /\ UNCHANGED <<row, granted, world, late, used, orphaned>>

\* The call names the newest ACTIVE wallet of the engineer.
PlanCall(s) ==
    /\ request[s].at = "plan"
    /\ IF NewestActive = Nobody THEN End(s)
       ELSE request' = [request EXCEPT ![s].at = "chain", ![s].to = NewestActive]
    /\ UNCHANGED <<row, granted, world, late, used, orphaned>>

\* Faulty variant: a revocation writes the grant it is about.
SetTransferGrantAsRow(c) ==
    granted' = [granted EXCEPT ![c.to] = [active |-> TRUE, expires |-> c.row.expires, id |-> c.id]]

\* setTransferGrant: the wallet's grant is replaced, whichever it was.
SetTransferGrant(c) ==
    granted' = [granted EXCEPT ![c.to] = [active |-> c.op = "create", expires |-> c.row.expires,
                                          id |-> c.id]]

\* The transaction is mined and its receipt arrives.
Transact(s) ==
    /\ request[s].at = "chain"
    /\ SetTransferGrant(request[s])
    /\ Goto(s, "save")
    /\ UNCHANGED <<row, world, late, used, orphaned>>

\* grants.save: the whole row, as it was read.
SaveGrant(s) ==
    /\ request[s].at = "save"
    /\ row' = [row EXCEPT ![request[s].id] = request[s].row]
    /\ End(s)
    /\ UNCHANGED <<granted, world, late, used, orphaned>>

\* The process dies, the receipt is late, the database or the node is away: a
\* call that was sent may still be mined.
Die(s) ==
    /\ request[s] # NoRequest
    /\ End(s)
    /\ IF request[s].at = "chain"
       THEN late' = late \cup {[op |-> request[s].op, to |-> request[s].to, id |-> request[s].id, row |-> request[s].row]}
       ELSE UNCHANGED late
    /\ orphaned' = IF request[s].op = "create" /\ request[s].at \in {"chain", "save"}
                   THEN orphaned \cup {request[s].id} ELSE orphaned
    /\ UNCHANGED <<row, granted, world, used>>

MineLate(c) ==
    /\ c \in late
    /\ SetTransferGrant(c)
    /\ late' = late \ {c}
    /\ UNCHANGED <<row, world, request, used, orphaned>>

\* activateWallet of IdentityRegistry: a PENDING wallet, whatever the others are.
\* UsersService first revokes those whose row it found ACTIVE, which two
\* overlapping activations do not do for each other.
Activate(i) ==
    LET w == Wallets[i]
        others == {v \in Wallet \ {w} : grantee[v] = "ACTIVE"}
    IN
    /\ grantee[w] = "PENDING"
    /\ grantee' = [grantee EXCEPT ![w] = "ACTIVE"]
    /\ shared' = IF others = {} THEN shared ELSE shared \cup others \cup {w}
    /\ UNCHANGED <<row, granted, now, head, request, late, used, orphaned>>

\* revokeWallet of IdentityRegistry, for a wallet the service found ACTIVE.
RevokeGrantee(w) ==
    /\ grantee[w] = "ACTIVE"
    /\ grantee' = [grantee EXCEPT ![w] = "REVOKED"]
    /\ UNCHANGED <<row, granted, shared, now, head, request, late, used, orphaned>>

Tick ==
    /\ now < MaxTime
    /\ now' = now + 1
    /\ UNCHANGED <<row, granted, grantee, shared, head, request, late, used, orphaned>>
Block ==
    /\ head < now
    /\ head' = now
    /\ UNCHANGED <<row, granted, grantee, shared, now, request, late, used, orphaned>>

-----------------------------------------------------------------------------
GrantInit ==
    /\ row = [g \in GrantId |-> NoRow]
    /\ granted = [w \in Wallet |-> [active |-> FALSE, expires |-> 0, id |-> Nobody]]
    /\ grantee = [w \in Wallet |-> "PENDING"]
    /\ now = 1 /\ head = 1
    /\ request = [s \in GrantSlot |-> NoRequest]
    /\ late = {} /\ used = {} /\ orphaned = {} /\ shared = {}

GrantNext ==
    \/ \E s \in GrantSlot :
        \/ \E g \in GrantId : \/ \E e \in Expiry : CreateGrant(s, g, e)
                              \/ RevokeGrant(s, g) \/ TransferWith(s, g)
        \/ ValidateGrant(s) \/ PlanCall(s) \/ Transact(s) \/ SaveGrant(s) \/ Die(s)
    \/ \E c \in late : MineLate(c)
    \/ \E i \in 1..Len(Wallets) : Activate(i)
    \/ \E w \in Wallet : RevokeGrantee(w)
    \/ Tick \/ Block

GrantSpec == GrantInit /\ [][GrantNext]_grantVars

-----------------------------------------------------------------------------
(* Properties.                                                             *)

\* Each variable has its type.
GrantsTypeOK ==
    /\ \A g \in GrantId : \/ row[g] = NoRow
                          \/ /\ row[g].status \in {"ACTIVE", "REVOKED", "EXPIRED"}
                             /\ row[g].expires \in Expiry /\ g \in used
    /\ \A w \in Wallet : granted[w].active \in BOOLEAN /\ granted[w].expires \in Expiry \cup {0}
                          /\ granted[w].id \in used \cup {Nobody}
    /\ grantee \in [Wallet -> {"PENDING", "ACTIVE", "REVOKED"}]
    /\ now \in 1..MaxTime /\ head \in 1..now
    /\ orphaned \subseteq used /\ shared \subseteq Wallet
    /\ \A s \in GrantSlot : request[s] = NoRequest \/
        /\ request[s].id \in GrantId /\ request[s].to \in Wallet \cup {Nobody}
        /\ request[s].at = "chain" => request[s].to # Nobody

\* What the contract grants to wallet w is a grant whose row was not revoked, one
\* whose creation is under way, or one whose creation died after it was sent.
GrantStands(w) ==
    granted[w].active =>
        \/ row[granted[w].id].status \in {"ACTIVE", "EXPIRED"}
        \/ \E s \in GrantSlot : request[s].at = "save" /\ request[s].op = "create" /\ request[s].id = granted[w].id
        \/ granted[w].id \in orphaned

\* Revoking is final, with all that may overlap or come late, for a wallet in
\* use that was never so beside another one of the engineer.
RevokedIsRevoked ==
    GrantsTypeOK /\ \A w \in Wallet \ shared : grantee[w] = "ACTIVE" => GrantStands(w)

-----------------------------------------------------------------------------
(* Statements of the documentation that do not hold (see the README).      *)

\* "A transfer grant authorizes one employee for one asset": while nothing is
\* under way, a grant that is ACTIVE and has not expired is one the contract
\* honours for the engineer's wallet.
ActiveRowHonoured ==
    (\A s \in GrantSlot : request[s] = NoRequest) /\ ActiveGrants # {} /\ NewestActive # Nobody
        => HasTransferGrant(NewestActive)

\* A grant "may be revoked", for every wallet in use: of two ACTIVE wallets the
\* call names the newer, and the older keeps what it had.
RevokedEverywhere ==
    \A w \in Wallet : grantee[w] = "ACTIVE" => GrantStands(w)
=============================================================================
