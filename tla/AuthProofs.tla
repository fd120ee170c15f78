----------------------------- MODULE AuthProofs ------------------------------
(***************************************************************************)
(* Proofs about who may act: the transfer grants (Grants) and the sessions *)
(* and challenges (AuthService), for any number of requests in flight,     *)
(* devices, keys, tokens, challenges, wallets and grants.                  *)
(***************************************************************************)
EXTENDS AuthService, Grants, WellFoundedInduction, TLAPS

-----------------------------------------------------------------------------
(* Grants: the inductive invariant.                                        *)

GrantRow == [status : {"ACTIVE", "REVOKED", "EXPIRED"}, expires : Expiry]

GrantRequest ==
    [op : {"create", "revoke", "transfer"}, at : {"plan", "chain", "save", "validate"},
     id : GrantId, to : Wallet \cup {Nobody}, row : GrantRow \cup {NoRow}]

GrantTypes ==
    /\ row \in [GrantId -> GrantRow \cup {NoRow}]
    /\ granted \in [Wallet -> [active : BOOLEAN, expires : Expiry \cup {0},
                               id : GrantId \cup {Nobody}]]
    /\ grantee \in [Wallet -> {"PENDING", "ACTIVE", "REVOKED"}]
    /\ now \in 1..MaxTime /\ head \in 1..now
    /\ request \in [GrantSlot -> GrantRequest \cup {NoRequest}]
    /\ late \in SUBSET [op : {"create", "revoke", "transfer"}, to : Wallet,
                        id : GrantId, row : GrantRow]
    /\ used \in SUBSET GrantId /\ orphaned \subseteq used /\ shared \subseteq Wallet
    /\ \A w \in Wallet : granted[w].id \in used \cup {Nobody}
    /\ \A c \in late : c.id \in used

\* What a request in flight has in hand.
RequestsSound ==
    \A s \in GrantSlot : request[s].at # "idle" =>
        /\ request[s].id \in used
        /\ request[s].at = "validate" <=> request[s].op = "transfer" /\ request[s].row = NoRow
        /\ request[s].at \in {"plan", "chain"} => request[s].op \in {"create", "revoke"}
        /\ request[s].at \in {"chain", "save"} /\ request[s].op # "transfer" =>
              request[s].to \in Wallet
        /\ request[s].op = "transfer" => request[s].to = Nobody
        /\ request[s].to # Nobody => grantee[request[s].to] # "PENDING"
        /\ request[s].op = "create" => request[s].row.status = "ACTIVE"
        /\ request[s].op = "revoke" => request[s].row.status = "REVOKED"
        /\ request[s].op = "transfer" /\ request[s].at = "save" =>
              request[s].row.status = "EXPIRED"

\* Two wallets that are ACTIVE are known to be, and only a wallet of the list is
\* ever activated.
SharedRecorded ==
    /\ \A v, w \in Wallet : grantee[v] = "ACTIVE" /\ grantee[w] = "ACTIVE" /\ v # w => w \in shared
    /\ \A w \in Wallet : grantee[w] = "ACTIVE" => \E i \in DOMAIN Wallets : Wallets[i] = w

\* A grant is created by one request; until its row is saved nobody else can
\* know of it, and when the request died the row is never written.
CreatedOnce ==
    /\ \A g \in GrantId : row[g] # NoRow => g \in used /\ g \notin orphaned
    /\ \A s \in GrantSlot : request[s].at # "idle" /\ request[s].op = "create" =>
          /\ row[request[s].id] = NoRow /\ request[s].id \notin orphaned
          /\ \A z \in GrantSlot : request[z].at # "idle" /\ request[z].id = request[s].id => z = s
    /\ \A s \in GrantSlot : request[s].at # "idle" /\ request[s].op # "create" =>
          row[request[s].id] # NoRow
    /\ \A c \in late : /\ c.op = "create" => c.id \in orphaned
                       /\ grantee[c.to] # "PENDING"

\* What the contract grants was granted by a creation that got that far.
GrantsKnown ==
    \A w \in Wallet : granted[w].active =>
        /\ grantee[w] # "PENDING" /\ granted[w].id \in used
        /\ \/ row[granted[w].id] # NoRow
           \/ granted[w].id \in orphaned
           \/ \E s \in GrantSlot : request[s].at = "save" /\ request[s].op = "create"
                                   /\ request[s].id = granted[w].id

\* No ACTIVE wallet of W that never was ACTIVE beside another holds grant g.
Withdrawn(g, W) ==
    \A w \in W \ shared : grantee[w] = "ACTIVE" => ~(granted[w].active /\ granted[w].id = g)

\* Before a row says REVOKED the contract has withdrawn the grant from the
\* wallet in use, and nothing under way can restore it.
WithdrawnFirst ==
    /\ \A g \in GrantId : row[g].status = "REVOKED" => Withdrawn(g, Wallet)
    /\ \A s \in GrantSlot : request[s].at # "idle" /\ request[s].op = "revoke" =>
          /\ request[s].at = "chain" => Withdrawn(request[s].id, Wallet \ {request[s].to})
          /\ request[s].at = "save"  => Withdrawn(request[s].id, Wallet)

GrantInv ==
    /\ GrantTypes
    /\ RequestsSound
    /\ SharedRecorded
    /\ CreatedOnce
    /\ GrantsKnown
    /\ WithdrawnFirst

\* A slot is free or holds a well-formed request.
LEMMA RequestForms ==
  ASSUME GrantTypes, NEW s \in GrantSlot
  PROVE  /\ request[s].at = "idle" <=> request[s] = NoRequest
         /\ request[s].at # "idle" <=> request[s] \in GrantRequest
<1>1. request[s] = NoRequest \/ request[s] \in GrantRequest
  BY DEF GrantTypes
<1>2. NoRequest.at = "idle"
  BY DEF NoRequest
<1>3. \A r \in GrantRequest : r.at # "idle"
  BY DEF GrantRequest
<1> QED BY <1>1, <1>2, <1>3

\* A row is there or not, and a row that is there has a status.
LEMMA RowForms ==
  ASSUME GrantTypes, NEW g \in GrantId
  PROVE  /\ row[g] = NoRow \/ row[g] \in GrantRow
         /\ row[g] # NoRow => row[g] \in GrantRow
         /\ row[g].status \in {"ACTIVE", "REVOKED", "EXPIRED"} <=> row[g] # NoRow
<1>1. row[g] = NoRow \/ row[g] \in GrantRow
  BY DEF GrantTypes
<1>2. NoRow.status = Nobody /\ Nobody \notin {"ACTIVE", "REVOKED", "EXPIRED"}
  BY GrantAssumption DEF NoRow
<1>3. \A r \in GrantRow : r.status \in {"ACTIVE", "REVOKED", "EXPIRED"}
  BY DEF GrantRow
<1> QED BY <1>1, <1>2, <1>3

LEMMA GrantInvInit == GrantInit => GrantInv
<1> SUFFICES ASSUME GrantInit PROVE GrantInv
  OBVIOUS
<1>1. /\ row = [g \in GrantId |-> NoRow]
      /\ granted = [w \in Wallet |-> [active |-> FALSE, expires |-> 0, id |-> Nobody]]
      /\ grantee = [w \in Wallet |-> "PENDING"]
      /\ now = 1 /\ head = 1
      /\ request = [s \in GrantSlot |-> NoRequest]
      /\ late = {} /\ used = {} /\ orphaned = {} /\ shared = {}
  BY DEF GrantInit
<1>2. \A s \in GrantSlot : request[s].at = "idle"
  BY <1>1 DEF NoRequest
<1>3. GrantTypes
  BY <1>1, GrantAssumption DEF GrantTypes
<1>4. RequestsSound /\ SharedRecorded
  BY <1>1, <1>2, GrantAssumption DEF RequestsSound, SharedRecorded
<1>5. CreatedOnce
  BY <1>1, <1>2 DEF CreatedOnce
<1>6. GrantsKnown
  BY <1>1 DEF GrantsKnown
<1>7. WithdrawnFirst
  BY <1>1, <1>2, GrantAssumption DEF WithdrawnFirst, NoRow
<1> QED BY <1>3, <1>4, <1>5, <1>6, <1>7 DEF GrantInv

\* createGrant: the id is fresh, so no row, request or transaction has it.
LEMMA CreateGrantKeeps ==
  ASSUME GrantInv, NEW s \in GrantSlot, NEW g \in GrantId, NEW e \in Expiry,
         CreateGrant(s, g, e)
  PROVE  GrantInv'
<1> DEFINE r == [op |-> "create", at |-> "plan", id |-> g, to |-> Nobody,
                 row |-> [status |-> "ACTIVE", expires |-> e]]
<1>1. /\ GrantTypes /\ RequestsSound /\ SharedRecorded /\ CreatedOnce /\ GrantsKnown
      /\ WithdrawnFirst
  BY DEF GrantInv
<1>2. /\ request[s] = NoRequest /\ g \notin used /\ used' = used \cup {g}
      /\ request' = [request EXCEPT ![s] = r]
      /\ UNCHANGED <<row, granted, grantee, shared, now, head, late, orphaned>>
  BY DEF CreateGrant, world
<1>3. /\ r \in GrantRequest /\ r.op = "create" /\ r.at = "plan" /\ r.id = g
      /\ r.to = Nobody /\ r.row.status = "ACTIVE" /\ r.row # NoRow
  <2>1. [status |-> "ACTIVE", expires |-> e] \in GrantRow
    BY DEF GrantRow
  <2>2. [status |-> "ACTIVE", expires |-> e] # NoRow
    BY GrantAssumption DEF NoRow
  <2> QED BY <2>1, <2>2 DEF GrantRequest
<1> HIDE DEF r
<1>4. request[s].at = "idle"
  BY <1>2 DEF NoRequest
<1>5. /\ request'[s] = r
      /\ \A z \in GrantSlot : z # s => request'[z] = request[z]
      /\ request' \in [GrantSlot -> GrantRequest \cup {NoRequest}]
  BY <1>1, <1>2, <1>3 DEF GrantTypes
<1>6. GrantTypes'
  BY <1>1, <1>2, <1>5 DEF GrantTypes
<1>7. RequestsSound'
  BY <1>1, <1>2, <1>3, <1>5 DEF RequestsSound
<1>8. SharedRecorded'
  BY <1>1, <1>2 DEF SharedRecorded
<1>9. row[g] = NoRow /\ g \notin orphaned
  BY <1>1, <1>2 DEF CreatedOnce, GrantTypes
<1>10. \A z \in GrantSlot : request[z].at # "idle" => request[z].id # g
  BY <1>1, <1>2 DEF RequestsSound
<1>11. CreatedOnce'
  BY <1>1, <1>2, <1>3, <1>5, <1>9, <1>10 DEF CreatedOnce
<1>12. GrantsKnown'
  BY <1>1, <1>2, <1>4, <1>5 DEF GrantsKnown
<1>13. WithdrawnFirst'
  BY <1>1, <1>2, <1>3, <1>5 DEF WithdrawnFirst, Withdrawn
<1> QED BY <1>6, <1>7, <1>8, <1>11, <1>12, <1>13 DEF GrantInv

\* A request may always end without a trace, unless it is a creation that got
\* to the contract.
LEMMA EndKeeps ==
  ASSUME GrantInv, NEW s \in GrantSlot, End(s),
         request[s].at # "idle" => request[s].op # "create" \/ request[s].at = "plan",
         UNCHANGED <<row, granted, grantee, shared, now, head, late, used, orphaned>>
  PROVE  GrantInv'
<1>1. /\ GrantTypes /\ RequestsSound /\ SharedRecorded /\ CreatedOnce /\ GrantsKnown
      /\ WithdrawnFirst
  BY DEF GrantInv
<1>2. /\ request'[s].at = "idle"
      /\ \A z \in GrantSlot : z # s => request'[z] = request[z]
      /\ request' \in [GrantSlot -> GrantRequest \cup {NoRequest}]
  BY <1>1 DEF End, GrantTypes, NoRequest
<1>3. GrantTypes'
  BY <1>1, <1>2 DEF GrantTypes
<1>4. RequestsSound' /\ SharedRecorded'
  BY <1>1, <1>2 DEF RequestsSound, SharedRecorded
<1>5. CreatedOnce'
  BY <1>1, <1>2 DEF CreatedOnce
<1>6. GrantsKnown'
  BY <1>1, <1>2 DEF GrantsKnown
<1>7. WithdrawnFirst'
  BY <1>1, <1>2 DEF WithdrawnFirst, Withdrawn
<1> QED BY <1>3, <1>4, <1>5, <1>6, <1>7 DEF GrantInv

\* A request on a grant that has a row: its beginning, and its way to the save
\* of a row that has expired.
LEMMA BeginKeeps ==
  ASSUME GrantInv, NEW s \in GrantSlot, NEW r \in GrantRequest,
         request[s].at # "idle" => request[s].op # "create",
         row[r.id] # NoRow, r.to = Nobody,
         \/ r.op = "revoke" /\ r.at = "plan" /\ r.row.status = "REVOKED"
         \/ r.op = "transfer" /\ r.at = "validate" /\ r.row = NoRow
         \/ r.op = "transfer" /\ r.at = "save" /\ r.row.status = "EXPIRED",
         request' = [request EXCEPT ![s] = r],
         UNCHANGED <<row, granted, grantee, shared, now, head, late, used, orphaned>>
  PROVE  GrantInv'
<1>1. /\ GrantTypes /\ RequestsSound /\ SharedRecorded /\ CreatedOnce /\ GrantsKnown
      /\ WithdrawnFirst
  BY DEF GrantInv
<1>2. /\ request'[s] = r
      /\ \A z \in GrantSlot : z # s => request'[z] = request[z]
      /\ request' \in [GrantSlot -> GrantRequest \cup {NoRequest}]
  BY <1>1 DEF GrantTypes
<1>3. r.id \in GrantId /\ r.id \in used
  BY <1>1 DEF GrantRequest, CreatedOnce
<1>4. r.row = NoRow => r.row.status \notin {"REVOKED", "EXPIRED"}
  BY GrantAssumption DEF NoRow
<1>5. GrantTypes'
  BY <1>1, <1>2 DEF GrantTypes
<1>6. RequestsSound'
  BY <1>1, <1>2, <1>3, <1>4 DEF RequestsSound
<1>7. SharedRecorded'
  BY <1>1 DEF SharedRecorded
<1>8. CreatedOnce'
  BY <1>1, <1>2, <1>3 DEF CreatedOnce
<1>9. GrantsKnown'
  BY <1>1, <1>2 DEF GrantsKnown
<1>10. WithdrawnFirst'
  BY <1>1, <1>2 DEF WithdrawnFirst, Withdrawn
<1> QED BY <1>5, <1>6, <1>7, <1>8, <1>9, <1>10 DEF GrantInv

LEMMA RevokeGrantKeeps ==
  ASSUME GrantInv, NEW s \in GrantSlot, NEW g \in GrantId, RevokeGrant(s, g)
  PROVE  GrantInv'
<1> DEFINE r == [op |-> "revoke", at |-> "plan", id |-> g, to |-> Nobody,
                 row |-> [row[g] EXCEPT !.status = "REVOKED"]]
<1>1. GrantTypes
  BY DEF GrantInv
<1>2. /\ row[g] # NoRow /\ request[s].at = "idle"
      /\ request' = [request EXCEPT ![s] = r]
      /\ UNCHANGED <<row, granted, grantee, shared, now, head, late, used, orphaned>>
  BY DEF RevokeGrant, world, NoRequest
<1>3. row[g] \in GrantRow
  BY <1>1, <1>2, RowForms
<1>4. [row[g] EXCEPT !.status = "REVOKED"] \in GrantRow
  BY <1>3 DEF GrantRow
<1>5. /\ r \in GrantRequest /\ r.id = g /\ r.to = Nobody /\ r.op = "revoke"
      /\ r.at = "plan" /\ r.row.status = "REVOKED"
  BY <1>3, <1>4 DEF GrantRequest, GrantRow
<1> HIDE DEF r
<1> QED BY <1>2, <1>5, BeginKeeps

LEMMA TransferWithKeeps ==
  ASSUME GrantInv, NEW s \in GrantSlot, NEW g \in GrantId, TransferWith(s, g)
  PROVE  GrantInv'
<1> DEFINE r == [op |-> "transfer", at |-> "validate", id |-> g, to |-> Nobody,
                 row |-> NoRow]
<1>1. GrantTypes
  BY DEF GrantInv
<1>2. /\ row[g].status = "ACTIVE" /\ request[s].at = "idle"
      /\ request' = [request EXCEPT ![s] = r]
      /\ UNCHANGED <<row, granted, grantee, shared, now, head, late, used, orphaned>>
  BY DEF TransferWith, world, NoRequest
<1>3. row[g] # NoRow
  BY <1>1, <1>2, RowForms
<1>4. /\ r \in GrantRequest /\ r.id = g /\ r.to = Nobody /\ r.op = "transfer"
      /\ r.at = "validate" /\ r.row = NoRow
  BY DEF GrantRequest
<1> HIDE DEF r
<1> QED BY <1>2, <1>3, <1>4, BeginKeeps

\* validateGrant ends, or goes on to mark an expired row as such.
LEMMA ValidateGrantKeeps ==
  ASSUME GrantInv, NEW s \in GrantSlot, ValidateGrant(s)
  PROVE  GrantInv'
<1> DEFINE g == request[s].id
<1>1. GrantTypes /\ RequestsSound /\ CreatedOnce
  BY DEF GrantInv
<1>2. /\ request[s].at = "validate"
      /\ UNCHANGED <<row, granted, grantee, shared, now, head, late, used, orphaned>>
      /\ \/ End(s)
         \/ /\ row[g].status = "ACTIVE"
            /\ request' = [request EXCEPT ![s].at = "save",
                                          ![s].row = [row[g] EXCEPT !.status = "EXPIRED"]]
  BY DEF ValidateGrant, world
<1>3. request[s] \in GrantRequest /\ request[s].op = "transfer"
  BY <1>1, <1>2, RequestForms DEF RequestsSound
<1>4. CASE End(s)
  BY <1>2, <1>3, <1>4, EndKeeps
<1>5. CASE /\ row[g].status = "ACTIVE"
           /\ request' = [request EXCEPT ![s].at = "save",
                                         ![s].row = [row[g] EXCEPT !.status = "EXPIRED"]]
  <2> DEFINE r == [request[s] EXCEPT !.at = "save", !.row = [row[g] EXCEPT !.status = "EXPIRED"]]
  <2>1. g \in GrantId /\ request[s].to \in Wallet \cup {Nobody}
    BY <1>3 DEF GrantRequest
  <2>2. row[g] \in GrantRow /\ row[g] # NoRow
    BY <1>1, <1>5, <2>1, RowForms
  <2>3. [row[g] EXCEPT !.status = "EXPIRED"] \in GrantRow
    BY <2>2 DEF GrantRow
  <2>4. /\ r \in GrantRequest /\ r.id = g /\ r.op = "transfer" /\ r.at = "save"
        /\ r.row.status = "EXPIRED" /\ r.to = request[s].to
    BY <1>3, <2>2, <2>3 DEF GrantRequest, GrantRow
  <2>5. request' = [request EXCEPT ![s] = r]
    BY <1>1, <1>5 DEF GrantTypes
  <2>6. request[s].to = Nobody
    BY <1>1, <1>2, <1>3 DEF RequestsSound
  <2> HIDE DEF r
  <2> QED BY <1>2, <1>3, <2>2, <2>4, <2>5, <2>6, BeginKeeps
<1> QED BY <1>2, <1>4, <1>5

\* walletOfIdentity finds an ACTIVE wallet, and no other one is ACTIVE but those
\* that share with it.
LEMMA WalletFound ==
  ASSUME GrantTypes, SharedRecorded, NewestActive # Nobody
  PROVE  /\ NewestActive \in Wallet /\ grantee[NewestActive] = "ACTIVE"
         /\ \A w \in Wallet \ shared : grantee[w] = "ACTIVE" => w = NewestActive
<1>1. /\ Len(Wallets) \in Nat /\ \A i \in 1..Len(Wallets) : Wallets[i] \in Wallet
  BY GrantAssumption
<1>2. ActiveIndex # {}
  BY DEF NewestActive
<1>3. \E m \in ActiveIndex : \A j \in ActiveIndex : j <= m
  <2>1. IsWellFoundedOn(OpToRel(<, Nat), Nat)
    BY NatLessThanWellFounded
  <2>2. PICK T : T = {Len(Wallets) - i : i \in ActiveIndex}
    OBVIOUS
  <2>3. T \subseteq Nat /\ T # {}
    BY <1>1, <1>2, <2>2 DEF ActiveIndex
  <2>4. PICK x \in T : \A y \in T : ~(<<y, x>> \in OpToRel(<, Nat))
    BY <2>1, <2>3, WFMin
  <2>5. PICK m \in ActiveIndex : x = Len(Wallets) - m
    BY <2>2, <2>4
  <2>6. ASSUME NEW j \in ActiveIndex PROVE j <= m
    <3>1. PICK y \in T : y = Len(Wallets) - j
      BY <2>2
    <3>2. ~(y < x)
      BY <2>3, <2>4 DEF OpToRel
    <3>3. j \in 1..Len(Wallets) /\ m \in 1..Len(Wallets)
      BY DEF ActiveIndex
    <3> QED BY <1>1, <2>5, <3>1, <3>2, <3>3
  <2> QED BY <2>6
<1>4. PICK m : m = CHOOSE i \in ActiveIndex : \A j \in ActiveIndex : j <= i
  OBVIOUS
<1>5. m \in ActiveIndex
  BY <1>3, <1>4
<1>6. NewestActive = Wallets[m] /\ m \in 1..Len(Wallets) /\ grantee[Wallets[m]] = "ACTIVE"
  BY <1>2, <1>4, <1>5 DEF NewestActive, ActiveIndex
<1>7. NewestActive \in Wallet /\ grantee[NewestActive] = "ACTIVE"
  BY <1>1, <1>6
<1> QED BY <1>7 DEF SharedRecorded

\* A revocation is planned against the newest wallet in use: once its call is
\* mined, no wallet in use has the grant, but those that share with it.
LEMMA PlanCallKeeps ==
  ASSUME GrantInv, NEW s \in GrantSlot, PlanCall(s)
  PROVE  GrantInv'
<1>1. /\ GrantTypes /\ RequestsSound /\ SharedRecorded /\ CreatedOnce /\ GrantsKnown
      /\ WithdrawnFirst
  BY DEF GrantInv
<1>2. /\ request[s].at = "plan"
      /\ UNCHANGED <<row, granted, grantee, shared, now, head, late, used, orphaned>>
      /\ \/ End(s)
         \/ /\ NewestActive # Nobody
            /\ request' = [request EXCEPT ![s].at = "chain", ![s].to = NewestActive]
  BY DEF PlanCall, world
<1>3. CASE End(s)
  BY <1>2, <1>3, EndKeeps
<1>4. CASE /\ NewestActive # Nobody
           /\ request' = [request EXCEPT ![s].at = "chain", ![s].to = NewestActive]
  <2>1. /\ NewestActive \in Wallet /\ grantee[NewestActive] = "ACTIVE"
        /\ \A w \in Wallet \ shared : grantee[w] = "ACTIVE" => w = NewestActive
    BY <1>1, <1>4, WalletFound
  <2>2. request[s] \in GrantRequest
    BY <1>1, <1>2, RequestForms
  <2>3. /\ request'[s] \in GrantRequest
        /\ request'[s].at = "chain" /\ request'[s].to = NewestActive
        /\ request'[s].op = request[s].op /\ request'[s].id = request[s].id
        /\ request'[s].row = request[s].row
        /\ \A z \in GrantSlot : z # s => request'[z] = request[z]
        /\ request' \in [GrantSlot -> GrantRequest \cup {NoRequest}]
    BY <1>1, <1>4, <2>1, <2>2 DEF GrantTypes, GrantRequest
  <2>4. GrantTypes'
    BY <1>1, <1>2, <2>3 DEF GrantTypes
  <2>5. RequestsSound'
    BY <1>1, <1>2, <2>1, <2>3, GrantAssumption DEF RequestsSound
  <2>6. SharedRecorded'
    BY <1>1, <1>2 DEF SharedRecorded
  <2>7. CreatedOnce'
    BY <1>1, <1>2, <2>3 DEF CreatedOnce
  <2>8. GrantsKnown'
    BY <1>1, <1>2, <2>3 DEF GrantsKnown
  <2>9. WithdrawnFirst'
    BY <1>1, <1>2, <2>1, <2>3 DEF WithdrawnFirst, Withdrawn
  <2> QED BY <2>4, <2>5, <2>6, <2>7, <2>8, <2>9 DEF GrantInv
<1> QED BY <1>2, <1>3, <1>4

\* The call is mined: a creation gives the grant while its row is still to
\* come, a revocation takes it from the wallet in use.
LEMMA TransactKeeps ==
  ASSUME GrantInv, NEW s \in GrantSlot, Transact(s)
  PROVE  GrantInv'
<1> DEFINE c == request[s]
<1>1. /\ GrantTypes /\ RequestsSound /\ SharedRecorded /\ CreatedOnce /\ GrantsKnown
      /\ WithdrawnFirst
  BY DEF GrantInv
<1>2. /\ c.at = "chain"
      /\ granted' = [granted EXCEPT ![c.to] =
                       [active |-> c.op = "create", expires |-> c.row.expires, id |-> c.id]]
      /\ request' = [request EXCEPT ![s].at = "save"]
      /\ UNCHANGED <<row, grantee, shared, now, head, late, used, orphaned>>
  BY DEF Transact, SetTransferGrant, Goto, world
<1>3. /\ c \in GrantRequest /\ c.to \in Wallet /\ c.id \in used /\ c.id \in GrantId
      /\ c.op \in {"create", "revoke"} /\ grantee[c.to] # "PENDING"
      /\ c.row \in GrantRow /\ c.row.expires \in Expiry
  <2>1. c \in GrantRequest
    BY <1>1, <1>2, RequestForms
  <2>2. /\ c.to \in Wallet /\ c.id \in used /\ c.op \in {"create", "revoke"}
        /\ grantee[c.to] # "PENDING" /\ c.row.status \in {"ACTIVE", "REVOKED"}
    BY <1>1, <1>2, GrantAssumption DEF RequestsSound
  <2>3. c.row \in GrantRow \cup {NoRow} /\ c.id \in GrantId
    BY <2>1 DEF GrantRequest
  <2>4. c.row # NoRow
    BY <2>2, GrantAssumption DEF NoRow
  <2> QED BY <2>1, <2>2, <2>3, <2>4 DEF GrantRow
<1>4. /\ request'[s] \in GrantRequest
      /\ request'[s].at = "save" /\ request'[s].to = c.to
      /\ request'[s].op = c.op /\ request'[s].id = c.id /\ request'[s].row = c.row
      /\ \A z \in GrantSlot : z # s => request'[z] = request[z]
      /\ request' \in [GrantSlot -> GrantRequest \cup {NoRequest}]
  BY <1>1, <1>2, <1>3 DEF GrantTypes, GrantRequest
<1>5. /\ granted'[c.to].active <=> c.op = "create"
      /\ granted'[c.to].id = c.id
      /\ \A w \in Wallet : w # c.to => granted'[w] = granted[w]
      /\ granted' \in [Wallet -> [active : BOOLEAN, expires : Expiry \cup {0},
                                  id : GrantId \cup {Nobody}]]
  BY <1>1, <1>2, <1>3 DEF GrantTypes
<1> HIDE DEF c
<1>6. GrantTypes'
  BY <1>1, <1>2, <1>3, <1>4, <1>5 DEF GrantTypes
<1>7. RequestsSound'
  BY <1>1, <1>2, <1>3, <1>4 DEF RequestsSound, c
<1>8. SharedRecorded'
  BY <1>1, <1>2 DEF SharedRecorded
<1>9. CreatedOnce'
  BY <1>1, <1>2, <1>4 DEF CreatedOnce, c
<1>10. GrantsKnown'
  <2> SUFFICES ASSUME NEW w \in Wallet, granted'[w].active
               PROVE  /\ grantee[w] # "PENDING" /\ granted'[w].id \in used
                      /\ \/ row[granted'[w].id] # NoRow
                         \/ granted'[w].id \in orphaned
                         \/ \E z \in GrantSlot :
                               request'[z].at = "save" /\ request'[z].op = "create"
                               /\ request'[z].id = granted'[w].id
    BY <1>2 DEF GrantsKnown
  <2>1. CASE w = c.to
    BY <1>3, <1>4, <1>5, <2>1
  <2>2. CASE w # c.to
    <3>1. \A z \in GrantSlot : request[z].at = "save" => request'[z] = request[z]
      BY <1>2, <1>4 DEF c
    <3> QED BY <1>1, <1>5, <2>2, <3>1 DEF GrantsKnown
  <2> QED BY <2>1, <2>2
<1>11. ASSUME NEW g \in GrantId, NEW W \in SUBSET Wallet, Withdrawn(g, W),
              c.op = "create" => g # c.id
       PROVE  Withdrawn(g, W)'
  BY <1>2, <1>5, <1>11 DEF Withdrawn
<1>12. WithdrawnFirst'
  <2>1. ASSUME NEW g \in GrantId, row[g].status = "REVOKED"
        PROVE  Withdrawn(g, Wallet)'
    <3>1. row[g] # NoRow
      BY <1>1, <2>1, RowForms
    <3>2. c.op = "create" => g # c.id
      BY <1>1, <1>2, <3>1 DEF CreatedOnce, c
    <3> QED BY <1>1, <1>11, <2>1, <3>2 DEF WithdrawnFirst
  <2>2. ASSUME NEW z \in GrantSlot, z # s, request[z].at # "idle", request[z].op = "revoke"
        PROVE  /\ request[z].id \in GrantId
               /\ c.op = "create" => request[z].id # c.id
    <3>1. request[z] \in GrantRequest
      BY <1>1, <2>2, RequestForms
    <3>2. row[request[z].id] # NoRow
      BY <1>1, <2>2 DEF CreatedOnce
    <3> QED BY <1>1, <1>2, <3>1, <3>2 DEF CreatedOnce, GrantRequest, c
  <2>3. ASSUME NEW z \in GrantSlot, z # s, request[z].at # "idle", request[z].op = "revoke"
        PROVE  /\ request[z].at = "chain" =>
                     Withdrawn(request[z].id, Wallet \ {request[z].to})'
               /\ request[z].at = "save" => Withdrawn(request[z].id, Wallet)'
    <3>1. request'[z] = request[z]
      BY <1>4, <2>3
    <3>2. /\ request[z].at = "chain" => Withdrawn(request[z].id, Wallet \ {request[z].to})
          /\ request[z].at = "save" => Withdrawn(request[z].id, Wallet)
      BY <1>1, <2>3 DEF WithdrawnFirst
    <3> QED BY <1>2, <1>5, <2>2, <2>3, <3>1, <3>2 DEF Withdrawn
  <2>4. ASSUME c.op = "revoke", NEW w \in Wallet \ shared, grantee'[w] = "ACTIVE"
        PROVE  ~(granted'[w].active /\ granted'[w].id = c.id)
    <3>1. Withdrawn(c.id, Wallet \ {c.to})
      BY <1>1, <1>2, <2>4 DEF WithdrawnFirst, c
    <3> QED BY <1>2, <1>5, <2>4, <3>1 DEF Withdrawn
  <2> QED BY <1>2, <1>4, <2>1, <2>3, <2>4 DEF WithdrawnFirst, Withdrawn
<1> QED BY <1>6, <1>7, <1>8, <1>9, <1>10, <1>12 DEF GrantInv

\* grants.save: the row of a creation appears, that of a revocation says so
\* after the contract has withdrawn the grant; a stale save of an expired row
\* may overwrite it, but never with ACTIVE.
LEMMA SaveGrantKeeps ==
  ASSUME GrantInv, NEW s \in GrantSlot, SaveGrant(s)
  PROVE  GrantInv'
<1> DEFINE c == request[s]
<1>1. /\ GrantTypes /\ RequestsSound /\ SharedRecorded /\ CreatedOnce /\ GrantsKnown
      /\ WithdrawnFirst
  BY DEF GrantInv
<1>2. /\ c.at = "save"
      /\ row' = [row EXCEPT ![c.id] = c.row]
      /\ request' = [request EXCEPT ![s] = NoRequest]
      /\ UNCHANGED <<granted, grantee, shared, now, head, late, used, orphaned>>
  BY DEF SaveGrant, End, world
<1>3. /\ c \in GrantRequest /\ c.id \in GrantId /\ c.id \in used
      /\ c.row \in GrantRow \cup {NoRow}
      /\ c.row.status \in {"ACTIVE", "REVOKED", "EXPIRED"}
      /\ c.row.status = "REVOKED" => c.op = "revoke"
  <2>1. c \in GrantRequest
    BY <1>1, <1>2, RequestForms
  <2> QED BY <1>1, <1>2, <2>1 DEF RequestsSound, GrantRequest
<1>4. c.row # NoRow /\ c.row \in GrantRow
  BY <1>3, GrantAssumption DEF NoRow
<1>5. /\ request'[s].at = "idle"
      /\ \A z \in GrantSlot : z # s => request'[z] = request[z]
      /\ request' \in [GrantSlot -> GrantRequest \cup {NoRequest}]
  BY <1>1, <1>2 DEF GrantTypes, NoRequest
<1>6. /\ row'[c.id] = c.row
      /\ \A g \in GrantId : g # c.id => row'[g] = row[g]
      /\ row' \in [GrantId -> GrantRow \cup {NoRow}]
  BY <1>1, <1>2, <1>3 DEF GrantTypes
<1> HIDE DEF c
<1>7. GrantTypes'
  BY <1>1, <1>2, <1>5, <1>6 DEF GrantTypes
<1>8. RequestsSound' /\ SharedRecorded'
  BY <1>1, <1>2, <1>5 DEF RequestsSound, SharedRecorded
<1>9. \A z \in GrantSlot : z # s /\ request[z].at # "idle" => request[z] \in GrantRequest
  BY <1>1, RequestForms
<1>10. CreatedOnce'
  <2>1. c.id \notin orphaned
    BY <1>1, <1>2, <1>3 DEF CreatedOnce, c
  <2>2. ASSUME NEW z \in GrantSlot, z # s, request[z].at # "idle", request[z].op = "create"
        PROVE  request[z].id # c.id
    BY <1>1, <1>2, <2>2 DEF CreatedOnce, c
  <2>3. \A g \in GrantId : row'[g] # NoRow => g \in used /\ g \notin orphaned
    BY <1>1, <1>3, <1>6, <2>1 DEF CreatedOnce
  <2>4. \A z \in GrantSlot : request'[z].at # "idle" /\ request'[z].op = "create" =>
          /\ row'[request'[z].id] = NoRow /\ request'[z].id \notin orphaned
          /\ \A y \in GrantSlot : request'[y].at # "idle" /\ request'[y].id = request'[z].id => y = z
    BY <1>1, <1>5, <1>6, <1>9, <2>2 DEF CreatedOnce, GrantRequest
  <2>5. \A z \in GrantSlot : request'[z].at # "idle" /\ request'[z].op # "create" =>
          row'[request'[z].id] # NoRow
    BY <1>1, <1>4, <1>5, <1>6, <1>9 DEF CreatedOnce, GrantRequest
  <2>6. \A x \in late : /\ x.op = "create" => x.id \in orphaned
                        /\ grantee[x.to] # "PENDING"
    BY <1>1 DEF CreatedOnce
  <2> QED BY <1>2, <2>3, <2>4, <2>5, <2>6 DEF CreatedOnce
<1>11. GrantsKnown'
  <2> SUFFICES ASSUME NEW w \in Wallet, granted[w].active
               PROVE  /\ grantee[w] # "PENDING" /\ granted[w].id \in used
                      /\ \/ row'[granted[w].id] # NoRow
                         \/ granted[w].id \in orphaned
                         \/ \E z \in GrantSlot :
                               request'[z].at = "save" /\ request'[z].op = "create"
                               /\ request'[z].id = granted[w].id
    BY <1>2 DEF GrantsKnown
  <2>1. granted[w].id \in GrantId
    BY <1>1 DEF GrantsKnown, GrantTypes
  <2> QED BY <1>1, <1>4, <1>5, <1>6, <2>1 DEF GrantsKnown, c
<1>12. WithdrawnFirst'
  <2>1. ASSUME NEW g \in GrantId, row'[g].status = "REVOKED"
        PROVE  Withdrawn(g, Wallet)
    <3>1. CASE g = c.id
      BY <1>1, <1>2, <1>3, <1>6, <2>1, <3>1 DEF WithdrawnFirst, c
    <3>2. CASE g # c.id
      BY <1>1, <1>6, <2>1, <3>2 DEF WithdrawnFirst
    <3> QED BY <3>1, <3>2
  <2>2. ASSUME NEW z \in GrantSlot, request'[z].at # "idle", request'[z].op = "revoke"
        PROVE  /\ z # s /\ request'[z] = request[z]
               /\ request[z].at = "chain" => Withdrawn(request[z].id, Wallet \ {request[z].to})
               /\ request[z].at = "save" => Withdrawn(request[z].id, Wallet)
    BY <1>1, <1>5, <2>2 DEF WithdrawnFirst
  <2> QED BY <1>2, <2>1, <2>2 DEF WithdrawnFirst, Withdrawn
<1> QED BY <1>7, <1>8, <1>10, <1>11, <1>12 DEF GrantInv

\* A request dies: its call may be mined later, and a creation that got as far
\* as the contract leaves an orphan.
LEMMA DieKeeps ==
  ASSUME GrantInv, NEW s \in GrantSlot, Die(s)
  PROVE  GrantInv'
<1> DEFINE c == request[s]
           x == [op |-> c.op, to |-> c.to, id |-> c.id, row |-> c.row]
<1>1. /\ GrantTypes /\ RequestsSound /\ SharedRecorded /\ CreatedOnce /\ GrantsKnown
      /\ WithdrawnFirst
  BY DEF GrantInv
<1>2. /\ c # NoRequest
      /\ request' = [request EXCEPT ![s] = NoRequest]
      /\ late' = IF c.at = "chain" THEN late \cup {x} ELSE late
      /\ orphaned' = IF c.op = "create" /\ c.at \in {"chain", "save"}
                     THEN orphaned \cup {c.id} ELSE orphaned
      /\ UNCHANGED <<row, granted, grantee, shared, now, head, used>>
  BY DEF Die, End, world
<1>3. /\ c \in GrantRequest /\ c.at # "idle" /\ c.id \in used /\ c.id \in GrantId
      /\ c.op \in {"create", "revoke", "transfer"}
  <2>1. c \in GrantRequest /\ c.at # "idle"
    BY <1>1, <1>2, RequestForms
  <2> QED BY <1>1, <2>1 DEF RequestsSound, GrantRequest
<1>4. ASSUME c.at = "chain"
      PROVE  /\ c.to \in Wallet /\ grantee[c.to] # "PENDING" /\ c.row \in GrantRow
             /\ x \in [op : {"create", "revoke", "transfer"}, to : Wallet,
                       id : GrantId, row : GrantRow]
             /\ x.op = c.op /\ x.to = c.to /\ x.id = c.id
  <2>1. /\ c.to \in Wallet /\ grantee[c.to] # "PENDING"
        /\ c.row.status \in {"ACTIVE", "REVOKED"}
    BY <1>1, <1>4, GrantAssumption DEF RequestsSound
  <2>2. c.row # NoRow /\ c.row \in GrantRow \cup {NoRow}
    BY <1>3, <2>1, GrantAssumption DEF NoRow, GrantRequest
  <2> QED BY <1>3, <2>1, <2>2
<1>5. /\ request'[s].at = "idle"
      /\ \A z \in GrantSlot : z # s => request'[z] = request[z]
      /\ request' \in [GrantSlot -> GrantRequest \cup {NoRequest}]
  BY <1>1, <1>2 DEF GrantTypes, NoRequest
<1> HIDE DEF c, x
<1>6. GrantTypes'
  <2>1. late' \in SUBSET [op : {"create", "revoke", "transfer"}, to : Wallet,
                          id : GrantId, row : GrantRow]
        /\ \A y \in late' : y.id \in used
    BY <1>1, <1>2, <1>3, <1>4 DEF GrantTypes
  <2>2. orphaned' \subseteq used
    BY <1>1, <1>2, <1>3 DEF GrantTypes
  <2> QED BY <1>1, <1>2, <1>5, <2>1, <2>2 DEF GrantTypes
<1>7. RequestsSound' /\ SharedRecorded'
  BY <1>1, <1>2, <1>5 DEF RequestsSound, SharedRecorded
<1>8. CreatedOnce'
  <2>1. orphaned' # orphaned =>
          /\ orphaned' = orphaned \cup {c.id} /\ row[c.id] = NoRow
          /\ \A z \in GrantSlot : z # s /\ request[z].at # "idle" => request[z].id # c.id
    BY <1>1, <1>2, <1>3 DEF CreatedOnce, c
  <2>2. \A y \in late' : /\ y.op = "create" => y.id \in orphaned'
                         /\ grantee[y.to] # "PENDING"
    BY <1>1, <1>2, <1>4 DEF CreatedOnce
  <2>3. \A g \in GrantId : row[g] # NoRow => g \in used /\ g \notin orphaned'
    BY <1>1, <2>1 DEF CreatedOnce
  <2>4. \A z \in GrantSlot : request'[z].at # "idle" /\ request'[z].op = "create" =>
          /\ row[request'[z].id] = NoRow /\ request'[z].id \notin orphaned'
          /\ \A y \in GrantSlot : request'[y].at # "idle" /\ request'[y].id = request'[z].id => y = z
    BY <1>1, <1>5, <2>1 DEF CreatedOnce
  <2>5. \A z \in GrantSlot : request'[z].at # "idle" /\ request'[z].op # "create" =>
          row[request'[z].id] # NoRow
    BY <1>1, <1>5 DEF CreatedOnce
  <2> QED BY <1>2, <2>2, <2>3, <2>4, <2>5 DEF CreatedOnce
<1>9. GrantsKnown'
  <2> SUFFICES ASSUME NEW w \in Wallet, granted[w].active
               PROVE  /\ grantee[w] # "PENDING" /\ granted[w].id \in used
                      /\ \/ row[granted[w].id] # NoRow
                         \/ granted[w].id \in orphaned'
                         \/ \E z \in GrantSlot :
                               request'[z].at = "save" /\ request'[z].op = "create"
                               /\ request'[z].id = granted[w].id
    BY <1>2 DEF GrantsKnown
  <2> QED BY <1>1, <1>2, <1>5 DEF GrantsKnown, c
<1>10. WithdrawnFirst'
  BY <1>1, <1>2, <1>5 DEF WithdrawnFirst, Withdrawn
<1> QED BY <1>6, <1>7, <1>8, <1>9, <1>10 DEF GrantInv

\* A transaction whose sender has died is mined: a creation's grant has no row
\* and never will.
LEMMA MineLateKeeps ==
  ASSUME GrantInv, NEW c \in late, MineLate(c)
  PROVE  GrantInv'
<1>1. /\ GrantTypes /\ RequestsSound /\ SharedRecorded /\ CreatedOnce /\ GrantsKnown
      /\ WithdrawnFirst
  BY DEF GrantInv
<1>2. /\ granted' = [granted EXCEPT ![c.to] =
                       [active |-> c.op = "create", expires |-> c.row.expires, id |-> c.id]]
      /\ late' = late \ {c}
      /\ UNCHANGED <<row, grantee, shared, now, head, request, used, orphaned>>
  BY DEF MineLate, SetTransferGrant, world
<1>3. /\ c.to \in Wallet /\ c.id \in used /\ c.id \in GrantId
      /\ c.row.expires \in Expiry /\ grantee[c.to] # "PENDING"
      /\ c.op = "create" => c.id \in orphaned
  BY <1>1 DEF GrantTypes, GrantRow, CreatedOnce
<1>4. /\ granted'[c.to].active <=> c.op = "create"
      /\ granted'[c.to].id = c.id
      /\ \A w \in Wallet : w # c.to => granted'[w] = granted[w]
      /\ granted' \in [Wallet -> [active : BOOLEAN, expires : Expiry \cup {0},
                                  id : GrantId \cup {Nobody}]]
  BY <1>1, <1>2, <1>3 DEF GrantTypes
<1>5. GrantTypes'
  BY <1>1, <1>2, <1>3, <1>4 DEF GrantTypes
<1>6. RequestsSound' /\ SharedRecorded' /\ CreatedOnce'
  BY <1>1, <1>2 DEF RequestsSound, SharedRecorded, CreatedOnce
<1>7. GrantsKnown'
  BY <1>1, <1>2, <1>3, <1>4 DEF GrantsKnown
<1>8. ASSUME NEW g \in GrantId, row[g] # NoRow
      PROVE  c.op = "create" => g # c.id
  BY <1>1, <1>3, <1>8 DEF CreatedOnce
<1>9. WithdrawnFirst'
  <2>1. ASSUME NEW g \in GrantId, row[g].status = "REVOKED"
        PROVE  Withdrawn(g, Wallet)'
    <3>1. row[g] # NoRow
      BY <1>1, <2>1, RowForms
    <3> QED BY <1>1, <1>2, <1>4, <1>8, <2>1, <3>1 DEF WithdrawnFirst, Withdrawn
  <2>2. ASSUME NEW z \in GrantSlot, request[z].at # "idle", request[z].op = "revoke"
        PROVE  request[z].id \in GrantId /\ row[request[z].id] # NoRow
    <3>1. request[z] \in GrantRequest
      BY <1>1, <2>2, RequestForms
    <3> QED BY <1>1, <2>2, <3>1 DEF CreatedOnce, GrantRequest
  <2>3. ASSUME NEW z \in GrantSlot, request[z].at # "idle", request[z].op = "revoke"
        PROVE  /\ request[z].at = "chain" =>
                     Withdrawn(request[z].id, Wallet \ {request[z].to})'
               /\ request[z].at = "save" => Withdrawn(request[z].id, Wallet)'
    BY <1>1, <1>2, <1>4, <1>8, <2>2, <2>3 DEF WithdrawnFirst, Withdrawn
  <2> QED BY <1>2, <2>1, <2>3 DEF WithdrawnFirst, Withdrawn
<1> QED BY <1>5, <1>6, <1>7, <1>9 DEF GrantInv

\* A replacement wallet is activated: nothing was ever granted to it.
LEMMA WalletsChangeKeeps ==
  ASSUME GrantInv,
         \/ \E i \in 1..Len(Wallets) : Activate(i)
         \/ \E w \in Wallet : RevokeGrantee(w)
  PROVE  GrantInv'
<1>1. /\ GrantTypes /\ RequestsSound /\ SharedRecorded /\ CreatedOnce /\ GrantsKnown
      /\ WithdrawnFirst
  BY DEF GrantInv
<1>2. /\ UNCHANGED <<row, granted, now, head, request, late, used, orphaned>>
      /\ shared \subseteq shared' /\ shared' \subseteq Wallet
      /\ \E v \in Wallet, to \in {"ACTIVE", "REVOKED"} :
            /\ grantee' = [grantee EXCEPT ![v] = to]
            /\ to = "ACTIVE" => grantee[v] = "PENDING"
            /\ to = "REVOKED" => grantee[v] = "ACTIVE"
  BY <1>1, GrantAssumption DEF Activate, RevokeGrantee, GrantTypes
<1>3. GrantTypes'
  BY <1>1, <1>2 DEF GrantTypes
<1>4. \A w \in Wallet : /\ grantee[w] # "PENDING" => grantee'[w] # "PENDING"
                        /\ grantee'[w] = "ACTIVE" /\ grantee[w] # "ACTIVE" => ~granted[w].active
  BY <1>1, <1>2 DEF GrantTypes, GrantsKnown
<1>5. RequestsSound'
  <2>1. \A s \in GrantSlot : request[s].at # "idle" => request[s].to \in Wallet \cup {Nobody}
    BY <1>1, RequestForms DEF GrantRequest
  <2> QED BY <1>1, <1>2, <1>4, <2>1 DEF RequestsSound
<1>6. SharedRecorded'
  <2>1. grantee \in [Wallet -> {"PENDING", "ACTIVE", "REVOKED"}]
    BY <1>1 DEF GrantTypes
  <2>2. ASSUME NEW k \in 1..Len(Wallets), Activate(k)
        PROVE  SharedRecorded'
    <3>1. PICK a \in Wallet : a = Wallets[k] /\ \E i \in DOMAIN Wallets : Wallets[i] = a
      BY GrantAssumption
    <3>2. PICK others : others = {v \in Wallet \ {a} : grantee[v] = "ACTIVE"}
      OBVIOUS
    <3>3. /\ grantee' = [grantee EXCEPT ![a] = "ACTIVE"]
          /\ shared' = IF others = {} THEN shared ELSE shared \cup others \cup {a}
      BY <2>2, <3>1, <3>2 DEF Activate
    <3>4. ASSUME NEW v \in Wallet, NEW w \in Wallet, grantee'[v] = "ACTIVE",
                 grantee'[w] = "ACTIVE", v # w
          PROVE  w \in shared'
      <4>1. CASE v = a \/ w = a
        <5>1. v \in others \/ w \in others
          BY <2>1, <3>2, <3>3, <3>4, <4>1
        <5>2. w = a \/ w \in others
          BY <2>1, <3>2, <3>3, <3>4
        <5> QED BY <3>3, <5>1, <5>2
      <4>2. CASE v # a /\ w # a
        BY <1>1, <1>2, <2>1, <3>3, <3>4, <4>2 DEF SharedRecorded
      <4> QED BY <4>1, <4>2
    <3>5. ASSUME NEW w \in Wallet, grantee'[w] = "ACTIVE"
          PROVE  \E i \in DOMAIN Wallets : Wallets[i] = w
      BY <1>1, <2>1, <3>1, <3>3, <3>5 DEF SharedRecorded
    <3> QED BY <3>4, <3>5 DEF SharedRecorded
  <2>3. ASSUME NEW x \in Wallet, RevokeGrantee(x)
        PROVE  SharedRecorded'
    BY <1>1, <2>1, <2>3 DEF RevokeGrantee, SharedRecorded
  <2> QED BY <2>2, <2>3
<1>7. CreatedOnce'
  BY <1>1, <1>2, <1>4 DEF CreatedOnce, GrantTypes
<1>8. GrantsKnown'
  BY <1>1, <1>2, <1>4 DEF GrantsKnown
<1>9. WithdrawnFirst'
  <2>1. ASSUME NEW g, NEW W \in SUBSET Wallet, Withdrawn(g, W) PROVE Withdrawn(g, W)'
    BY <1>2, <1>4, <2>1 DEF Withdrawn
  <2> QED BY <1>1, <1>2, <2>1 DEF WithdrawnFirst
<1> QED BY <1>3, <1>5, <1>6, <1>7, <1>8, <1>9 DEF GrantInv

LEMMA GrantInvStep == GrantInv /\ [GrantNext]_grantVars => GrantInv'
<1> SUFFICES ASSUME GrantInv, [GrantNext]_grantVars PROVE GrantInv'
  OBVIOUS
<1>1. ASSUME UNCHANGED <<row, granted, grantee, shared, request, late, used, orphaned>>,
             GrantTypes'
      PROVE  GrantInv'
  BY <1>1 DEF GrantInv, RequestsSound, SharedRecorded, CreatedOnce, GrantsKnown,
              WithdrawnFirst, Withdrawn
<1>2. CASE Tick \/ Block
  <2>1. /\ UNCHANGED <<row, granted, grantee, shared, request, late, used, orphaned>>
        /\ now' \in 1..MaxTime /\ head' \in 1..now'
    BY <1>2, GrantAssumption DEF Tick, Block, GrantInv, GrantTypes
  <2>2. GrantTypes'
    BY <2>1 DEF GrantInv, GrantTypes
  <2> QED BY <1>1, <2>1, <2>2
<1>3. CASE UNCHANGED grantVars
  <2>1. UNCHANGED <<row, granted, grantee, shared, now, head, request, late, used, orphaned>>
    BY <1>3 DEF grantVars, world
  <2>2. GrantTypes'
    BY <2>1 DEF GrantInv, GrantTypes
  <2> QED BY <1>1, <2>1, <2>2
<1>4. ASSUME NEW s \in GrantSlot,
             \/ \E g \in GrantId : \/ \E e \in Expiry : CreateGrant(s, g, e)
                                   \/ RevokeGrant(s, g) \/ TransferWith(s, g)
             \/ ValidateGrant(s) \/ PlanCall(s) \/ Transact(s) \/ SaveGrant(s) \/ Die(s)
      PROVE  GrantInv'
  BY <1>4, CreateGrantKeeps, RevokeGrantKeeps, TransferWithKeeps, ValidateGrantKeeps,
     PlanCallKeeps, TransactKeeps, SaveGrantKeeps, DieKeeps
<1> QED BY <1>2, <1>3, <1>4, MineLateKeeps, WalletsChangeKeeps DEF GrantNext

\* The inductive invariant of the grants.
THEOREM GrantInvariant == GrantSpec => []GrantInv
BY GrantInvInit, GrantInvStep, PTL DEF GrantSpec

\* Revoking a grant is final on the chain as well: whatever requests overlap,
\* die or are mined late, and whenever the wallet is replaced, a grant whose
\* row says REVOKED is honoured for no wallet in use that was never in use beside
\* another.
THEOREM RevokedCorrect == GrantSpec => []RevokedIsRevoked
<1>1. ASSUME GrantInv PROVE RevokedIsRevoked
  <2>1. /\ GrantTypes /\ RequestsSound /\ CreatedOnce /\ GrantsKnown /\ WithdrawnFirst
    BY <1>1 DEF GrantInv
  <2>2. GrantsTypeOK
    <3>1. \A g \in GrantId : \/ row[g] = NoRow
                             \/ /\ row[g].status \in {"ACTIVE", "REVOKED", "EXPIRED"}
                                /\ row[g].expires \in Expiry /\ g \in used
      BY <2>1, RowForms DEF GrantRow, CreatedOnce
    <3>2. \A w \in Wallet : /\ granted[w].active \in BOOLEAN
                            /\ granted[w].expires \in Expiry \cup {0}
                            /\ granted[w].id \in used \cup {Nobody}
      BY <2>1 DEF GrantTypes
    <3>3. ASSUME NEW s \in GrantSlot, request[s] # NoRequest
          PROVE  /\ request[s].id \in GrantId /\ request[s].to \in Wallet \cup {Nobody}
                 /\ request[s].at = "chain" => request[s].to # Nobody
      <4>1. request[s] \in GrantRequest /\ request[s].at # "idle"
        BY <2>1, <3>3, RequestForms
      <4>2. request[s].at = "chain" => request[s].to \in Wallet
        BY <2>1, <4>1 DEF RequestsSound
      <4> QED BY <4>1, <4>2, GrantAssumption DEF GrantRequest
    <3> QED BY <2>1, <3>1, <3>2, <3>3 DEF GrantsTypeOK, GrantTypes
  <2>3. ASSUME NEW w \in Wallet \ shared, grantee[w] = "ACTIVE", granted[w].active,
               row[granted[w].id] # NoRow
        PROVE  row[granted[w].id].status \in {"ACTIVE", "EXPIRED"}
    <3>1. granted[w].id \in GrantId
      BY <2>1, <2>3 DEF GrantsKnown, GrantTypes
    <3>2. row[granted[w].id].status # "REVOKED"
      BY <2>1, <2>3, <3>1 DEF WithdrawnFirst, Withdrawn
    <3> QED BY <2>1, <2>3, <3>1, <3>2, RowForms
  <2> QED BY <2>1, <2>2, <2>3 DEF RevokedIsRevoked, GrantStands, GrantsKnown
<1> QED BY <1>1, GrantInvariant, PTL

-----------------------------------------------------------------------------
(* Sessions and challenges: the inductive invariant.                       *)

Kind        == DOMAIN Script
SessionKind == {"freshChallenge", "logout", "protected", "fresh"}

Access == {"session", "device", "sessionWallet", "wallet", "credential", "challenge",
           "consume", "issue", "open", "close", "run"}

AuthRequest ==
    [kind : Kind, todo : Seq(Access), device : Device \cup {None},
     chal : Challenge \cup {None}, token : Token \cup {None}, for : Purpose \cup {None},
     read : Key \cup {None}, late : BOOLEAN, revoked : BOOLEAN]

Eviction == [kind : {"evict"}, todo : {<<"evict">>}, token : Token]

SessionRow == [status : {"open", "closed"}, device : Device, wallet : Key, expired : BOOLEAN]

ChallengeRow == [device : Device \cup {None}, for : Purpose \cup {None},
                 token : Token \cup {None}, used : BOOLEAN, expired : BOOLEAN]

ChallengeUse == [kind : Kind, device : Device \cup {None}, token : Token \cup {None},
                 for : Purpose \cup {None}]

AuthTypes ==
    /\ device \in [Device -> [status : {"ACTIVE", "REVOKED"}, key : Key]]
    /\ wallet \in [Key -> {"PENDING", "ACTIVE", "REVOKED"}]
    /\ credential \subseteq Device
    /\ challenge \in [Challenge -> ChallengeRow]
    /\ session \in [Token -> SessionRow \cup {NoSession}]
    /\ req \in [Slot -> AuthRequest \cup Eviction \cup {Idle}]
    /\ uses \in [Challenge -> Seq(ChallengeUse)]

\* A session is for a wallet of its device.
SessionsSound ==
    \A t \in Token : session[t] # NoSession => DeviceOf[session[t].wallet] = session[t].device

\* A challenge for an operation is one of a session, a login challenge of none;
\* it is marked as used exactly when it was accepted, once, for what it is for.
ChallengesSound ==
    \A c \in Challenge :
        /\ challenge[c].for = None <=> challenge[c].token = None
        /\ ~challenge[c].used => uses[c] = <<>>
        /\ challenge[c].used =>
             /\ Len(uses[c]) = 1
             /\ uses[c][1].device = challenge[c].device
             /\ uses[c][1].token = challenge[c].token
             /\ uses[c][1].for = challenge[c].for

\* How many accesses a request has behind it; what is left is the rest of the
\* list of its handler.
Done(r) == Len(Script[r.kind]) - Len(r.todo)
OnScript(r) ==
    /\ Len(r.todo) \in 1..Len(Script[r.kind])
    /\ \A i \in 1..Len(r.todo) : r.todo[i] = Script[r.kind][Done(r) + i]

\* Between the check of a challenge and its consumption.
Checked(r)    == (r.kind = "login" /\ Done(r) \in 1..3) \/ (r.kind = "fresh" /\ Done(r) \in 7..9)
Unconsumed(r) == (r.kind = "login" /\ Done(r) < 4) \/ (r.kind = "fresh" /\ Done(r) < 10)

\* What a request has in hand: a session that was opened, and its device once
\* it has read it; a challenge that was issued, and for this request once it
\* has checked it; a wallet of the device before it opens a session.  When its
\* session had ended as it arrived, it has yet to read it, and when the wallet was
\* revoked, and was not activated since, it is not past validateSession.
RequestSound(r) ==
    /\ OnScript(r)
    /\ r.kind \in SessionKind =>
         /\ r.token \in Token /\ session[r.token] # NoSession
         /\ Done(r) >= 1 => r.device = session[r.token].device
    /\ r.kind \notin SessionKind =>
         r.token = None /\ r.for = None /\ r.device \in Device /\ ~r.late /\ ~r.revoked
    /\ r.kind = "freshChallenge" => r.for \in Purpose
    /\ Unconsumed(r) => r.chal \in Challenge /\ challenge[r.chal] # NoChallenge
    /\ Checked(r) => IssuedFor(r.chal, r)
    /\ r.kind \in {"login", "legacyLogin"} /\ Done(r) >= 3 =>
         r.read \in Key /\ DeviceOf[r.read] = r.device
    /\ r.late => Done(r) < 1 /\ Ended(r.token)
    /\ r.revoked => Done(r) < 3 /\ Revoked(r.token)

RequestsOnScript == \A s \in Slot, r \in AuthRequest : req[s] = r => RequestSound(r)

AuthInv ==
    /\ AuthTypes
    /\ SessionsSound
    /\ ChallengesSound
    /\ RequestsOnScript

\* The handlers, and how many accesses each makes.
LEMMA ScriptLengths ==
  /\ Kind = {"loginChallenge", "login", "legacyLogin", "freshChallenge", "logout",
             "protected", "fresh"}
  /\ Len(Script["loginChallenge"]) = 3 /\ Len(Script["login"]) = 5
  /\ Len(Script["legacyLogin"]) = 4 /\ Len(Script["freshChallenge"]) = 7
  /\ Len(Script["logout"]) = 4 /\ Len(Script["protected"]) = 4
  /\ Len(Script["fresh"]) = 11
<1>1. Kind = {"loginChallenge", "login", "legacyLogin", "freshChallenge", "logout",
              "protected", "fresh"}
  BY DEF Kind, Script
<1>2. /\ Len(Script["loginChallenge"]) = 3 /\ Len(Script["login"]) = 5
      /\ Len(Script["legacyLogin"]) = 4
  BY DEF Script
<1>3. Len(Script["freshChallenge"]) = 7
  BY DEF Script, Validate
<1>4. Len(Script["logout"]) = 4 /\ Len(Script["protected"]) = 4
  BY DEF Script, Validate
<1>5. Len(Script["fresh"]) = 11
  BY DEF Script, Validate
<1> QED BY <1>1, <1>2, <1>3, <1>4, <1>5

\* Their accesses.
LEMMA ScriptSteps ==
  /\ Script["loginChallenge"][1] = "device" /\ Script["loginChallenge"][2] = "wallet"
  /\ Script["loginChallenge"][3] = "issue"
  /\ Script["login"][1] = "challenge" /\ Script["login"][2] = "device"
  /\ Script["login"][3] = "wallet" /\ Script["login"][4] = "consume"
  /\ Script["login"][5] = "open"
  /\ Script["legacyLogin"][1] = "credential" /\ Script["legacyLogin"][2] = "device"
  /\ Script["legacyLogin"][3] = "wallet" /\ Script["legacyLogin"][4] = "open"
  /\ \A k \in SessionKind : /\ Script[k][1] = "session" /\ Script[k][2] = "device"
                            /\ Script[k][3] = "sessionWallet"
  /\ \A k \in {"freshChallenge", "fresh"} :
        /\ Script[k][4] = "session" /\ Script[k][5] = "device"
        /\ Script[k][6] = "sessionWallet"
  /\ Script["logout"][4] = "close" /\ Script["protected"][4] = "run"
  /\ Script["freshChallenge"][7] = "issue"
  /\ Script["fresh"][7] = "challenge" /\ Script["fresh"][8] = "device"
  /\ Script["fresh"][9] = "wallet" /\ Script["fresh"][10] = "consume"
  /\ Script["fresh"][11] = "run"
<1>1. /\ Script["loginChallenge"][1] = "device" /\ Script["loginChallenge"][2] = "wallet"
      /\ Script["loginChallenge"][3] = "issue"
      /\ Script["login"][1] = "challenge" /\ Script["login"][2] = "device"
      /\ Script["login"][3] = "wallet" /\ Script["login"][4] = "consume"
      /\ Script["login"][5] = "open"
      /\ Script["legacyLogin"][1] = "credential" /\ Script["legacyLogin"][2] = "device"
      /\ Script["legacyLogin"][3] = "wallet" /\ Script["legacyLogin"][4] = "open"
  BY DEF Script
<1>2. /\ Script["logout"][1] = "session" /\ Script["logout"][2] = "device"
      /\ Script["logout"][3] = "sessionWallet" /\ Script["logout"][4] = "close"
  BY DEF Script, Validate
<1>3. /\ Script["protected"][1] = "session" /\ Script["protected"][2] = "device"
      /\ Script["protected"][3] = "sessionWallet" /\ Script["protected"][4] = "run"
  BY DEF Script, Validate
<1>4. /\ Script["freshChallenge"][1] = "session" /\ Script["freshChallenge"][2] = "device"
      /\ Script["freshChallenge"][3] = "sessionWallet"
  BY DEF Script, Validate
<1>5. /\ Script["freshChallenge"][4] = "session" /\ Script["freshChallenge"][5] = "device"
      /\ Script["freshChallenge"][6] = "sessionWallet" /\ Script["freshChallenge"][7] = "issue"
  BY DEF Script, Validate
<1>6. /\ Script["fresh"][1] = "session" /\ Script["fresh"][2] = "device"
      /\ Script["fresh"][3] = "sessionWallet"
  BY DEF Script, Validate
<1>7. /\ Script["fresh"][4] = "session" /\ Script["fresh"][5] = "device"
      /\ Script["fresh"][6] = "sessionWallet" /\ Script["fresh"][7] = "challenge"
  BY DEF Script, Validate
<1>8. /\ Script["fresh"][8] = "device" /\ Script["fresh"][9] = "wallet"
      /\ Script["fresh"][10] = "consume" /\ Script["fresh"][11] = "run"
  BY DEF Script, Validate
<1> QED BY <1>1, <1>2, <1>3, <1>4, <1>5, <1>6, <1>7, <1>8 DEF SessionKind

\* They are lists of accesses.
LEMMA ScriptLists == \A k \in Kind : Script[k] \in Seq(Access)
<1>1. Script["loginChallenge"] \in Seq(Access)
  BY DEF Script, Access
<1>2. Script["login"] \in Seq(Access)
  BY DEF Script, Access
<1>3. Script["legacyLogin"] \in Seq(Access)
  BY DEF Script, Access
<1>4. Validate \in Seq(Access)
  BY DEF Validate, Access
<1>5. Script["logout"] \in Seq(Access)
  BY <1>4 DEF Script, Access
<1>6. Script["protected"] \in Seq(Access)
  BY <1>4 DEF Script, Access
<1>7. Script["freshChallenge"] \in Seq(Access)
  BY <1>4 DEF Script, Access
<1>8. Script["fresh"] \in Seq(Access)
  BY <1>4 DEF Script, Access
<1> QED BY <1>1, <1>2, <1>3, <1>5, <1>6, <1>7, <1>8, ScriptLengths

\* What is left of a list is its end.
LEMMA ListRest ==
  ASSUME NEW todo \in Seq(Access), NEW script, NEW n \in Nat, Len(todo) \in 1..n,
         \A i \in 1..Len(todo) : todo[i] = script[(n - Len(todo)) + i]
  PROVE  /\ todo # <<>> /\ n - Len(todo) \in 0..(n - 1)
         /\ Head(todo) = script[(n - Len(todo)) + 1]
<1>1. Len(todo) \in Nat /\ Len(todo) > 0 /\ 1 \in 1..Len(todo)
  OBVIOUS
<1>2. todo # <<>> /\ Head(todo) = todo[1]
  BY <1>1
<1> QED BY <1>1, <1>2

\* Where in which handler access h is made: in handler k, which makes n, with
\* d of them behind.
AccessIn(h, k, d, n) ==
    /\ n - d = 1 => h \in {"issue", "open", "close", "run"}
    /\ h = "session" => k \in SessionKind /\ d \in {0, 3}
    /\ h = "sessionWallet" => k \in SessionKind /\ d \in {2, 5}
    /\ k \in SessionKind /\ d = 0 => h = "session"
    /\ k \in SessionKind /\ d = 2 => h = "sessionWallet"
    /\ h = "credential" => k = "legacyLogin" /\ d = 0
    /\ h = "device" =>
         \/ k = "loginChallenge" /\ d = 0
         \/ k \in {"login", "legacyLogin"} /\ d = 1
         \/ k \in SessionKind /\ d \in {1, 4}
         \/ k = "fresh" /\ d = 7
    /\ h = "wallet" =>
         \/ k = "loginChallenge" /\ d = 1
         \/ k \in {"login", "legacyLogin"} /\ d = 2
         \/ k = "fresh" /\ d = 8
    /\ h = "challenge" => (k = "login" /\ d = 0) \/ (k = "fresh" /\ d = 6)
    /\ h = "consume" => (k = "login" /\ d = 3) \/ (k = "fresh" /\ d = 9)
    /\ h = "issue" => (k = "loginChallenge" /\ d = 2) \/ (k = "freshChallenge" /\ d = 6)
    /\ h = "open" => (k = "login" /\ d = 4) \/ (k = "legacyLogin" /\ d = 3)
    /\ h = "close" => k = "logout"
    /\ h = "run" => k \in {"protected", "fresh"} /\ d >= 3
    /\ h # "evict"

LEMMA AccessTable ==
  ASSUME NEW k \in Kind, NEW d \in 0..(Len(Script[k]) - 1)
  PROVE  AccessIn(Script[k][d + 1], k, d, Len(Script[k]))
<1>1. CASE k = "loginChallenge"
  <2>1. Len(Script[k]) = 3
    BY <1>1, ScriptLengths
  <2>2. d \in 0..2
    BY <2>1
  <2>3. /\ AccessIn("device", "loginChallenge", 0, 3) /\ AccessIn("wallet", "loginChallenge", 1, 3)
        /\ AccessIn("issue", "loginChallenge", 2, 3)
    BY DEF AccessIn, SessionKind
  <2> QED BY <1>1, <2>1, <2>2, <2>3, ScriptSteps DEF SessionKind
<1>2. CASE k = "login"
  <2>1. Len(Script[k]) = 5
    BY <1>2, ScriptLengths
  <2>2. d \in 0..4
    BY <2>1
  <2>3. /\ AccessIn("challenge", "login", 0, 5) /\ AccessIn("device", "login", 1, 5)
        /\ AccessIn("wallet", "login", 2, 5) /\ AccessIn("consume", "login", 3, 5)
        /\ AccessIn("open", "login", 4, 5)
    BY DEF AccessIn, SessionKind
  <2> QED BY <1>2, <2>1, <2>2, <2>3, ScriptSteps DEF SessionKind
<1>3. CASE k = "legacyLogin"
  <2>1. Len(Script[k]) = 4
    BY <1>3, ScriptLengths
  <2>2. d \in 0..3
    BY <2>1
  <2>3. /\ AccessIn("credential", "legacyLogin", 0, 4) /\ AccessIn("device", "legacyLogin", 1, 4)
        /\ AccessIn("wallet", "legacyLogin", 2, 4) /\ AccessIn("open", "legacyLogin", 3, 4)
    BY DEF AccessIn, SessionKind
  <2> QED BY <1>3, <2>1, <2>2, <2>3, ScriptSteps DEF SessionKind
<1>4. CASE k = "freshChallenge"
  <2>1. Len(Script[k]) = 7
    BY <1>4, ScriptLengths
  <2>2. d \in 0..6
    BY <2>1
  <2>3. /\ AccessIn("session", "freshChallenge", 0, 7) /\ AccessIn("device", "freshChallenge", 1, 7)
        /\ AccessIn("sessionWallet", "freshChallenge", 2, 7) /\ AccessIn("session", "freshChallenge", 3, 7)
        /\ AccessIn("device", "freshChallenge", 4, 7) /\ AccessIn("sessionWallet", "freshChallenge", 5, 7)
        /\ AccessIn("issue", "freshChallenge", 6, 7)
    BY DEF AccessIn, SessionKind
  <2> QED BY <1>4, <2>1, <2>2, <2>3, ScriptSteps DEF SessionKind
<1>5. CASE k = "logout"
  <2>1. Len(Script[k]) = 4
    BY <1>5, ScriptLengths
  <2>2. d \in 0..3
    BY <2>1
  <2>3. /\ AccessIn("session", "logout", 0, 4) /\ AccessIn("device", "logout", 1, 4)
        /\ AccessIn("sessionWallet", "logout", 2, 4) /\ AccessIn("close", "logout", 3, 4)
    BY DEF AccessIn, SessionKind
  <2> QED BY <1>5, <2>1, <2>2, <2>3, ScriptSteps DEF SessionKind
<1>6. CASE k = "protected"
  <2>1. Len(Script[k]) = 4
    BY <1>6, ScriptLengths
  <2>2. d \in 0..3
    BY <2>1
  <2>3. /\ AccessIn("session", "protected", 0, 4) /\ AccessIn("device", "protected", 1, 4)
        /\ AccessIn("sessionWallet", "protected", 2, 4) /\ AccessIn("run", "protected", 3, 4)
    BY DEF AccessIn, SessionKind
  <2> QED BY <1>6, <2>1, <2>2, <2>3, ScriptSteps DEF SessionKind
<1>7. CASE k = "fresh"
  <2>1. Len(Script[k]) = 11
    BY <1>7, ScriptLengths
  <2>2. d \in 0..10
    BY <2>1
  <2>3. /\ AccessIn("session", "fresh", 0, 11) /\ AccessIn("device", "fresh", 1, 11)
        /\ AccessIn("sessionWallet", "fresh", 2, 11) /\ AccessIn("session", "fresh", 3, 11)
        /\ AccessIn("device", "fresh", 4, 11) /\ AccessIn("sessionWallet", "fresh", 5, 11)
        /\ AccessIn("challenge", "fresh", 6, 11) /\ AccessIn("device", "fresh", 7, 11)
        /\ AccessIn("wallet", "fresh", 8, 11) /\ AccessIn("consume", "fresh", 9, 11)
        /\ AccessIn("run", "fresh", 10, 11)
    BY DEF AccessIn, SessionKind
  <2> QED BY <1>7, <2>1, <2>2, <2>3, ScriptSteps DEF SessionKind
<1> QED BY <1>1, <1>2, <1>3, <1>4, <1>5, <1>6, <1>7, ScriptLengths

\* What a request is about to access.
LEMMA NextAccess ==
  ASSUME NEW r \in AuthRequest, OnScript(r)
  PROVE  /\ Done(r) \in Nat /\ Done(r) < Len(Script[r.kind]) /\ r.todo # <<>>
         /\ Len(r.todo) = Len(Script[r.kind]) - Done(r) /\ Len(Script[r.kind]) \in Nat
         /\ AccessIn(Head(r.todo), r.kind, Done(r), Len(Script[r.kind]))
<1>1. r.kind \in Kind /\ r.todo \in Seq(Access)
  BY DEF AuthRequest
<1>2. PICK k : k = r.kind
  OBVIOUS
<1>3. PICK n : n = Len(Script[k])
  OBVIOUS
<1>4. PICK todo : todo = r.todo
  OBVIOUS
<1>5. PICK d : d = n - Len(todo)
  OBVIOUS
<1>6. k \in Kind /\ n \in Nat /\ todo \in Seq(Access) /\ Done(r) = d
  BY <1>1, <1>2, <1>3, <1>4, <1>5, ScriptLengths DEF Done
<1>7. /\ Len(todo) \in 1..n
      /\ \A i \in 1..Len(todo) : todo[i] = Script[k][(n - Len(todo)) + i]
  BY <1>2, <1>3, <1>4, <1>5, <1>6 DEF OnScript
<1>8. todo # <<>> /\ d \in 0..(n - 1) /\ Head(todo) = Script[k][d + 1]
  BY <1>5, <1>6, <1>7, ListRest
<1>9. Len(todo) = n - d /\ d < n /\ d \in Nat
  BY <1>5, <1>6, <1>7, <1>8
<1>10. AccessIn(Head(todo), k, d, n)
  BY <1>3, <1>6, <1>8, AccessTable
<1> QED BY <1>2, <1>3, <1>4, <1>6, <1>8, <1>9, <1>10

\* The access is over: the rest of the list is left.
LEMMA NextOnScript ==
  ASSUME NEW r \in AuthRequest, OnScript(r), Len(r.todo) # 1, NEW q,
         q.kind = r.kind, q.todo = Tail(r.todo)
  PROVE  OnScript(q) /\ Done(q) = Done(r) + 1 /\ q.todo \in Seq(Access)
<1>1. r.kind \in Kind /\ r.todo \in Seq(Access)
  BY DEF AuthRequest
<1>2. PICK k : k = r.kind
  OBVIOUS
<1>3. PICK n : n = Len(Script[k])
  OBVIOUS
<1>4. PICK todo : todo = r.todo
  OBVIOUS
<1>5. PICK rest : rest = Tail(todo)
  OBVIOUS
<1>6. k \in Kind /\ n \in Nat /\ todo \in Seq(Access) /\ Done(r) = n - Len(todo)
  BY <1>1, <1>2, <1>3, <1>4, ScriptLengths DEF Done
<1>7. /\ Len(todo) \in 1..n /\ Len(todo) # 1
      /\ \A i \in 1..Len(todo) : todo[i] = Script[k][(n - Len(todo)) + i]
  BY <1>2, <1>3, <1>4, <1>6 DEF OnScript
<1>8. /\ rest \in Seq(Access) /\ Len(rest) = Len(todo) - 1 /\ Len(rest) \in 1..n
      /\ \A i \in 1..Len(rest) : rest[i] = Script[k][(n - Len(rest)) + i]
  <2>1. Len(todo) \in Nat /\ Len(todo) > 1 /\ todo # <<>>
    <3>1. Len(todo) \in Nat /\ Len(<<>>) = 0
      BY <1>6
    <3>2. \A m \in 1..n : m # 1 => m > 1
      BY <1>6
    <3>3. Len(todo) > 1
      BY <1>7, <3>2
    <3> QED BY <3>1, <3>3
  <2>2. rest \in Seq(Access) /\ Len(rest) = Len(todo) - 1
    BY <1>5, <1>6, <2>1
  <2>3. Len(rest) \in 1..n
    BY <1>6, <1>7, <2>1, <2>2
  <2>4. ASSUME NEW i \in 1..Len(rest) PROVE rest[i] = Script[k][(n - Len(rest)) + i]
    <3>1. i + 1 \in 1..Len(todo) /\ rest[i] = todo[i + 1]
      BY <1>5, <1>6, <2>1, <2>2
    <3>2. (n - Len(todo)) + (i + 1) = (n - Len(rest)) + i
      BY <1>6, <2>1, <2>2
    <3> QED BY <1>7, <3>1, <3>2
  <2> QED BY <2>2, <2>3, <2>4
<1>9. q.kind = k /\ q.todo = rest /\ Done(q) = n - Len(rest)
  BY <1>2, <1>3, <1>4, <1>5 DEF Done
<1>10. Done(q) = Done(r) + 1
  BY <1>6, <1>7, <1>8, <1>9
<1> QED BY <1>3, <1>8, <1>9, <1>10 DEF OnScript

\* Sessions and challenges keep what they are for, and a session that has ended
\* has ended for ever.
Evolves ==
    /\ \A t \in Token : session[t] # NoSession =>
          /\ session'[t] # NoSession /\ session'[t].device = session[t].device
          /\ session'[t].wallet = session[t].wallet
          /\ Ended(t) => Ended(t)'
    /\ \A c \in Challenge : challenge[c] # NoChallenge =>
          /\ challenge'[c] # NoChallenge /\ challenge'[c].device = challenge[c].device
          /\ challenge'[c].for = challenge[c].for /\ challenge'[c].token = challenge[c].token

\* A revoked wallet stays revoked: every step but an activation.
RevokedStay ==
    \A t \in Token : session[t] # NoSession => (Revoked(t) => Revoked(t)')

LEMMA RequestStaysSound ==
  ASSUME NEW r \in AuthRequest, RequestSound(r), Evolves,
         RevokedStay \/ ~r.revoked \/ Revoked(r.token)'
  PROVE  RequestSound(r)'
<1>1. OnScript(r)'
  BY DEF RequestSound, OnScript, Done
<1>2. r.kind \in SessionKind =>
         /\ r.token \in Token /\ session'[r.token] # NoSession
         /\ Done(r) >= 1 => r.device = session'[r.token].device
  BY DEF RequestSound, Evolves
<1>3. Unconsumed(r) => r.chal \in Challenge /\ challenge'[r.chal] # NoChallenge
  BY DEF RequestSound, Evolves
<1>4. ASSUME Checked(r) PROVE IssuedFor(r.chal, r)'
  <2>1. Unconsumed(r)
    BY <1>4 DEF Checked, Unconsumed
  <2>2. r.chal \in Challenge /\ challenge[r.chal] # NoChallenge /\ IssuedFor(r.chal, r)
    BY <1>4, <2>1 DEF RequestSound
  <2> QED BY <2>2 DEF Evolves, IssuedFor
<1>5. ASSUME r.late PROVE Done(r) < 1 /\ Ended(r.token)'
  <2>1. r.kind \in SessionKind
    BY <1>5 DEF RequestSound
  <2>2. r.token \in Token /\ session[r.token] # NoSession /\ Ended(r.token) /\ Done(r) < 1
    BY <1>5, <2>1 DEF RequestSound
  <2> QED BY <2>2 DEF Evolves
<1>6. ASSUME r.revoked PROVE Done(r) < 3 /\ Revoked(r.token)'
  <2>1. r.kind \in SessionKind
    BY <1>6 DEF RequestSound
  <2>2. r.token \in Token /\ session[r.token] # NoSession /\ Revoked(r.token) /\ Done(r) < 3
    BY <1>6, <2>1 DEF RequestSound
  <2> QED BY <1>6, <2>2 DEF RevokedStay
<1> QED BY <1>1, <1>2, <1>3, <1>4, <1>5, <1>6 DEF RequestSound, Checked, Unconsumed, Done

\* A request is on its own: a step of one slot leaves the others as they are.
LEMMA SlotUpdated ==
  ASSUME AuthInv, Evolves, RevokedStay, NEW s \in Slot, NEW q, req' = [req EXCEPT ![s] = q],
         q \in Eviction \cup {Idle} \/ (q \in AuthRequest /\ RequestSound(q)')
  PROVE  RequestsOnScript' /\ req' \in [Slot -> AuthRequest \cup Eviction \cup {Idle}]
<1>1. req \in [Slot -> AuthRequest \cup Eviction \cup {Idle}]
  BY DEF AuthInv, AuthTypes
<1>2. \A z \in Slot : req'[z] = IF z = s THEN q ELSE req[z]
  BY <1>1
<1>3. \A r \in AuthRequest : r \notin Eviction /\ r # Idle
  <2>1. \A r \in AuthRequest : r.kind # "evict"
    BY ScriptLengths DEF AuthRequest
  <2>2. \A r \in Eviction : r.kind = "evict"
    BY DEF Eviction
  <2>3. \A r \in AuthRequest : "kind" \in DOMAIN r
    BY DEF AuthRequest
  <2>4. "kind" \notin DOMAIN Idle
    BY DEF Idle
  <2> QED BY <2>1, <2>2, <2>3, <2>4
<1>4. ASSUME NEW z \in Slot, NEW r \in AuthRequest, req'[z] = r PROVE RequestSound(r)'
  <2>1. CASE z = s
    <3>1. r = q
      BY <1>2, <1>4, <2>1
    <3> QED BY <1>3, <3>1
  <2>2. CASE z # s
    <3>1. req[z] = r
      BY <1>2, <1>4, <2>2
    <3>2. RequestSound(r)
      BY <3>1 DEF AuthInv, RequestsOnScript
    <3> QED BY <3>2, RequestStaysSound
  <2> QED BY <2>1, <2>2
<1>5. req' \in [Slot -> AuthRequest \cup Eviction \cup {Idle}]
  BY <1>1
<1>6. RequestsOnScript'
  BY <1>4 DEF RequestsOnScript
<1> QED BY <1>5, <1>6

\* Who makes an access is a request on its way, but for the deletion at the end
\* of a failed validateSession.
LEMMA AtRequest ==
  ASSUME AuthInv, NEW s \in Slot, NEW step, At(s, step), step # "evict"
  PROVE  /\ req[s] \in AuthRequest /\ RequestSound(req[s]) /\ Head(req[s].todo) = step
         /\ AccessIn(step, req[s].kind, Done(req[s]), Len(Script[req[s].kind]))
         /\ Done(req[s]) \in Nat /\ req[s].todo # <<>>
         /\ Len(Script[req[s].kind]) \in Nat
         /\ Len(req[s].todo) = Len(Script[req[s].kind]) - Done(req[s])
         /\ step \notin {"issue", "open", "close", "run"} => Len(req[s].todo) # 1
<1>1. req[s] # Idle /\ Head(req[s].todo) = step
  BY DEF At
<1>2. \A r \in Eviction : Head(r.todo) = "evict"
  BY DEF Eviction
<1>3. req[s] \in AuthRequest
  BY <1>1, <1>2 DEF AuthInv, AuthTypes
<1>4. RequestSound(req[s]) /\ OnScript(req[s])
  BY <1>3 DEF AuthInv, RequestsOnScript, RequestSound
<1>5. PICK r \in AuthRequest : r = req[s]
  BY <1>3
<1>6. /\ Done(r) \in Nat /\ r.todo # <<>> /\ Len(Script[r.kind]) \in Nat
      /\ Len(r.todo) = Len(Script[r.kind]) - Done(r)
      /\ AccessIn(Head(r.todo), r.kind, Done(r), Len(Script[r.kind]))
  BY <1>4, <1>5, NextAccess
<1>7. ASSUME step \notin {"issue", "open", "close", "run"}, Len(r.todo) = 1 PROVE FALSE
  BY <1>1, <1>5, <1>6, <1>7 DEF AccessIn
<1> QED BY <1>1, <1>4, <1>5, <1>6, <1>7

\* A request that goes on to its next access stays sound, when what the access
\* had to find out was so.
LEMMA PassSound ==
  ASSUME NEW r \in AuthRequest, RequestSound(r), Len(r.todo) # 1,
         NEW q \in AuthRequest, q.kind = r.kind, q.todo = Tail(r.todo),
         q.token = r.token, q.late = r.late, q.revoked = r.revoked,
         Unconsumed(q) => q.chal = r.chal,
         r.kind = "freshChallenge" => q.for = r.for,
         r.kind \notin SessionKind => q.for = r.for /\ q.device = r.device,
         r.kind \in SessionKind => q.device = session[r.token].device,
         Checked(q) => IssuedFor(q.chal, q),
         r.kind \in {"login", "legacyLogin"} /\ Done(r) >= 2 =>
            q.read \in Key /\ DeviceOf[q.read] = q.device,
         ~r.late, r.revoked => Done(r) # 2
  PROVE  RequestSound(q)
<1>1. OnScript(r)
  BY DEF RequestSound
<1>2. OnScript(q) /\ Done(q) = Done(r) + 1 /\ Done(r) \in Nat
  BY <1>1, NextOnScript, NextAccess
<1>3. Unconsumed(q) => Unconsumed(r)
  BY <1>2 DEF Unconsumed
<1>4. Unconsumed(q) => q.chal \in Challenge /\ challenge[q.chal] # NoChallenge
  BY <1>3 DEF RequestSound
<1>5. ~q.late /\ (q.revoked => Done(q) < 3 /\ Revoked(q.token))
  BY <1>2 DEF RequestSound
<1>6. q.kind \in {"login", "legacyLogin"} /\ Done(q) >= 3 =>
         q.read \in Key /\ DeviceOf[q.read] = q.device
  BY <1>2
<1>7. q.kind \in SessionKind =>
         /\ q.token \in Token /\ session[q.token] # NoSession
         /\ Done(q) >= 1 => q.device = session[q.token].device
  BY DEF RequestSound
<1>8. q.kind \notin SessionKind =>
         q.token = None /\ q.for = None /\ q.device \in Device /\ ~q.late /\ ~q.revoked
  BY DEF RequestSound
<1>9. q.kind = "freshChallenge" => q.for \in Purpose
  BY DEF RequestSound
<1> QED BY <1>2, <1>4, <1>5, <1>6, <1>7, <1>8, <1>9 DEF RequestSound

\* Reading changes no row.
LEMMA ReadKeeps ==
  ASSUME AuthInv, NEW s \in Slot, NEW q, req' = [req EXCEPT ![s] = q],
         q \in Eviction \cup {Idle} \/ (q \in AuthRequest /\ RequestSound(q)),
         UNCHANGED <<device, wallet, credential, challenge, session, uses>>
  PROVE  AuthInv'
<1>1. UNCHANGED device /\ UNCHANGED wallet /\ UNCHANGED credential
      /\ UNCHANGED challenge /\ UNCHANGED session /\ UNCHANGED uses
  OBVIOUS
<1>2. Evolves /\ RevokedStay
  BY <1>1 DEF Evolves, RevokedStay, Ended, Revoked
<1>3. q \in AuthRequest /\ RequestSound(q) => RequestSound(q)'
  BY <1>2, RequestStaysSound
<1>4. RequestsOnScript' /\ req' \in [Slot -> AuthRequest \cup Eviction \cup {Idle}]
  BY <1>2, <1>3, SlotUpdated
<1>5. AuthTypes'
  BY <1>1, <1>4 DEF AuthInv, AuthTypes
<1>6. SessionsSound'
  BY <1>1 DEF AuthInv, SessionsSound
<1>7. ChallengesSound'
  BY <1>1 DEF AuthInv, ChallengesSound
<1> QED BY <1>4, <1>5, <1>6, <1>7 DEF AuthInv

\* A request whose check has failed ends, or first deletes its session.
LEMMA FailForms ==
  ASSUME AuthInv, NEW s \in Slot, req[s] \in AuthRequest
  PROVE  /\ Fail(s) => \E q \in Eviction \cup {Idle} : req' = [req EXCEPT ![s] = q]
         /\ Finish(s) => \E q \in Eviction \cup {Idle} : req' = [req EXCEPT ![s] = q]
<1>1. Finish(s) => req' = [req EXCEPT ![s] = Idle]
  BY DEF Finish
<1>2. ASSUME Evict(s), req[s].token # None
      PROVE  \E q \in Eviction : req' = [req EXCEPT ![s] = q]
  <2>1. req' = [req EXCEPT ![s] = [kind |-> "evict", todo |-> <<"evict">>, token |-> req[s].token]]
    BY <1>2 DEF Evict, AuthInv, AuthTypes
  <2>2. [kind |-> "evict", todo |-> <<"evict">>, token |-> req[s].token] \in Eviction
    BY <1>2 DEF Eviction, AuthRequest
  <2> QED BY <2>1, <2>2
<1> QED BY <1>1, <1>2 DEF Fail

LEMMA FailKeeps ==
  ASSUME AuthInv, NEW s \in Slot, req[s] \in AuthRequest, Fail(s) \/ Finish(s),
         UNCHANGED <<device, wallet, credential, challenge, session, uses>>
  PROVE  AuthInv'
<1>1. PICK q \in Eviction \cup {Idle} : req' = [req EXCEPT ![s] = q]
  BY FailForms
<1> QED BY <1>1, ReadKeeps

LEMMA ReadSessionKeeps ==
  ASSUME AuthInv, NEW s \in Slot, ReadSession(s)
  PROVE  AuthInv'
<1>1. At(s, "session") /\ UNCHANGED <<device, wallet, credential, challenge, session, uses>>
  BY DEF ReadSession, rowVars
<1>2. PICK r \in AuthRequest : r = req[s]
  BY <1>1, AtRequest
<1>3. /\ RequestSound(r) /\ Len(r.todo) # 1 /\ Done(r) \in {0, 3} /\ r.kind \in SessionKind
      /\ r.todo # <<>>
  BY <1>1, <1>2, AtRequest DEF AccessIn
<1>4. r.token \in Token /\ session[r.token] # NoSession
  BY <1>3 DEF RequestSound
<1>5. session[r.token] \in SessionRow
  BY <1>4 DEF AuthInv, AuthTypes
<1>6. ASSUME session[r.token].status = "open", ~session[r.token].expired,
             req' = [req EXCEPT ![s].todo = Tail(@), ![s].device = session[r.token].device]
      PROVE  AuthInv'
  <2>1. PICK q : q = [r EXCEPT !.todo = Tail(@), !.device = session[r.token].device]
    OBVIOUS
  <2>2. req' = [req EXCEPT ![s] = q]
    BY <1>2, <1>6, <2>1 DEF AuthInv, AuthTypes
  <2>3. /\ q.kind = r.kind /\ q.todo = Tail(r.todo) /\ q.token = r.token /\ q.late = r.late
        /\ q.revoked = r.revoked
        /\ q.chal = r.chal /\ q.for = r.for /\ q.device = session[r.token].device
    BY <2>1 DEF AuthRequest
  <2>4. Tail(r.todo) \in Seq(Access)
    BY <1>3 DEF AuthRequest
  <2>5. q \in AuthRequest
    BY <1>5, <2>1, <2>4 DEF AuthRequest, SessionRow
  <2>6. Done(q) = Done(r) + 1
    BY <1>3, <2>3, NextOnScript DEF RequestSound
  <2>7. ~Checked(q) /\ r.kind \notin {"login", "legacyLogin"}
    BY <1>3, <2>3, <2>6 DEF Checked, SessionKind
  <2>8. ~r.late /\ Done(r) # 2
    BY <1>3, <1>6 DEF RequestSound, Ended
  <2>9. RequestSound(q)
    BY <1>3, <2>3, <2>5, <2>7, <2>8, PassSound
  <2> QED BY <1>1, <2>2, <2>5, <2>9, ReadKeeps
<1>7. \/ /\ session[r.token].status = "open" /\ ~session[r.token].expired
         /\ req' = [req EXCEPT ![s].todo = Tail(@), ![s].device = session[r.token].device]
      \/ Fail(s) \/ Finish(s)
  BY <1>2 DEF ReadSession
<1> QED BY <1>1, <1>2, <1>6, <1>7, FailKeeps

\* A read that changes nothing but, at most, what the request has read.
LEMMA PassKeeps ==
  ASSUME AuthInv, NEW s \in Slot, NEW step, At(s, step),
         step \in {"credential", "device", "sessionWallet", "wallet", "challenge"},
         NEW k \in Key \cup {None},
         req' = [req EXCEPT ![s].todo = Tail(@), ![s].read = k],
         step = "challenge" => IssuedFor(req[s].chal, req[s]),
         step = "wallet" => k \in Key /\ DeviceOf[k] = req[s].device,
         step = "sessionWallet" => ~req[s].revoked \/ Done(req[s]) # 2,
         UNCHANGED <<device, wallet, credential, challenge, session, uses>>
  PROVE  AuthInv'
<1>1. PICK r \in AuthRequest : r = req[s]
  BY AtRequest
<1>2. /\ RequestSound(r) /\ Len(r.todo) # 1 /\ r.todo # <<>> /\ Done(r) \in Nat
      /\ AccessIn(step, r.kind, Done(r), Len(Script[r.kind]))
  BY <1>1, AtRequest
<1>3. PICK q : q = [r EXCEPT !.todo = Tail(@), !.read = k]
  OBVIOUS
<1>4. req' = [req EXCEPT ![s] = q]
  BY <1>1, <1>3 DEF AuthInv, AuthTypes
<1>5. /\ q.kind = r.kind /\ q.todo = Tail(r.todo) /\ q.token = r.token /\ q.late = r.late
      /\ q.revoked = r.revoked
      /\ q.chal = r.chal /\ q.for = r.for /\ q.device = r.device /\ q.read = k
  BY <1>3 DEF AuthRequest
<1>6. Tail(r.todo) \in Seq(Access)
  BY <1>2 DEF AuthRequest
<1>7. q \in AuthRequest
  BY <1>3, <1>6 DEF AuthRequest
<1>8. Done(q) = Done(r) + 1
  BY <1>2, <1>5, NextOnScript DEF RequestSound
<1>9. r.kind \in SessionKind => q.device = session[r.token].device
  <2>1. r.kind \in SessionKind => Done(r) # 0
    BY <1>2 DEF AccessIn
  <2> QED BY <1>2, <1>5, <2>1 DEF RequestSound
<1>10. ASSUME Checked(q) PROVE IssuedFor(q.chal, q)
  <2>1. CASE step = "challenge"
    BY <1>1, <1>5, <2>1 DEF IssuedFor
  <2>2. CASE step # "challenge"
    <3>1. Checked(r)
      BY <1>2, <1>5, <1>8, <1>10, <2>2 DEF Checked, AccessIn, SessionKind
    <3> QED BY <1>2, <1>5, <3>1 DEF RequestSound, IssuedFor
  <2> QED BY <2>1, <2>2
<1>11. ASSUME r.kind \in {"login", "legacyLogin"}, Done(r) >= 2
       PROVE  q.read \in Key /\ DeviceOf[q.read] = q.device
  <2>1. step = "wallet"
    BY <1>2, <1>11 DEF AccessIn, SessionKind
  <2> QED BY <1>1, <1>5, <2>1
<1>12. ~r.late /\ (r.revoked => Done(r) # 2)
  <2>1. r.late \/ r.revoked => r.kind \in SessionKind
    BY <1>2 DEF RequestSound
  <2>2. r.kind \in SessionKind => Done(r) # 0 /\ (Done(r) = 2 => step = "sessionWallet")
    BY <1>2 DEF AccessIn
  <2>3. ~r.late
    BY <1>2, <2>1, <2>2 DEF RequestSound
  <2> QED BY <1>1, <2>1, <2>2, <2>3
<1>13. RequestSound(q)
  BY <1>2, <1>5, <1>7, <1>9, <1>10, <1>11, <1>12, PassSound
<1> QED BY <1>4, <1>7, <1>13, ReadKeeps

\* What is read stays when nothing is said of it.
LEMMA PassIsPassWith ==
  ASSUME AuthInv, NEW s \in Slot, req[s] \in AuthRequest, Pass(s)
  PROVE  req' = [req EXCEPT ![s].todo = Tail(@), ![s].read = req[s].read]
<1>1. req' = [req EXCEPT ![s] = [req[s] EXCEPT !.todo = Tail(@)]]
  BY DEF Pass, AuthInv, AuthTypes
<1>2. [req[s] EXCEPT !.todo = Tail(@)]
        = [req[s] EXCEPT !.todo = Tail(@), !.read = req[s].read]
  BY DEF AuthRequest
<1> QED BY <1>1, <1>2

LEMMA ReadCredentialKeeps ==
  ASSUME AuthInv, NEW s \in Slot, ReadCredential(s)
  PROVE  AuthInv'
<1>1. /\ At(s, "credential") /\ (Pass(s) \/ Fail(s))
      /\ UNCHANGED <<device, wallet, credential, challenge, session, uses>>
  BY DEF ReadCredential, PassOrFail, rowVars
<1>2. req[s] \in AuthRequest
  BY <1>1, AtRequest
<1>3. PICK k \in Key \cup {None} : k = req[s].read
  BY <1>2 DEF AuthRequest
<1>4. CASE Pass(s)
  <2>1. req' = [req EXCEPT ![s].todo = Tail(@), ![s].read = k]
    BY <1>2, <1>3, <1>4, PassIsPassWith
  <2>2. "credential" # "challenge" /\ "credential" # "wallet" /\ "credential" # "sessionWallet"
    OBVIOUS
  <2> QED BY <1>1, <1>4, <2>1, <2>2, PassKeeps
<1> QED BY <1>1, <1>2, <1>4, FailKeeps

LEMMA ReadChallengeKeeps ==
  ASSUME AuthInv, NEW s \in Slot, ReadChallenge(s)
  PROVE  AuthInv'
<1>1. /\ At(s, "challenge")
      /\ (Pass(s) /\ IssuedFor(req[s].chal, req[s])) \/ Fail(s)
      /\ UNCHANGED <<device, wallet, credential, challenge, session, uses>>
  BY DEF ReadChallenge, PassOrFail, rowVars
<1>2. req[s] \in AuthRequest
  BY <1>1, AtRequest
<1>3. PICK k \in Key \cup {None} : k = req[s].read
  BY <1>2 DEF AuthRequest
<1>4. CASE Pass(s) /\ IssuedFor(req[s].chal, req[s])
  <2>1. req' = [req EXCEPT ![s].todo = Tail(@), ![s].read = k]
    BY <1>2, <1>3, <1>4, PassIsPassWith
  <2> QED BY <1>1, <1>4, <2>1, PassKeeps
<1> QED BY <1>1, <1>2, <1>4, FailKeeps

\* After its first access a request knows a device.
LEMMA DeviceKnown ==
  ASSUME AuthInv, NEW s \in Slot, NEW step \in {"device", "sessionWallet", "wallet"}, At(s, step)
  PROVE  req[s].device \in Device
<1>1. PICK r \in AuthRequest : r = req[s]
  BY AtRequest
<1>2. /\ RequestSound(r) /\ Done(r) \in Nat
      /\ AccessIn(step, r.kind, Done(r), Len(Script[r.kind]))
  BY <1>1, AtRequest
<1>3. CASE r.kind \in SessionKind
  <2>1. Done(r) # 0
    BY <1>2, <1>3 DEF AccessIn
  <2>2. /\ r.token \in Token /\ session[r.token] # NoSession
        /\ r.device = session[r.token].device
    BY <1>2, <1>3, <2>1 DEF RequestSound
  <2>3. session[r.token] \in SessionRow
    BY <2>2 DEF AuthInv, AuthTypes
  <2> QED BY <1>1, <2>2, <2>3 DEF SessionRow
<1>4. CASE r.kind \notin SessionKind
  BY <1>1, <1>2, <1>4 DEF RequestSound
<1> QED BY <1>3, <1>4

LEMMA ReadDeviceKeeps ==
  ASSUME AuthInv, NEW s \in Slot, ReadDevice(s)
  PROVE  AuthInv'
<1>1. /\ At(s, "device") /\ req[s] \in AuthRequest
      /\ UNCHANGED <<device, wallet, credential, challenge, session, uses>>
  BY AtRequest DEF ReadDevice, rowVars
<1>2. req[s].device \in Device
  BY <1>1, DeviceKnown
<1>3. PICK k \in Key : k = device[req[s].device].key
  BY <1>2 DEF AuthInv, AuthTypes
<1>4. req' = [req EXCEPT ![s].todo = Tail(@), ![s].read = k] \/ Fail(s)
  BY <1>3 DEF ReadDevice
<1>5. CASE req' = [req EXCEPT ![s].todo = Tail(@), ![s].read = k]
  <2>1. "device" # "challenge" /\ "device" # "wallet" /\ "device" # "sessionWallet"
    OBVIOUS
  <2> QED BY <1>1, <1>5, <2>1, PassKeeps
<1> QED BY <1>1, <1>4, <1>5, FailKeeps

LEMMA ReadSessionWalletKeeps ==
  ASSUME AuthInv, NEW s \in Slot, ReadSessionWallet(s)
  PROVE  AuthInv'
<1>1. /\ At(s, "sessionWallet") /\ req[s] \in AuthRequest /\ RequestSound(req[s])
      /\ UNCHANGED <<device, wallet, credential, challenge, session, uses>>
  BY AtRequest DEF ReadSessionWallet, rowVars
<1>2. \/ /\ wallet[session[req[s].token].wallet] = "ACTIVE"
         /\ req' = [req EXCEPT ![s].todo = Tail(@), ![s].read = None]
      \/ Fail(s)
  BY DEF ReadSessionWallet
<1>3. ASSUME wallet[session[req[s].token].wallet] = "ACTIVE"
      PROVE  ~req[s].revoked
  BY <1>1, <1>3 DEF RequestSound, Revoked
<1>4. ASSUME wallet[session[req[s].token].wallet] = "ACTIVE",
             req' = [req EXCEPT ![s].todo = Tail(@), ![s].read = None]
      PROVE  AuthInv'
  <2>1. "sessionWallet" # "challenge" /\ "sessionWallet" # "wallet"
    OBVIOUS
  <2> QED BY <1>1, <1>3, <1>4, <2>1, PassKeeps
<1> QED BY <1>1, <1>2, <1>4, FailKeeps

LEMMA ReadWalletKeeps ==
  ASSUME AuthInv, NEW s \in Slot, ReadWallet(s)
  PROVE  AuthInv'
<1>1. /\ At(s, "wallet") /\ req[s] \in AuthRequest
      /\ UNCHANGED <<device, wallet, credential, challenge, session, uses>>
  BY AtRequest DEF ReadWallet, rowVars
<1>2. \/ \E w \in Key : /\ DeviceOf[w] = req[s].device
                        /\ req' = [req EXCEPT ![s].todo = Tail(@), ![s].read = w]
      \/ Fail(s)
  BY DEF ReadWallet
<1> QED BY <1>1, <1>2, FailKeeps, PassKeeps

\* The challenge is accepted: this request has checked what it is for, and the
\* conditional update that it was not accepted before.
LEMMA ConsumeIfUnusedKeeps ==
  ASSUME AuthInv, NEW s \in Slot, ConsumeIfUnused(s)
  PROVE  AuthInv'
<1>1. At(s, "consume") /\ UNCHANGED device /\ UNCHANGED wallet /\ UNCHANGED credential
      /\ UNCHANGED session
  BY DEF ConsumeIfUnused, rowVars
<1>2. PICK r \in AuthRequest : r = req[s]
  BY <1>1, AtRequest
<1>3. /\ RequestSound(r) /\ Len(r.todo) # 1 /\ r.todo # <<>> /\ Done(r) \in Nat
      /\ (r.kind = "login" /\ Done(r) = 3) \/ (r.kind = "fresh" /\ Done(r) = 9)
  BY <1>1, <1>2, AtRequest DEF AccessIn
<1>4. CASE challenge[r.chal].used /\ Finish(s) /\ UNCHANGED <<challenge, uses>>
  BY <1>1, <1>2, <1>4, FailKeeps
<1>5. ASSUME ~challenge[r.chal].used,
             challenge' = [challenge EXCEPT ![r.chal].used = TRUE],
             uses' = [uses EXCEPT ![r.chal] = Append(@, Use(r))],
             req' = [req EXCEPT ![s].todo = Tail(@), ![s].chal = None, ![s].for = None]
      PROVE  AuthInv'
  <2>1. PICK c \in Challenge : c = r.chal /\ challenge[c] # NoChallenge
    BY <1>3 DEF RequestSound, Unconsumed
  <2>2. IssuedFor(c, r) /\ challenge[c] \in ChallengeRow /\ uses[c] = <<>>
    BY <1>3, <1>5, <2>1 DEF RequestSound, Checked, AuthInv, AuthTypes, ChallengesSound
  <2>3. /\ challenge' \in [Challenge -> ChallengeRow]
        /\ challenge'[c].used
        /\ challenge'[c].device = challenge[c].device /\ challenge'[c].for = challenge[c].for
        /\ challenge'[c].token = challenge[c].token
        /\ \A z \in Challenge \ {c} : challenge'[z] = challenge[z]
    BY <1>5, <2>1, <2>2 DEF AuthInv, AuthTypes, ChallengeRow
  <2>4. challenge'[c] # NoChallenge
    BY <2>3 DEF NoChallenge
  <2>5. Evolves /\ RevokedStay
    BY <1>1, <2>1, <2>3, <2>4 DEF Evolves, RevokedStay, Ended, Revoked
  <2>6. PICK u : u = Use(r)
    OBVIOUS
  <2>7. /\ u \in ChallengeUse
        /\ u.device = r.device /\ u.token = r.token /\ u.for = r.for
    BY <2>6 DEF Use, AuthRequest, ChallengeUse
  <2>8. /\ uses' \in [Challenge -> Seq(ChallengeUse)]
        /\ uses'[c] = <<u>> /\ \A z \in Challenge \ {c} : uses'[z] = uses[z]
    <3>1. uses \in [Challenge -> Seq(ChallengeUse)]
      BY DEF AuthInv, AuthTypes
    <3>2. Append(uses[c], u) = <<u>> /\ <<u>> \in Seq(ChallengeUse)
      BY <2>2, <2>7
    <3>3. uses' = [uses EXCEPT ![c] = <<u>>]
      BY <1>5, <2>1, <2>6, <3>1, <3>2
    <3> QED BY <2>1, <3>1, <3>2, <3>3
  <2>9. /\ u.device = challenge[c].device /\ u.token = challenge[c].token
        /\ u.for = challenge[c].for
    <3>1. CASE r.kind = "login"
      <4>1. r.token = None /\ r.for = None
        BY <1>3, <3>1 DEF RequestSound, SessionKind
      <4>2. challenge[c].device = r.device /\ challenge[c].for = None
        BY <2>2, <3>1 DEF IssuedFor
      <4>3. challenge[c].token = None
        BY <4>2 DEF AuthInv, ChallengesSound
      <4> QED BY <2>7, <4>1, <4>2, <4>3
    <3>2. CASE r.kind = "fresh"
      BY <2>2, <2>7, <3>2 DEF IssuedFor
    <3> QED BY <1>3, <3>1, <3>2
  <2>10. ChallengesSound'
    <3>1. ASSUME NEW z \in Challenge
          PROVE  /\ challenge'[z].for = None <=> challenge'[z].token = None
                 /\ ~challenge'[z].used => uses'[z] = <<>>
                 /\ challenge'[z].used =>
                      /\ Len(uses'[z]) = 1
                      /\ uses'[z][1].device = challenge'[z].device
                      /\ uses'[z][1].token = challenge'[z].token
                      /\ uses'[z][1].for = challenge'[z].for
      <4>1. CASE z = c
        <5>1. Len(<<u>>) = 1 /\ <<u>>[1] = u
          OBVIOUS
        <5>2. challenge[c].for = None <=> challenge[c].token = None
          BY DEF AuthInv, ChallengesSound
        <5> QED BY <2>3, <2>8, <2>9, <4>1, <5>1, <5>2
      <4>2. CASE z # c
        BY <2>3, <2>8, <4>2 DEF AuthInv, ChallengesSound
      <4> QED BY <4>1, <4>2
    <3> QED BY <3>1 DEF ChallengesSound
  <2>11. PICK q : q = [r EXCEPT !.todo = Tail(@), !.chal = None, !.for = None]
    OBVIOUS
  <2>12. req' = [req EXCEPT ![s] = q]
    BY <1>2, <1>5, <2>11 DEF AuthInv, AuthTypes
  <2>13. /\ q.kind = r.kind /\ q.todo = Tail(r.todo) /\ q.token = r.token /\ q.late = r.late
         /\ q.revoked = r.revoked
         /\ q.for = None /\ q.device = r.device /\ q.read = r.read
    BY <2>11 DEF AuthRequest
  <2>14. Tail(r.todo) \in Seq(Access)
    BY <1>3 DEF AuthRequest
  <2>15. q \in AuthRequest
    BY <2>11, <2>14 DEF AuthRequest
  <2>16. Done(q) = Done(r) + 1
    BY <1>3, <2>13, NextOnScript DEF RequestSound
  <2>17. ~Checked(q) /\ ~Unconsumed(q)
    BY <1>3, <2>13, <2>16 DEF Checked, Unconsumed
  <2>18. /\ r.kind \notin SessionKind => q.for = r.for
         /\ r.kind \in SessionKind => q.device = session[r.token].device
         /\ r.kind \in {"login", "legacyLogin"} => q.read \in Key /\ DeviceOf[q.read] = q.device
         /\ ~r.late /\ ~r.revoked /\ r.kind # "freshChallenge"
    BY <1>3, <2>13 DEF RequestSound
  <2>19. RequestSound(q)
    BY <1>3, <2>13, <2>15, <2>17, <2>18, PassSound
  <2>20. RequestSound(q)'
    BY <2>5, <2>15, <2>19, RequestStaysSound
  <2>21. RequestsOnScript' /\ req' \in [Slot -> AuthRequest \cup Eviction \cup {Idle}]
    BY <2>5, <2>12, <2>15, <2>20, SlotUpdated
  <2>22. AuthTypes'
    BY <1>1, <2>3, <2>8, <2>21 DEF AuthInv, AuthTypes
  <2>23. SessionsSound'
    BY <1>1 DEF AuthInv, SessionsSound
  <2> QED BY <2>10, <2>21, <2>22, <2>23 DEF AuthInv
<1> QED BY <1>2, <1>4, <1>5 DEF ConsumeIfUnused

LEMMA RunKeeps ==
  ASSUME AuthInv, NEW s \in Slot, Run(s)
  PROVE  AuthInv'
<1>1. At(s, "run") /\ Finish(s)
      /\ UNCHANGED <<device, wallet, credential, challenge, session, uses>>
  BY DEF Run, rowVars
<1>2. req[s] \in AuthRequest
  BY <1>1, AtRequest
<1> QED BY <1>1, <1>2, FailKeeps

LEMMA IssueKeeps ==
  ASSUME AuthInv, NEW s \in Slot, Issue(s)
  PROVE  AuthInv'
<1>1. /\ At(s, "issue") /\ UNCHANGED device /\ UNCHANGED wallet /\ UNCHANGED credential
      /\ UNCHANGED session /\ UNCHANGED uses /\ req' = [req EXCEPT ![s] = Idle]
  BY DEF Issue, rowVars, Finish
<1>2. PICK r \in AuthRequest : r = req[s]
  BY <1>1, AtRequest
<1>3. /\ RequestSound(r)
      /\ (r.kind = "loginChallenge" /\ Done(r) = 2) \/ (r.kind = "freshChallenge" /\ Done(r) = 6)
  BY <1>1, <1>2, AtRequest DEF AccessIn
<1>4. r.for = None <=> r.token = None
  BY <1>3, AuthAssumption DEF RequestSound, SessionKind
<1>5. PICK c \in Challenge :
         /\ challenge[c] = NoChallenge
         /\ challenge' = [challenge EXCEPT ![c] =
               [NoChallenge EXCEPT !.device = r.device, !.for = r.for, !.token = r.token]]
  BY <1>2 DEF Issue
<1>6. PICK x : x = [NoChallenge EXCEPT !.device = r.device, !.for = r.for, !.token = r.token]
  OBVIOUS
<1>7. challenge' = [challenge EXCEPT ![c] = x]
  BY <1>5, <1>6
<1>8. x \in ChallengeRow /\ ~x.used /\ (x.for = None <=> x.token = None)
  <2>1. NoChallenge \in ChallengeRow /\ ~NoChallenge.used
    BY DEF NoChallenge, ChallengeRow
  <2>2. r.device \in Device \cup {None} /\ r.for \in Purpose \cup {None}
        /\ r.token \in Token \cup {None}
    BY DEF AuthRequest
  <2> QED BY <1>4, <1>6, <2>1, <2>2 DEF ChallengeRow
<1>9. /\ challenge' \in [Challenge -> ChallengeRow] /\ challenge'[c] = x
      /\ \A z \in Challenge \ {c} : challenge'[z] = challenge[z]
  BY <1>7, <1>8 DEF AuthInv, AuthTypes
<1>10. Evolves /\ RevokedStay
  BY <1>1, <1>5, <1>9 DEF Evolves, RevokedStay, Ended, Revoked
<1>11. RequestsOnScript' /\ req' \in [Slot -> AuthRequest \cup Eviction \cup {Idle}]
  BY <1>1, <1>10, SlotUpdated
<1>12. uses[c] = <<>>
  BY <1>5 DEF AuthInv, ChallengesSound, NoChallenge
<1>13. ChallengesSound'
  BY <1>1, <1>8, <1>9, <1>12 DEF AuthInv, ChallengesSound
<1>14. AuthTypes'
  BY <1>1, <1>9, <1>11 DEF AuthInv, AuthTypes
<1>15. SessionsSound'
  BY <1>1 DEF AuthInv, SessionsSound
<1> QED BY <1>11, <1>13, <1>14, <1>15 DEF AuthInv

LEMMA OpenKeeps ==
  ASSUME AuthInv, NEW s \in Slot, Open(s)
  PROVE  AuthInv'
<1>1. /\ At(s, "open") /\ UNCHANGED device /\ UNCHANGED wallet /\ UNCHANGED credential
      /\ UNCHANGED challenge /\ UNCHANGED uses /\ req' = [req EXCEPT ![s] = Idle]
  BY DEF Open, rowVars, Finish
<1>2. PICK r \in AuthRequest : r = req[s]
  BY <1>1, AtRequest
<1>3. /\ RequestSound(r)
      /\ (r.kind = "login" /\ Done(r) = 4) \/ (r.kind = "legacyLogin" /\ Done(r) = 3)
  BY <1>1, <1>2, AtRequest DEF AccessIn
<1>4. r.device \in Device /\ r.read \in Key /\ DeviceOf[r.read] = r.device
  BY <1>3 DEF RequestSound, SessionKind
<1>5. PICK x : x = [status |-> "open", device |-> r.device, wallet |-> r.read, expired |-> FALSE]
  OBVIOUS
<1>6. PICK t \in Token : session[t] = NoSession /\ session' = [session EXCEPT ![t] = x]
  BY <1>2, <1>5 DEF Open
<1>7. x \in SessionRow /\ DeviceOf[x.wallet] = x.device
  BY <1>4, <1>5 DEF SessionRow
<1>8. /\ session' \in [Token -> SessionRow \cup {NoSession}] /\ session'[t] = x
      /\ \A z \in Token \ {t} : session'[z] = session[z]
  BY <1>6, <1>7 DEF AuthInv, AuthTypes
<1>9. Evolves /\ RevokedStay
  BY <1>1, <1>6, <1>8 DEF Evolves, RevokedStay, Ended, Revoked
<1>10. RequestsOnScript' /\ req' \in [Slot -> AuthRequest \cup Eviction \cup {Idle}]
  BY <1>1, <1>9, SlotUpdated
<1>11. SessionsSound'
  BY <1>7, <1>8 DEF AuthInv, SessionsSound
<1>12. AuthTypes'
  BY <1>1, <1>8, <1>10 DEF AuthInv, AuthTypes
<1>13. ChallengesSound'
  BY <1>1 DEF AuthInv, ChallengesSound
<1> QED BY <1>10, <1>11, <1>12, <1>13 DEF AuthInv

LEMMA CloseKeeps ==
  ASSUME AuthInv, NEW s \in Slot, Close(s)
  PROVE  AuthInv'
<1>1. /\ At(s, "close") \/ At(s, "evict")
      /\ UNCHANGED device /\ UNCHANGED wallet /\ UNCHANGED credential
      /\ UNCHANGED challenge /\ UNCHANGED uses /\ req' = [req EXCEPT ![s] = Idle]
      /\ CloseSession(req[s].token)
  BY DEF Close, rowVars, Finish
<1>2. req[s].token \in Token
  <2>1. CASE req[s] \in Eviction
    BY <2>1 DEF Eviction
  <2>2. CASE req[s] \in AuthRequest
    <3>1. RequestSound(req[s]) /\ OnScript(req[s])
      BY <2>2 DEF AuthInv, RequestsOnScript, RequestSound
    <3>2. PICK r \in AuthRequest : r = req[s]
      BY <2>2
    <3>3. AccessIn(Head(r.todo), r.kind, Done(r), Len(Script[r.kind]))
      BY <3>1, <3>2, NextAccess
    <3>4. Head(r.todo) \in {"close", "evict"}
      BY <1>1, <3>2 DEF At
    <3>5. r.kind = "logout"
      BY <3>3, <3>4 DEF AccessIn
    <3> QED BY <3>1, <3>2, <3>5 DEF RequestSound, SessionKind
  <2>3. req[s] # Idle
    BY <1>1 DEF At
  <2> QED BY <2>1, <2>2, <2>3 DEF AuthInv, AuthTypes
<1>3. PICK t \in Token : t = req[s].token
  BY <1>2
<1>4. session \in [Token -> SessionRow \cup {NoSession}]
  BY DEF AuthInv, AuthTypes
<1>5. CASE session[t] = NoSession
  <2>1. session' = session
    BY <1>1, <1>3, <1>4, <1>5 DEF CloseSession
  <2>2. PICK q \in Eviction \cup {Idle} : req' = [req EXCEPT ![s] = q]
    BY <1>1
  <2>3. UNCHANGED <<device, wallet, credential, challenge, session, uses>>
    BY <1>1, <2>1
  <2> QED BY <2>2, <2>3, ReadKeeps
<1>6. CASE session[t] # NoSession
  <2>1. session[t] \in SessionRow
    BY <1>4, <1>6
  <2>2. PICK x : x = [session[t] EXCEPT !.status = "closed", !.expired = FALSE]
    OBVIOUS
  <2>3. session' = [session EXCEPT ![t] = x]
    BY <1>1, <1>3, <1>4, <1>6, <2>2 DEF CloseSession
  <2>4. /\ x \in SessionRow /\ x.status = "closed" /\ x.device = session[t].device
        /\ x.wallet = session[t].wallet
    BY <2>1, <2>2 DEF SessionRow
  <2>5. /\ session' \in [Token -> SessionRow \cup {NoSession}] /\ session'[t] = x
        /\ \A z \in Token \ {t} : session'[z] = session[z]
    BY <1>4, <2>3, <2>4
  <2>6. x # NoSession
    BY <2>4 DEF NoSession
  <2>7. Evolves /\ RevokedStay
    BY <1>1, <2>4, <2>5, <2>6 DEF Evolves, RevokedStay, Ended, Revoked
  <2>8. RequestsOnScript' /\ req' \in [Slot -> AuthRequest \cup Eviction \cup {Idle}]
    BY <1>1, <2>7, SlotUpdated
  <2>9. SessionsSound'
    BY <1>6, <2>4, <2>5 DEF AuthInv, SessionsSound
  <2>10. AuthTypes'
    BY <1>1, <2>5, <2>8 DEF AuthInv, AuthTypes
  <2>11. ChallengesSound'
    BY <1>1 DEF AuthInv, ChallengesSound
  <2> QED BY <2>8, <2>9, <2>10, <2>11 DEF AuthInv
<1> QED BY <1>5, <1>6

\* The rows of UsersService, but for an activation: a revoked wallet stays
\* revoked.
LEMMA RowsKeep ==
  ASSUME AuthInv, NEW d \in Device, NEW w \in Key,
         \/ RevokeDevice(d) \/ RevokeForDevice(d) \/ SaveDevice(w)
         \/ SaveCredential(d) \/ RevokeWallet(w)
  PROVE  AuthInv'
<1>1. UNCHANGED challenge /\ UNCHANGED session /\ UNCHANGED req /\ UNCHANGED uses
  BY DEF RevokeDevice, RevokeForDevice, SaveDevice, SaveCredential, RevokeWallet
<1>2. /\ device \in [Device -> [status : {"ACTIVE", "REVOKED"}, key : Key]]
      /\ wallet \in [Key -> {"PENDING", "ACTIVE", "REVOKED"}] /\ credential \subseteq Device
  BY DEF AuthInv, AuthTypes
<1>3. /\ device' \in [Device -> [status : {"ACTIVE", "REVOKED"}, key : Key]]
      /\ wallet' \in [Key -> {"PENDING", "ACTIVE", "REVOKED"}] /\ credential' \subseteq Device
      /\ \A k \in Key : wallet[k] = "REVOKED" => wallet'[k] = "REVOKED"
  <2>1. CASE RevokeDevice(d)
    BY <1>2, <2>1 DEF RevokeDevice
  <2>2. CASE RevokeForDevice(d)
    BY <1>2, <2>2 DEF RevokeForDevice
  <2>3. CASE SaveDevice(w)
    BY <1>2, <2>3, AuthAssumption DEF SaveDevice
  <2>4. CASE SaveCredential(d)
    BY <1>2, <2>4 DEF SaveCredential
  <2>5. CASE RevokeWallet(w)
    BY <1>2, <2>5 DEF RevokeWallet
  <2> QED BY <2>1, <2>2, <2>3, <2>4, <2>5
<1>4. \A t \in Token : session[t] # NoSession => session[t].wallet \in Key
  BY DEF AuthInv, AuthTypes, SessionRow
<1>5. Evolves /\ RevokedStay
  BY <1>1, <1>3, <1>4 DEF Evolves, RevokedStay, Ended, Revoked
<1>6. RequestsOnScript'
  BY <1>1, <1>5, RequestStaysSound DEF AuthInv, RequestsOnScript
<1>7. AuthTypes'
  BY <1>1, <1>3 DEF AuthInv, AuthTypes
<1>8. SessionsSound' /\ ChallengesSound'
  BY <1>1 DEF AuthInv, SessionsSound, ChallengesSound
<1> QED BY <1>6, <1>7, <1>8 DEF AuthInv

\* A wallet is activated, perhaps from REVOKED: the requests with a session of
\* it are not ones of a revoked wallet any longer.
LEMMA ActivateWalletKeeps ==
  ASSUME AuthInv, NEW w \in Key, ActivateWallet(w)
  PROVE  AuthInv'
<1>1. /\ UNCHANGED device /\ UNCHANGED credential /\ UNCHANGED challenge
      /\ UNCHANGED session /\ UNCHANGED uses /\ wallet' = [wallet EXCEPT ![w] = "ACTIVE"]
  BY DEF ActivateWallet
<1>2. req \in [Slot -> AuthRequest \cup Eviction \cup {Idle}]
      /\ wallet \in [Key -> {"PENDING", "ACTIVE", "REVOKED"}]
  BY DEF AuthInv, AuthTypes
<1>3. wallet' \in [Key -> {"PENDING", "ACTIVE", "REVOKED"}]
      /\ \A k \in Key \ {w} : wallet'[k] = wallet[k]
  BY <1>1, <1>2
<1>4. Evolves
  BY <1>1 DEF Evolves, Ended
<1>5. ASSUME NEW s \in Slot
      PROVE  req'[s] = IF UsesWallet(req[s], w) THEN [req[s] EXCEPT !.revoked = FALSE]
                       ELSE req[s]
  BY DEF ActivateWallet
<1>6. ASSUME NEW s \in Slot, req[s] \notin AuthRequest PROVE req'[s] = req[s]
  <2>1. req[s] = Idle \/ req[s].kind = "evict"
    BY <1>2, <1>6 DEF Eviction
  <2>2. ~UsesWallet(req[s], w)
    BY <2>1 DEF UsesWallet
  <2> QED BY <1>5, <2>2
<1>7. ASSUME NEW s \in Slot, req[s] \in AuthRequest
      PROVE  \E q \in AuthRequest : req'[s] = q /\ RequestSound(q)'
  <2>1. PICK r \in AuthRequest : r = req[s]
    BY <1>7
  <2>2. RequestSound(r)
    BY <2>1 DEF AuthInv, RequestsOnScript
  <2>3. r.kind # "evict" /\ r # Idle
    <3>1. r.kind # "evict" /\ "kind" \in DOMAIN r
      BY ScriptLengths DEF AuthRequest
    <3>2. "kind" \notin DOMAIN Idle
      BY DEF Idle
    <3> QED BY <3>1, <3>2
  <2>4. CASE UsesWallet(r, w)
    <3>1. PICK q : q = [r EXCEPT !.revoked = FALSE]
      OBVIOUS
    <3>2. req'[s] = q
      BY <1>5, <2>1, <2>4, <3>1
    <3>3. /\ q \in AuthRequest /\ ~q.revoked /\ q.kind = r.kind /\ q.todo = r.todo
          /\ q.device = r.device /\ q.chal = r.chal /\ q.token = r.token /\ q.for = r.for
          /\ q.read = r.read /\ q.late = r.late
      BY <3>1 DEF AuthRequest
    <3>4. Done(q) = Done(r)
      BY <3>3 DEF Done
    <3>5. OnScript(q) /\ (Checked(q) <=> Checked(r)) /\ (Unconsumed(q) <=> Unconsumed(r))
      BY <2>2, <3>3, <3>4 DEF RequestSound, OnScript, Checked, Unconsumed
    <3>6. Checked(r) => IssuedFor(q.chal, q)
      BY <2>2, <3>3 DEF RequestSound, IssuedFor
    <3>7. RequestSound(q)
      BY <2>2, <3>3, <3>4, <3>5, <3>6 DEF RequestSound
    <3>8. RequestSound(q)'
      BY <1>4, <3>3, <3>7, RequestStaysSound
    <3> QED BY <3>2, <3>3, <3>8
  <2>5. CASE ~UsesWallet(r, w)
    <3>1. req'[s] = r
      BY <1>5, <2>1, <2>5
    <3>2. ASSUME r.revoked PROVE Revoked(r.token)'
      <4>1. r.token \in Token /\ session[r.token] # NoSession /\ Revoked(r.token)
        BY <2>2, <3>2 DEF RequestSound
      <4>2. r.token # None
        BY <4>1, AuthAssumption
      <4>3. session[r.token].wallet # w
        BY <2>3, <2>5, <4>2 DEF UsesWallet
      <4>4. session[r.token].wallet \in Key
        BY <4>1 DEF AuthInv, AuthTypes, SessionRow
      <4> QED BY <1>1, <1>3, <4>1, <4>3, <4>4 DEF Revoked
    <3>3. RequestSound(r)'
      BY <1>4, <2>2, <3>2, RequestStaysSound
    <3> QED BY <3>1, <3>3
  <2> QED BY <2>4, <2>5
<1>8. req' \in [Slot -> AuthRequest \cup Eviction \cup {Idle}]
  <2>1. req' = [s \in Slot |-> IF UsesWallet(req[s], w) THEN [req[s] EXCEPT !.revoked = FALSE]
                               ELSE req[s]]
    BY DEF ActivateWallet
  <2>2. \A s \in Slot : req'[s] \in AuthRequest \cup Eviction \cup {Idle}
    BY <1>2, <1>6, <1>7
  <2> QED BY <2>1, <2>2
<1>9. RequestsOnScript'
  <2>1. ASSUME NEW s \in Slot, NEW q \in AuthRequest, req'[s] = q PROVE RequestSound(q)'
    BY <1>6, <1>7, <2>1
  <2> QED BY <2>1 DEF RequestsOnScript
<1>10. AuthTypes'
  BY <1>1, <1>3, <1>8 DEF AuthInv, AuthTypes
<1>11. SessionsSound' /\ ChallengesSound'
  BY <1>1 DEF AuthInv, SessionsSound, ChallengesSound
<1> QED BY <1>9, <1>10, <1>11 DEF AuthInv

LEMMA ExpireChallengeKeeps ==
  ASSUME AuthInv, NEW c \in Challenge, ExpireChallenge(c)
  PROVE  AuthInv'
<1>1. /\ UNCHANGED device /\ UNCHANGED wallet /\ UNCHANGED credential
      /\ UNCHANGED session /\ UNCHANGED req /\ UNCHANGED uses
      /\ challenge' = [challenge EXCEPT ![c].expired = TRUE]
  BY DEF ExpireChallenge, rowVars
<1>2. challenge \in [Challenge -> ChallengeRow]
  BY DEF AuthInv, AuthTypes
<1>3. /\ challenge' \in [Challenge -> ChallengeRow] /\ challenge'[c].expired
      /\ \A z \in Challenge : /\ challenge'[z].device = challenge[z].device
                              /\ challenge'[z].for = challenge[z].for
                              /\ challenge'[z].token = challenge[z].token
                              /\ challenge'[z].used = challenge[z].used
      /\ \A z \in Challenge \ {c} : challenge'[z] = challenge[z]
  BY <1>1, <1>2 DEF ChallengeRow
<1>4. challenge'[c] # NoChallenge
  BY <1>3 DEF NoChallenge
<1>5. Evolves /\ RevokedStay
  BY <1>1, <1>3, <1>4 DEF Evolves, RevokedStay, Ended, Revoked
<1>6. RequestsOnScript'
  BY <1>1, <1>5, RequestStaysSound DEF AuthInv, RequestsOnScript
<1>7. AuthTypes'
  BY <1>1, <1>3 DEF AuthInv, AuthTypes
<1>8. SessionsSound'
  BY <1>1 DEF AuthInv, SessionsSound
<1>9. ChallengesSound'
  BY <1>1, <1>3 DEF AuthInv, ChallengesSound
<1> QED BY <1>6, <1>7, <1>8, <1>9 DEF AuthInv

LEMMA ExpireSessionKeeps ==
  ASSUME AuthInv, NEW t \in Token, ExpireSession(t)
  PROVE  AuthInv'
<1>1. /\ UNCHANGED device /\ UNCHANGED wallet /\ UNCHANGED credential
      /\ UNCHANGED challenge /\ UNCHANGED req /\ UNCHANGED uses
      /\ session[t].status = "open" /\ session' = [session EXCEPT ![t].expired = TRUE]
  BY DEF ExpireSession, rowVars
<1>2. session \in [Token -> SessionRow \cup {NoSession}] /\ NoSession.status = "none"
  BY DEF AuthInv, AuthTypes, NoSession
<1>3. session[t] \in SessionRow
  BY <1>1, <1>2
<1>4. PICK x : x = [session[t] EXCEPT !.expired = TRUE]
  OBVIOUS
<1>5. session' = [session EXCEPT ![t] = x]
  BY <1>1, <1>2, <1>4
<1>6. /\ x \in SessionRow /\ x.expired /\ x.device = session[t].device
      /\ x.wallet = session[t].wallet /\ x.status = "open"
  BY <1>1, <1>3, <1>4 DEF SessionRow
<1>7. x # NoSession
  BY <1>2, <1>6
<1>8. /\ session' \in [Token -> SessionRow \cup {NoSession}] /\ session'[t] = x
      /\ \A z \in Token \ {t} : session'[z] = session[z]
  BY <1>2, <1>5, <1>6
<1>9. Evolves /\ RevokedStay
  BY <1>1, <1>6, <1>7, <1>8 DEF Evolves, RevokedStay, Ended, Revoked
<1>10. RequestsOnScript'
  BY <1>1, <1>9, RequestStaysSound DEF AuthInv, RequestsOnScript
<1>11. AuthTypes'
  BY <1>1, <1>8 DEF AuthInv, AuthTypes
<1>12. session[t] # NoSession
  BY <1>1, <1>2
<1>13. SessionsSound'
  BY <1>6, <1>8, <1>12 DEF AuthInv, SessionsSound
<1>14. ChallengesSound'
  BY <1>1 DEF AuthInv, ChallengesSound
<1> QED BY <1>10, <1>11, <1>13, <1>14 DEF AuthInv

\* A request arrives.
LEMMA ArriveKeeps ==
  ASSUME AuthInv, NEW s \in Slot, NEW kind \in Kind, NEW d \in Device \cup {None},
         NEW c \in Challenge \cup {None}, NEW t \in Token \cup {None},
         NEW p \in Purpose \cup {None}, Arrive(s, kind, d, c, t, p),
         kind \in SessionKind => t \in Token /\ session[t] # NoSession,
         kind \notin SessionKind => t = None /\ p = None /\ d \in Device,
         kind = "freshChallenge" => p \in Purpose,
         kind \in {"login", "fresh"} => c \in Challenge /\ challenge[c] # NoChallenge
  PROVE  AuthInv'
<1>1. UNCHANGED <<device, wallet, credential, challenge, session, uses>>
  BY DEF Arrive, rowVars
<1>2. PICK q : q = [kind |-> kind, todo |-> Script[kind], device |-> d, chal |-> c, token |-> t,
                    for |-> p, read |-> None, late |-> t # None /\ Ended(t),
                    revoked |-> t # None /\ Revoked(t)]
  OBVIOUS
<1>3. req' = [req EXCEPT ![s] = q]
  BY <1>2 DEF Arrive
<1>4. /\ q.kind = kind /\ q.todo = Script[kind] /\ q.device = d /\ q.chal = c /\ q.token = t
      /\ q.for = p /\ q.late = (t # None /\ Ended(t))
      /\ q.revoked = (t # None /\ Revoked(t))
  BY <1>2
<1>5. Script[kind] \in Seq(Access)
  BY ScriptLists
<1>6. q \in AuthRequest
  BY <1>2, <1>5 DEF AuthRequest
<1>7. PICK n : n = Len(Script[kind])
  OBVIOUS
<1>8. n \in Nat /\ n > 0 /\ Len(q.todo) = n /\ Len(Script[q.kind]) = n
  <2>1. Len(Script[kind]) \in {3, 4, 5, 7, 11}
    BY ScriptLengths
  <2>2. n \in {3, 4, 5, 7, 11}
    BY <1>7, <2>1
  <2>3. n \in Nat /\ n > 0
    BY <2>2
  <2> QED BY <1>4, <1>7, <2>3
<1>9. Done(q) = 0
  BY <1>8 DEF Done
<1>10. OnScript(q)
  <2>1. Len(q.todo) \in 1..Len(Script[q.kind])
    BY <1>8
  <2>2. ASSUME NEW i \in 1..Len(q.todo) PROVE q.todo[i] = Script[q.kind][Done(q) + i]
    <3>1. Done(q) + i = i
      BY <1>8, <1>9
    <3> QED BY <1>4, <3>1
  <2> QED BY <2>1, <2>2 DEF OnScript
<1>11. ~Checked(q) /\ (Unconsumed(q) => kind \in {"login", "fresh"})
  BY <1>4, <1>9 DEF Checked, Unconsumed
<1>12. (q.late => t # None /\ Ended(t)) /\ (q.revoked => t # None /\ Revoked(t))
  BY <1>4
<1>13. RequestSound(q)
  BY <1>4, <1>9, <1>10, <1>11, <1>12 DEF RequestSound
<1> QED BY <1>1, <1>3, <1>6, <1>13, ReadKeeps

LEMMA ClientKeeps ==
  ASSUME AuthInv, NEW s \in Slot, Client(s)
  PROVE  AuthInv'
<1>1. /\ SessionKind \subseteq Kind /\ "loginChallenge" \in Kind \ SessionKind
      /\ "legacyLogin" \in Kind \ SessionKind /\ "login" \in Kind \ SessionKind
  BY ScriptLengths DEF SessionKind
<1>2. ASSUME NEW d \in Device, NEW kind \in {"loginChallenge", "legacyLogin"},
             Arrive(s, kind, d, None, None, None)
      PROVE  AuthInv'
  <2>1. kind \in Kind /\ kind \notin SessionKind /\ kind \notin {"login", "fresh", "freshChallenge"}
    BY <1>1
  <2> QED BY <1>2, <2>1, ArriveKeeps
<1>3. ASSUME NEW d \in Device, NEW c \in Challenge, challenge[c] # NoChallenge,
             Arrive(s, "login", d, c, None, None)
      PROVE  AuthInv'
  BY <1>1, <1>3, ArriveKeeps
<1>4. ASSUME NEW t \in Token, session[t] # NoSession, NEW kind \in {"logout", "protected"},
             Arrive(s, kind, None, None, t, None)
      PROVE  AuthInv'
  <2>1. kind \in Kind /\ kind \in SessionKind /\ kind \notin {"login", "fresh", "freshChallenge"}
    BY <1>1 DEF SessionKind
  <2> QED BY <1>4, <2>1, ArriveKeeps
<1>5. ASSUME NEW t \in Token, session[t] # NoSession, NEW p \in Purpose,
             Arrive(s, "freshChallenge", None, None, t, p)
      PROVE  AuthInv'
  <2>1. "freshChallenge" \in Kind /\ "freshChallenge" \in SessionKind
        /\ "freshChallenge" \notin {"login", "fresh"}
    BY <1>1 DEF SessionKind
  <2> QED BY <1>5, <2>1, ArriveKeeps
<1>6. ASSUME NEW t \in Token, session[t] # NoSession, NEW p \in Purpose, NEW c \in Challenge,
             challenge[c] # NoChallenge, Arrive(s, "fresh", None, c, t, p)
      PROVE  AuthInv'
  <2>1. "fresh" \in Kind /\ "fresh" \in SessionKind
    BY <1>1 DEF SessionKind
  <2> QED BY <1>6, <2>1, ArriveKeeps
<1> QED BY <1>2, <1>3, <1>4, <1>5, <1>6 DEF Client

LEMMA AuthInvInit == AuthInit => AuthInv
<1> SUFFICES ASSUME AuthInit PROVE AuthInv
  OBVIOUS
<1>1. /\ device \in [Device -> [status : {"ACTIVE"}, key : Key]]
      /\ wallet = [w \in Key |-> IF w = device[DeviceOf[w]].key THEN "ACTIVE" ELSE "PENDING"]
      /\ credential = Device /\ challenge = [c \in Challenge |-> NoChallenge]
      /\ session = [t \in Token |-> NoSession] /\ req = [s \in Slot |-> Idle]
      /\ uses = [c \in Challenge |-> <<>>]
  BY DEF AuthInit
<1>2. NoChallenge \in ChallengeRow /\ ~NoChallenge.used
      /\ NoChallenge.for = None /\ NoChallenge.token = None
  BY DEF NoChallenge, ChallengeRow
<1>3. \A r \in AuthRequest : r # Idle
  <2>1. \A r \in AuthRequest : "kind" \in DOMAIN r
    BY DEF AuthRequest
  <2>2. "kind" \notin DOMAIN Idle
    BY DEF Idle
  <2> QED BY <2>1, <2>2
<1>4. AuthTypes
  <2>1. device \in [Device -> [status : {"ACTIVE", "REVOKED"}, key : Key]]
    BY <1>1
  <2>2. wallet \in [Key -> {"PENDING", "ACTIVE", "REVOKED"}]
    BY <1>1
  <2>3. challenge \in [Challenge -> ChallengeRow]
    BY <1>1, <1>2
  <2>4. uses \in [Challenge -> Seq(ChallengeUse)]
    BY <1>1
  <2> QED BY <1>1, <2>1, <2>2, <2>3, <2>4 DEF AuthTypes
<1>5. SessionsSound
  BY <1>1 DEF SessionsSound
<1>6. ChallengesSound
  BY <1>1, <1>2 DEF ChallengesSound
<1>7. RequestsOnScript
  BY <1>1, <1>3 DEF RequestsOnScript
<1> QED BY <1>4, <1>5, <1>6, <1>7 DEF AuthInv

LEMMA AuthInvStep == AuthInv /\ [AuthNext]_authVars => AuthInv'
<1> SUFFICES ASSUME AuthInv, [AuthNext]_authVars PROVE AuthInv'
  OBVIOUS
<1>1. ASSUME NEW s \in Slot, Serve(s) PROVE AuthInv'
  BY <1>1, ReadSessionKeeps, ReadCredentialKeeps, ReadDeviceKeeps, ReadSessionWalletKeeps,
     ReadWalletKeeps, ReadChallengeKeeps, ConsumeIfUnusedKeeps, IssueKeeps, OpenKeeps,
     CloseKeeps, RunKeeps DEF Serve
<1>2. ASSUME NEW d \in Device, SaveCredential(d) \/ RevokeDevice(d) \/ RevokeForDevice(d)
      PROVE  AuthInv'
  <2>1. device[d].key \in Key
    BY DEF AuthInv, AuthTypes
  <2> QED BY <1>2, <2>1, RowsKeep
<1>3. ASSUME NEW k \in Key, SaveDevice(k) \/ RevokeWallet(k) PROVE AuthInv'
  <2>1. DeviceOf[k] \in Device
    BY AuthAssumption
  <2> QED BY <1>3, <2>1, RowsKeep
<1>4. ASSUME NEW k \in Key, ActivateWallet(k) PROVE AuthInv'
  BY <1>4, ActivateWalletKeeps
<1>5. CASE UNCHANGED authVars
  <2>1. UNCHANGED device /\ UNCHANGED wallet /\ UNCHANGED credential /\ UNCHANGED challenge
        /\ UNCHANGED session /\ UNCHANGED req /\ UNCHANGED uses
    BY <1>5 DEF authVars, rowVars
  <2>2. Evolves /\ RevokedStay
    BY <2>1 DEF Evolves, RevokedStay, Ended, Revoked
  <2>3. RequestsOnScript'
    BY <2>1, <2>2, RequestStaysSound DEF AuthInv, RequestsOnScript
  <2>4. AuthTypes'
    BY <2>1 DEF AuthInv, AuthTypes
  <2>5. SessionsSound'
    BY <2>1 DEF AuthInv, SessionsSound
  <2>6. ChallengesSound'
    BY <2>1 DEF AuthInv, ChallengesSound
  <2> QED BY <2>3, <2>4, <2>5, <2>6 DEF AuthInv
<1> QED BY <1>1, <1>2, <1>3, <1>4, <1>5, ClientKeeps, ExpireChallengeKeeps,
           ExpireSessionKeeps DEF AuthNext

\* The inductive invariant of the sessions and the challenges.
THEOREM AuthInvariant == AuthSpec => []AuthInv
BY AuthInvInit, AuthInvStep, PTL DEF AuthSpec

\* The types of the rows.
LEMMA AuthTypesCorrect == AuthInv => AuthTypeOK
<1> SUFFICES ASSUME AuthInv PROVE AuthTypeOK
  OBVIOUS
<1>1. \A d \in Device : device[d].status \in {"ACTIVE", "REVOKED"} /\ device[d].key \in Key
  BY DEF AuthInv, AuthTypes
<1> QED BY <1>1 DEF AuthInv, AuthTypes, SessionsSound, AuthTypeOK

\* However many requests present a challenge at once, and however far apart the
\* check and the consumption are, it is accepted at most once, for the device,
\* the session and the operation it was issued for.
THEOREM ChallengeSingleUseCorrect == AuthSpec => []ChallengeSingleUse
<1>1. ASSUME AuthInv PROVE ChallengeSingleUse
  <2>1. ASSUME NEW c \in Challenge
        PROVE  /\ Len(uses[c]) <= 1
               /\ \A i \in DOMAIN uses[c] :
                    /\ uses[c][i].device = challenge[c].device
                    /\ uses[c][i].token = challenge[c].token
                    /\ uses[c][i].for = challenge[c].for
    <3>1. uses[c] \in Seq(ChallengeUse)
      BY <1>1 DEF AuthInv, AuthTypes
    <3>2. CASE ~challenge[c].used
      BY <1>1, <3>2 DEF AuthInv, ChallengesSound
    <3>3. CASE challenge[c].used
      <4>1. /\ Len(uses[c]) = 1 /\ uses[c][1].device = challenge[c].device
            /\ uses[c][1].token = challenge[c].token /\ uses[c][1].for = challenge[c].for
        BY <1>1, <3>3 DEF AuthInv, ChallengesSound
      <4>2. \A i \in DOMAIN uses[c] : i = 1
        BY <3>1, <4>1
      <4> QED BY <4>1, <4>2
    <3> QED BY <3>2, <3>3
  <2> QED BY <1>1, <2>1, AuthTypesCorrect DEF ChallengeSingleUse
<1> QED BY <1>1, AuthInvariant, PTL

\* A request that begins when its session is closed or expired reaches no
\* handler, and neither does one that begins when the wallet of the session is
\* revoked, unless the wallet's row is saved as ACTIVE again meanwhile.
THEOREM DeadSessionsCorrect == AuthSpec => []DeadSessionsServeNothing
<1>1. ASSUME AuthInv PROVE DeadSessionsServeNothing
  <2>1. ASSUME NEW s \in Slot, At(s, "run") PROVE ~req[s].late /\ ~req[s].revoked
    <3>1. PICK r \in AuthRequest : r = req[s]
      BY <1>1, <2>1, AtRequest
    <3>2. RequestSound(r) /\ Done(r) >= 3 /\ Done(r) \in Nat
      BY <1>1, <2>1, <3>1, AtRequest DEF AccessIn
    <3>3. (r.late => Done(r) < 1) /\ (r.revoked => Done(r) < 3)
      BY <3>2 DEF RequestSound
    <3> QED BY <3>1, <3>2, <3>3
  <2> QED BY <2>1 DEF DeadSessionsServeNothing
<1> QED BY <1>1, AuthInvariant, PTL
=============================================================================
