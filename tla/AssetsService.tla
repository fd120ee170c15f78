---------------------------- MODULE AssetsService ----------------------------
(***************************************************************************)
(* backend/src/assets/assets.service.ts in EVM mode, with the adapter's    *)
(* getAsset: the assets on the chain and their rows, under concurrent      *)
(* requests.  The map of assets is left out: whatever it holds, getById    *)
(* takes all but the asset type from the chain.                            *)
(*                                                                         *)
(* A mutation reads the assets it names from the chain and checks them,    *)
(* submits, waits for the receipt, reads the asset back and saves what it  *)
(* read.  getAsset asks the node for the owner, the state and the record   *)
(* separately and each answer may come from another block.  The chain is   *)
(* AssetLifecycle, which AssetRegistry implements; an owner's identity     *)
(* goes by the wallet it resolves to.  The node that gave a receipt knows  *)
(* the asset, so reconcileAfterWrite does not fall back on what was asked  *)
(* for; its error is Abandon.                                              *)
(***************************************************************************)
EXTENDS AssetLifecycle, Naturals, Sequences, FiniteSets

CONSTANTS
    FirstHolder,    \* who holds a new asset
    Slot,           \* bound: requests in flight
    Setting         \* bound: what happens from a beginning, see below

\* A setting names the assets it is about and those there are already, how many
\* requests run at a time, the operations that clients ask for, and those that
\* wallets send to the chain past this backend.
ASSUME AssetsAssumption ==
    /\ Setting \subseteq
          [assets   : SUBSET Asset, premade : SUBSET Asset, requests : Nat,
           ops      : SUBSET {"get", "create", "transfer", "state", "attach", "remove"},
           foreign  : SUBSET {"transfer", "state", "attach", "remove"}]
    /\ FirstHolder \in Holder /\ Nothing \notin Asset \cup Holder

VARIABLES
    setting,        \* the setting, which stays
    row,            \* the rows of the repository
    req,
    excused         \* history: assets whose row may lag behind the chain

assetsVars == <<item, row, req, excused>>

Field  == {"holder", "state", "parent"}
NoRead == [f \in {} |-> Nothing]
Idle   == [todo |-> <<>>]

\* A request at the step `step`, for whichever asset.
At(s, step) == req[s] # Idle /\ Head(req[s].todo)[1] = step
Subject(r)  == Head(r.todo)[2]

\* The asset a mutation writes: the component of the two.
Written(r) == IF r.op \in {"attach", "remove"} THEN r.arg ELSE r.asset

Finish(s) == req' = [req EXCEPT ![s] = Idle]
Pass(s)   == req' = [req EXCEPT ![s].todo = Tail(@), ![s].got = NoRead]

-----------------------------------------------------------------------------
(* Requests.                                                               *)

Mutate(a) == <<<<"submit", a>>, <<"reconcile", a>>, <<"save", a>>>>

\* A new asset may name a parent, which must exist and is then ignored.
Script(op, a, arg) ==
    CASE op = "get"      -> <<<<"get", a>>>>
      [] op = "create"   -> <<<<"get", a>>>>
                               \o (IF arg = Nothing THEN <<>> ELSE <<<<"get", arg>>>>) \o Mutate(a)
      [] op \in {"transfer", "state"} -> <<<<"get", a>>>> \o Mutate(a)
      [] op = "attach"   -> <<<<"get", a>>, <<"get", arg>>, <<"walk", a>>>> \o Mutate(arg)
      [] op = "remove"   -> <<<<"get", a>>, <<"get", arg>>>> \o Mutate(arg)

Argument(op, a) ==
    CASE op = "get"      -> {Nothing}
      [] op = "create"   -> (setting.assets \ {a}) \cup {Nothing}
      [] op = "transfer" -> Holder
      [] op = "state"    -> State
      [] op \in {"attach", "remove"} -> setting.assets \ {a}

\* Every request carries an account of whether it was alone until it submits.
Begin(s, op, a, arg) ==
    /\ req' = [req EXCEPT ![s] =
                 [op |-> op, asset |-> a, arg |-> arg, todo |-> Script(op, a, arg),
                  got |-> NoRead, visited |-> {}, alone |-> TRUE]]
    /\ UNCHANGED <<item, row, excused>>

-----------------------------------------------------------------------------
(* Reads.                                                                  *)

Reading(s) == At(s, "get") \/ At(s, "walk") \/ At(s, "reconcile")

\* The answers so far, and one more.
Answered(got, f, value) == [g \in DOMAIN got \cup {f} |-> IF g = f THEN value ELSE got[g]]

\* The adapter's getAsset: one answer of the node.
GetAsset(s) ==
    LET r == req[s] a == Subject(r) IN
    /\ Reading(s) /\ Minted(a)
    /\ \E f \in Field \ DOMAIN r.got :
          req' = [req EXCEPT ![s].got = Answered(@, f, item[a][f])]
    /\ UNCHANGED <<item, row, excused>>

\* There is no such token, and so no row: good for a new asset, 404 for any
\* other.
GetAssetNull(s) ==
    LET r == req[s] IN
    /\ At(s, "get") /\ ~Minted(Subject(r)) /\ r.got = NoRead
    /\ IF r.op = "create" /\ Subject(r) = r.asset THEN Pass(s) ELSE Finish(s)
    /\ UNCHANGED <<item, row, excused>>

assertStateTransition ==
    [ACTIVE         |-> {"IN_MAINTENANCE", "DECOMMISSIONED"},
     IN_MAINTENANCE |-> {"ACTIVE", "DECOMMISSIONED"},
     DECOMMISSIONED |-> {}]

\* The checks on an asset that was read; those of two assets are made after
\* both reads in the code.
Allowed(r) ==
    LET a == Subject(r) asset == r.got IN
    CASE r.op = "get"      -> TRUE
      [] r.op = "create"   -> a # r.asset
      [] r.op = "transfer" -> /\ asset.state # "DECOMMISSIONED"
                              /\ asset.parent = Nothing /\ asset.holder # r.arg
      [] r.op = "state"    -> r.arg \in assertStateTransition[asset.state]
      [] r.op = "attach"   -> /\ asset.state # "DECOMMISSIONED"
                              /\ (a = r.arg => asset.parent = Nothing)
      [] r.op = "remove"   -> (a = r.arg => asset.parent = r.asset)

\* getById is over: the checks.
GetById(s) ==
    LET r == req[s] IN
    /\ At(s, "get") /\ DOMAIN r.got = Field
    /\ IF Allowed(r) /\ Len(r.todo) > 1 THEN Pass(s) ELSE Finish(s)
    /\ UNCHANGED <<item, row, excused>>

\* Faulty variant: the parent of the parent is not looked at.
OneStepUp(s) ==
    LET r == req[s] IN
    /\ At(s, "walk") /\ DOMAIN r.got = Field
    /\ IF r.got.parent = r.arg THEN Finish(s) ELSE Pass(s)
    /\ UNCHANGED <<item, row, excused>>

\* One round of assertNoCycle, from the new parent upwards, by getById.
AssertNoCycle(s) ==
    LET r == req[s] IN
    /\ At(s, "walk") /\ DOMAIN r.got = Field
    /\ CASE r.got.parent = Nothing -> req' = [req EXCEPT ![s].todo = Tail(@), ![s].got = NoRead,
                                                         ![s].visited = {}]
         [] r.got.parent = r.arg \/ (r.got.parent # Nothing /\ Subject(r) \in r.visited) -> Finish(s)
         [] OTHER                  ->
              req' = [req EXCEPT ![s].todo = <<<<"walk", r.got.parent>>>> \o Tail(@),
                                 ![s].visited = @ \cup {Subject(r)},
                                 ![s].got = NoRead]
    /\ UNCHANGED <<item, row, excused>>

-----------------------------------------------------------------------------
(* Writes.                                                                 *)

ChainStep(r) ==
    \/ r.op = "create"   /\ Mint(r.asset, FirstHolder)
    \/ r.op = "transfer" /\ Transfer(r.asset, r.arg)
    \/ r.op = "state"    /\ ChangeState(r.asset, r.arg)
    \/ r.op = "attach"   /\ Attach(r.asset, r.arg)
    \/ r.op = "remove"   /\ Remove(r.asset, r.arg)

\* What the contract asks of the assets themselves.  Its other conditions are not
\* the business of this service: the caller's role and grant (Rbac, AccessControl)
\* and that the recipient's wallet is ACTIVE.
AssetsAllow(r) ==
    CASE r.op = "create"   -> ~Minted(r.asset)
      [] r.op = "transfer" -> /\ InService(r.asset) /\ item[r.asset].parent = Nothing
                              /\ item[r.asset].holder # r.arg
      [] r.op = "state"    -> InService(r.asset) /\ item[r.asset].state # r.arg
      [] r.op = "attach"   -> /\ InService(r.asset) /\ InService(r.arg)
                              /\ item[r.arg].parent = Nothing /\ r.arg \notin Above(r.asset)
      [] r.op = "remove"   -> Minted(r.arg) /\ item[r.arg].parent = r.asset

\* A request that has written the asset and has not saved it yet.
Unsaved(t, a) == (At(t, "reconcile") \/ At(t, "save")) /\ Subject(req[t]) = a

\* What the other requests note of a transaction.
Told(q, t) ==
    IF q = Idle THEN q
    ELSE [q EXCEPT !.alone = @ /\ Unsaved(t, Subject(q))]

\* The transaction is mined; its receipt arrives, or is lost with the node.
Submit(s) ==
    LET r == req[s] a == Written(r) IN
    /\ At(s, "submit") /\ ChainStep(r)
    /\ \E received \in BOOLEAN :
          /\ req' = [t \in Slot |->
                       IF t # s THEN Told(req[t], t)
                       ELSE IF received THEN [r EXCEPT !.todo = Tail(@), !.alone = TRUE] ELSE Idle]
          /\ excused' = IF ~received \/ \E t \in Slot \ {s} : Unsaved(t, a)
                        THEN excused \cup {a} ELSE excused
    /\ UNCHANGED row

\* A transaction that does not come from this backend.
ForeignWrite ==
    \E op \in setting.foreign, b \in setting.assets : \E arg \in Argument(op, b) :
        LET r == [op |-> op, asset |-> b, arg |-> arg] a == Written(r) IN
        /\ ChainStep(r)
        /\ req' = [t \in Slot |-> Told(req[t], t)]
        /\ excused' = excused \cup {a}
        /\ UNCHANGED row

\* The contract reverts the transaction, because of the assets or because of the
\* caller or the recipient: nothing is written.
Revert(s) ==
    /\ At(s, "submit")
    /\ Finish(s)
    /\ UNCHANGED <<item, row, excused>>

\* Faulty variant: mergeAsset lets what was stored win.
ReconcileWithStored(s) ==
    LET r == req[s] IN
    /\ At(s, "reconcile") /\ DOMAIN r.got = Field
    /\ req' = [req EXCEPT ![s].todo = Tail(@),
                          ![s].got = IF row[Subject(r)] = NoItem THEN @ ELSE row[Subject(r)]]
    /\ UNCHANGED <<item, row, excused>>

\* reconcileAfterWrite: the chain's values win over what was asked for.
ReconcileAfterWrite(s) ==
    LET r == req[s] IN
    /\ At(s, "reconcile") /\ DOMAIN r.got = Field
    /\ req' = [req EXCEPT ![s].todo = Tail(@)]
    /\ UNCHANGED <<item, row, excused>>

\* repository.save, and the answer.
Save(s) ==
    LET r == req[s] IN
    /\ At(s, "save")
    /\ row' = [row EXCEPT ![Subject(r)] = r.got]
    /\ Finish(s)
    /\ UNCHANGED <<item, excused>>

\* prepare() makes the checks of a mutation and hands the call to the device
\* where the mutation would submit it.
Prepare(s) ==
    /\ At(s, "submit") /\ req[s].op # "create"
    /\ Finish(s)
    /\ UNCHANGED <<item, row, excused>>

\* An error of the node or the database, or a crash, ends a request anywhere.
Abandon(s) ==
    /\ req[s] # Idle
    /\ Finish(s)
    /\ excused' = IF Unsaved(s, Written(req[s])) THEN excused \cup {Written(req[s])} ELSE excused
    /\ UNCHANGED <<item, row>>

-----------------------------------------------------------------------------
AssetsInit ==
    /\ setting \in Setting
    /\ item = [a \in Asset |-> IF a \in setting.premade
                 THEN [holder |-> FirstHolder, state |-> "ACTIVE", parent |-> Nothing]
                 ELSE NoItem]
    /\ row = item
    /\ req = [s \in Slot |-> Idle]
    /\ excused = {}

Arrive(s) ==
    /\ req[s] = Idle
    /\ Cardinality({t \in Slot : req[t] # Idle}) < setting.requests
    /\ \E op \in setting.ops, a \in setting.assets :
          \E arg \in Argument(op, a) : Begin(s, op, a, arg)

Serve(s) ==
    \/ GetAsset(s) \/ GetAssetNull(s) \/ GetById(s) \/ AssertNoCycle(s)
    \/ Prepare(s) \/ Submit(s) \/ Revert(s) \/ ReconcileAfterWrite(s) \/ Save(s)

AssetsNext ==
    /\ \/ \E s \in Slot : Arrive(s) \/ Serve(s) \/ Abandon(s)
       \/ ForeignWrite
    /\ UNCHANGED setting

AssetsSpec == AssetsInit /\ [][AssetsNext]_<<setting, assetsVars>>

-----------------------------------------------------------------------------
(* Properties.                                                             *)

\* assets.service.ts:62: "A successful write is never projected until it can be
\* reconciled".  Rows hold whole assets, and only minted ones.
AssetsTypeOK ==
    \A a \in Asset :
        row[a] # NoItem =>
            /\ Minted(a)
            /\ row[a] \in [holder : Holder, state : State, parent : Asset \cup {Nothing}]

\* With nothing in flight the row of an asset is what the chain says of it,
\* unless a receipt or a save was lost, somebody wrote past the backend, or a
\* second mutation of the asset was mined before the first was saved (each saves
\* what it read, in either order).
RowSettles ==
    /\ AssetsTypeOK
    /\ (\A s \in Slot : req[s] = Idle) => \A a \in Asset \ excused : row[a] = item[a]

\* What the contract asks of the assets the service has checked, the walk up the
\* hierarchy included: a request that was alone since it began is not refused for
\* what the assets are after the service let it pass.
CheckedIsAllowed ==
    \A s \in Slot : (At(s, "submit") /\ req[s].alone) => AssetsAllow(req[s])
=============================================================================
