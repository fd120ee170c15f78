--------------------------- MODULE AssetLifecycle ---------------------------
(***************************************************************************)
(* What the chain promises about assets, in terms of asset ids alone: no   *)
(* tokens, roles, lists or grants.  An asset has a holder, a state and at  *)
(* most one parent; the parents form a forest; nothing happens to an asset *)
(* out of service except that it is taken off its parent.                  *)
(***************************************************************************)
CONSTANTS Asset, Holder, Nothing

VARIABLE item       \* NoItem, or the holder, state and parent of each asset

NoItem == [holder |-> Nothing, state |-> "NONE", parent |-> Nothing]
State  == {"ACTIVE", "IN_MAINTENANCE", "DECOMMISSIONED"}

Minted(a)    == item[a] # NoItem
InService(a) == Minted(a) /\ item[a].state # "DECOMMISSIONED"

\* The assets above a: the least set with a's parent, closed under parent.
Above(a) ==
    {b \in Asset : \A S \in SUBSET Asset :
        (/\ \A c \in S : item[c].parent # Nothing => item[c].parent \in S
         /\ item[a].parent # Nothing => item[a].parent \in S) => b \in S}

LifecycleInit == item = [a \in Asset |-> NoItem]

Mint(a, h) ==
    /\ ~Minted(a)
    /\ item' = [item EXCEPT ![a] = [holder |-> h, state |-> "ACTIVE", parent |-> Nothing]]

Transfer(a, h) ==
    /\ InService(a) /\ item[a].parent = Nothing /\ item[a].holder # h
    /\ item' = [item EXCEPT ![a].holder = h]

ChangeState(a, st) ==
    /\ InService(a) /\ item[a].state # st
    /\ item' = [item EXCEPT ![a].state = st]

Attach(p, c) ==
    /\ p # c /\ InService(p) /\ InService(c)
    /\ item[c].parent = Nothing /\ c \notin Above(p)
    /\ item' = [item EXCEPT ![c].parent = p]

Remove(p, c) ==
    /\ Minted(c) /\ item[c].parent = p
    /\ item' = [item EXCEPT ![c].parent = Nothing]

LifecycleNext ==
    \E a \in Asset :
        \/ \E h \in Holder : Mint(a, h) \/ Transfer(a, h)
        \/ \E st \in State : ChangeState(a, st)
        \/ \E c \in Asset : Attach(a, c) \/ Remove(a, c)

LifecycleSpec == LifecycleInit /\ [][LifecycleNext]_item
=============================================================================
