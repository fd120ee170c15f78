------------------------------ MODULE SendQueue ------------------------------
(***************************************************************************)
(* sendAs of backend/src/blockchain/evm-adapter.ts: the sends that the     *)
(* development signer makes from one wallet, queued behind each other by a *)
(* chain of promises.  A send puts itself behind the tail of its wallet's  *)
(* queue without an await in between, waits for the send before it, asks   *)
(* the node for the next nonce, estimates gas and broadcasts, an await     *)
(* each; its finally block then resolves its turn and removes the tail if  *)
(* nothing is queued behind it.                                            *)
(*                                                                         *)
(* A send resolves its turn only after that of its predecessor, so         *)
(* previous.then(() => turn) is resolved when the turn is.                 *)
(*                                                                         *)
(* Transactions that a device signed do not pass through the queue: their  *)
(* nonce was chosen when they were prepared (module DeviceSigning), and    *)
(* submitTransactionDetailed hands them to the node at any moment, of the  *)
(* same wallets too.  The node may also forget what it has not mined, or   *)
(* replace it by a better paid one, which is to forget it first.           *)
(***************************************************************************)
EXTENDS Naturals

CONSTANTS
    Send,           \* calls of sendAs
    Wallet,         \* keys of sendQueues
    WalletOf,       \* the wallet that signs a send
    MaxNonce,       \* bound: the nonces in use
    None

ASSUME SendAssumption ==
    WalletOf \in [Send -> Wallet] /\ None \notin Send /\ MaxNonce \in Nat

VARIABLES
    pc,             \* where each call is
    previous,       \* the send each one queued behind
    tail,           \* sendQueues: the last send queued for a wallet
    nonce,          \* what the node answered
    node,           \* the nonces of each wallet's transactions the node holds
    taken,          \* the node holds the transaction of a send
    arrived,        \* history: calls made for each wallet
    place           \* history: the place of each call among them

queueVars == <<pc, previous, tail, nonce, node, taken, arrived, place>>
places    == <<arrived, place>>
held      == <<node, taken>>

Busy      == {"queued", "nonce", "gas", "send", "reply"}
Active(s) == pc[s] \in Busy

\* Faulty variant: the turn is handed on as soon as the nonce is known.
FreeEarly(s) == previous[s] # None => pc[previous[s]] \in {"gas", "send", "reply", "done"}

\* Its turn has come: there was no queue, or the send before it is over.
Free(s) == previous[s] # None => pc[previous[s]] = "done"

\* Queries and broadcasts are made by the send whose turn it is.
Critical(s) == pc[s] \in Busy \ {"queued"}

-----------------------------------------------------------------------------

\* Faulty variant: the call enters the map before it looks who is there.
SendAsBehindItself(s) ==
    /\ pc[s] = "idle"
    /\ pc' = [pc EXCEPT ![s] = "queued"]
    /\ previous' = [previous EXCEPT ![s] = s]
    /\ tail' = [tail EXCEPT ![WalletOf[s]] = s]
    /\ place' = [place EXCEPT ![s] = arrived[WalletOf[s]]]
    /\ arrived' = [arrived EXCEPT ![WalletOf[s]] = @ + 1]
    /\ UNCHANGED <<nonce, held>>

\* The call up to its first await.
SendAs(s) ==
    /\ pc[s] = "idle"
    /\ pc' = [pc EXCEPT ![s] = "queued"]
    /\ previous' = [previous EXCEPT ![s] = tail[WalletOf[s]]]
    /\ tail' = [tail EXCEPT ![WalletOf[s]] = s]
    /\ place' = [place EXCEPT ![s] = arrived[WalletOf[s]]]
    /\ arrived' = [arrived EXCEPT ![WalletOf[s]] = @ + 1]
    /\ UNCHANGED <<nonce, held>>

\* Faulty variant: any call that waits may be next.
TakeAnyTurn(s) ==
    /\ pc[s] = "queued" /\ \A t \in Send : WalletOf[t] = WalletOf[s] => ~Critical(t)
    /\ pc' = [pc EXCEPT ![s] = "nonce"]
    /\ UNCHANGED <<previous, tail, nonce, held, places>>

\* await previous
TakeTurn(s) ==
    /\ pc[s] = "queued" /\ Free(s)
    /\ pc' = [pc EXCEPT ![s] = "nonce"]
    /\ UNCHANGED <<previous, tail, nonce, held, places>>

\* finally: release(), and the tail goes if it is still this send's.
Finally(s) ==
    /\ pc' = [pc EXCEPT ![s] = "done"]
    /\ tail' = [tail EXCEPT ![WalletOf[s]] = IF @ = s THEN None ELSE @]
    /\ UNCHANGED <<previous, nonce, held, places>>

\* The node's count of a wallet's transactions, "pending": those that follow
\* each other from the first one on.
Following(w, n) == n \notin node[w] /\ 0..n - 1 \subseteq node[w]

\* Faulty variant: the transactions not yet mined are not counted.
ReadNonceLatest(s) ==
    /\ pc[s] = "nonce"
    /\ \E n \in 0..MaxNonce : /\ 0..n - 1 \subseteq node[WalletOf[s]]
                             /\ nonce' = [nonce EXCEPT ![s] = n]
    /\ pc' = [pc EXCEPT ![s] = "gas"]
    /\ UNCHANGED <<previous, tail, held, places>>

\* eth_getTransactionCount(address, "pending")
ReadNonce(s) ==
    /\ pc[s] = "nonce"
    /\ \E n \in 0..MaxNonce : Following(WalletOf[s], n) /\ nonce' = [nonce EXCEPT ![s] = n]
    /\ pc' = [pc EXCEPT ![s] = "gas"]
    /\ UNCHANGED <<previous, tail, held, places>>

EstimateGas(s) ==
    /\ pc[s] = "gas"
    /\ pc' = [pc EXCEPT ![s] = "send"]
    /\ UNCHANGED <<previous, tail, nonce, held, places>>

\* The node takes the transaction, unless it holds another with this nonce.
Broadcast(s) ==
    LET w == WalletOf[s] IN
    /\ pc[s] = "send"
    /\ taken' = [taken EXCEPT ![s] = nonce[s] \notin node[w]]
    /\ node' = [node EXCEPT ![w] = @ \cup {nonce[s]}]
    /\ pc' = [pc EXCEPT ![s] = "reply"]
    /\ UNCHANGED <<previous, tail, nonce, places>>

\* The hash comes back; or any of the calls fails, also the broadcast of a
\* transaction that the node has taken.
Return(s) ==
    /\ Critical(s)
    /\ Finally(s)

-----------------------------------------------------------------------------
(* What else happens to the transactions of a wallet.                      *)

\* A transaction that a device of the wallet signed is relayed.
RelayRaw(w, n) ==
    /\ n \notin node[w]
    /\ node' = [node EXCEPT ![w] = @ \cup {n}]
    /\ UNCHANGED <<pc, previous, tail, nonce, taken, places>>

\* The node forgets a transaction.
Forget(w, n) ==
    /\ n \in node[w]
    /\ node' = [node EXCEPT ![w] = @ \ {n}]
    /\ taken' = [s \in Send |-> taken[s] /\ ~(WalletOf[s] = w /\ nonce[s] = n)]
    /\ UNCHANGED <<pc, previous, tail, nonce, places>>

-----------------------------------------------------------------------------
QueueInit ==
    /\ pc = [s \in Send |-> "idle"]
    /\ previous = [s \in Send |-> None]
    /\ tail = [w \in Wallet |-> None]
    /\ nonce = [s \in Send |-> 0]
    /\ node = [w \in Wallet |-> {}]
    /\ taken = [s \in Send |-> FALSE]
    /\ arrived = [w \in Wallet |-> 0]
    /\ place = [s \in Send |-> 0]

Proceed(s) == TakeTurn(s) \/ ReadNonce(s) \/ EstimateGas(s) \/ Broadcast(s) \/ Return(s)

QueueNext ==
    \/ \E s \in Send : SendAs(s) \/ Proceed(s)
    \/ \E w \in Wallet, n \in 0..MaxNonce : RelayRaw(w, n) \/ Forget(w, n)

QueueSpec == QueueInit /\ [][QueueNext]_queueVars

\* Every RPC call answers or fails, and the event loop runs what is resolved.
FairQueueSpec == QueueSpec /\ \A s \in Send : WF_queueVars(Proceed(s))

-----------------------------------------------------------------------------
(* Properties.                                                             *)

\* Each variable has its type.
QueueTypeOK ==
    /\ pc \in [Send -> Busy \cup {"idle", "done"}]
    /\ previous \in [Send -> Send \cup {None}]
    /\ tail \in [Wallet -> Send \cup {None}]
    /\ nonce \in [Send -> 0..MaxNonce]
    /\ node \in [Wallet -> SUBSET (0..MaxNonce)]
    /\ taken \in [Send -> BOOLEAN]
    /\ arrived \in [Wallet -> Nat]
    /\ place \in [Send -> Nat]

\* "Per-wallet send queue: nonce lookup + broadcast never interleave for one
\* wallet", although queues are created and removed all the time.
OneSenderPerWallet ==
    \A s, t \in Send :
        Critical(s) /\ Critical(t) /\ WalletOf[s] = WalletOf[t] => s = t

\* The sends of a wallet take their turns in the order of the calls.
FirstComeFirstServed ==
    \A s, t \in Send :
        Critical(s) /\ Active(t) /\ WalletOf[s] = WalletOf[t] => place[s] <= place[t]

\* A send claims its nonce from the moment the node tells it until it fails,
\* or for as long as the node holds its transaction.
Claims(s) == pc[s] \in {"gas", "send"} \/ taken[s]

\* "sends from one wallet are queued so two concurrent requests can never claim
\* the same nonce": of the requests that are queued no two do, whatever else is
\* relayed for the wallet and whatever the node forgets.
NonceNotShared ==
    \A s, t \in Send :
        Claims(s) /\ Claims(t) /\ WalletOf[s] = WalletOf[t] /\ nonce[s] = nonce[t] => s = t

\* A request that was queued is answered, whatever fails before it.
\* (Each send of an instance is made once: in the end none is between the two.)
SendsEnd == <>[](\A s \in Send : pc[s] \in {"idle", "done"})

\* An idle wallet leaves nothing in the map.
QueueForgotten ==
    \A w \in Wallet :
        (\A s \in Send : WalletOf[s] = w => ~Active(s)) => tail[w] = None

(* Statements of the documentation that do not hold (see the README).      *)

\* The nonce a send was given is still free when it broadcasts.  A transaction
\* that a device of the wallet signed earlier and that is relayed between the
\* two takes it: the queue does not protect a wallet that uses both ways.
NonceStillFree ==
    \A s \in Send : pc[s] \in {"gas", "send"} => nonce[s] \notin node[WalletOf[s]]
=============================================================================
