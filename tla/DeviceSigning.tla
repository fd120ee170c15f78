---------------------------- MODULE DeviceSigning ----------------------------
(***************************************************************************)
(* Transactions that a managed device signs: the backend prepares the call *)
(* of an intent (prepareTransaction of blockchain/evm-adapter.ts), the     *)
(* device signs it, and the client sends the signed transaction with its   *)
(* intent (deviceSignedWrite of frontend/src/api/client.ts).  The backend  *)
(* builds the call a second time, compares the two, simulates, relays and  *)
(* waits for a receipt (submitTransactionDetailed).                        *)
(*                                                                         *)
(* Every await is a step: between two of them wallets are activated and    *)
(* revoked, other requests run, and the node mines or forgets what it was  *)
(* given.  A client may send any signed transaction with any intent, and   *)
(* may send it again.  A call is its type and the wallet it names;         *)
(* contract, method and calldata follow from these two.  One asset and the *)
(* three types of call that concern it alone are enough: its mint, its     *)
(* transfers and its state changes, all to one contract.                   *)
(*                                                                         *)
(* The sends that the development signer makes from the same wallets       *)
(* (module SendQueue) move the node's count too, and are left out here:    *)
(* they can only make it refuse what it might have taken.                  *)
(***************************************************************************)
EXTENDS Naturals, Sequences, FiniteSets

CONSTANTS
    Party, PartyWallet, WalletsOf,  \* the wallets of each identity, oldest first
    Actor,                      \* wallets that sign
    Types,                      \* the transaction types of an instance
    Slot,                       \* bound: requests in flight
    MaxSigned,                  \* bound: transactions signed
    Nil

VARIABLES
    status,     \* IdentityRegistry: the status of each wallet
    owner,      \* AssetRegistry: the owner of the asset; None before the mint
    signed,     \* what devices have signed
    pool,       \* the node's pending transactions
    mined,      \* the transactions of the chain, and whether each succeeded
    next,       \* transaction count of each wallet, "latest"
    req         \* requests in flight, or the last answer of a slot

signVars == <<status, owner, signed, pool, mined, next, req>>
chain    == <<status, owner, pool, mined, next>>

(* How the party of each type of call is chosen: "active" for the newest   *)
(* ACTIVE wallet of an identity, "none" when there is no party; and whether *)
(* the payload refers to a registered asset.                               *)
Plan(p, a) == [party |-> p, asset |-> a]
CallPlan == [
    ASSET_MINT         |-> Plan("active", FALSE),
    ASSET_TRANSFER     |-> Plan("active", TRUE),
    ASSET_STATE_CHANGE |-> Plan("none", TRUE)]

ASSUME SigningAssumption ==
    /\ WalletsOf \in [Party -> Seq(PartyWallet) \ {<<>>}]
    /\ Types \subseteq {"ASSET_MINT", "ASSET_TRANSFER", "ASSET_STATE_CHANGE"}
    /\ MaxSigned \in Nat /\ IsFiniteSet(Slot) /\ Nil \notin PartyWallet \cup Actor

Intent == [type : Types, actor : Actor, party : Party]
Call   == [from : Actor, nonce : 0..MaxSigned, type : Types, to : PartyWallet \cup {Nil}]
NoCall == [from |-> Nil, nonce |-> 0, type |-> Nil, to |-> Nil]

Idle == [at |-> "idle"]
Step == {"asset", "walk", "nonce", "gas", "verify", "simulate", "send", "wait", "known", "count"}
InFlight(s) == req[s].at \in Step

Goto(s, at)     == req' = [req EXCEPT ![s].at = at]
Answer(s, code) == req' = [req EXCEPT ![s].at = "answered", ![s].answer = code]

\* The request ends before anything was sent.
Refuse(s, code) ==
    /\ code \in {"NOT_FOUND", "SIGNER", "REJECTED", "NETWORK", "FAILED", "PREPARED"}
    /\ req' = [req EXCEPT ![s] = Idle]

-----------------------------------------------------------------------------
(* The chain, as far as it answers these requests.                         *)

\* What the contract accepts in the present state.
Accepted(c) ==
    CASE c.type = "ASSET_MINT"     -> owner = Nil /\ status[c.to] = "ACTIVE"
      [] c.type = "ASSET_TRANSFER" -> owner # Nil /\ status[c.to] = "ACTIVE"
      [] OTHER                     -> owner # Nil

Mined(c)   == \E ok \in BOOLEAN : <<c, ok>> \in mined
Pending(a) == CHOOSE n \in next[a]..MaxSigned + 1 :
                  /\ \A i \in next[a]..n - 1 : \E c \in pool : c.from = a /\ c.nonce = i
                  /\ ~ \E c \in pool : c.from = a /\ c.nonce = n

\* A block: the transaction whose nonce is next is executed, or reverts.
Mine(c) ==
    /\ c \in pool /\ c.nonce = next[c.from]
    /\ pool' = pool \ {c}
    /\ mined' = mined \cup {<<c, Accepted(c)>>}
    /\ next' = [next EXCEPT ![c.from] = @ + 1]
    /\ owner' = IF Accepted(c) /\ c.to # Nil THEN c.to ELSE owner
    /\ UNCHANGED <<status, signed, req>>

\* The node forgets a pending transaction (restart, full pool).
Drop(c) ==
    /\ c \in pool
    /\ pool' = pool \ {c}
    /\ UNCHANGED <<status, owner, signed, mined, next, req>>

\* Wallets are activated and revoked, for ever.
SetStatus(w) ==
    /\ status[w] # "REVOKED"
    /\ status' = [status EXCEPT ![w] = IF @ = "PENDING" THEN "ACTIVE" ELSE "REVOKED"]
    /\ UNCHANGED <<owner, signed, pool, mined, next, req>>

-----------------------------------------------------------------------------
(* Building the call.                                                      *)

Begin(s, intent, raw) ==
    /\ req' = [req EXCEPT ![s] = [at |-> "asset", intent |-> intent, raw |-> raw, i |-> 0,
                                  to |-> Nil, answer |-> Nil, hole |-> FALSE]]
    /\ UNCHANGED <<chain, signed>>

Preparing == {s \in Slot : InFlight(s) /\ req[s].raw = NoCall}
Prepare(s, intent) ==
    Cardinality(signed) + Cardinality(Preparing) < MaxSigned /\ Begin(s, intent, NoCall)
Submit(s, intent, raw) == Begin(s, intent, raw)

\* Once there is a plan, a prepared call needs a nonce and a signed one is compared.
Planned(s) == IF req[s].raw = NoCall THEN "nonce" ELSE "verify"

\* nftRef: an asset that was never minted is not found.
NftRef(s) ==
    LET plan == CallPlan[req[s].intent.type]
        list == WalletsOf[req[s].intent.party] IN
    /\ req[s].at = "asset"
    /\ IF plan.asset /\ owner = Nil THEN Refuse(s, "NOT_FOUND")
       ELSE IF plan.party = "none" THEN Goto(s, Planned(s))
       ELSE req' = [req EXCEPT ![s].at = "walk", ![s].i = Len(list)]
    /\ UNCHANGED <<chain, signed>>

\* walletOfIdentity, newest first, an RPC call for each wallet.
WalletOfIdentity(s) ==
    LET list == WalletsOf[req[s].intent.party]
        i    == req[s].i IN
    /\ req[s].at = "walk"
    /\ CASE i = 0 -> Refuse(s, "NOT_FOUND")
         [] i > 0 /\ status[list[i]] = "ACTIVE" ->
                req' = [req EXCEPT ![s].at = Planned(s), ![s].to = list[i], ![s].i = 0]
         [] OTHER -> req' = [req EXCEPT ![s].i = @ - 1]
    /\ UNCHANGED <<chain, signed>>

\* The call the plan stands for.
Prepared(s) == [from |-> req[s].intent.actor, type |-> req[s].intent.type, to |-> req[s].to]

\* getTransactionCount(from, "pending"): nothing is reserved.
PrepareNonce(s) ==
    /\ req[s].at = "nonce"
    /\ req' = [req EXCEPT ![s].at = "gas", ![s].i = Pending(req[s].intent.actor)]
    /\ UNCHANGED <<chain, signed>>

\* estimateGas fails when the call would revert; otherwise the device signs
\* what it was given.
PrepareGas(s) ==
    LET c == [from |-> req[s].intent.actor, nonce |-> req[s].i,
              type |-> req[s].intent.type, to |-> req[s].to] IN
    /\ req[s].at = "gas"
    /\ IF Accepted(Prepared(s))
       THEN Refuse(s, "PREPARED") /\ signed' = signed \cup {c}
       ELSE Refuse(s, "FAILED") /\ UNCHANGED signed
    /\ UNCHANGED chain

-----------------------------------------------------------------------------
(* Relaying what came back.                                                *)

\* Faulty variant: signer, target and chain are compared, the calldata is not.
VerifyWithoutData(s) ==
    /\ req[s].at = "verify"
    /\ IF req[s].raw.from = Prepared(s).from
       THEN Goto(s, "simulate") ELSE Refuse(s, "SIGNER")
    /\ UNCHANGED <<chain, signed>>

\* verifySignedTransaction: all but the nonce must be as prepared now.
VerifySigned(s) ==
    LET c == req[s].raw IN
    /\ req[s].at = "verify"
    /\ IF [from |-> c.from, type |-> c.type, to |-> c.to] = Prepared(s)
       THEN Goto(s, "simulate") ELSE Refuse(s, "SIGNER")
    /\ UNCHANGED <<chain, signed>>

Simulate(s) ==
    /\ req[s].at = "simulate"
    /\ IF Accepted(Prepared(s)) THEN Goto(s, "send") ELSE Refuse(s, "REJECTED")
    /\ UNCHANGED <<chain, signed>>

\* The node takes a transaction it does not know, with a nonce that is neither
\* used nor taken by a pending one.
Taken(c) ==
    /\ ~Mined(c) /\ c.nonce >= next[c.from]
    /\ \A d \in pool : d.from = c.from => d.nonce # c.nonce

\* broadcastTransaction; a refusal that carries no revert is a NETWORK error, and
\* so is an answer that does not arrive.
Relay(s) ==
    LET c == req[s].raw IN
    /\ req[s].at = "send"
    /\ pool' = IF Taken(c) THEN pool \cup {c} ELSE pool
    /\ \/ Taken(c) /\ Goto(s, "wait")
       \/ Answer(s, "NETWORK")
    /\ UNCHANGED <<status, owner, mined, next, signed>>

\* waitForReceipt finds the receipt, with as many confirmations as it takes.
Receipt(s) ==
    /\ req[s].at = "wait"
    /\ \E ok \in BOOLEAN : /\ <<req[s].raw, ok>> \in mined
                           /\ Answer(s, IF ok THEN "SUCCESS" ELSE "REJECTED")
    /\ UNCHANGED <<chain, signed>>

\* The deadline has passed, whatever has become of the transaction.
Deadline(s) ==
    /\ req[s].at = "wait"
    /\ Goto(s, "known")
    /\ UNCHANGED <<chain, signed>>

\* diagnoseMissingReceipt: getTransaction ...
Known(s) ==
    LET c == req[s].raw IN
    /\ req[s].at = "known"
    /\ IF Mined(c) THEN Answer(s, "TIMEOUT_MINED")
       ELSE IF c \in pool THEN Goto(s, "count")
       ELSE Answer(s, "TIMEOUT_UNKNOWN")
    /\ UNCHANGED <<chain, signed>>

\* ... and then the count of what is mined.
Count(s) ==
    LET c == req[s].raw IN
    /\ req[s].at = "count"
    /\ req' = [req EXCEPT ![s].at = "answered",
                          ![s].answer = IF c.nonce > next[c.from] THEN "TIMEOUT_GAP"
                                        ELSE "TIMEOUT_PENDING",
                          ![s].hole = Pending(c.from) < c.nonce]
    /\ UNCHANGED <<chain, signed>>

\* An RPC call fails at the transport.
Fail(s) ==
    /\ \/ req[s].at \in {"asset", "walk", "simulate"} /\ Refuse(s, "NETWORK")
       \/ req[s].at \in {"nonce", "gas"} /\ Refuse(s, "FAILED")
       \/ req[s].at = "wait" /\ Answer(s, "NETWORK")
       \/ req[s].at \in {"known", "count"} /\ Answer(s, "TIMEOUT")
    /\ UNCHANGED <<chain, signed>>

-----------------------------------------------------------------------------
\* The first wallet of everybody is in use.
SignInit ==
    /\ status = [w \in PartyWallet |->
                    IF \E x \in Party : w = WalletsOf[x][1] THEN "ACTIVE" ELSE "PENDING"]
    /\ owner = Nil
    /\ signed = {} /\ pool = {} /\ mined = {}
    /\ next = [a \in Actor |-> 0]
    /\ req = [s \in Slot |-> Idle]

Answering(s) ==
    \/ NftRef(s) \/ WalletOfIdentity(s) \/ PrepareNonce(s) \/ PrepareGas(s)
    \/ VerifySigned(s) \/ Simulate(s) \/ Relay(s)
    \/ Receipt(s) \/ Deadline(s) \/ Known(s) \/ Count(s)

SignNext ==
    \/ \E s \in Slot :
        \/ Answering(s) \/ Fail(s)
        \/ /\ ~InFlight(s)
           /\ \E intent \in Intent : Prepare(s, intent) \/ \E raw \in signed : Submit(s, intent, raw)
    \/ \E c \in pool : Mine(c) \/ Drop(c)
    \/ \E w \in PartyWallet : SetStatus(w)

SignSpec == SignInit /\ [][SignNext]_signVars

\* RPC calls answer or fail and the timer of a wait runs out.  Nothing makes
\* the chain mine, and nothing makes an RPC call fail.
FairSignSpec == SignSpec /\ \A s \in Slot : WF_signVars(Answering(s))

-----------------------------------------------------------------------------
(* Properties.                                                             *)

Codes == {"SUCCESS", "REJECTED", "NETWORK", "TIMEOUT", "TIMEOUT_MINED", "TIMEOUT_UNKNOWN",
          "TIMEOUT_GAP", "TIMEOUT_PENDING"}

\* Each variable has its type; a signed call of these types that has a party
\* names a wallet.
SigningTypeOK ==
    /\ status \in [PartyWallet -> {"PENDING", "ACTIVE", "REVOKED"}]
    /\ owner \in PartyWallet \cup {Nil}
    /\ signed \subseteq Call /\ Cardinality(signed) <= MaxSigned
    /\ pool \subseteq signed
    /\ \A m \in mined : m[1] \in signed /\ m[2] \in BOOLEAN
    /\ next \in [Actor -> 0..MaxSigned]
    /\ \A s \in Slot : req[s] = Idle \/
        /\ req[s].at \in Step \cup {"answered"}
        /\ req[s].intent \in Intent /\ req[s].raw \in signed \cup {NoCall}
        /\ req[s].to \in PartyWallet \cup {Nil} /\ req[s].answer \in Codes \cup {Nil}
        /\ CallPlan[req[s].intent.type].party # "none" /\ req[s].at \in {"nonce", "gas", "verify"}
           => req[s].to # Nil

\* "A relayed device-signed transaction must be exactly what the envelope
\* claims": whatever signed transaction a client sends with whatever intent,
\* in whatever order, only one of the sender himself, of the type of the
\* intent and for a wallet of the party of the intent is relayed.
RelayedAsAsked ==
    SigningTypeOK /\ \A s \in Slot :
        req[s].at \in {"wait", "known", "count", "answered"}
        => LET c == req[s].raw
               list == WalletsOf[req[s].intent.party] IN
           /\ c.from = req[s].intent.actor /\ c.type = req[s].intent.type
           /\ CallPlan[c.type].party # "none" => \E i \in 1..Len(list) : list[i] = c.to

\* A client that waits is answered, although the node may have dropped its
\* transaction and the chain may produce no block.
SubmitsEnd == \A s \in Slot : []<>~InFlight(s)

-----------------------------------------------------------------------------
(* Statements of the documentation that do not hold (see the README).      *)

\* "nonce gap: an earlier transaction is missing": when a wait ends with this
\* diagnosis, some earlier nonce of the wallet has neither been mined nor is it
\* taken by a pending transaction.
GapMeansMissing ==
    \A s \in Slot : req[s].at = "answered" /\ req[s].answer = "TIMEOUT_GAP" => req[s].hole
=============================================================================
