------------------------------ MODULE MCAdapter ------------------------------
(* The two ways a transaction takes through evm-adapter.ts: three sends of   *)
(* the development signer from one wallet, for which devices' transactions   *)
(* are relayed as well; and transactions signed by devices of two            *)
(* identities, the first with two wallets, the second with one.              *)
EXTENDS SendQueue, DeviceSigning

CONSTANTS a1, a2, a3, wa, p, q, w1, w2, w3

MCWalletOf  == [s \in Send |-> wa]
MCWalletsOf == [x \in Party |-> IF x = p THEN <<w1, w2>> ELSE <<w3>>]

\* The two meet at the node alone, which counts a wallet's transactions of both.
\* SendQueue has the other's in RelayRaw and Forget, and DeviceSigning gives a
\* prepared call no claim on its nonce, so that each may go on while the other
\* is as at the beginning.
MCInit == QueueInit /\ SignInit
MCNext ==
    \/ SignInit /\ QueueNext /\ UNCHANGED signVars
    \/ QueueInit /\ SignNext /\ UNCHANGED queueVars
MCSpec ==
    /\ MCInit /\ [][MCNext]_<<queueVars, signVars>>
    /\ \A s \in Send : WF_queueVars(Proceed(s))
    /\ \A s \in Slot : WF_signVars(Answering(s))

\* Every caller is answered: a send that was queued ends whatever fails before
\* it, and a submission although the node forgets and the chain stands still.
CallersAnswered == SendsEnd /\ SubmitsEnd
=============================================================================
