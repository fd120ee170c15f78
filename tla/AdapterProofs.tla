---------------------------- MODULE AdapterProofs ----------------------------
(***************************************************************************)
(* The send queue excludes and keeps order: for any number of sends and    *)
(* wallets, at most one send of a wallet is between its nonce lookup and   *)
(* its broadcast, it is the one that came first, and no other queued send  *)
(* claims its nonce, whatever else reaches the node.                       *)
(*                                                                         *)
(* A transaction that a device signed is relayed only for the intent it    *)
(* belongs to, for any wallets, parties and requests in flight.            *)
(***************************************************************************)
EXTENDS SendQueue, DeviceSigning, FiniteSetTheorems, WellFoundedInduction, TLAPS

\* The tail of a queue is the last send that came, and a send in a queue has
\* its wallet in the map.
TailLast ==
    /\ \A w \in Wallet : tail[w] # None =>
          Active(tail[w]) /\ WalletOf[tail[w]] = w /\ place[tail[w]] + 1 = arrived[w]
    /\ \A s \in Send : Active(s) =>
          tail[WalletOf[s]] # None /\ place[s] < arrived[WalletOf[s]]

\* A send that still waits is queued behind the one that came just before it.
LinksBack ==
    \A s \in Send : Active(s) /\ ~Free(s) =>
        /\ Active(previous[s]) /\ WalletOf[previous[s]] = WalletOf[s]
        /\ place[previous[s]] + 1 = place[s]

\* The send whose turn it is came before the others of its wallet, and no two
\* have the same place.
HeadFirst ==
    \A s, t \in Send : Active(s) /\ Active(t) /\ WalletOf[s] = WalletOf[t] =>
        /\ Free(s) => place[s] <= place[t]
        /\ place[s] = place[t] => s = t

\* Only a send whose turn it is does anything.
TurnTaken == \A s \in Send : Critical(s) => Free(s)

\* What the node took of a queue is among what it holds.
TakenHeld ==
    \A s \in Send : taken[s] => pc[s] \in {"reply", "done"} /\ nonce[s] \in node[WalletOf[s]]

\* The inductive invariant.
QueueInv ==
    /\ QueueTypeOK /\ TailLast /\ LinksBack /\ HeadFirst /\ TurnTaken
    /\ TakenHeld /\ NonceNotShared

\* What the invariant says of the sends that do something.
LEMMA InvExcludes ==
  QueueInv => OneSenderPerWallet /\ FirstComeFirstServed /\ QueueForgotten
<1> SUFFICES ASSUME QueueInv
             PROVE  OneSenderPerWallet /\ FirstComeFirstServed /\ QueueForgotten
  OBVIOUS
<1> USE DEF QueueInv
<1>1. \A s \in Send : Critical(s) => Active(s) /\ Free(s)
  BY DEF TurnTaken, Critical, Active
<1>2. FirstComeFirstServed
  BY <1>1 DEF HeadFirst, FirstComeFirstServed
<1>3. OneSenderPerWallet
  <2> SUFFICES ASSUME NEW s \in Send, NEW t \in Send, Critical(s), Critical(t),
                      WalletOf[s] = WalletOf[t]
               PROVE  s = t
    BY DEF OneSenderPerWallet
  <2>1. place[s] <= place[t] /\ place[t] <= place[s]
    BY <1>1 DEF HeadFirst
  <2>2. place[s] = place[t]
    BY <2>1 DEF QueueTypeOK
  <2> QED BY <1>1, <2>2 DEF HeadFirst
<1>4. QueueForgotten
  BY DEF QueueForgotten, TailLast, QueueTypeOK
<1> QED BY <1>2, <1>3, <1>4

LEMMA InitInv == QueueInit => QueueInv
  BY SendAssumption DEF QueueInit, QueueInv, QueueTypeOK, TailLast, LinksBack, HeadFirst,
     TurnTaken, TakenHeld, NonceNotShared, Claims, Critical, Active, Busy

\* A step that gives nobody a claim or a nonce lets no two share one.
LEMMA NoNewClaim ==
  ASSUME NonceNotShared, UNCHANGED nonce, \A t \in Send : Claims(t)' => Claims(t)
  PROVE  NonceNotShared'
BY DEF NonceNotShared

\* A step that leaves the nonces and what the node holds alone, and moves a send
\* whose transaction is not there, or that has its answer.
LEMMA NodeAsItWas ==
  ASSUME QueueInv, NEW s \in Send, NEW where \in Busy \cup {"done"},
         pc' = [pc EXCEPT ![s] = where], UNCHANGED <<nonce, held>>,
         where \in {"gas", "send"} => pc[s] \in {"gas", "send"},
         pc[s] \in {"reply", "done"} => where \in {"reply", "done"}
  PROVE  TakenHeld' /\ NonceNotShared'
<1> USE DEF QueueInv, held
<1>1. \A t \in Send : Claims(t)' => Claims(t)
  BY DEF Claims, QueueTypeOK
<1>2. NonceNotShared'
  BY <1>1, NoNewClaim
<1>3. TakenHeld'
  BY DEF TakenHeld, QueueTypeOK
<1> QED BY <1>2, <1>3

\* A send joins the end of its queue.
LEMMA SendAsKeeps ==
  ASSUME QueueInv, NEW s \in Send, SendAs(s)
  PROVE  QueueInv'
<1> USE SendAssumption DEF QueueInv, SendAs
<1>1. QueueTypeOK'
  <2>1. WalletOf[s] \in Wallet /\ tail[WalletOf[s]] \in Send \cup {None}
        /\ arrived[WalletOf[s]] \in Nat
    BY DEF QueueTypeOK
  <2>2. pc' \in [Send -> Busy \cup {"idle", "done"}]
    BY DEF QueueTypeOK, Busy
  <2>3. previous' \in [Send -> Send \cup {None}] /\ tail' \in [Wallet -> Send \cup {None}]
    BY <2>1 DEF QueueTypeOK
  <2>4. arrived' \in [Wallet -> Nat] /\ place' \in [Send -> Nat]
    BY <2>1 DEF QueueTypeOK
  <2> QED BY <2>2, <2>3, <2>4 DEF QueueTypeOK, held
<1>2. /\ \A t \in Send : Active(t)' <=> Active(t) \/ t = s
      /\ ~Active(s)
  BY DEF Active, QueueTypeOK, Busy
<1>3. \A t \in Send : t # s => previous'[t] = previous[t] /\ place'[t] = place[t]
  BY DEF QueueTypeOK
<1>4. /\ previous'[s] = tail[WalletOf[s]] /\ place'[s] = arrived[WalletOf[s]]
      /\ WalletOf[s] \in Wallet
  BY DEF QueueTypeOK
<1>5. \A t \in Send : t # s /\ Active(t) => (Free(t)' <=> Free(t))
  <2> SUFFICES ASSUME NEW t \in Send, t # s, Active(t) PROVE Free(t)' <=> Free(t)
    OBVIOUS
  <2>1. CASE Free(t)
    BY <2>1, <1>3 DEF Free, QueueTypeOK
  <2>2. CASE ~Free(t)
    <3>1. previous[t] \in Send /\ Active(previous[t])
      BY <2>2 DEF LinksBack, Free, QueueTypeOK
    <3> QED BY <2>2, <3>1, <1>3 DEF Free, QueueTypeOK, Active, Busy
  <2> QED BY <2>1, <2>2
<1>6. Free(s)' => tail[WalletOf[s]] = None
  <2> SUFFICES ASSUME tail[WalletOf[s]] # None PROVE ~Free(s)'
    OBVIOUS
  <2>1. tail[WalletOf[s]] \in Send /\ Active(tail[WalletOf[s]])
    BY <1>4 DEF TailLast, QueueTypeOK
  <2> QED BY <2>1, <1>4 DEF Free, QueueTypeOK, Active, Busy
<1>7. TailLast'
  BY <1>2, <1>3, <1>4 DEF TailLast, QueueTypeOK
<1>8. LinksBack'
  <2> SUFFICES ASSUME NEW t \in Send, Active(t)', ~Free(t)'
               PROVE  /\ Active(previous[t])' /\ WalletOf[previous'[t]] = WalletOf[t]
                      /\ place'[previous'[t]] + 1 = place'[t]
    BY DEF LinksBack
  <2>1. CASE t # s
    <3>1. Active(t) /\ ~Free(t)
      BY <2>1, <1>2, <1>5
    <3>2. /\ previous[t] \in Send /\ Active(previous[t])
          /\ WalletOf[previous[t]] = WalletOf[t] /\ place[previous[t]] + 1 = place[t]
      BY <3>1 DEF LinksBack, Free, QueueTypeOK
    <3> QED BY <2>1, <3>2, <1>2, <1>3
  <2>2. CASE t = s
    <3>1. tail[WalletOf[s]] # None
      BY <2>2, <1>4 DEF Free
    <3>2. /\ tail[WalletOf[s]] \in Send /\ Active(tail[WalletOf[s]])
          /\ WalletOf[tail[WalletOf[s]]] = WalletOf[s]
          /\ place[tail[WalletOf[s]]] + 1 = arrived[WalletOf[s]]
      BY <3>1, <1>4 DEF TailLast, QueueTypeOK
    <3> QED BY <2>2, <3>2, <1>2, <1>3, <1>4
  <2> QED BY <2>1, <2>2
<1>9. HeadFirst'
  <2> SUFFICES ASSUME NEW t \in Send, NEW u \in Send, Active(t)', Active(u)',
                      WalletOf[t] = WalletOf[u]
               PROVE  /\ Free(t)' => place'[t] <= place'[u]
                      /\ place'[t] = place'[u] => t = u
    BY DEF HeadFirst
  <2>1. CASE t # s /\ u # s
    BY <2>1, <1>2, <1>3, <1>5 DEF HeadFirst
  <2>2. CASE t = s /\ u # s
    <3>1. Active(u) /\ tail[WalletOf[s]] # None /\ place[u] < arrived[WalletOf[s]]
      BY <2>2, <1>2 DEF TailLast
    <3> QED BY <2>2, <3>1, <1>3, <1>4, <1>6 DEF QueueTypeOK
  <2>3. CASE t # s /\ u = s
    <3>1. Active(t) /\ place[t] < arrived[WalletOf[s]]
      BY <2>3, <1>2 DEF TailLast
    <3> QED BY <2>3, <3>1, <1>3, <1>4 DEF QueueTypeOK
  <2>4. CASE t = s /\ u = s
    BY <2>4, <1>1 DEF QueueTypeOK
  <2> QED BY <2>1, <2>2, <2>3, <2>4
<1>10. TurnTaken'
  <2> SUFFICES ASSUME NEW t \in Send, Critical(t)' PROVE Free(t)'
    BY DEF TurnTaken
  <2>1. t # s /\ Critical(t) /\ Active(t)
    BY DEF Critical, Active, Busy, QueueTypeOK
  <2> QED BY <2>1, <1>5 DEF TurnTaken
<1>11. TakenHeld' /\ NonceNotShared'
  <2>1. pc[s] = "idle" /\ "queued" \in Busy
    BY DEF Busy
  <2> QED BY <2>1, NodeAsItWas
<1> QED BY <1>1, <1>7, <1>8, <1>9, <1>10, <1>11

\* A send moves on in its queue: the links, the places and the map stay.
LEMMA MovesOnKeeps ==
  ASSUME QueueInv, NEW s \in Send, Active(s), Free(s), NEW where \in Busy,
         pc' = [pc EXCEPT ![s] = where], UNCHANGED <<previous, tail, places>>
  PROVE  TailLast' /\ LinksBack' /\ HeadFirst' /\ TurnTaken'
<1> USE SendAssumption DEF QueueInv, places
<1>1. \A t \in Send : Active(t)' <=> Active(t)
  BY DEF Active, QueueTypeOK
<1>2. \A t \in Send : Free(t)' <=> Free(t)
  BY DEF Active, Free, QueueTypeOK, Busy
<1>3. \A t \in Send : Critical(t)' => Critical(t) \/ t = s
  BY DEF Critical, QueueTypeOK
<1>4. TailLast'
  BY <1>1 DEF TailLast, QueueTypeOK
<1>5. LinksBack'
  <2> SUFFICES ASSUME NEW t \in Send, Active(t)', ~Free(t)'
               PROVE  /\ Active(previous[t])' /\ WalletOf[previous'[t]] = WalletOf[t]
                      /\ place'[previous'[t]] + 1 = place'[t]
    BY DEF LinksBack
  <2>1. previous[t] \in Send
    BY <1>2 DEF Free, QueueTypeOK
  <2> QED BY <2>1, <1>1, <1>2 DEF LinksBack
<1>6. HeadFirst'
  BY <1>1, <1>2 DEF HeadFirst
<1>7. TurnTaken'
  BY <1>2, <1>3 DEF TurnTaken
<1> QED BY <1>4, <1>5, <1>6, <1>7

\* The head of a queue leaves it, and the send behind it becomes the head.
LEMMA ReturnKeeps ==
  ASSUME QueueInv, NEW s \in Send, Return(s)
  PROVE  QueueInv'
<1> USE SendAssumption DEF QueueInv, Return, Finally, places
<1>1. Active(s) /\ Free(s)
  BY DEF TurnTaken, Critical, Active
<1>2. QueueTypeOK'
  BY DEF QueueTypeOK, Busy, held
<1>3. \A t \in Send : Active(t)' <=> Active(t) /\ t # s
  BY DEF Active, QueueTypeOK, Busy
<1>4. \A t \in Send : Active(t) /\ t # s => (Free(t)' <=> Free(t) \/ previous[t] = s)
  BY DEF Free, QueueTypeOK
<1>5. \A t \in Send : Active(t) /\ t # s /\ WalletOf[t] = WalletOf[s] =>
         /\ place[s] < place[t]
         /\ ~Free(t)
  <2> SUFFICES ASSUME NEW t \in Send, Active(t), t # s, WalletOf[t] = WalletOf[s]
               PROVE  place[s] < place[t] /\ ~Free(t)
    OBVIOUS
  <2>1. place[s] <= place[t] /\ place[s] # place[t]
    BY <1>1 DEF HeadFirst
  <2>2. Free(t) => place[t] <= place[s]
    BY <1>1 DEF HeadFirst
  <2> QED BY <2>1, <2>2 DEF QueueTypeOK
<1>6. TailLast'
  <2>1. \A w \in Wallet : tail'[w] # None =>
           tail'[w] = tail[w] /\ tail[w] # s /\ tail[w] \in Send
    BY DEF QueueTypeOK, TailLast
  <2>2. ASSUME NEW t \in Send, Active(t), t # s
        PROVE  tail'[WalletOf[t]] # None
    <3>1. tail[WalletOf[t]] # s
      <4> SUFFICES ASSUME tail[WalletOf[t]] = s PROVE FALSE
        OBVIOUS
      <4>1. WalletOf[t] \in Wallet /\ WalletOf[s] = WalletOf[t] /\ s # None
        BY DEF TailLast
      <4>2. place[s] + 1 = arrived[WalletOf[t]] /\ place[t] < arrived[WalletOf[t]]
        BY <2>2, <4>1 DEF TailLast
      <4>3. place[s] < place[t]
        BY <2>2, <4>1, <1>5
      <4> QED BY <4>1, <4>2, <4>3 DEF QueueTypeOK
    <3> QED BY <2>2, <3>1 DEF TailLast, QueueTypeOK
  <2> QED BY <2>1, <2>2, <1>3 DEF TailLast
<1>7. LinksBack'
  <2> SUFFICES ASSUME NEW t \in Send, Active(t)', ~Free(t)'
               PROVE  /\ Active(previous[t])' /\ WalletOf[previous'[t]] = WalletOf[t]
                      /\ place'[previous'[t]] + 1 = place'[t]
    BY DEF LinksBack
  <2>1. Active(t) /\ t # s /\ ~Free(t) /\ previous[t] # s
    BY <1>3, <1>4
  <2>2. previous[t] \in Send
    BY <2>1 DEF Free, QueueTypeOK
  <2> QED BY <2>1, <2>2, <1>3 DEF LinksBack
<1>8. HeadFirst'
  <2> SUFFICES ASSUME NEW t \in Send, NEW u \in Send, Active(t)', Active(u)',
                      WalletOf[t] = WalletOf[u]
               PROVE  /\ Free(t)' => place[t] <= place[u]
                      /\ place[t] = place[u] => t = u
    BY DEF HeadFirst
  <2>1. Active(t) /\ Active(u) /\ t # s /\ u # s
    BY <1>3
  <2>2. place[t] = place[u] => t = u
    BY <2>1 DEF HeadFirst
  <2>3. ASSUME Free(t)' PROVE place[t] <= place[u]
    <3>1. CASE Free(t)
      BY <2>1, <3>1 DEF HeadFirst
    <3>2. CASE ~Free(t)
      <4>1. previous[t] = s
        BY <2>1, <2>3, <3>2, <1>4
      <4>2. WalletOf[s] = WalletOf[t] /\ place[s] + 1 = place[t]
        BY <2>1, <3>2, <4>1 DEF LinksBack
      <4>3. place[s] < place[u]
        BY <2>1, <4>2, <1>5
      <4> QED BY <4>2, <4>3 DEF QueueTypeOK
    <3> QED BY <3>1, <3>2
  <2> QED BY <2>2, <2>3
<1>9. TurnTaken'
  <2> SUFFICES ASSUME NEW t \in Send, Critical(t)' PROVE Free(t)'
    BY DEF TurnTaken
  <2>1. t # s /\ Critical(t) /\ Active(t)
    BY DEF Critical, Active, Busy, QueueTypeOK
  <2> QED BY <2>1, <1>4 DEF TurnTaken
<1>10. TakenHeld' /\ NonceNotShared'
  BY NodeAsItWas
<1> QED BY <1>2, <1>6, <1>7, <1>8, <1>9, <1>10

\* Every other step is one of the head of a queue.
LEMMA ProceedKeeps ==
  ASSUME QueueInv, NEW s \in Send, Proceed(s)
  PROVE  QueueInv'
<1> USE SendAssumption DEF QueueInv
<1>1. CASE TakeTurn(s)
  <2>1. Active(s) /\ Free(s) /\ "nonce" \in Busy
    BY <1>1 DEF TakeTurn, Active, Busy
  <2>2. TailLast' /\ LinksBack' /\ HeadFirst' /\ TurnTaken'
    BY <1>1, <2>1, MovesOnKeeps DEF TakeTurn
  <2>3. QueueTypeOK'
    BY <1>1 DEF TakeTurn, QueueTypeOK, Busy, places, held
  <2>4. TakenHeld' /\ NonceNotShared'
    BY <1>1, <2>1, NodeAsItWas DEF TakeTurn
  <2> QED BY <2>2, <2>3, <2>4
<1>2. CASE ReadNonce(s)
  <2>1. Active(s) /\ Free(s) /\ "gas" \in Busy
    BY <1>2 DEF ReadNonce, Active, Critical, TurnTaken, Busy
  <2>2. TailLast' /\ LinksBack' /\ HeadFirst' /\ TurnTaken'
    BY <1>2, <2>1, MovesOnKeeps DEF ReadNonce
  <2>3. PICK n \in 0..MaxNonce :
           Following(WalletOf[s], n) /\ nonce' = [nonce EXCEPT ![s] = n]
    BY <1>2 DEF ReadNonce
  <2>4. QueueTypeOK'
    BY <1>2, <2>3 DEF ReadNonce, QueueTypeOK, Busy, places, held
  <2>5. \A t \in Send : t # s => nonce'[t] = nonce[t] /\ pc'[t] = pc[t]
    BY <1>2, <2>3 DEF ReadNonce, QueueTypeOK
  <2>6. ~taken[s] /\ nonce'[s] = n /\ n \notin node[WalletOf[s]] /\ Critical(s)
    BY <1>2, <2>3 DEF ReadNonce, TakenHeld, Following, QueueTypeOK, Critical, Busy
  <2>7. taken' = taken /\ node' = node
    BY <1>2 DEF ReadNonce, held
  <2>8. TakenHeld'
    BY <2>5, <2>6, <2>7 DEF TakenHeld
  <2>9. \A t \in Send : t # s => (Claims(t)' <=> Claims(t))
    BY <2>5, <2>7 DEF Claims
  <2>10. ASSUME NEW t \in Send, t # s, Claims(t), WalletOf[t] = WalletOf[s]
         PROVE  nonce[t] # n
    <3>1. ~Critical(t)
      BY <2>6, <2>10, InvExcludes DEF OneSenderPerWallet
    <3>2. taken[t]
      BY <3>1, <2>10 DEF Claims, Critical, Busy
    <3> QED BY <3>2, <2>6, <2>10 DEF TakenHeld
  <2>11. NonceNotShared'
    <3> SUFFICES ASSUME NEW t \in Send, NEW u \in Send, Claims(t)', Claims(u)',
                        WalletOf[t] = WalletOf[u], nonce'[t] = nonce'[u]
                 PROVE  t = u
      BY DEF NonceNotShared
    <3>1. CASE t # s /\ u # s
      BY <3>1, <2>5, <2>9 DEF NonceNotShared
    <3>2. CASE t = s /\ u # s
      BY <3>2, <2>5, <2>6, <2>9, <2>10
    <3>3. CASE t # s /\ u = s
      BY <3>3, <2>5, <2>6, <2>9, <2>10
    <3> QED BY <3>1, <3>2, <3>3
  <2> QED BY <2>2, <2>4, <2>8, <2>11
<1>3. CASE EstimateGas(s)
  <2>1. Active(s) /\ Free(s) /\ "send" \in Busy
    BY <1>3 DEF EstimateGas, Active, Critical, TurnTaken, Busy
  <2>2. TailLast' /\ LinksBack' /\ HeadFirst' /\ TurnTaken'
    BY <1>3, <2>1, MovesOnKeeps DEF EstimateGas
  <2>3. QueueTypeOK'
    BY <1>3 DEF EstimateGas, QueueTypeOK, Busy, places, held
  <2>4. TakenHeld' /\ NonceNotShared'
    BY <1>3, <2>1, NodeAsItWas DEF EstimateGas
  <2> QED BY <2>2, <2>3, <2>4
<1>4. CASE Broadcast(s)
  <2>1. Active(s) /\ Free(s) /\ Critical(s) /\ "reply" \in Busy
    BY <1>4 DEF Broadcast, Active, Critical, TurnTaken, Busy
  <2>2. TailLast' /\ LinksBack' /\ HeadFirst' /\ TurnTaken'
    BY <1>4, <2>1, MovesOnKeeps DEF Broadcast
  <2>3. WalletOf[s] \in Wallet /\ nonce[s] \in 0..MaxNonce
    BY DEF QueueTypeOK
  <2>4. taken' \in [Send -> BOOLEAN]
    BY <1>4 DEF Broadcast, QueueTypeOK
  <2>5. QueueTypeOK'
    BY <1>4, <2>3, <2>4 DEF Broadcast, QueueTypeOK, Busy, places
  <2>6. /\ \A t \in Send : t # s => taken'[t] = taken[t] /\ pc'[t] = pc[t]
        /\ pc[s] = "send" /\ pc'[s] = "reply" /\ nonce' = nonce
        /\ \A w \in Wallet : node[w] \subseteq node'[w]
        /\ nonce[s] \in node'[WalletOf[s]]
    BY <1>4, <2>3 DEF Broadcast, QueueTypeOK
  <2>7. TakenHeld'
    BY <2>6, <2>3 DEF TakenHeld
  <2>8. \A t \in Send : Claims(t)' => Claims(t)
    BY <2>6 DEF Claims
  <2>9. NonceNotShared'
    BY <2>6, <2>8, NoNewClaim
  <2> QED BY <2>2, <2>5, <2>7, <2>9
<1>5. CASE Return(s)
  BY <1>5, ReturnKeeps
<1> QED BY <1>1, <1>2, <1>3, <1>4, <1>5 DEF Proceed

\* Nothing that happens at the node moves a queue.
LEMMA QueueAsItWas ==
  ASSUME QueueInv, UNCHANGED <<pc, previous, tail, places>>
  PROVE  TailLast' /\ LinksBack' /\ HeadFirst' /\ TurnTaken'
BY DEF QueueInv, TailLast, LinksBack, HeadFirst, TurnTaken, Active, Critical, Free, places

\* A transaction that was signed by a device reaches the node.
LEMMA RelayRawKeeps ==
  ASSUME QueueInv, NEW w \in Wallet, NEW n \in 0..MaxNonce, RelayRaw(w, n)
  PROVE  QueueInv'
<1> USE SendAssumption DEF QueueInv
<1>1. TailLast' /\ LinksBack' /\ HeadFirst' /\ TurnTaken'
  BY QueueAsItWas DEF RelayRaw
<1>2. QueueTypeOK'
  BY DEF RelayRaw, QueueTypeOK, places
<1>3. TakenHeld'
  BY DEF RelayRaw, TakenHeld, QueueTypeOK
<1>4. \A t \in Send : Claims(t)' => Claims(t)
  BY DEF RelayRaw, Claims
<1>5. NonceNotShared'
  BY <1>4, NoNewClaim DEF RelayRaw
<1> QED BY <1>1, <1>2, <1>3, <1>5

\* The node forgets a transaction, and whose it was claims its nonce no more.
LEMMA ForgetKeeps ==
  ASSUME QueueInv, NEW w \in Wallet, NEW n \in 0..MaxNonce, Forget(w, n)
  PROVE  QueueInv'
<1> USE SendAssumption DEF QueueInv
<1>1. TailLast' /\ LinksBack' /\ HeadFirst' /\ TurnTaken'
  BY QueueAsItWas DEF Forget
<1>2. taken' \in [Send -> BOOLEAN]
  BY DEF Forget
<1>3. QueueTypeOK'
  BY <1>2 DEF Forget, QueueTypeOK, places
<1>4. \A t \in Send : taken'[t] => taken[t] /\ ~(WalletOf[t] = w /\ nonce[t] = n)
  BY DEF Forget
<1>5. TakenHeld'
  BY <1>4 DEF Forget, TakenHeld, QueueTypeOK
<1>6. \A t \in Send : Claims(t)' => Claims(t)
  BY <1>4 DEF Forget, Claims
<1>7. NonceNotShared'
  BY <1>6, NoNewClaim DEF Forget
<1> QED BY <1>1, <1>3, <1>5, <1>7

\* The invariant holds of the queues in every reachable state.
THEOREM QueueInvariant == QueueSpec => []QueueInv
<1>1. QueueInit => QueueInv
  BY InitInv
<1>2. QueueInv /\ [QueueNext]_queueVars => QueueInv'
  <2> SUFFICES ASSUME QueueInv, [QueueNext]_queueVars PROVE QueueInv'
    OBVIOUS
  <2>1. CASE UNCHANGED queueVars
    BY <2>1 DEF queueVars, QueueInv, QueueTypeOK, TailLast, LinksBack, HeadFirst, TurnTaken,
       TakenHeld, NonceNotShared, Claims, Active, Critical, Free
  <2>2. CASE QueueNext
    BY <2>2, SendAsKeeps, ProceedKeeps, RelayRawKeeps, ForgetKeeps DEF QueueNext
  <2> QED BY <2>1, <2>2
<1> QED BY <1>1, <1>2, PTL DEF QueueSpec

\* The variables of sendAs have their types: a queue never refers to anything
\* but a send.
THEOREM QueueTypes == QueueSpec => []QueueTypeOK
<1>1. QueueInv => QueueTypeOK
  BY DEF QueueInv
<1> QED BY <1>1, QueueInvariant, PTL

\* "nonce lookup + broadcast never interleave for one wallet", for any number
\* of concurrent requests.
THEOREM SendsExclude == QueueSpec => []OneSenderPerWallet
BY InvExcludes, QueueInvariant, PTL

\* The sends of a wallet are made in the order of the calls of sendAs.
THEOREM SendsInOrder == QueueSpec => []FirstComeFirstServed
BY InvExcludes, QueueInvariant, PTL

\* "two concurrent requests can never claim the same nonce": no two that pass
\* through the queue do, although transactions signed by devices of the same
\* wallet reach the node at any moment and the node forgets.
THEOREM NoncesNotShared == QueueSpec => []NonceNotShared
<1>1. QueueInv => NonceNotShared
  BY DEF QueueInv
<1> QED BY <1>1, QueueInvariant, PTL

\* sendQueues does not grow: a wallet with no send under way is not in it.
THEOREM QueuesForgotten == QueueSpec => []QueueForgotten
BY InvExcludes, QueueInvariant, PTL

-----------------------------------------------------------------------------
(* Device-signed transactions.                                             *)

Ongoing == [at : Step \cup {"answered"}, intent : Intent, raw : Call \cup {NoCall}, i : Nat,
            to : PartyWallet \cup {Nil}, answer : Codes \cup {Nil}, hole : BOOLEAN]

\* The wallet a call names is one of the party's, if the call has a party.
Named(intent, to) ==
    CallPlan[intent.type].party # "none" =>
        \E i \in 1..Len(WalletsOf[intent.party]) : WalletsOf[intent.party][i] = to

\* What a request holds at each step: the signed transaction once it compares,
\* a wallet of the party once there is a plan, a nonce that a device can sign,
\* and after the comparison a transaction that is the plan's.
Asked(r) ==
    /\ r.raw \in signed \cup {NoCall}
    /\ r.at = "walk" => r.i \in 0..Len(WalletsOf[r.intent.party])
    /\ r.at \in {"nonce", "gas"} => r.raw = NoCall
    /\ r.at = "gas" => r.i \in 0..MaxSigned
    /\ r.at \in {"verify", "simulate", "send", "wait", "known", "count", "answered"} => r.raw # NoCall
    /\ r.at \notin {"asset", "walk"} => Named(r.intent, r.to)
    /\ r.at \in {"simulate", "send", "wait", "known", "count", "answered"} =>
          r.raw.from = r.intent.actor /\ r.raw.type = r.intent.type /\ r.raw.to = r.to

\* What devices signed stays within the bound, also when all that is being
\* prepared is signed; what is mined or pending was signed.
SignedBounded ==
    /\ signed \subseteq Call /\ IsFiniteSet(signed)
    /\ Cardinality(signed) + Cardinality(Preparing) <= MaxSigned
    /\ pool \subseteq signed /\ mined \subseteq signed \X BOOLEAN

\* Every nonce below the count of a wallet is that of a transaction it signed.
NoncesSigned ==
    /\ next \in [Actor -> Nat]
    /\ \A a \in Actor : \A i \in 0..next[a] - 1 : \E c \in signed : c.from = a /\ c.nonce = i

SignInv ==
    /\ status \in [PartyWallet -> {"PENDING", "ACTIVE", "REVOKED"}] /\ owner \in PartyWallet \cup {Nil}
    /\ SignedBounded /\ NoncesSigned
    /\ req \in [Slot -> Ongoing \cup {Idle}]
    /\ \A s \in Slot, r \in Ongoing : req[s] = r => Asked(r)

\* A set of numbers that is not empty has a least one.
LEMMA Least ==
    ASSUME NEW T \in SUBSET Nat, T # {}
    PROVE  \E n \in T : \A m \in T : n <= m
<1>1. IsWellFoundedOn(OpToRel(<, Nat), Nat)
  BY NatLessThanWellFounded
<1>2. PICK n \in T : \A m \in T : ~(<<m, n>> \in OpToRel(<, Nat))
  BY <1>1, WFMin
<1>3. \A a, b \in Nat : a < b => <<a, b>> \in OpToRel(<, Nat)
  BY Zenon DEF OpToRel
<1>4. \A m \in T : m \in Nat /\ n \in Nat /\ ~(m < n)
  BY <1>2, <1>3, Zenon
<1> QED BY <1>4

\* A wallet whose transactions have all the nonces below n has signed n.
LEMMA NoncesCount ==
    ASSUME SignInv, NEW a \in Actor, NEW n \in Nat,
           \A i \in 0..n - 1 : \E c \in signed : c.from = a /\ c.nonce = i
    PROVE  n <= Cardinality(signed)
<1>0. signed \subseteq Call /\ IsFiniteSet(signed)
  BY DEF SignInv, SignedBounded
<1> DEFINE T == {c \in signed : c.from = a /\ c.nonce \in 0..n - 1}
           f == [c \in T |-> c.nonce]
<1>1. f \in Surjection(T, 0..n - 1)
  <2>1. f \in [T -> 0..n - 1]
    OBVIOUS
  <2>2. \A i \in 0..n - 1 : \E c \in T : f[c] = i
    OBVIOUS
  <2> QED BY <2>1, <2>2 DEF Surjection
<1>2. IsFiniteSet(T) /\ Cardinality(T) <= Cardinality(signed)
  <2>1. T \in SUBSET signed
    OBVIOUS
  <2> HIDE DEF T
  <2> QED BY <1>0, <2>1, FS_Subset
<1>3. Cardinality(0..n - 1) <= Cardinality(T)
  <2> HIDE DEF T, f
  <2> QED BY <1>1, <1>2, FS_Surjection
<1>4. Cardinality(0..n - 1) = n
  <2>1. 0 \in Int /\ n - 1 \in Int
    OBVIOUS
  <2>2. Cardinality(0..n - 1) = IF 0 > n - 1 THEN 0 ELSE n - 1 - 0 + 1
    BY <2>1, FS_Interval
  <2> QED BY <2>2
<1>5. Cardinality(T) \in Nat /\ Cardinality(signed) \in Nat
  <2> HIDE DEF T
  <2> QED BY <1>0, <1>2, FS_CardinalityType
<1> HIDE DEF T
<1> QED BY <1>2, <1>3, <1>4, <1>5

LEMMA Counted ==
    ASSUME SignInv
    PROVE  /\ Cardinality(signed) \in Nat /\ Cardinality(Preparing) \in Nat /\ IsFiniteSet(Preparing)
           /\ Cardinality(signed) <= MaxSigned
           /\ \A a \in Actor : next[a] \in 0..MaxSigned
<1>1. IsFiniteSet(signed) /\ Cardinality(signed) \in Nat
  BY FS_CardinalityType DEF SignInv, SignedBounded
<1>2. IsFiniteSet(Preparing) /\ Cardinality(Preparing) \in Nat
  <2>1. Preparing \in SUBSET Slot
    BY DEF Preparing
  <2>2. IsFiniteSet(Preparing)
    BY <2>1, FS_Subset, SigningAssumption
  <2> QED BY <2>2, FS_CardinalityType
<1>3. Cardinality(signed) <= MaxSigned
  BY <1>1, <1>2, SigningAssumption DEF SignInv, SignedBounded
<1>4. ASSUME NEW a \in Actor PROVE next[a] \in 0..MaxSigned
  <2>1. next[a] \in Nat /\ \A i \in 0..next[a] - 1 : \E c \in signed : c.from = a /\ c.nonce = i
    BY DEF SignInv, NoncesSigned
  <2>2. next[a] <= Cardinality(signed)
    BY <2>1, NoncesCount
  <2> QED BY <1>1, <1>3, <2>1, <2>2, SigningAssumption
<1> QED BY <1>1, <1>2, <1>3, <1>4

\* getTransactionCount(from, "pending") is a number, and a transaction with it
\* is one more than the wallet has signed at most.
LEMMA PendingFree ==
    ASSUME SignInv, NEW a \in Actor
    PROVE  Pending(a) \in 0..MaxSigned
<1>0. /\ next[a] \in 0..MaxSigned /\ MaxSigned \in Nat /\ pool \subseteq Call
      /\ Cardinality(signed) \in Nat /\ Cardinality(signed) <= MaxSigned /\ pool \subseteq signed
      /\ \A i \in 0..next[a] - 1 : \E c \in signed : c.from = a /\ c.nonce = i
  BY Counted, SigningAssumption DEF SignInv, SignedBounded, NoncesSigned
<1> DEFINE P(n) == /\ \A i \in next[a]..n - 1 : \E c \in pool : c.from = a /\ c.nonce = i
                   /\ ~ \E c \in pool : c.from = a /\ c.nonce = n
<1>1. \E n \in next[a]..MaxSigned + 1 : P(n)
  <2> DEFINE U == {n \in Nat : n >= next[a] /\ ~ \E c \in pool : c.from = a /\ c.nonce = n}
  <2>1. MaxSigned + 1 \in U
    BY <1>0 DEF Call
  <2>2. PICK n \in U : \A m \in U : n <= m
    <3>1. U \in SUBSET Nat /\ U # {}
      BY <2>1
    <3> HIDE DEF U
    <3> QED BY <3>1, Least
  <2>3. n \in next[a]..MaxSigned + 1
    BY <1>0, <2>1, <2>2
  <2>4. \A i \in next[a]..n - 1 : \E c \in pool : c.from = a /\ c.nonce = i
    BY <1>0, <2>2
  <2> QED BY <2>2, <2>3, <2>4
<1>2. Pending(a) = CHOOSE n \in next[a]..MaxSigned + 1 : P(n)
  BY DEF Pending
<1>3. PICK n : n = Pending(a)
  OBVIOUS
<1>4. n \in next[a]..MaxSigned + 1 /\ P(n)
  <2> HIDE DEF P
  <2> QED BY <1>1, <1>2, <1>3
<1>5. n \in Nat /\ \A i \in 0..n - 1 : \E c \in signed : c.from = a /\ c.nonce = i
  BY <1>0, <1>4
<1>6. n <= Cardinality(signed)
  BY <1>5, NoncesCount
<1> QED BY <1>0, <1>3, <1>5, <1>6

\* A step of one request, which may hand its transaction to the node.
LEMMA RequestMoves ==
    ASSUME SignInv, NEW s \in Slot, NEW d, d = Idle \/ (d \in Ongoing /\ Asked(d)),
           req' = [req EXCEPT ![s] = d], signed' = signed, status' = status, owner' = owner,
           mined' = mined, next' = next, pool' \subseteq signed,
           d.at \in Step /\ d.raw = NoCall => s \in Preparing
    PROVE  SignInv'
<1>0. req \in [Slot -> Ongoing \cup {Idle}]
  BY DEF SignInv
<1>1. req' \in [Slot -> Ongoing \cup {Idle}]
  BY <1>0
<1>2. Preparing' \subseteq Preparing
  <2> SUFFICES ASSUME NEW t \in Slot, req'[t].at \in Step, req'[t].raw = NoCall
               PROVE  t \in Preparing
    BY DEF Preparing, InFlight
  <2>1. CASE t = s
    BY <1>0, <2>1
  <2>2. CASE t # s
    BY <1>0, <2>2 DEF Preparing, InFlight
  <2> QED BY <2>1, <2>2
<1>3. Cardinality(Preparing') <= Cardinality(Preparing) /\ Cardinality(Preparing') \in Nat
  <2>1. IsFiniteSet(Preparing)
    BY Counted
  <2>2. IsFiniteSet(Preparing') /\ Cardinality(Preparing') <= Cardinality(Preparing)
    BY <1>2, <2>1, FS_Subset
  <2> QED BY <2>2, FS_CardinalityType
<1>4. SignedBounded'
  <2>1. /\ signed \subseteq Call /\ IsFiniteSet(signed) /\ mined \subseteq signed \X BOOLEAN
        /\ Cardinality(signed) + Cardinality(Preparing) <= MaxSigned
    BY DEF SignInv, SignedBounded
  <2>2. Cardinality(signed) + Cardinality(Preparing') <= MaxSigned
    BY <1>3, <2>1, Counted, SigningAssumption
  <2> QED BY <2>1, <2>2 DEF SignedBounded
<1>5. NoncesSigned'
  BY DEF SignInv, NoncesSigned
<1>6. ASSUME NEW t \in Slot, NEW r \in Ongoing, req'[t] = r PROVE Asked(r)'
  <2>1. Asked(r)
    <3>1. CASE t = s
      <4>1. r = d
        BY <1>0, <1>6, <3>1
      <4>2. d # Idle
        BY <4>1 DEF Ongoing, Idle, Step
      <4> QED BY <4>1, <4>2
    <3>2. CASE t # s
      BY <1>0, <1>6, <3>2 DEF SignInv
    <3> QED BY <3>1, <3>2
  <2> QED BY <2>1 DEF Asked, Named
<1> QED BY <1>1, <1>4, <1>5, <1>6 DEF SignInv

\* A request that is in flight holds what its step needs.
LEMMA InFlightAsked ==
    ASSUME SignInv, NEW s \in Slot, req[s].at \in Step
    PROVE  req[s] \in Ongoing /\ Asked(req[s])
<1>1. req[s] # Idle
  BY DEF Idle, Step
<1>2. req[s] \in Ongoing
  BY <1>1 DEF SignInv
<1> QED BY <1>2 DEF SignInv

\* A request that ends before anything was sent.
LEMMA RefusedKeeps ==
    ASSUME SignInv, NEW s \in Slot, req' = [req EXCEPT ![s] = Idle], UNCHANGED <<chain, signed>>
    PROVE  SignInv'
<1>1. pool' \subseteq signed /\ Idle.at \notin Step
  BY DEF chain, SignInv, SignedBounded, Idle, Step
<1> QED BY <1>1, RequestMoves DEF chain

\* A step of a request in flight that leaves the transaction it holds alone.
LEMMA OnwardKeeps ==
    ASSUME SignInv, NEW s \in Slot, NEW d \in Ongoing, Asked(d), req' = [req EXCEPT ![s] = d],
           req[s].at \in Step, d.raw = req[s].raw, UNCHANGED <<chain, signed>>
    PROVE  SignInv'
<1>1. pool' \subseteq signed
  BY DEF chain, SignInv, SignedBounded
<1>2. d.at \in Step /\ d.raw = NoCall => s \in Preparing
  BY DEF Preparing, InFlight
<1> QED BY <1>1, <1>2, RequestMoves DEF chain

\* The answer to a request that has compared its transaction.
LEMMA AnsweredKeeps ==
    ASSUME SignInv, NEW s \in Slot, NEW code \in Codes, NEW hole \in BOOLEAN,
           req[s].at \in {"simulate", "send", "wait", "known", "count"},
           req' = [req EXCEPT ![s] = [req[s] EXCEPT !.at = "answered", !.answer = code, !.hole = hole]],
           UNCHANGED <<status, owner, mined, next, signed>>, pool' \subseteq signed
    PROVE  SignInv'
<1>0. PICK r : r = req[s]
  OBVIOUS
<1>1. req[s].at \in Step
  BY DEF Step
<1>2. r \in Ongoing /\ Asked(r)
  BY <1>0, <1>1, InFlightAsked
<1>3. PICK d : d = [r EXCEPT !.at = "answered", !.answer = code, !.hole = hole]
  OBVIOUS
<1>4. d \in Ongoing
  BY <1>2, <1>3 DEF Ongoing
<1>5. /\ d.at = "answered" /\ d.raw = r.raw /\ d.to = r.to /\ d.intent = r.intent
      /\ r.at \in {"simulate", "send", "wait", "known", "count"}
  BY <1>0, <1>2, <1>3 DEF Ongoing
<1>6. Asked(d)
  BY <1>2, <1>5 DEF Asked
<1>7. d.at \notin Step
  BY <1>5 DEF Step
<1> QED BY <1>0, <1>3, <1>4, <1>6, <1>7, RequestMoves

LEMMA PlanKeeps ==
    ASSUME SignInv, NEW s \in Slot, NftRef(s) \/ WalletOfIdentity(s)
    PROVE  SignInv'
<1>0. PICK r : r = req[s]
  OBVIOUS
<1>1. r.at \in {"asset", "walk"} /\ req[s].at \in Step /\ UNCHANGED <<chain, signed>>
  BY <1>0 DEF NftRef, WalletOfIdentity, Step
<1>2. r \in Ongoing /\ Asked(r) /\ req \in [Slot -> Ongoing \cup {Idle}]
  BY <1>0, <1>1, InFlightAsked DEF SignInv
<1>3. PICK list : list = WalletsOf[r.intent.party]
  OBVIOUS
<1>4. list \in Seq(PartyWallet) /\ Len(list) \in Nat
  BY <1>2, <1>3, SigningAssumption DEF Ongoing, Intent
<1>5. Planned(s) \in {"nonce", "verify"} /\ (Planned(s) = "nonce" <=> r.raw = NoCall)
  BY <1>0 DEF Planned
<1>6. CASE NftRef(s)
  <2>1. CASE req' = [req EXCEPT ![s] = Idle]
    BY <1>1, <2>1, RefusedKeeps
  <2>2. CASE CallPlan[r.intent.type].party = "none" /\ Goto(s, Planned(s))
    <3>1. PICK d : d = [r EXCEPT !.at = Planned(s)]
      OBVIOUS
    <3>2. d.at = Planned(s) /\ d.raw = r.raw /\ d.intent = r.intent /\ d.to = r.to
      BY <1>2, <3>1 DEF Ongoing
    <3>3. d \in Ongoing
      BY <1>2, <1>5, <3>1 DEF Ongoing, Step
    <3>4. Asked(d)
      BY <1>2, <1>5, <2>2, <3>2 DEF Asked, Named
    <3>5. req' = [req EXCEPT ![s] = d]
      BY <1>0, <1>2, <2>2, <3>1 DEF Goto
    <3> QED BY <1>0, <1>1, <3>2, <3>3, <3>4, <3>5, OnwardKeeps
  <2>3. CASE req' = [req EXCEPT ![s].at = "walk", ![s].i = Len(list)]
    <3>1. PICK d : d = [r EXCEPT !.at = "walk", !.i = Len(list)]
      OBVIOUS
    <3>2. d.at = "walk" /\ d.raw = r.raw /\ d.intent = r.intent /\ d.i = Len(list)
      BY <1>2, <3>1 DEF Ongoing
    <3>3. d \in Ongoing
      BY <1>2, <1>4, <3>1 DEF Ongoing, Step
    <3>4. Asked(d)
      BY <1>2, <1>3, <1>4, <3>2 DEF Asked
    <3>5. req' = [req EXCEPT ![s] = d]
      BY <1>0, <1>2, <2>3, <3>1
    <3> QED BY <1>0, <1>1, <3>2, <3>3, <3>4, <3>5, OnwardKeeps
  <2> QED BY <1>0, <1>3, <1>6, <2>1, <2>2, <2>3 DEF NftRef, Refuse
<1>7. CASE WalletOfIdentity(s)
  <2>0. r.at = "walk" /\ r.i \in 0..Len(list) /\ r.i \in Nat
    BY <1>0, <1>2, <1>3, <1>4, <1>7 DEF WalletOfIdentity, Asked
  <2>1. CASE req' = [req EXCEPT ![s] = Idle]
    BY <1>1, <2>1, RefusedKeeps
  <2>2. CASE r.i > 0 /\ req' = [req EXCEPT ![s].at = Planned(s), ![s].to = list[r.i], ![s].i = 0]
    <3>1. PICK d : d = [r EXCEPT !.at = Planned(s), !.to = list[r.i], !.i = 0]
      OBVIOUS
    <3>2. d.at = Planned(s) /\ d.raw = r.raw /\ d.intent = r.intent /\ d.to = list[r.i]
      BY <1>2, <3>1 DEF Ongoing
    <3>3. r.i \in 1..Len(list) /\ list[r.i] \in PartyWallet
      BY <1>4, <2>0, <2>2
    <3>4. d \in Ongoing
      BY <1>2, <1>5, <3>1, <3>3 DEF Ongoing, Step
    <3>5. Named(d.intent, d.to)
      BY <1>3, <3>2, <3>3 DEF Named
    <3>6. Asked(d)
      BY <1>2, <1>5, <3>2, <3>5 DEF Asked
    <3>7. req' = [req EXCEPT ![s] = d]
      BY <1>0, <1>2, <2>2, <3>1
    <3> QED BY <1>0, <1>1, <3>2, <3>4, <3>6, <3>7, OnwardKeeps
  <2>3. CASE r.i > 0 /\ req' = [req EXCEPT ![s].i = @ - 1]
    <3>1. PICK d : d = [r EXCEPT !.i = r.i - 1]
      OBVIOUS
    <3>2. d.at = "walk" /\ d.raw = r.raw /\ d.intent = r.intent /\ d.i = r.i - 1
      BY <1>2, <2>0, <3>1 DEF Ongoing
    <3>3. r.i - 1 \in 0..Len(list) /\ r.i - 1 \in Nat
      BY <1>4, <2>0, <2>3
    <3>4. d \in Ongoing
      BY <1>2, <3>1, <3>3 DEF Ongoing
    <3>5. Asked(d)
      BY <1>2, <1>3, <3>2, <3>3 DEF Asked
    <3>6. req' = [req EXCEPT ![s] = d]
      BY <1>0, <1>2, <2>3, <3>1
    <3> QED BY <1>0, <1>1, <3>2, <3>4, <3>5, <3>6, OnwardKeeps
  <2> QED BY <1>0, <1>3, <1>7, <2>0, <2>1, <2>2, <2>3 DEF WalletOfIdentity, Refuse
<1> QED BY <1>6, <1>7

LEMMA NonceKeeps ==
    ASSUME SignInv, NEW s \in Slot, PrepareNonce(s)
    PROVE  SignInv'
<1>0. PICK r : r = req[s]
  OBVIOUS
<1>1. r.at = "nonce" /\ req[s].at \in Step /\ UNCHANGED <<chain, signed>>
  BY <1>0 DEF PrepareNonce, Step
<1>2. r \in Ongoing /\ Asked(r) /\ req \in [Slot -> Ongoing \cup {Idle}]
  BY <1>0, <1>1, InFlightAsked DEF SignInv
<1>3. PICK n : n = Pending(r.intent.actor)
  OBVIOUS
<1>4. n \in 0..MaxSigned /\ n \in Nat
  <2>1. r.intent.actor \in Actor
    BY <1>2 DEF Ongoing, Intent
  <2> QED BY <1>3, <2>1, PendingFree, SigningAssumption
<1>5. PICK d : d = [r EXCEPT !.at = "gas", !.i = n]
  OBVIOUS
<1>6. d.at = "gas" /\ d.i = n /\ d.raw = r.raw /\ d.intent = r.intent /\ d.to = r.to
  BY <1>2, <1>5 DEF Ongoing
<1>7. d \in Ongoing
  BY <1>2, <1>4, <1>5 DEF Ongoing, Step
<1>8. Asked(d)
  BY <1>1, <1>2, <1>4, <1>6 DEF Asked
<1>9. req' = [req EXCEPT ![s] = d]
  BY <1>0, <1>2, <1>3, <1>5 DEF PrepareNonce
<1> QED BY <1>0, <1>1, <1>6, <1>7, <1>8, <1>9, OnwardKeeps

\* The device signs: what was being prepared is signed now.
LEMMA GasKeeps ==
    ASSUME SignInv, NEW s \in Slot, PrepareGas(s)
    PROVE  SignInv'
<1>0. PICK r : r = req[s]
  OBVIOUS
<1>1. r.at = "gas" /\ req[s].at \in Step /\ UNCHANGED chain /\ req' = [req EXCEPT ![s] = Idle]
  BY <1>0 DEF PrepareGas, Refuse, Step
<1>2. r \in Ongoing /\ Asked(r) /\ req \in [Slot -> Ongoing \cup {Idle}]
  BY <1>0, <1>1, InFlightAsked DEF SignInv
<1>3. PICK c : c = [from |-> r.intent.actor, nonce |-> r.i, type |-> r.intent.type, to |-> r.to]
  OBVIOUS
<1>4. c \in Call
  <2>1. r.intent.actor \in Actor /\ r.intent.type \in Types /\ r.to \in PartyWallet \cup {Nil}
    BY <1>2 DEF Ongoing, Intent
  <2>2. r.i \in 0..MaxSigned
    BY <1>1, <1>2 DEF Asked
  <2> QED BY <1>3, <2>1, <2>2 DEF Call
<1>5. CASE signed' = signed
  BY <1>1, <1>5, RefusedKeeps
<1>6. CASE signed' = signed \cup {c}
  <2>1. s \in Preparing
    BY <1>0, <1>1, <1>2 DEF Preparing, InFlight, Asked
  <2>2. Preparing' = Preparing \ {s}
    BY <1>1, <1>2 DEF Preparing, InFlight, Idle, Step
  <2>3. /\ IsFiniteSet(Preparing) /\ Cardinality(Preparing) \in Nat
        /\ IsFiniteSet(signed) /\ Cardinality(signed) \in Nat
    BY Counted DEF SignInv, SignedBounded
  <2>4. Cardinality(Preparing') = Cardinality(Preparing) - 1
    BY <2>1, <2>2, <2>3, FS_RemoveElement
  <2>5. IsFiniteSet(signed') /\ Cardinality(signed') <= Cardinality(signed) + 1 /\ Cardinality(signed') \in Nat
    <3>1. /\ IsFiniteSet(signed \cup {c})
          /\ Cardinality(signed \cup {c}) = IF c \in signed THEN Cardinality(signed) ELSE Cardinality(signed) + 1
      BY <2>3, FS_AddElement
    <3> QED BY <1>6, <2>3, <3>1
  <2>6. SignedBounded'
    <3>1. Cardinality(signed') + Cardinality(Preparing') <= MaxSigned
      BY <2>3, <2>4, <2>5, SigningAssumption DEF SignInv, SignedBounded
    <3>2. signed' \subseteq Call /\ pool' \subseteq signed' /\ mined' \subseteq signed' \X BOOLEAN
      BY <1>1, <1>4, <1>6 DEF chain, SignInv, SignedBounded
    <3> QED BY <2>5, <3>1, <3>2 DEF SignedBounded
  <2>7. NoncesSigned'
    BY <1>1, <1>6 DEF chain, SignInv, NoncesSigned
  <2>8. req' \in [Slot -> Ongoing \cup {Idle}]
    BY <1>1, <1>2
  <2>9. ASSUME NEW t \in Slot, NEW q \in Ongoing, req'[t] = q PROVE Asked(q)'
    <3>1. t # s
      BY <1>1, <1>2, <2>9 DEF Ongoing, Idle, Step
    <3>2. Asked(q)
      BY <1>1, <1>2, <2>9, <3>1 DEF SignInv
    <3> QED BY <1>6, <3>2 DEF Asked, Named
  <2> QED BY <1>1, <2>6, <2>7, <2>8, <2>9 DEF chain, SignInv
<1> QED BY <1>0, <1>3, <1>5, <1>6 DEF PrepareGas

\* verifySignedTransaction is what makes the transaction the plan's.
LEMMA VerifyKeeps ==
    ASSUME SignInv, NEW s \in Slot, VerifySigned(s)
    PROVE  SignInv'
<1>0. PICK r : r = req[s]
  OBVIOUS
<1>1. r.at = "verify" /\ req[s].at \in Step /\ UNCHANGED <<chain, signed>>
  BY <1>0 DEF VerifySigned, Step
<1>2. r \in Ongoing /\ Asked(r) /\ req \in [Slot -> Ongoing \cup {Idle}]
  BY <1>0, <1>1, InFlightAsked DEF SignInv
<1>3. CASE req' = [req EXCEPT ![s] = Idle]
  BY <1>1, <1>3, RefusedKeeps
<1>4. CASE /\ [from |-> r.raw.from, type |-> r.raw.type, to |-> r.raw.to] = Prepared(s)
           /\ Goto(s, "simulate")
  <2>1. r.raw.from = r.intent.actor /\ r.raw.type = r.intent.type /\ r.raw.to = r.to
    BY <1>0, <1>4 DEF Prepared
  <2>2. PICK d : d = [r EXCEPT !.at = "simulate"]
    OBVIOUS
  <2>3. d.at = "simulate" /\ d.raw = r.raw /\ d.intent = r.intent /\ d.to = r.to
    BY <1>2, <2>2 DEF Ongoing
  <2>4. d \in Ongoing
    BY <1>2, <2>2 DEF Ongoing, Step
  <2>5. Asked(d)
    BY <1>1, <1>2, <2>1, <2>3 DEF Asked
  <2>6. req' = [req EXCEPT ![s] = d]
    BY <1>0, <1>2, <1>4, <2>2 DEF Goto
  <2> QED BY <1>0, <1>1, <2>3, <2>4, <2>5, <2>6, OnwardKeeps
<1> QED BY <1>0, <1>3, <1>4 DEF VerifySigned, Refuse

\* After the comparison a request goes from one step to another as it is.
LEMMA GotoKeeps ==
    ASSUME SignInv, NEW s \in Slot, NEW at \in {"send", "wait", "known", "count"},
           req[s].at \in {"simulate", "send", "wait", "known"}, Goto(s, at),
           UNCHANGED <<status, owner, mined, next, signed>>, pool' \subseteq signed
    PROVE  SignInv'
<1>0. PICK r : r = req[s]
  OBVIOUS
<1>1. req[s].at \in Step
  BY DEF Step
<1>2. r \in Ongoing /\ Asked(r) /\ req \in [Slot -> Ongoing \cup {Idle}]
  BY <1>0, <1>1, InFlightAsked DEF SignInv
<1>3. PICK d : d = [r EXCEPT !.at = at]
  OBVIOUS
<1>4. d.at = at /\ d.raw = r.raw /\ d.intent = r.intent /\ d.to = r.to
  BY <1>2, <1>3 DEF Ongoing
<1>5. d \in Ongoing
  BY <1>2, <1>3 DEF Ongoing, Step
<1>6. r.at \in {"simulate", "send", "wait", "known"}
  BY <1>0
<1>7. Asked(d)
  BY <1>2, <1>4, <1>6 DEF Asked
<1>8. req' = [req EXCEPT ![s] = d]
  BY <1>0, <1>2, <1>3 DEF Goto
<1>9. d.at \in Step /\ d.raw = NoCall => s \in Preparing
  BY <1>0, <1>1, <1>4 DEF Preparing, InFlight
<1> QED BY <1>5, <1>7, <1>8, <1>9, RequestMoves

LEMMA AnswerKeeps ==
    ASSUME SignInv, NEW s \in Slot, NEW code \in Codes, Answer(s, code),
           req[s].at \in {"send", "wait", "known", "count"},
           UNCHANGED <<status, owner, mined, next, signed>>, pool' \subseteq signed
    PROVE  SignInv'
<1>1. req[s].at \in Step
  BY DEF Step
<1>2. req[s] \in Ongoing /\ req \in [Slot -> Ongoing \cup {Idle}]
  BY <1>1, InFlightAsked DEF SignInv
<1>3. PICK hole \in BOOLEAN : hole = req[s].hole
  BY <1>2 DEF Ongoing
<1>4. [req[s] EXCEPT !.at = "answered", !.answer = code]
        = [req[s] EXCEPT !.at = "answered", !.answer = code, !.hole = hole]
  BY <1>2, <1>3 DEF Ongoing
<1>5. req' = [req EXCEPT ![s] = [req[s] EXCEPT !.at = "answered", !.answer = code, !.hole = hole]]
  BY <1>2, <1>4 DEF Answer
<1> QED BY <1>5, AnsweredKeeps

LEMMA RelayKeeps ==
    ASSUME SignInv, NEW s \in Slot,
           Simulate(s) \/ Relay(s) \/ Receipt(s) \/ Deadline(s) \/ Known(s) \/ Count(s) \/ Fail(s)
    PROVE  SignInv'
<1>0. pool \subseteq signed /\ req \in [Slot -> Ongoing \cup {Idle}]
  BY DEF SignInv, SignedBounded
<1>1. CASE Simulate(s)
  <2>1. CASE req' = [req EXCEPT ![s] = Idle]
    BY <1>1, <2>1, RefusedKeeps DEF Simulate
  <2>2. CASE Goto(s, "send")
    BY <1>0, <1>1, <2>2, GotoKeeps DEF Simulate, chain
  <2> QED BY <1>1, <2>1, <2>2 DEF Simulate, Refuse
<1>2. CASE Relay(s)
  <2>0. req[s].at = "send" /\ UNCHANGED <<status, owner, mined, next, signed>>
    BY <1>2 DEF Relay
  <2>1. req[s].raw \in signed
    <3>1. req[s].at \in Step
      BY <2>0 DEF Step
    <3>2. Asked(req[s])
      BY <3>1, InFlightAsked
    <3> QED BY <2>0, <3>2 DEF Asked
  <2>2. pool' \subseteq signed
    BY <1>0, <1>2, <2>1 DEF Relay
  <2>3. CASE Goto(s, "wait")
    BY <2>0, <2>2, <2>3, GotoKeeps
  <2>4. CASE Answer(s, "NETWORK")
    <3>1. "NETWORK" \in Codes
      BY DEF Codes
    <3> QED BY <2>0, <2>2, <2>4, <3>1, AnswerKeeps
  <2> QED BY <1>2, <2>3, <2>4 DEF Relay
<1>3. CASE Receipt(s)
  <2>1. PICK code \in Codes : Answer(s, code)
    BY <1>3 DEF Receipt, Codes
  <2> QED BY <1>0, <1>3, <2>1, AnswerKeeps DEF Receipt, chain
<1>4. CASE Deadline(s)
  BY <1>0, <1>4, GotoKeeps DEF Deadline, chain
<1>5. CASE Known(s)
  <2>1. CASE Goto(s, "count")
    BY <1>0, <1>5, <2>1, GotoKeeps DEF Known, chain
  <2>2. CASE \E code \in Codes : Answer(s, code)
    BY <1>0, <1>5, <2>2, AnswerKeeps DEF Known, chain
  <2> QED BY <1>5, <2>1, <2>2 DEF Known, Codes
<1>6. CASE Count(s)
  <2>0. req[s].at = "count" /\ UNCHANGED <<chain, signed>>
    BY <1>6 DEF Count
  <2>1. PICK p, n : p = Pending(req[s].raw.from) /\ n = req[s].raw.nonce
    OBVIOUS
  <2>2. PICK code \in Codes : code = IF req[s].raw.nonce > next[req[s].raw.from]
                                     THEN "TIMEOUT_GAP" ELSE "TIMEOUT_PENDING"
    BY DEF Codes
  <2>3. PICK hole \in BOOLEAN : hole = (p < n)
    <3>1. req[s].raw \in Call
      <4>1. req[s].at \in Step
        BY <2>0 DEF Step
      <4>2. Asked(req[s])
        BY <4>1, InFlightAsked
      <4> QED BY <2>0, <4>2 DEF Asked, SignInv, SignedBounded
    <3>2. n \in Nat /\ req[s].raw.from \in Actor
      BY <2>1, <3>1, SigningAssumption DEF Call
    <3>3. p \in Nat
      BY <2>1, <3>2, PendingFree
    <3>4. (p < n) \in BOOLEAN
      BY <3>2, <3>3
    <3> QED BY <3>4, Zenon
  <2>4. req' = [req EXCEPT ![s] = [req[s] EXCEPT !.at = "answered", !.answer = code, !.hole = hole]]
    BY <1>0, <1>6, <2>1, <2>2, <2>3 DEF Count
  <2> QED BY <1>0, <2>0, <2>4, AnsweredKeeps DEF chain
<1>7. CASE Fail(s)
  <2>1. CASE req' = [req EXCEPT ![s] = Idle]
    BY <1>7, <2>1, RefusedKeeps DEF Fail
  <2>2. CASE req[s].at = "wait" /\ Answer(s, "NETWORK")
    <3>1. "NETWORK" \in Codes
      BY DEF Codes
    <3> QED BY <1>0, <1>7, <2>2, <3>1, AnswerKeeps DEF Fail, chain
  <2>3. CASE req[s].at \in {"known", "count"} /\ Answer(s, "TIMEOUT")
    <3>1. "TIMEOUT" \in Codes
      BY DEF Codes
    <3> QED BY <1>0, <1>7, <2>3, <3>1, AnswerKeeps DEF Fail, chain
  <2> QED BY <1>7, <2>1, <2>2, <2>3 DEF Fail, Refuse
<1> QED BY <1>1, <1>2, <1>3, <1>4, <1>5, <1>6, <1>7

\* A request that begins with a transaction, or within the bound.
LEMMA SubmitKeeps ==
    ASSUME SignInv, NEW s \in Slot, NEW intent \in Intent, NEW raw \in signed, Submit(s, intent, raw)
    PROVE  SignInv'
<1>1. PICK d : d = [at |-> "asset", intent |-> intent, raw |-> raw, i |-> 0, to |-> Nil,
                    answer |-> Nil, hole |-> FALSE]
  OBVIOUS
<1>2. raw \in Call
  BY DEF SignInv, SignedBounded
<1>3. d \in Ongoing
  BY <1>1, <1>2 DEF Ongoing, Step
<1>4. Asked(d)
  BY <1>1 DEF Asked
<1>5. raw # NoCall
  BY <1>2, SigningAssumption DEF Call, NoCall
<1>6. req' = [req EXCEPT ![s] = d] /\ UNCHANGED <<chain, signed>>
  BY <1>1 DEF Submit, Begin
<1>7. pool' \subseteq signed /\ d.raw # NoCall
  BY <1>1, <1>5, <1>6 DEF chain, SignInv, SignedBounded
<1> QED BY <1>3, <1>4, <1>6, <1>7, RequestMoves DEF chain

LEMMA PrepareKeeps ==
    ASSUME SignInv, NEW s \in Slot, NEW intent \in Intent, Prepare(s, intent)
    PROVE  SignInv'
<1>0. req \in [Slot -> Ongoing \cup {Idle}]
  BY DEF SignInv
<1>1. PICK d : d = [at |-> "asset", intent |-> intent, raw |-> NoCall, i |-> 0, to |-> Nil,
                    answer |-> Nil, hole |-> FALSE]
  OBVIOUS
<1>2. d \in Ongoing
  BY <1>1 DEF Ongoing, Step
<1>3. Asked(d)
  BY <1>1 DEF Asked
<1>4. /\ req' = [req EXCEPT ![s] = d] /\ UNCHANGED <<chain, signed>>
      /\ Cardinality(signed) + Cardinality(Preparing) < MaxSigned
  BY <1>1 DEF Prepare, Begin
<1>5. Preparing' \subseteq Preparing \cup {s}
  BY <1>0, <1>4 DEF Preparing, InFlight
<1>6. Cardinality(Preparing') <= Cardinality(Preparing) + 1 /\ Cardinality(Preparing') \in Nat
  <2>1. IsFiniteSet(Preparing) /\ Cardinality(Preparing) \in Nat
    BY Counted
  <2>2. /\ IsFiniteSet(Preparing \cup {s})
        /\ Cardinality(Preparing \cup {s})
             = IF s \in Preparing THEN Cardinality(Preparing) ELSE Cardinality(Preparing) + 1
    BY <2>1, FS_AddElement
  <2>3. IsFiniteSet(Preparing') /\ Cardinality(Preparing') <= Cardinality(Preparing \cup {s})
    BY <1>5, <2>2, FS_Subset
  <2>4. Cardinality(Preparing') \in Nat
    BY <2>3, FS_CardinalityType
  <2> QED BY <2>1, <2>2, <2>3, <2>4
<1>7. SignedBounded'
  <2>1. Cardinality(signed) + Cardinality(Preparing') <= MaxSigned
    BY <1>4, <1>6, Counted, SigningAssumption
  <2> QED BY <1>4, <2>1 DEF chain, SignInv, SignedBounded
<1>8. NoncesSigned'
  BY <1>4 DEF chain, SignInv, NoncesSigned
<1>9. ASSUME NEW t \in Slot, NEW q \in Ongoing, req'[t] = q PROVE Asked(q)'
  <2>1. CASE t = s
    <3>1. q = d
      BY <1>0, <1>4, <1>9, <2>1
    <3> QED BY <1>3, <1>4, <3>1 DEF Asked, Named
  <2>2. CASE t # s
    <3>1. Asked(q)
      BY <1>0, <1>4, <1>9, <2>2 DEF SignInv
    <3> QED BY <1>4, <3>1 DEF Asked, Named
  <2> QED BY <2>1, <2>2
<1>10. req' \in [Slot -> Ongoing \cup {Idle}]
  BY <1>0, <1>2, <1>4
<1> QED BY <1>4, <1>7, <1>8, <1>9, <1>10 DEF chain, SignInv

\* The chain moves: blocks, forgotten transactions, activated and revoked wallets.
LEMMA ChainKeeps ==
    ASSUME SignInv, (\E c \in pool : Mine(c) \/ Drop(c)) \/ (\E w \in PartyWallet : SetStatus(w))
    PROVE  SignInv'
<1>0. /\ signed \subseteq Call /\ pool \subseteq signed /\ mined \subseteq signed \X BOOLEAN
      /\ next \in [Actor -> Nat] /\ owner \in PartyWallet \cup {Nil}
      /\ status \in [PartyWallet -> {"PENDING", "ACTIVE", "REVOKED"}]
  BY DEF SignInv, SignedBounded, NoncesSigned
<1>1. UNCHANGED <<req, signed>>
  BY DEF Mine, Drop, SetStatus
<1>2. Preparing' = Preparing
  BY <1>1 DEF Preparing, InFlight
<1>3. /\ pool' \subseteq signed
      /\ mined' \subseteq signed \X BOOLEAN
      /\ owner' \in PartyWallet \cup {Nil}
      /\ status' \in [PartyWallet -> {"PENDING", "ACTIVE", "REVOKED"}]
      /\ NoncesSigned'
  <2>1. CASE \E c \in pool : Mine(c)
    <3>1. PICK c \in pool : Mine(c)
      BY <2>1
    <3>2. c \in signed /\ c \in Call /\ c.from \in Actor /\ c.to \in PartyWallet \cup {Nil}
      BY <1>0, <3>1 DEF Call
    <3>3. c.nonce = next[c.from] /\ next' = [next EXCEPT ![c.from] = @ + 1] /\ status' = status
      BY <3>1 DEF Mine
    <3>4. pool' \subseteq signed /\ owner' \in PartyWallet \cup {Nil}
      BY <1>0, <3>1, <3>2 DEF Mine
    <3>5. mined' \subseteq signed \X BOOLEAN
      <4>1. Accepted(c) \in BOOLEAN
        BY DEF Accepted
      <4> HIDE DEF Accepted
      <4> QED BY <1>0, <3>1, <3>2, <4>1 DEF Mine
    <3>6. next' \in [Actor -> Nat]
      BY <1>0, <3>2, <3>3
    <3>7. ASSUME NEW a \in Actor, NEW i \in 0..next'[a] - 1
          PROVE  \E e \in signed : e.from = a /\ e.nonce = i
      <4>1. CASE a = c.from /\ i = next[a]
        BY <3>2, <3>3, <4>1
      <4>2. CASE ~(a = c.from /\ i = next[a])
        <5>1. i \in 0..next[a] - 1
          BY <1>0, <3>2, <3>3, <4>2
        <5> QED BY <5>1 DEF SignInv, NoncesSigned
      <4> QED BY <4>1, <4>2
    <3> QED BY <1>0, <1>1, <3>3, <3>4, <3>5, <3>6, <3>7 DEF NoncesSigned
  <2>2. CASE \E c \in pool : Drop(c)
    BY <1>0, <1>1, <2>2 DEF Drop, SignInv, NoncesSigned
  <2>3. CASE \E w \in PartyWallet : SetStatus(w)
    BY <1>0, <1>1, <2>3 DEF SetStatus, SignInv, NoncesSigned
  <2> QED BY <2>1, <2>2, <2>3
<1>4. SignedBounded'
  BY <1>1, <1>2, <1>3 DEF SignInv, SignedBounded
<1>5. \A s \in Slot, r \in Ongoing : req'[s] = r => Asked(r)'
  BY <1>1 DEF SignInv, Asked, Named
<1> QED BY <1>1, <1>3, <1>4, <1>5 DEF SignInv

LEMMA SignInitHolds ==
    ASSUME SignInit
    PROVE  SignInv
<1>1. Preparing = {}
  BY DEF SignInit, Preparing, InFlight, Idle, Step
<1>2. IsFiniteSet({}) /\ Cardinality({}) = 0
  BY FS_EmptySet
<1>3. SignedBounded
  BY <1>1, <1>2, SigningAssumption DEF SignInit, SignedBounded
<1>4. NoncesSigned
  BY DEF SignInit, NoncesSigned
<1>5. req \in [Slot -> Ongoing \cup {Idle}] /\ \A s \in Slot, r \in Ongoing : req[s] # r
  BY DEF SignInit, Ongoing, Idle, Step
<1>6. status \in [PartyWallet -> {"PENDING", "ACTIVE", "REVOKED"}] /\ owner \in PartyWallet \cup {Nil}
  BY DEF SignInit
<1> QED BY <1>3, <1>4, <1>5, <1>6 DEF SignInv

\* SignInv holds in every reachable state, for any set of wallets, parties and
\* requests in flight and any number of signed transactions.
THEOREM SignInvariant == SignSpec => []SignInv
<1>1. SignInit => SignInv
  BY SignInitHolds
<1>2. SignInv /\ [SignNext]_signVars => SignInv'
  <2> SUFFICES ASSUME SignInv, [SignNext]_signVars PROVE SignInv'
    OBVIOUS
  <2>1. ASSUME NEW s \in Slot, Answering(s) \/ Fail(s) PROVE SignInv'
    BY <2>1, PlanKeeps, NonceKeeps, GasKeeps, VerifyKeeps, RelayKeeps DEF Answering
  <2>2. ASSUME NEW s \in Slot, NEW intent \in Intent,
               Prepare(s, intent) \/ \E raw \in signed : Submit(s, intent, raw)
        PROVE  SignInv'
    BY <2>2, PrepareKeeps, SubmitKeeps
  <2>3. CASE UNCHANGED signVars
    <3>1. UNCHANGED <<status, owner, signed, pool, mined, next, req>>
      BY <2>3 DEF signVars
    <3>2. SignedBounded' /\ NoncesSigned'
      BY <3>1 DEF SignInv, SignedBounded, NoncesSigned, Preparing, InFlight
    <3>3. \A s \in Slot, r \in Ongoing : req'[s] = r => Asked(r)'
      BY <3>1 DEF SignInv, Asked, Named
    <3> QED BY <3>1, <3>2, <3>3 DEF SignInv
  <2> QED BY <2>1, <2>2, <2>3, ChainKeeps DEF SignNext
<1> QED BY <1>1, <1>2, PTL DEF SignSpec

\* "A relayed device-signed transaction must be exactly what the envelope
\* claims": only a transaction of the sender, of the type of the intent and for
\* a wallet of its party reaches broadcastTransaction, whatever is signed,
\* sent again, activated or revoked between the awaits.
THEOREM RelayedCorrect == SignSpec => []RelayedAsAsked
<1>1. SignInv => RelayedAsAsked
  <2> SUFFICES ASSUME SignInv PROVE RelayedAsAsked
    OBVIOUS
  <2>0. /\ signed \subseteq Call /\ pool \subseteq signed /\ mined \subseteq signed \X BOOLEAN
        /\ next \in [Actor -> Nat] /\ req \in [Slot -> Ongoing \cup {Idle}]
    BY DEF SignInv, SignedBounded, NoncesSigned
  <2>1. ASSUME NEW s \in Slot, req[s] # Idle
        PROVE  req[s] \in Ongoing /\ Asked(req[s])
    BY <2>0, <2>1 DEF SignInv
  <2>2. next \in [Actor -> 0..MaxSigned]
    BY <2>0, Counted
  <2>3. ASSUME NEW s \in Slot, req[s] # Idle
        PROVE  /\ req[s].at \in Step \cup {"answered"}
               /\ req[s].intent \in Intent /\ req[s].raw \in signed \cup {NoCall}
               /\ req[s].to \in PartyWallet \cup {Nil} /\ req[s].answer \in Codes \cup {Nil}
               /\ CallPlan[req[s].intent.type].party # "none" /\ req[s].at \in {"nonce", "gas", "verify"}
                  => req[s].to # Nil
    <3>0. PICK r : r = req[s]
      OBVIOUS
    <3>1. r \in Ongoing /\ Asked(r)
      BY <2>1, <2>3, <3>0
    <3>2. r.intent \in Intent /\ WalletsOf[r.intent.party] \in Seq(PartyWallet)
      BY <3>1, SigningAssumption DEF Ongoing, Intent
    <3>3. Named(r.intent, r.to) /\ CallPlan[r.intent.type].party # "none" => r.to # Nil
      BY <3>2, SigningAssumption DEF Named
    <3>4. r.at \in {"nonce", "gas", "verify"} => Named(r.intent, r.to)
      BY <3>1 DEF Asked
    <3>5. /\ r.at \in Step \cup {"answered"} /\ r.raw \in signed \cup {NoCall}
          /\ r.to \in PartyWallet \cup {Nil} /\ r.answer \in Codes \cup {Nil}
      BY <3>1 DEF Ongoing, Asked
    <3> QED BY <3>0, <3>2, <3>3, <3>4, <3>5
  <2>4. SigningTypeOK
    <3>1. status \in [PartyWallet -> {"PENDING", "ACTIVE", "REVOKED"}] /\ owner \in PartyWallet \cup {Nil}
      BY DEF SignInv
    <3>2. \A m \in mined : m[1] \in signed /\ m[2] \in BOOLEAN
      BY <2>0
    <3> QED BY <2>0, <2>2, <2>3, <3>1, <3>2, Counted DEF SigningTypeOK
  <2>5. ASSUME NEW s \in Slot, req[s].at \in {"wait", "known", "count", "answered"}
        PROVE  /\ req[s].raw.from = req[s].intent.actor /\ req[s].raw.type = req[s].intent.type
               /\ CallPlan[req[s].raw.type].party # "none" =>
                    \E i \in 1..Len(WalletsOf[req[s].intent.party]) :
                        WalletsOf[req[s].intent.party][i] = req[s].raw.to
    <3>1. req[s] # Idle
      BY <2>5 DEF Idle
    <3>2. Asked(req[s])
      BY <2>1, <3>1
    <3> QED BY <2>5, <3>2 DEF Asked, Named
  <2> QED BY <2>4, <2>5 DEF RelayedAsAsked
<1> QED BY <1>1, SignInvariant, PTL
=============================================================================
