-------------------------- MODULE MCAssetsService ---------------------------
(* Two mutations of one asset at a time; all operations on two assets, one  *)
(* request at a time; the hierarchy of three assets that other wallets      *)
(* rearrange meanwhile.                                                     *)
EXTENDS AssetsService, TLC

MCSetting ==
    {[assets |-> {a}, premade |-> {}, requests |-> 2,
      ops |-> {"create", "transfer", "state"}, foreign |-> {}] : a \in Asset}
    \cup
    {[assets |-> S, premade |-> {}, requests |-> 1,
      ops |-> {"get", "create", "transfer", "state", "attach", "remove"}, foreign |-> {}]
        : S \in {T \in SUBSET Asset : Cardinality(T) = 2}}
    \cup
    {[assets |-> Asset, premade |-> Asset, requests |-> 1,
      ops |-> {"attach", "remove"}, foreign |-> {"attach", "remove"}]}

\* Requests and assets are interchangeable, and so are the settings.
MCSymmetry == Permutations(Slot) \cup Permutations(Asset)
=============================================================================
