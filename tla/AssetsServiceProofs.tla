------------------------- MODULE AssetsServiceProofs -------------------------
(***************************************************************************)
(* Proofs about AssetsService, for any number of assets, holders and       *)
(* requests in flight, whatever the settings: rows settle on what the      *)
(* chain says, and a request that was alone passes no check that the chain *)
(* then refuses.                                                           *)
(*                                                                         *)
(* The invariant says what a request has left to do (OnScript), what the   *)
(* answers it holds are (GotSound), what it knows of the chain as long as  *)
(* no transaction was mined since it began (Known), and how the row of an  *)
(* asset and the one request that has written it share what the chain says *)
(* (Settled).                                                              *)
(***************************************************************************)
EXTENDS AssetsService, SequenceTheorems, TLAPS

Item    == [holder : Holder, state : State, parent : Asset \cup {Nothing}]
Value   == Holder \cup State \cup Asset \cup {Nothing}
Access  == {"get", "walk", "submit", "reconcile", "save"} \X Asset
Request == [op : {"get", "create", "transfer", "state", "attach", "remove"}, asset : Asset,
            arg : Value, todo : Seq(Access),
            got : UNION {[D -> Value] : D \in SUBSET Field}, visited : SUBSET Asset,
            alone : BOOLEAN]

AssetsTypes ==
    /\ setting \in Setting
    /\ item \in [Asset -> Item \cup {NoItem}] /\ row \in [Asset -> Item \cup {NoItem}]
    /\ req \in [Slot -> Request \cup {Idle}]
    /\ excused \subseteq Asset

\* What the service may find an operation asked for.
ArgSound(r) ==
    /\ r.op = "create"   => r.arg \in (Asset \ {r.asset}) \cup {Nothing}
    /\ r.op = "transfer" => r.arg \in Holder
    /\ r.op = "state"    => r.arg \in State
    /\ r.op \in {"attach", "remove"} => r.arg \in Asset \ {r.asset}

\* What a request may have left to do: one or two assets to read, with a walk
\* after those of an attachment, then the write.
Reconcile(a)  == <<<<"reconcile", a>>, <<"save", a>>>>
Saving(a)     == <<<<"save", a>>>>
Read1(a, w)   == <<<<"get", a>>, <<"submit", w>>, <<"reconcile", w>>, <<"save", w>>>>
Read2(a, b, w) ==
    <<<<"get", a>>, <<"get", b>>, <<"submit", w>>, <<"reconcile", w>>, <<"save", w>>>>
Walk(a, w)    == <<<<"walk", a>>, <<"submit", w>>, <<"reconcile", w>>, <<"save", w>>>>
Read1Walk(b, a, w) ==
    <<<<"get", b>>, <<"walk", a>>, <<"submit", w>>, <<"reconcile", w>>, <<"save", w>>>>
Read2Walk(a, b, w) ==
    <<<<"get", a>>, <<"get", b>>, <<"walk", a>>, <<"submit", w>>, <<"reconcile", w>>,
      <<"save", w>>>>

OnScript(r) ==
    \/ r.op = "get" /\ r.todo = <<<<"get", r.asset>>>>
    \/ r.op = "create" /\ r.arg = Nothing /\ r.todo = Read1(r.asset, r.asset)
    \/ r.op = "create" /\ r.arg # Nothing
          /\ r.todo \in {Read2(r.asset, r.arg, r.asset), Read1(r.arg, r.asset)}
    \/ r.op \in {"transfer", "state"} /\ r.todo = Read1(r.asset, r.asset)
    \/ r.op = "attach" /\ r.todo \in {Read2Walk(r.asset, r.arg, r.arg), Read1Walk(r.arg, r.asset, r.arg)}
    \/ r.op = "attach" /\ \E x \in Asset : r.todo = Walk(x, r.arg)
    \/ r.op = "remove" /\ r.todo \in {Read2(r.asset, r.arg, r.arg), Read1(r.arg, r.arg)}
    \/ r.op # "get" /\ r.todo \in {Mutate(Written(r)), Reconcile(Written(r)), Saving(Written(r))}

\* Each answer is of its kind; a write begins with none, and what is saved is a
\* whole asset.
GotSound(r) ==
    /\ "holder" \in DOMAIN r.got => r.got["holder"] \in Holder
    /\ "state"  \in DOMAIN r.got => r.got["state"] \in State
    /\ "parent" \in DOMAIN r.got => r.got["parent"] \in Asset \cup {Nothing}
    /\ Head(r.todo)[1] = "submit" => r.got = NoRead
    /\ Head(r.todo)[1] = "save" => DOMAIN r.got = Field
    /\ Head(r.todo)[1] \in {"reconcile", "save"} => Minted(Subject(r))

\* What a request that is alone knows of the chain, by what it has done.
AllRead(r) == \A f \in DOMAIN r.got : Minted(Subject(r)) /\ r.got[f] = item[Subject(r)][f]

UpTo(r, x) ==
    /\ r.asset \in r.visited \cup {x}
    /\ r.arg \notin r.visited \cup {x}
    /\ \A c \in r.visited : item[c].parent \in r.visited \cup {x}

Known(r) ==
    /\ Head(r.todo)[1] \in {"get", "walk"} => AllRead(r)
    /\ r.op = "create" /\ Subject(r) = r.arg => ~Minted(r.asset)
    /\ r.op = "attach" /\ Subject(r) = r.arg => InService(r.asset)
    /\ r.op = "attach" /\ Head(r.todo)[1] # "walk" => r.visited = {}
    /\ r.op = "attach" /\ Head(r.todo)[1] = "walk" =>
          /\ InService(r.asset) /\ InService(r.arg) /\ item[r.arg].parent = Nothing
          /\ UpTo(r, Subject(r))
    /\ Head(r.todo)[1] = "submit" => AssetsAllow(r)

RequestSound(r) ==
    /\ ArgSound(r) /\ OnScript(r) /\ GotSound(r)
    /\ r.alone /\ Head(r.todo)[1] \in {"get", "walk", "submit"} => Known(r)

RequestsSound == \A s \in Slot, r \in Request : req[s] = r => RequestSound(r)

RowsMinted == \A a \in Asset : row[a] # NoItem => Minted(a)

\* A request that has written a and has not saved it yet.
Writes(q, a) == q # Idle /\ Head(q.todo)[1] \in {"reconcile", "save"} /\ Subject(q) = a

\* Without an excuse a row is what the chain says, or one request has written
\* the asset and reads back what the chain says.
Settled ==
    \A a \in Asset \ excused :
        /\ \A s \in Slot : Writes(req[s], a) => \A f \in DOMAIN req[s].got : req[s].got[f] = item[a][f]
        /\ \A s, t \in Slot : Writes(req[s], a) /\ Writes(req[t], a) => s = t
        /\ (\A s \in Slot : ~Writes(req[s], a)) => row[a] = item[a]

AssetsInv == AssetsTypes /\ RequestsSound /\ RowsMinted /\ Settled

-----------------------------------------------------------------------------
(* Scripts.                                                                *)

\* What a request has left to do is a sequence of accesses.
LEMMA ShapesTyped ==
    ASSUME NEW a \in Asset, NEW b \in Asset, NEW w \in Asset
    PROVE  /\ Read1(a, w) \in Seq(Access) /\ Read2(a, b, w) \in Seq(Access)
           /\ Walk(a, w) \in Seq(Access) /\ Read1Walk(b, a, w) \in Seq(Access)
           /\ Read2Walk(a, b, w) \in Seq(Access) /\ Mutate(w) \in Seq(Access)
           /\ Reconcile(w) \in Seq(Access) /\ Saving(w) \in Seq(Access)
           /\ <<<<"get", a>>>> \in Seq(Access)
BY DEF Read1, Read2, Walk, Read1Walk, Read2Walk, Mutate, Reconcile, Saving, Access

\* The scripts of the operations, and a round of the walk, written out.
LEMMA Scripts ==
    ASSUME NEW a \in Asset, NEW b \in Asset
    PROVE  /\ Script("get", a, Nothing) = <<<<"get", a>>>>
           /\ Script("create", a, Nothing) = Read1(a, a)
           /\ Script("create", a, b) = Read2(a, b, a)
           /\ \A h : Script("transfer", a, h) = Read1(a, a) /\ Script("state", a, h) = Read1(a, a)
           /\ Script("attach", a, b) = Read2Walk(a, b, b)
           /\ Script("remove", a, b) = Read2(a, b, b)
           /\ <<<<"walk", a>>>> \o Mutate(b) = Walk(a, b)
<1>1. b # Nothing
  BY AssetsAssumption
<1>b. ASSUME NEW w \in Asset
      PROVE  \E p, q, v \in Access : /\ p = <<"submit", w>> /\ q = <<"reconcile", w>>
                                   /\ v = <<"save", w>> /\ Mutate(w) = <<p, q, v>>
  BY DEF Access, Mutate
<1>2. ASSUME NEW x \in Access, NEW w \in Asset
      PROVE  <<x>> \o Mutate(w) = <<x, <<"submit", w>>, <<"reconcile", w>>, <<"save", w>>>>
  <2>1. PICK p, q, v \in Access : /\ p = <<"submit", w>> /\ q = <<"reconcile", w>>
                                 /\ v = <<"save", w>> /\ Mutate(w) = <<p, q, v>>
    BY <1>b
  <2>2. <<x>> \o <<p, q, v>> = <<x, p, q, v>>
    <3>1. <<x>> \o <<p, q, v>> \in Seq(Access) /\ Len(<<x>> \o <<p, q, v>>) = 4
      OBVIOUS
    <3>2. \A i \in 1..4 : (<<x>> \o <<p, q, v>>)[i] = <<x, p, q, v>>[i]
      OBVIOUS
    <3>3. <<x, p, q, v>> \in Seq(Access) /\ Len(<<x, p, q, v>>) = 4
      OBVIOUS
    <3> QED BY <3>1, <3>2, <3>3, SeqEqual
  <2> QED BY <2>1, <2>2
<1>3. ASSUME NEW x \in Access, NEW y \in Access, NEW w \in Asset
      PROVE  <<x, y>> \o Mutate(w) = <<x, y, <<"submit", w>>, <<"reconcile", w>>, <<"save", w>>>>
  <2>1. PICK p, q, v \in Access : /\ p = <<"submit", w>> /\ q = <<"reconcile", w>>
                                 /\ v = <<"save", w>> /\ Mutate(w) = <<p, q, v>>
    BY <1>b
  <2>2. <<x, y>> \o <<p, q, v>> = <<x, y, p, q, v>>
    <3>1. <<x, y>> \o <<p, q, v>> \in Seq(Access) /\ Len(<<x, y>> \o <<p, q, v>>) = 5
      OBVIOUS
    <3>2. \A i \in 1..5 : (<<x, y>> \o <<p, q, v>>)[i] = <<x, y, p, q, v>>[i]
      OBVIOUS
    <3>3. <<x, y, p, q, v>> \in Seq(Access) /\ Len(<<x, y, p, q, v>>) = 5
      OBVIOUS
    <3> QED BY <3>1, <3>2, <3>3, SeqEqual
  <2> QED BY <2>1, <2>2
<1>4. ASSUME NEW x \in Access, NEW y \in Access, NEW z \in Access, NEW w \in Asset
      PROVE  <<x, y, z>> \o Mutate(w) =
               <<x, y, z, <<"submit", w>>, <<"reconcile", w>>, <<"save", w>>>>
  <2>1. PICK p, q, v \in Access : /\ p = <<"submit", w>> /\ q = <<"reconcile", w>>
                                 /\ v = <<"save", w>> /\ Mutate(w) = <<p, q, v>>
    BY <1>b
  <2>2. <<x, y, z>> \o <<p, q, v>> = <<x, y, z, p, q, v>>
    <3>1. <<x, y, z>> \o <<p, q, v>> \in Seq(Access) /\ Len(<<x, y, z>> \o <<p, q, v>>) = 6
      OBVIOUS
    <3>2. \A i \in 1..6 : (<<x, y, z>> \o <<p, q, v>>)[i] = <<x, y, z, p, q, v>>[i]
      OBVIOUS
    <3>3. <<x, y, z, p, q, v>> \in Seq(Access) /\ Len(<<x, y, z, p, q, v>>) = 6
      OBVIOUS
    <3> QED BY <3>1, <3>2, <3>3, SeqEqual
  <2> QED BY <2>1, <2>2
<1>5. ASSUME NEW x \in Access, NEW y \in Access PROVE <<x>> \o <<y>> = <<x, y>> /\ <<x>> \o <<>> = <<x>>
  <2>1. <<x>> \o <<y>> = <<x, y>>
    <3>1. <<x>> \o <<y>> \in Seq(Access) /\ Len(<<x>> \o <<y>>) = 2
      OBVIOUS
    <3>2. \A i \in 1..2 : (<<x>> \o <<y>>)[i] = <<x, y>>[i]
      OBVIOUS
    <3>3. <<x, y>> \in Seq(Access) /\ Len(<<x, y>>) = 2
      OBVIOUS
    <3> QED BY <3>1, <3>2, <3>3, SeqEqual
  <2>2. <<x>> \o <<>> = <<x>>
    <3>1. <<x>> \o <<>> \in Seq(Access) /\ Len(<<x>> \o <<>>) = 1
      OBVIOUS
    <3>2. \A i \in 1..1 : (<<x>> \o <<>>)[i] = <<x>>[i]
      OBVIOUS
    <3>3. <<x>> \in Seq(Access) /\ Len(<<x>>) = 1
      OBVIOUS
    <3> QED BY <3>1, <3>2, <3>3, SeqEqual
  <2> QED BY <2>1, <2>2
<1>a. <<"get", a>> \in Access /\ <<"get", b>> \in Access /\ <<"walk", a>> \in Access
  BY DEF Access
<1>6. Script("get", a, Nothing) = <<<<"get", a>>>>
  BY DEF Script
<1>7. Script("create", a, Nothing) = Read1(a, a)
  <2>1. Script("create", a, Nothing) = (<<<<"get", a>>>> \o <<>>) \o Mutate(a)
    BY DEF Script
  <2> QED BY <1>2, <1>5, <1>a, <2>1 DEF Read1
<1>8. Script("create", a, b) = Read2(a, b, a)
  <2>1. Script("create", a, b) = (<<<<"get", a>>>> \o <<<<"get", b>>>>) \o Mutate(a)
    BY <1>1 DEF Script
  <2> QED BY <1>3, <1>5, <1>a, <2>1 DEF Read2
<1>9. \A h : Script("transfer", a, h) = Read1(a, a) /\ Script("state", a, h) = Read1(a, a)
  BY <1>2, <1>a DEF Script, Read1
<1>10. Script("attach", a, b) = Read2Walk(a, b, b)
  <2>1. Script("attach", a, b) = <<<<"get", a>>, <<"get", b>>, <<"walk", a>>>> \o Mutate(b)
    BY DEF Script
  <2> QED BY <1>4, <1>a, <2>1 DEF Read2Walk
<1>11. Script("remove", a, b) = Read2(a, b, b)
  BY <1>3, <1>a DEF Script, Read2
<1>12. <<<<"walk", a>>>> \o Mutate(b) = Walk(a, b)
  BY <1>2, <1>a DEF Walk
<1> QED BY <1>6, <1>7, <1>8, <1>9, <1>10, <1>11, <1>12

\* Where a request stands that is about to read an asset.
GetMoves(r) ==
    \/ r.op = "get" /\ Subject(r) = r.asset /\ Len(r.todo) = 1
    \/ /\ Len(r.todo) > 1
       /\ \/ r.op = "create" /\ r.arg = Nothing /\ Subject(r) = r.asset /\ Tail(r.todo) = Mutate(r.asset)
          \/ r.op = "create" /\ r.arg \in Asset /\ Subject(r) = r.asset /\ Tail(r.todo) = Read1(r.arg, r.asset)
          \/ r.op = "create" /\ r.arg \in Asset /\ Subject(r) = r.arg /\ Tail(r.todo) = Mutate(r.asset)
          \/ r.op \in {"transfer", "state"} /\ Subject(r) = r.asset /\ Tail(r.todo) = Mutate(r.asset)
          \/ r.op = "attach" /\ Subject(r) = r.asset /\ Tail(r.todo) = Read1Walk(r.arg, r.asset, r.arg)
          \/ r.op = "attach" /\ Subject(r) = r.arg /\ Tail(r.todo) = Walk(r.asset, r.arg)
          \/ r.op = "remove" /\ Subject(r) = r.asset /\ Tail(r.todo) = Read1(r.arg, r.arg)
          \/ r.op = "remove" /\ Subject(r) = r.arg /\ Tail(r.todo) = Mutate(r.arg)

WalkMoves(r) ==
    r.op = "attach" /\ r.todo = Walk(Subject(r), r.arg) /\ Tail(r.todo) = Mutate(r.arg)

WriteMoves(r) ==
    /\ r.op # "get" /\ Subject(r) = Written(r)
    /\ \/ Head(r.todo)[1] = "submit" /\ Tail(r.todo) = Reconcile(Written(r))
       \/ Head(r.todo)[1] = "reconcile" /\ Tail(r.todo) = Saving(Written(r))
       \/ Head(r.todo)[1] = "save"

\* A request reads, walks or writes; in each case what it does next, and on
\* which asset, is known.
LEMMA Moves ==
    ASSUME NEW r \in Request, ArgSound(r), OnScript(r)
    PROVE  /\ Subject(r) \in Asset /\ r.todo # <<>>
           /\ \/ Head(r.todo)[1] = "get" /\ GetMoves(r)
              \/ Head(r.todo)[1] = "walk" /\ WalkMoves(r)
              \/ Head(r.todo)[1] \in {"submit", "reconcile", "save"} /\ WriteMoves(r)
<1>0. r.asset \in Asset /\ r.op \in {"get", "create", "transfer", "state", "attach", "remove"}
  BY DEF Request
<1>1. CASE r.op = "get" /\ r.todo = <<<<"get", r.asset>>>>
  <2>1. Head(r.todo) = <<"get", r.asset>> /\ Len(r.todo) = 1
    BY <1>0, <1>1 DEF Read1, Read2, Read1Walk, Read2Walk, Walk, Mutate
  <2> QED BY <1>0, <1>1, <2>1 DEF GetMoves, Subject
<1>2. CASE r.op = "create" /\ r.arg = Nothing /\ r.todo = Read1(r.asset, r.asset)
  <2>1. Head(r.todo) = <<"get", r.asset>> /\ Len(r.todo) > 1 /\ Tail(r.todo) = Mutate(r.asset)
    BY <1>0, <1>2 DEF Read1, Read2, Read1Walk, Read2Walk, Walk, Mutate
  <2> QED BY <1>0, <1>2, <2>1 DEF GetMoves, Subject
<1>3. CASE r.op = "create" /\ r.arg # Nothing
             /\ r.todo \in {Read2(r.asset, r.arg, r.asset), Read1(r.arg, r.asset)}
  <2>0. r.arg \in Asset
    BY <1>3 DEF ArgSound
  <2>1. CASE r.todo = Read2(r.asset, r.arg, r.asset)
    <3>1. Head(r.todo) = <<"get", r.asset>> /\ Len(r.todo) > 1 /\ Tail(r.todo) = Read1(r.arg, r.asset)
      BY <1>0, <2>0, <2>1 DEF Read1, Read2, Read1Walk, Read2Walk, Walk, Mutate
    <3> QED BY <1>0, <1>3, <2>0, <3>1 DEF GetMoves, Subject
  <2>2. CASE r.todo = Read1(r.arg, r.asset)
    <3>1. Head(r.todo) = <<"get", r.arg>> /\ Len(r.todo) > 1 /\ Tail(r.todo) = Mutate(r.asset)
      BY <1>0, <2>0, <2>2 DEF Read1, Read2, Read1Walk, Read2Walk, Walk, Mutate
    <3> QED BY <1>0, <1>3, <2>0, <3>1 DEF GetMoves, Subject
  <2> QED BY <1>3, <2>1, <2>2
<1>4. CASE r.op \in {"transfer", "state"} /\ r.todo = Read1(r.asset, r.asset)
  <2>1. Head(r.todo) = <<"get", r.asset>> /\ Len(r.todo) > 1 /\ Tail(r.todo) = Mutate(r.asset)
    BY <1>0, <1>4 DEF Read1, Read2, Read1Walk, Read2Walk, Walk, Mutate
  <2> QED BY <1>0, <1>4, <2>1 DEF GetMoves, Subject
<1>5. CASE r.op = "attach"
             /\ r.todo \in {Read2Walk(r.asset, r.arg, r.arg), Read1Walk(r.arg, r.asset, r.arg)}
  <2>0. r.arg \in Asset
    BY <1>5 DEF ArgSound
  <2>1. CASE r.todo = Read2Walk(r.asset, r.arg, r.arg)
    <3>1. /\ Head(r.todo) = <<"get", r.asset>> /\ Len(r.todo) > 1
          /\ Tail(r.todo) = Read1Walk(r.arg, r.asset, r.arg)
      BY <1>0, <2>0, <2>1 DEF Read1, Read2, Read1Walk, Read2Walk, Walk, Mutate
    <3> QED BY <1>0, <1>5, <2>0, <3>1 DEF GetMoves, Subject
  <2>2. CASE r.todo = Read1Walk(r.arg, r.asset, r.arg)
    <3>1. Head(r.todo) = <<"get", r.arg>> /\ Len(r.todo) > 1 /\ Tail(r.todo) = Walk(r.asset, r.arg)
      BY <1>0, <2>0, <2>2 DEF Read1, Read2, Read1Walk, Read2Walk, Walk, Mutate
    <3> QED BY <1>0, <1>5, <2>0, <3>1 DEF GetMoves, Subject
  <2> QED BY <1>5, <2>1, <2>2
<1>6. CASE r.op = "attach" /\ \E x \in Asset : r.todo = Walk(x, r.arg)
  <2>0. r.arg \in Asset
    BY <1>6 DEF ArgSound
  <2>1. PICK x \in Asset : r.todo = Walk(x, r.arg)
    BY <1>6
  <2>2. Head(r.todo) = <<"walk", x>> /\ Tail(r.todo) = Mutate(r.arg)
    BY <2>0, <2>1 DEF Walk, Mutate
  <2>3. r.todo # <<>>
    BY <2>1 DEF Walk
  <2> QED BY <1>6, <2>1, <2>2, <2>3 DEF WalkMoves, Subject
<1>7. CASE r.op = "remove" /\ r.todo \in {Read2(r.asset, r.arg, r.arg), Read1(r.arg, r.arg)}
  <2>0. r.arg \in Asset
    BY <1>7 DEF ArgSound
  <2>1. CASE r.todo = Read2(r.asset, r.arg, r.arg)
    <3>1. Head(r.todo) = <<"get", r.asset>> /\ Len(r.todo) > 1 /\ Tail(r.todo) = Read1(r.arg, r.arg)
      BY <1>0, <2>0, <2>1 DEF Read1, Read2, Read1Walk, Read2Walk, Walk, Mutate
    <3> QED BY <1>0, <1>7, <2>0, <3>1 DEF GetMoves, Subject
  <2>2. CASE r.todo = Read1(r.arg, r.arg)
    <3>1. Head(r.todo) = <<"get", r.arg>> /\ Len(r.todo) > 1 /\ Tail(r.todo) = Mutate(r.arg)
      BY <1>0, <2>0, <2>2 DEF Read1, Read2, Read1Walk, Read2Walk, Walk, Mutate
    <3> QED BY <1>0, <1>7, <2>0, <3>1 DEF GetMoves, Subject
  <2> QED BY <1>7, <2>1, <2>2
<1>8. CASE r.op # "get" /\ r.todo \in {Mutate(Written(r)), Reconcile(Written(r)), Saving(Written(r))}
  <2>0. Written(r) \in Asset
    BY <1>0 DEF ArgSound, Written
  <2> PICK w \in Asset : w = Written(r)
    BY <2>0
  <2>1. CASE r.todo = Mutate(w)
    <3>1. Head(r.todo) = <<"submit", w>> /\ Tail(r.todo) = Reconcile(w) /\ r.todo # <<>>
      BY <2>1 DEF Mutate, Reconcile
    <3> QED BY <1>8, <3>1 DEF WriteMoves, Subject
  <2>2. CASE r.todo = Reconcile(w)
    <3>1. Head(r.todo) = <<"reconcile", w>> /\ Tail(r.todo) = Saving(w) /\ r.todo # <<>>
      BY <2>2 DEF Reconcile, Saving
    <3> QED BY <1>8, <3>1 DEF WriteMoves, Subject
  <2>3. CASE r.todo = Saving(w)
    <3>1. Head(r.todo) = <<"save", w>> /\ r.todo # <<>>
      BY <2>3 DEF Saving
    <3> QED BY <1>8, <3>1 DEF WriteMoves, Subject
  <2> QED BY <1>8, <2>1, <2>2, <2>3
<1> QED BY <1>1, <1>2, <1>3, <1>4, <1>5, <1>6, <1>7, <1>8 DEF OnScript

\* A free slot holds no request.
LEMMA IdleNot == Idle \notin Request
<1>1. \A r \in Request : DOMAIN r = {"op", "asset", "arg", "todo", "got", "visited", "alone"}
  BY DEF Request
<1>2. DOMAIN Idle = {"todo"}
  BY DEF Idle
<1> QED BY <1>1, <1>2

\* What an unchanged chain leaves of what a request knows.
LEMMA SoundStays ==
    ASSUME NEW r \in Request, RequestSound(r), item' = item
    PROVE  RequestSound(r)'
<1>1. RequestSound(r)' <=> RequestSound(r)
  BY DEF RequestSound, ArgSound, OnScript, GotSound, Known, AllRead, UpTo, Minted, InService, Above,
         AssetsAllow, Read1, Read2, Walk, Read1Walk, Read2Walk, Reconcile, Saving, Mutate, Written, Subject
<1> QED BY <1>1

\* Writes says of a request what Unsaved says of its slot.
LEMMA UnsavedWrites ==
    ASSUME NEW t \in Slot, NEW a \in Asset
    PROVE  Unsaved(t, a) <=> Writes(req[t], a)
BY DEF Unsaved, Writes, At

\* A request after its write that reads on: what the chain says now, or had.
ReadsOn(d, q) ==
    \A a \in Asset : Writes(d, a) =>
        \A f \in DOMAIN d.got : d.got[f] = item[a][f] \/ (f \in DOMAIN q.got /\ d.got[f] = q.got[f])

\* A step of one request that writes nothing.
LEMMA Advance ==
    ASSUME AssetsInv, NEW s \in Slot, NEW d,
           d = Idle \/ (d \in Request /\ RequestSound(d)),
           req' = [req EXCEPT ![s] = d], setting' = setting, item' = item, row' = row, excused' = excused,
           \A a \in Asset : Writes(d, a) <=> Writes(req[s], a),
           ReadsOn(d, req[s])
    PROVE  AssetsInv'
<1>0. req \in [Slot -> Request \cup {Idle}]
  BY DEF AssetsInv, AssetsTypes
<1>1. AssetsTypes'
  BY DEF AssetsInv, AssetsTypes
<1>2. RequestsSound'
  <2> SUFFICES ASSUME NEW t \in Slot, NEW r \in Request, req'[t] = r
               PROVE  RequestSound(r)'
    BY DEF RequestsSound
  <2>1. RequestSound(r)
    <3>1. CASE t = s
      <4>1. r = d
        BY <1>0, <3>1
      <4>2. CASE d = Idle
        BY <4>1, <4>2, IdleNot
      <4> QED BY <4>1, <4>2
    <3>2. CASE t # s
      BY <1>0, <3>2 DEF AssetsInv, RequestsSound
    <3> QED BY <3>1, <3>2
  <2> QED BY <2>1, SoundStays
<1>3. RowsMinted'
  BY DEF AssetsInv, RowsMinted, Minted
<1>4. Settled'
  <2> SUFFICES ASSUME NEW a \in Asset, a \notin excused
               PROVE  /\ \A t \in Slot : Writes(req'[t], a) => \A f \in DOMAIN req'[t].got : req'[t].got[f] = item[a][f]
                      /\ \A t, u \in Slot : Writes(req'[t], a) /\ Writes(req'[u], a) => t = u
                      /\ (\A t \in Slot : ~Writes(req'[t], a)) => row[a] = item[a]
    BY DEF Settled, Writes, Subject
  <2>0. /\ \A t \in Slot : Writes(req[t], a) => \A f \in DOMAIN req[t].got : req[t].got[f] = item[a][f]
        /\ \A t, u \in Slot : Writes(req[t], a) /\ Writes(req[u], a) => t = u
        /\ (\A t \in Slot : ~Writes(req[t], a)) => row[a] = item[a]
    BY DEF AssetsInv, Settled
  <2>1. \A t \in Slot : Writes(req'[t], a) <=> Writes(req[t], a)
    BY <1>0
  <2>2. ASSUME NEW t \in Slot, Writes(req'[t], a) PROVE \A f \in DOMAIN req'[t].got : req'[t].got[f] = item[a][f]
    <3>1. Writes(req[t], a)
      BY <2>1, <2>2
    <3>2. CASE t = s
      BY <1>0, <2>0, <2>2, <3>1, <3>2 DEF ReadsOn
    <3>3. CASE t # s
      BY <1>0, <2>0, <3>1, <3>3
    <3> QED BY <3>2, <3>3
  <2> QED BY <2>0, <2>1, <2>2
<1> QED BY <1>1, <1>2, <1>3, <1>4 DEF AssetsInv

\* The first access of a request, taken apart.
LEMMA HeadOf ==
    ASSUME NEW q, NEW p, NEW a, Head(q.todo) = <<p, a>>
    PROVE  Head(q.todo)[1] = p /\ Subject(q) = a
BY DEF Subject

\* What a request becomes is a request.
LEMMA Passed ==
    ASSUME NEW r \in Request, r.todo # <<>>, NEW V \in SUBSET Asset, NEW b \in BOOLEAN
    PROVE  /\ [r EXCEPT !.todo = Tail(@), !.got = NoRead] \in Request
           /\ [r EXCEPT !.todo = Tail(@), !.got = NoRead, !.visited = V] \in Request
           /\ [r EXCEPT !.todo = Tail(@), !.alone = b] \in Request
           /\ [r EXCEPT !.todo = Tail(@)] \in Request
           /\ [r EXCEPT !.alone = b] \in Request
<1>1. NoRead \in UNION {[D -> Value] : D \in SUBSET Field}
  <2>1. NoRead \in [{} -> Value] /\ {} \in SUBSET Field
    BY DEF NoRead
  <2> QED BY <2>1
<1>2. Tail(r.todo) \in Seq(Access)
  BY DEF Request
<1>3. [r EXCEPT !.todo = Tail(@), !.got = NoRead] \in Request
  BY <1>1, <1>2 DEF Request
<1>4. [r EXCEPT !.todo = Tail(@), !.got = NoRead, !.visited = V] \in Request
  BY <1>1, <1>2 DEF Request
<1>5. [r EXCEPT !.todo = Tail(@), !.alone = b] \in Request
  BY <1>2 DEF Request
<1>6. [r EXCEPT !.todo = Tail(@)] \in Request
  BY <1>2 DEF Request
<1>7. [r EXCEPT !.alone = b] \in Request
  BY DEF Request
<1> QED BY <1>3, <1>4, <1>5, <1>6, <1>7

\* A request that has nothing to save and has read nothing yet.
LEMMA FreshSound ==
    ASSUME NEW d \in Request, d.got = NoRead, ArgSound(d), OnScript(d),
           Head(d.todo)[1] \in {"get", "walk", "submit"}, d.alone => Known(d)
    PROVE  RequestSound(d)
<1>1. DOMAIN NoRead = {}
  BY DEF NoRead
<1>2. GotSound(d)
  BY <1>1 DEF GotSound
<1> QED BY <1>2 DEF RequestSound

\* One step of a request on to what it has left to do, by what the chain said.
LEMMA GetDone ==
    ASSUME AssetsTypes, NEW r \in Request, RequestSound(r), Head(r.todo)[1] = "get",
           \/ DOMAIN r.got = Field /\ Allowed(r) /\ Len(r.todo) > 1
           \/ ~Minted(Subject(r)) /\ r.op = "create" /\ Subject(r) = r.asset,
           NEW d \in Request, d.op = r.op, d.asset = r.asset, d.arg = r.arg, d.todo = Tail(r.todo),
           d.got = NoRead, d.visited = r.visited, d.alone = r.alone
    PROVE  RequestSound(d) /\ Head(d.todo)[1] \in {"get", "walk", "submit"}
<1>1. ArgSound(r) /\ OnScript(r) /\ GotSound(r) /\ (r.alone => Known(r))
  BY DEF RequestSound
<1>2. GetMoves(r) /\ Subject(r) \in Asset /\ r.todo # <<>>
  BY <1>1, Moves
<1>3. /\ d \in Request /\ d.op = r.op /\ d.asset = r.asset /\ d.arg = r.arg /\ d.todo = Tail(r.todo)
      /\ d.got = NoRead /\ d.visited = r.visited /\ d.alone = r.alone
  OBVIOUS
<1>4. ArgSound(d)
  BY <1>1, <1>3 DEF ArgSound
<1>5. r.asset \in Asset /\ DOMAIN NoRead = {}
  BY DEF Request, NoRead
<1>6. AllRead(d)
  BY <1>3, <1>5 DEF AllRead
<1>7. r.alone => AllRead(r)
  BY <1>1 DEF Known
<1>8. ASSUME r.alone, DOMAIN r.got = Field
      PROVE  /\ Minted(Subject(r)) /\ r.got.holder = item[Subject(r)].holder
             /\ r.got.state = item[Subject(r)].state /\ r.got.parent = item[Subject(r)].parent
  BY <1>7, <1>8 DEF AllRead, Field
<1>9. CASE r.op = "create" /\ r.arg = Nothing /\ Subject(r) = r.asset /\ Tail(r.todo) = Mutate(r.asset)
  <2>1. Head(d.todo)[1] = "submit" /\ Subject(d) = r.asset
    <3>1. d.todo = Mutate(r.asset)
      BY <1>3, <1>9
    <3>2. Head(Mutate(r.asset)) = <<"submit", r.asset>>
      BY DEF Mutate
    <3>3. Head(d.todo) = <<"submit", r.asset>>
      BY <3>1, <3>2
    <3> QED BY <3>3, HeadOf, Zenon
  <2>2. OnScript(d)
    BY <1>3, <1>9 DEF OnScript, Written
  <2>3. ~Minted(r.asset)
    BY <1>9 DEF Allowed
  <2>4. AssetsAllow(d)
    BY <1>3, <1>9, <2>3 DEF AssetsAllow
  <2>5. Known(d)
    BY <1>3, <1>9, <2>1, <2>3, <2>4 DEF Known
  <2> QED BY <1>3, <1>4, <2>1, <2>2, <2>5, FreshSound
<1>10. CASE r.op = "create" /\ r.arg \in Asset /\ Subject(r) = r.asset /\ Tail(r.todo) = Read1(r.arg, r.asset)
  <2>1. Head(d.todo)[1] = "get" /\ Subject(d) = r.arg
    <3>1. d.todo = Read1(r.arg, r.asset)
      BY <1>3, <1>10
    <3>2. Head(Read1(r.arg, r.asset)) = <<"get", r.arg>>
      BY DEF Read1
    <3>3. Head(d.todo) = <<"get", r.arg>>
      BY <3>1, <3>2
    <3> QED BY <3>3, HeadOf, Zenon
  <2>2. OnScript(d)
    <3>1. r.arg # Nothing
      BY <1>10, AssetsAssumption
    <3> QED BY <1>3, <1>10, <3>1 DEF OnScript
  <2>3. ~Minted(r.asset)
    BY <1>10 DEF Allowed
  <2>5. Known(d)
    BY <1>3, <1>6, <1>10, <2>1, <2>3 DEF Known
  <2> QED BY <1>3, <1>4, <2>1, <2>2, <2>5, FreshSound
<1>11. CASE r.op = "create" /\ r.arg \in Asset /\ Subject(r) = r.arg /\ Tail(r.todo) = Mutate(r.asset)
  <2>1. Head(d.todo)[1] = "submit" /\ Subject(d) = r.asset
    <3>1. d.todo = Mutate(r.asset)
      BY <1>3, <1>11
    <3>2. Head(Mutate(r.asset)) = <<"submit", r.asset>>
      BY DEF Mutate
    <3>3. Head(d.todo) = <<"submit", r.asset>>
      BY <3>1, <3>2
    <3> QED BY <3>3, HeadOf, Zenon
  <2>2. OnScript(d)
    BY <1>3, <1>11 DEF OnScript, Written
  <2>3. r.alone => ~Minted(r.asset)
    BY <1>1, <1>11 DEF Known
  <2>4. r.alone => AssetsAllow(d)
    BY <1>3, <1>11, <2>3 DEF AssetsAllow
  <2>5. r.alone => Known(d)
    BY <1>3, <1>11, <2>1, <2>3, <2>4 DEF Known
  <2> QED BY <1>3, <1>4, <2>1, <2>2, <2>5, FreshSound
<1>12. CASE r.op \in {"transfer", "state"} /\ Subject(r) = r.asset /\ Tail(r.todo) = Mutate(r.asset)
  <2>1. Head(d.todo)[1] = "submit" /\ Subject(d) = r.asset
    <3>1. d.todo = Mutate(r.asset)
      BY <1>3, <1>12
    <3>2. Head(Mutate(r.asset)) = <<"submit", r.asset>>
      BY DEF Mutate
    <3>3. Head(d.todo) = <<"submit", r.asset>>
      BY <3>1, <3>2
    <3> QED BY <3>3, HeadOf, Zenon
  <2>2. OnScript(d)
    BY <1>3, <1>12 DEF OnScript, Written
  <2>3. DOMAIN r.got = Field /\ Allowed(r)
    BY <1>12
  <2>4. ASSUME r.alone PROVE AssetsAllow(d)
    <3>1. CASE r.op = "transfer"
      BY <1>3, <1>8, <1>12, <2>3, <2>4, <3>1 DEF AssetsAllow, Allowed, InService
    <3>2. CASE r.op = "state"
      <4>1. r.arg \in assertStateTransition[r.got.state]
        BY <2>3, <3>2 DEF Allowed
      <4>2. r.got.state \in State
        BY <1>1, <2>3 DEF GotSound, Field
      <4>3. r.got.state # "DECOMMISSIONED" /\ r.got.state # r.arg
        BY <4>1, <4>2 DEF assertStateTransition, State
      <4>4. InService(r.asset) /\ item[r.asset].state # r.arg
        BY <1>8, <1>12, <2>3, <2>4, <4>3 DEF InService
      <4> QED BY <1>3, <3>2, <4>4 DEF AssetsAllow
    <3> QED BY <1>12, <3>1, <3>2
  <2>5. r.alone => Known(d)
    BY <1>3, <1>12, <2>1, <2>4 DEF Known
  <2> QED BY <1>3, <1>4, <2>1, <2>2, <2>5, FreshSound
<1>13. CASE r.op = "attach" /\ Subject(r) = r.asset /\ Tail(r.todo) = Read1Walk(r.arg, r.asset, r.arg)
  <2>1. Head(d.todo)[1] = "get" /\ Subject(d) = r.arg
    <3>1. d.todo = Read1Walk(r.arg, r.asset, r.arg)
      BY <1>3, <1>13
    <3>2. Head(Read1Walk(r.arg, r.asset, r.arg)) = <<"get", r.arg>>
      BY DEF Read1Walk
    <3>3. Head(d.todo) = <<"get", r.arg>>
      BY <3>1, <3>2
    <3> QED BY <3>3, HeadOf, Zenon
  <2>2. OnScript(d)
    BY <1>3, <1>13 DEF OnScript
  <2>3. DOMAIN r.got = Field /\ Allowed(r)
    BY <1>13
  <2>4. ASSUME r.alone PROVE InService(r.asset) /\ r.visited = {}
    BY <1>1, <1>8, <1>13, <2>3, <2>4 DEF Allowed, InService, Known
  <2>5. r.alone => Known(d)
    BY <1>3, <1>6, <1>13, <2>1, <2>4 DEF Known
  <2> QED BY <1>3, <1>4, <2>1, <2>2, <2>5, FreshSound
<1>14. CASE r.op = "attach" /\ Subject(r) = r.arg /\ Tail(r.todo) = Walk(r.asset, r.arg)
  <2>1. Head(d.todo)[1] = "walk" /\ Subject(d) = r.asset
    <3>1. d.todo = Walk(r.asset, r.arg)
      BY <1>3, <1>14
    <3>2. Head(Walk(r.asset, r.arg)) = <<"walk", r.asset>>
      BY DEF Walk
    <3>3. Head(d.todo) = <<"walk", r.asset>>
      BY <3>1, <3>2
    <3> QED BY <3>3, HeadOf, Zenon
  <2>2. OnScript(d)
    BY <1>3, <1>5, <1>14 DEF OnScript
  <2>3. DOMAIN r.got = Field /\ Allowed(r) /\ r.arg # r.asset
    BY <1>1, <1>14 DEF ArgSound
  <2>4. ASSUME r.alone PROVE InService(r.asset) /\ r.visited = {}
    BY <1>1, <1>14, <2>4 DEF Known
  <2>5. ASSUME r.alone PROVE InService(r.arg) /\ item[r.arg].parent = Nothing
    BY <1>8, <1>14, <2>3, <2>5 DEF Allowed, InService
  <2>6. ASSUME r.alone PROVE UpTo(d, r.asset)
    BY <1>3, <2>3, <2>4, <2>6 DEF UpTo
  <2>7. r.alone => Known(d)
    BY <1>3, <1>6, <1>14, <2>1, <2>4, <2>5, <2>6 DEF Known
  <2> QED BY <1>3, <1>4, <2>1, <2>2, <2>7, FreshSound
<1>15. CASE r.op = "remove" /\ Subject(r) = r.asset /\ Tail(r.todo) = Read1(r.arg, r.arg)
  <2>1. Head(d.todo)[1] = "get" /\ Subject(d) = r.arg
    <3>1. d.todo = Read1(r.arg, r.arg)
      BY <1>3, <1>15
    <3>2. Head(Read1(r.arg, r.arg)) = <<"get", r.arg>>
      BY DEF Read1
    <3>3. Head(d.todo) = <<"get", r.arg>>
      BY <3>1, <3>2
    <3> QED BY <3>3, HeadOf, Zenon
  <2>2. OnScript(d)
    BY <1>3, <1>15 DEF OnScript
  <2>5. Known(d)
    BY <1>3, <1>6, <1>15, <2>1 DEF Known
  <2> QED BY <1>3, <1>4, <2>1, <2>2, <2>5, FreshSound
<1>16. CASE r.op = "remove" /\ Subject(r) = r.arg /\ Tail(r.todo) = Mutate(r.arg)
  <2>1. Head(d.todo)[1] = "submit" /\ Subject(d) = r.arg
    <3>1. d.todo = Mutate(r.arg)
      BY <1>3, <1>16
    <3>2. Head(Mutate(r.arg)) = <<"submit", r.arg>>
      BY DEF Mutate
    <3>3. Head(d.todo) = <<"submit", r.arg>>
      BY <3>1, <3>2
    <3> QED BY <3>3, HeadOf, Zenon
  <2>2. OnScript(d)
    BY <1>3, <1>16 DEF OnScript, Written
  <2>3. DOMAIN r.got = Field /\ Allowed(r)
    BY <1>16
  <2>4. ASSUME r.alone PROVE AssetsAllow(d)
    BY <1>3, <1>8, <1>16, <2>3, <2>4 DEF AssetsAllow, Allowed
  <2>5. r.alone => Known(d)
    BY <1>3, <1>16, <2>1, <2>4 DEF Known
  <2> QED BY <1>3, <1>4, <2>1, <2>2, <2>5, FreshSound
<1>17. CASE r.op = "get" /\ Subject(r) = r.asset /\ Len(r.todo) = 1
  BY <1>17
<1> QED BY <1>2, <1>9, <1>10, <1>11, <1>12, <1>13, <1>14, <1>15, <1>16, <1>17 DEF GetMoves

\* The chain above the new parent was walked to its end without meeting the
\* component: the component is not above the parent.
LEMMA WalkEnds ==
    ASSUME NEW r \in Request, NEW x \in Asset, UpTo(r, x), item[x].parent = Nothing
    PROVE  r.arg \notin Above(r.asset)
<1> DEFINE S == r.visited \cup {x}
<1>1. S \in SUBSET Asset
  BY DEF Request
<1>2. \A c \in S : item[c].parent # Nothing => item[c].parent \in S
  BY DEF UpTo
<1>3. r.asset \in S /\ r.arg \notin S
  BY DEF UpTo
<1> QED BY <1>1, <1>2, <1>3 DEF Above

\* assertNoCycle reaches a root: the chain will take the attachment.
LEMMA WalkDone ==
    ASSUME AssetsTypes, NEW r \in Request, RequestSound(r), Head(r.todo)[1] = "walk", DOMAIN r.got = Field,
           r.got.parent = Nothing,
           NEW d \in Request, d.op = r.op, d.asset = r.asset, d.arg = r.arg, d.todo = Tail(r.todo),
           d.got = NoRead, d.visited = {}, d.alone = r.alone
    PROVE  RequestSound(d) /\ Head(d.todo)[1] = "submit"
<1>1. ArgSound(r) /\ OnScript(r) /\ GotSound(r) /\ (r.alone => Known(r))
  BY DEF RequestSound
<1>2. WalkMoves(r) /\ Subject(r) \in Asset /\ r.todo # <<>>
  BY <1>1, Moves
<1>3. /\ d \in Request /\ d.op = r.op /\ d.asset = r.asset /\ d.arg = r.arg /\ d.todo = Mutate(r.arg)
      /\ d.got = NoRead /\ d.visited = {} /\ d.alone = r.alone
  BY <1>2 DEF WalkMoves
<1>4. ArgSound(d)
  BY <1>1, <1>3 DEF ArgSound
<1>5. Head(d.todo)[1] = "submit" /\ Subject(d) = r.arg
  <2>1. Head(Mutate(r.arg)) = <<"submit", r.arg>>
    BY DEF Mutate
  <2>2. Head(d.todo) = <<"submit", r.arg>>
    BY <1>3, <2>1
  <2> QED BY <2>2, HeadOf, Zenon
<1>6. OnScript(d)
  BY <1>2, <1>3 DEF OnScript, Written, WalkMoves
<1>7. ASSUME r.alone PROVE Known(d)
  <2>1. r.op = "attach"
    BY <1>2 DEF WalkMoves
  <2>2. /\ InService(r.asset) /\ InService(r.arg) /\ item[r.arg].parent = Nothing
        /\ UpTo(r, Subject(r)) /\ AllRead(r)
    BY <1>1, <1>7, <2>1 DEF Known
  <2>3. item[Subject(r)].parent = Nothing
    BY <2>2 DEF AllRead, Field
  <2>4. r.arg \notin Above(r.asset)
    BY <1>2, <2>2, <2>3, WalkEnds
  <2>5. AssetsAllow(d)
    BY <1>3, <2>1, <2>2, <2>4 DEF AssetsAllow
  <2> QED BY <1>3, <1>5, <2>1, <2>2, <2>5 DEF Known
<1> QED BY <1>3, <1>4, <1>5, <1>6, <1>7, FreshSound

\* One round of assertNoCycle, which goes on from the parent.
LEMMA WalkOn ==
    ASSUME AssetsTypes, NEW r \in Request, RequestSound(r), Head(r.todo)[1] = "walk", DOMAIN r.got = Field,
           r.got.parent # Nothing, r.got.parent # r.arg, NEW d,
           d = [r EXCEPT !.todo = <<<<"walk", r.got.parent>>>> \o Tail(@),
                         !.visited = @ \cup {Subject(r)}, !.got = NoRead]
    PROVE  d \in Request /\ RequestSound(d) /\ Head(d.todo)[1] = "walk"
<1>1. ArgSound(r) /\ OnScript(r) /\ GotSound(r) /\ (r.alone => Known(r))
  BY DEF RequestSound
<1>2. WalkMoves(r) /\ Subject(r) \in Asset /\ r.todo # <<>>
  BY <1>1, Moves
<1>p. r.got.parent \in Asset /\ r.arg \in Asset
  BY <1>1, <1>2 DEF GotSound, Field, WalkMoves, ArgSound
<1>t. <<<<"walk", r.got.parent>>>> \o Tail(r.todo) = Walk(r.got.parent, r.arg)
  BY <1>2, <1>p, Scripts DEF WalkMoves
<1>s. Walk(r.got.parent, r.arg) \in Seq(Access)
  BY <1>p, ShapesTyped
<1>n. NoRead \in UNION {[D -> Value] : D \in SUBSET Field}
  <2>1. NoRead \in [{} -> Value] /\ {} \in SUBSET Field
    BY DEF NoRead
  <2> QED BY <2>1
<1>d. d = [r EXCEPT !.todo = Walk(r.got.parent, r.arg), !.visited = @ \cup {Subject(r)}, !.got = NoRead]
  BY <1>t
<1>3. /\ d \in Request /\ d.op = r.op /\ d.asset = r.asset /\ d.arg = r.arg
      /\ d.todo = Walk(r.got.parent, r.arg)
      /\ d.got = NoRead /\ d.visited = r.visited \cup {Subject(r)} /\ d.alone = r.alone
  <2>1. PICK todo \in Seq(Access), V \in SUBSET Asset, got \in UNION {[D -> Value] : D \in SUBSET Field} :
          todo = Walk(r.got.parent, r.arg) /\ V = r.visited \cup {Subject(r)} /\ got = NoRead
    <3>1. r.visited \cup {Subject(r)} \in SUBSET Asset
      BY <1>2 DEF Request
    <3> QED BY <1>s, <1>n, <3>1
  <2>2. d = [r EXCEPT !.todo = todo, !.visited = V, !.got = got]
    BY <1>d, <2>1
  <2>3. d \in Request
    BY <2>2 DEF Request
  <2>4. /\ d.op = r.op /\ d.asset = r.asset /\ d.arg = r.arg /\ d.todo = todo
        /\ d.got = got /\ d.visited = V /\ d.alone = r.alone
    BY <2>2 DEF Request
  <2> QED BY <2>1, <2>3, <2>4
<1>4. ArgSound(d)
  BY <1>1, <1>3 DEF ArgSound
<1>5. Head(d.todo)[1] = "walk" /\ Subject(d) = r.got.parent
  <2>1. Head(Walk(r.got.parent, r.arg)) = <<"walk", r.got.parent>>
    BY DEF Walk
  <2> QED BY <1>3, <2>1 DEF Subject
<1>6. OnScript(d)
  BY <1>2, <1>3, <1>p DEF OnScript, WalkMoves
<1>7. ASSUME r.alone PROVE Known(d)
  <2>1. r.op = "attach"
    BY <1>2 DEF WalkMoves
  <2>2. /\ InService(r.asset) /\ InService(r.arg) /\ item[r.arg].parent = Nothing
        /\ UpTo(r, Subject(r)) /\ AllRead(r)
    BY <1>1, <1>7, <2>1 DEF Known
  <2>3. item[Subject(r)].parent = r.got.parent
    BY <2>2 DEF AllRead, Field
  <2>4. UpTo(d, Subject(d))
    BY <1>3, <1>5, <2>2, <2>3 DEF UpTo
  <2>5. AllRead(d)
    BY <1>3 DEF AllRead, NoRead
  <2> QED BY <1>3, <1>5, <2>1, <2>2, <2>4, <2>5 DEF Known
<1> QED BY <1>3, <1>4, <1>5, <1>6, <1>7, FreshSound

\* One more answer of the node.
AnswerTo(r, f) == [r EXCEPT !.got = Answered(@, f, item[Subject(r)][f])]
\* With one more answer a request is as sound as before.
LEMMA Answer ==
    ASSUME AssetsTypes, NEW r \in Request, RequestSound(r), Head(r.todo)[1] \in {"get", "walk", "reconcile"},
           Minted(Subject(r)), NEW f \in Field \ DOMAIN r.got, NEW d,
           d = AnswerTo(r, f)
    PROVE  /\ d \in Request /\ RequestSound(d) /\ d.todo = r.todo
           /\ \A g \in DOMAIN d.got : \/ d.got[g] = item[Subject(r)][g]
                                      \/ g \in DOMAIN r.got /\ d.got[g] = r.got[g]
<1>1. ArgSound(r) /\ OnScript(r) /\ GotSound(r)
  BY DEF RequestSound
<1>2. Subject(r) \in Asset
  BY <1>1, Moves
<1>3. item[Subject(r)] \in Item
  BY <1>2 DEF AssetsTypes, Minted
<1>4. PICK got : got = Answered(r.got, f, item[Subject(r)][f])
  OBVIOUS
<1>5. /\ DOMAIN got = DOMAIN r.got \cup {f} /\ got[f] = item[Subject(r)][f]
      /\ \A g \in DOMAIN r.got : got[g] = r.got[g]
  BY <1>4 DEF Answered
<1>6. DOMAIN r.got \subseteq Field /\ \A g \in DOMAIN r.got : r.got[g] \in Value
  <2>1. PICK D \in SUBSET Field : r.got \in [D -> Value]
    BY DEF Request
  <2> QED BY <2>1
<1>7. item[Subject(r)][f] \in Value
  BY <1>3 DEF Item, Field, Value
<1>8. got \in UNION {[D -> Value] : D \in SUBSET Field}
  <2>1. DOMAIN got \in SUBSET Field /\ \A g \in DOMAIN got : got[g] \in Value
    BY <1>5, <1>6, <1>7
  <2>2. got = [g \in DOMAIN got |-> got[g]]
    BY <1>4, <1>5 DEF Answered
  <2>3. got \in [DOMAIN got -> Value]
    BY <2>1, <2>2
  <2> QED BY <2>1, <2>3
<1>9. d = [r EXCEPT !.got = got]
  BY <1>4 DEF AnswerTo
<1>10. d \in Request
  BY <1>8, <1>9 DEF Request
<1>11. /\ d.op = r.op /\ d.asset = r.asset /\ d.arg = r.arg /\ d.todo = r.todo /\ d.got = got
       /\ d.visited = r.visited /\ d.alone = r.alone
  BY <1>9 DEF Request
<1>12. ArgSound(d) /\ OnScript(d) /\ Subject(d) = Subject(r)
  BY <1>1, <1>11 DEF ArgSound, OnScript, Written, Subject
<1>13. GotSound(d)
  <2>1. item[Subject(r)].holder \in Holder /\ item[Subject(r)].state \in State
          /\ item[Subject(r)].parent \in Asset \cup {Nothing}
    BY <1>3 DEF Item
  <2> QED BY <1>1, <1>5, <1>11, <1>12, <2>1 DEF GotSound
<1>14. ASSUME r.alone, Head(d.todo)[1] \in {"get", "walk", "submit"} PROVE Known(d)
  <2>1. Known(r) /\ AllRead(r)
    BY <1>11, <1>14 DEF RequestSound, Known
  <2>2. AllRead(d)
    BY <1>5, <1>11, <1>12, <2>1 DEF AllRead
  <2>3. UpTo(r, Subject(r)) => UpTo(d, Subject(d))
    BY <1>11, <1>12 DEF UpTo
  <2> QED BY <1>11, <1>12, <2>1, <2>2, <2>3 DEF Known
<1>15. RequestSound(d)
  BY <1>11, <1>12, <1>13, <1>14 DEF RequestSound
<1> QED BY <1>5, <1>10, <1>11, <1>15

\* A transaction that is mined writes one asset, which is there afterwards.
LEMMA ChainWrites ==
    ASSUME AssetsTypes, NEW r, r.asset \in Asset, ArgSound(r), ChainStep(r)
    PROVE  Written(r) \in Asset /\ \E n \in Item : item' = [item EXCEPT ![Written(r)] = n]
<1>0. item \in [Asset -> Item \cup {NoItem}]
  BY DEF AssetsTypes
<1>1. CASE r.op = "create" /\ Mint(r.asset, FirstHolder)
  <2>1. [holder |-> FirstHolder, state |-> "ACTIVE", parent |-> Nothing] \in Item
    BY AssetsAssumption DEF Item, State
  <2>2. Written(r) = r.asset
    BY <1>1 DEF Written
  <2> QED BY <1>1, <2>1, <2>2 DEF Mint
<1>2. CASE r.op = "transfer" /\ Transfer(r.asset, r.arg)
  <2>1. r.arg \in Holder /\ Written(r) = r.asset
    BY <1>2 DEF Written, ArgSound
  <2>2. item[r.asset] \in Item
    BY <1>0, <1>2 DEF Transfer, InService, Minted
  <2>3. [item[r.asset] EXCEPT !.holder = r.arg] \in Item
    BY <2>1, <2>2 DEF Item
  <2>4. item' = [item EXCEPT ![r.asset] = [item[r.asset] EXCEPT !.holder = r.arg]]
    BY <1>2 DEF Transfer
  <2> QED BY <2>1, <2>3, <2>4
<1>3. CASE r.op = "state" /\ ChangeState(r.asset, r.arg)
  <2>1. r.arg \in State /\ Written(r) = r.asset
    BY <1>3 DEF Written, ArgSound
  <2>2. item[r.asset] \in Item
    BY <1>0, <1>3 DEF ChangeState, InService, Minted
  <2>3. [item[r.asset] EXCEPT !.state = r.arg] \in Item
    BY <2>1, <2>2 DEF Item
  <2>4. item' = [item EXCEPT ![r.asset] = [item[r.asset] EXCEPT !.state = r.arg]]
    BY <1>3 DEF ChangeState
  <2> QED BY <2>1, <2>3, <2>4
<1>4. CASE r.op = "attach" /\ Attach(r.asset, r.arg)
  <2>1. r.arg \in Asset /\ Written(r) = r.arg
    BY <1>4 DEF Written, ArgSound
  <2>2. item[r.arg] \in Item
    BY <1>0, <1>4, <2>1 DEF Attach, InService, Minted
  <2>3. [item[r.arg] EXCEPT !.parent = r.asset] \in Item
    BY <2>1, <2>2 DEF Item
  <2>4. item' = [item EXCEPT ![r.arg] = [item[r.arg] EXCEPT !.parent = r.asset]]
    BY <1>4 DEF Attach
  <2> QED BY <2>1, <2>3, <2>4
<1>5. CASE r.op = "remove" /\ Remove(r.asset, r.arg)
  <2>1. r.arg \in Asset /\ Written(r) = r.arg
    BY <1>5 DEF Written, ArgSound
  <2>2. item[r.arg] \in Item
    BY <1>0, <1>5, <2>1 DEF Remove, Minted
  <2>3. [item[r.arg] EXCEPT !.parent = Nothing] \in Item
    BY <2>1, <2>2 DEF Item
  <2>4. item' = [item EXCEPT ![r.arg] = [item[r.arg] EXCEPT !.parent = Nothing]]
    BY <1>5 DEF Remove
  <2> QED BY <2>1, <2>3, <2>4
<1> QED BY <1>1, <1>2, <1>3, <1>4, <1>5 DEF ChainStep

\* What a transaction leaves of what another request knows.
LEMMA ToldSound ==
    ASSUME NEW q \in Request, RequestSound(q), NEW d \in Request,
           d.op = q.op, d.asset = q.asset, d.arg = q.arg, d.todo = q.todo, d.got = q.got,
           d.alone => Head(q.todo)[1] \in {"reconcile", "save"},
           \A a \in Asset : Minted(a) => Minted(a)'
    PROVE  RequestSound(d)'
<1>1. ArgSound(q) /\ OnScript(q) /\ GotSound(q)
  BY DEF RequestSound
<1>2. Subject(q) \in Asset
  BY <1>1, Moves
<1>3. ArgSound(d) /\ OnScript(d) /\ Subject(d) = Subject(q)
  BY <1>1 DEF ArgSound, OnScript, Written, Subject
<1>4. ArgSound(d)' /\ OnScript(d)'
  BY <1>3 DEF ArgSound, OnScript, Written, Read1, Read2, Walk, Read1Walk, Read2Walk, Mutate, Reconcile, Saving
<1>5. Head(d.todo)[1] \in {"reconcile", "save"} => Minted(Subject(d))'
  BY <1>1, <1>2, <1>3 DEF GotSound, Minted
<1>6. GotSound(d)'
  BY <1>1, <1>5 DEF GotSound, NoRead, Field, Subject, Minted
<1>7. ~(d.alone /\ Head(d.todo)[1] \in {"get", "walk", "submit"})
  OBVIOUS
<1> QED BY <1>4, <1>6, <1>7 DEF RequestSound

\* What a transaction changes in another request: that it is alone.
LEMMA ToldTyped ==
    ASSUME NEW t \in Slot, NEW q \in Request \cup {Idle}
    PROVE  /\ Told(q, t) \in Request \cup {Idle}
           /\ Told(q, t) = Idle <=> q = Idle
           /\ q # Idle => /\ Told(q, t) \in Request /\ Told(q, t).op = q.op /\ Told(q, t).asset = q.asset
                          /\ Told(q, t).arg = q.arg /\ Told(q, t).todo = q.todo /\ Told(q, t).got = q.got
                          /\ Told(q, t).alone => Unsaved(t, Subject(q))
<1>1. CASE q = Idle
  BY <1>1 DEF Told
<1>2. CASE q # Idle
  <2>1. q \in Request /\ (q.alone /\ Unsaved(t, Subject(q))) \in BOOLEAN
    BY <1>2 DEF Request
  <2>2. PICK b \in BOOLEAN : b = (q.alone /\ Unsaved(t, Subject(q)))
    BY <2>1
  <2>3. Told(q, t) = [q EXCEPT !.alone = b]
    BY <1>2, <2>2 DEF Told
  <2>4. Told(q, t) \in Request
    BY <2>1, <2>3 DEF Request
  <2>5. /\ Told(q, t).op = q.op /\ Told(q, t).asset = q.asset
        /\ Told(q, t).arg = q.arg /\ Told(q, t).todo = q.todo /\ Told(q, t).got = q.got
        /\ Told(q, t).alone = b
    BY <2>1, <2>3 DEF Request
  <2>6. Told(q, t) # Idle
    BY <2>4, IdleNot
  <2> QED BY <1>2, <2>2, <2>4, <2>5, <2>6
<1> QED BY <1>1, <1>2

\* A transaction is mined, of this backend's request in P or of nobody's here.
LEMMA Mined ==
    ASSUME AssetsInv, NEW a \in Asset, NEW n \in Item, item' = [item EXCEPT ![a] = n],
           row' = row, setting' = setting, excused' \in {excused, excused \cup {a}},
           NEW P \in SUBSET Slot, req' \in [Slot -> Request \cup {Idle}],
           \A t \in Slot \ P : req'[t] = Told(req[t], t),
           \A t \in P, r \in Request : req'[t] = r => RequestSound(r)',
           \A t \in P, b \in Asset : ~Writes(req[t], b),
           \A t \in P, b \in Asset : Writes(req'[t], b) => b = a /\ req'[t].got = NoRead,
           \/ a \in excused'
           \/ (\A t \in Slot \ P : ~Writes(req[t], a)) /\ \E s \in Slot : P = {s} /\ Writes(req'[s], a)
    PROVE  AssetsInv'
<1>0. /\ req \in [Slot -> Request \cup {Idle}] /\ item \in [Asset -> Item \cup {NoItem}]
      /\ excused \subseteq Asset
  BY DEF AssetsInv, AssetsTypes
<1>1. AssetsTypes'
  BY <1>0 DEF AssetsInv, AssetsTypes
<1>2. \A b \in Asset : Minted(b) => Minted(b)'
  <2>1. n # NoItem
    BY DEF Item, NoItem, State
  <2> QED BY <1>0, <2>1 DEF Minted
<1>3. RequestsSound'
  <2> SUFFICES ASSUME NEW t \in Slot, NEW r \in Request, req'[t] = r
               PROVE  RequestSound(r)'
    BY DEF RequestsSound
  <2>1. CASE t \in P
    BY <2>1
  <2>2. CASE t \notin P
    <3>1. req[t] \in Request \cup {Idle} /\ r = Told(req[t], t)
      BY <1>0, <2>2
    <3>2. req[t] # Idle
      BY <3>1, ToldTyped, IdleNot
    <3>3. PICK q \in Request : q = req[t]
      BY <3>1, <3>2
    <3>4. /\ r.op = q.op /\ r.asset = q.asset /\ r.arg = q.arg /\ r.todo = q.todo /\ r.got = q.got
          /\ r.alone => Unsaved(t, Subject(q))
      BY <3>1, <3>2, <3>3, ToldTyped
    <3>5. RequestSound(q)
      BY <3>3 DEF AssetsInv, RequestsSound
    <3>6. r.alone => Head(q.todo)[1] \in {"reconcile", "save"}
      BY <3>3, <3>4 DEF Unsaved, At
    <3> QED BY <1>2, <3>4, <3>5, <3>6, ToldSound
  <2> QED BY <2>1, <2>2
<1>4. RowsMinted'
  BY <1>2 DEF AssetsInv, RowsMinted
<1>5. ASSUME NEW t \in Slot \ P, NEW b \in Asset
      PROVE  (Writes(req'[t], b) <=> Writes(req[t], b)) /\ (Writes(req[t], b) => req'[t].got = req[t].got)
  <2>1. req[t] \in Request \cup {Idle} /\ req'[t] = Told(req[t], t)
    BY <1>0
  <2>2. CASE req[t] = Idle
    BY <2>1, <2>2, ToldTyped DEF Writes
  <2>3. CASE req[t] # Idle
    <3>1. req'[t] # Idle /\ req'[t].todo = req[t].todo /\ req'[t].got = req[t].got
      BY <2>1, <2>3, ToldTyped
    <3> QED BY <2>3, <3>1 DEF Writes, Subject
  <2> QED BY <2>2, <2>3
<1>6. Settled'
  <2> SUFFICES ASSUME NEW b \in Asset, b \notin excused'
               PROVE  /\ \A t \in Slot : Writes(req'[t], b) => \A f \in DOMAIN req'[t].got : req'[t].got[f] = item'[b][f]
                      /\ \A t, u \in Slot : Writes(req'[t], b) /\ Writes(req'[u], b) => t = u
                      /\ (\A t \in Slot : ~Writes(req'[t], b)) => row[b] = item'[b]
    BY DEF Settled, Writes, Subject
  <2>1. CASE b = a
    <3>1. PICK s \in Slot : P = {s} /\ Writes(req'[s], a)
      BY <2>1
    <3>2. \A t \in Slot \ P : ~Writes(req'[t], a)
      BY <1>5, <2>1
    <3>3. req'[s].got = NoRead /\ DOMAIN NoRead = {}
      BY <3>1 DEF NoRead
    <3> QED BY <2>1, <3>1, <3>2, <3>3
  <2>2. CASE b # a
    <3>0. b \notin excused
      BY <2>2
    <3>1. /\ \A t \in Slot : Writes(req[t], b) => \A f \in DOMAIN req[t].got : req[t].got[f] = item[b][f]
          /\ \A t, u \in Slot : Writes(req[t], b) /\ Writes(req[u], b) => t = u
          /\ (\A t \in Slot : ~Writes(req[t], b)) => row[b] = item[b]
      BY <3>0 DEF AssetsInv, Settled
    <3>2. item'[b] = item[b]
      BY <1>0, <2>2
    <3>3. \A t \in Slot : Writes(req'[t], b) <=> Writes(req[t], b)
      BY <1>5, <2>2
    <3>4. \A t \in Slot : Writes(req'[t], b) => req'[t].got = req[t].got
      BY <1>5, <2>2
    <3> QED BY <3>1, <3>2, <3>3, <3>4
  <2> QED BY <2>1, <2>2
<1> QED BY <1>1, <1>3, <1>4, <1>6 DEF AssetsInv

-----------------------------------------------------------------------------
(* The steps.                                                              *)

\* A request that stands at a step that is not after its write.
LEMMA Before ==
    ASSUME AssetsInv, NEW s \in Slot, NEW step, At(s, step)
    PROVE  \E r \in Request :
             /\ req[s] = r /\ RequestSound(r) /\ Head(r.todo)[1] = step /\ r.todo # <<>> /\ Subject(r) \in Asset
             /\ step \notin {"reconcile", "save"} => \A a \in Asset : ~Writes(req[s], a)
<1>1. PICK r \in Request : req[s] = r
  BY DEF AssetsInv, AssetsTypes, At
<1>2. RequestSound(r) /\ Head(r.todo)[1] = step
  BY <1>1 DEF AssetsInv, RequestsSound, At
<1>3. r.todo # <<>> /\ Subject(r) \in Asset
  BY <1>2, Moves DEF RequestSound
<1>4. step \notin {"reconcile", "save"} => \A a \in Asset : ~Writes(req[s], a)
  BY <1>1, <1>2 DEF Writes
<1> QED BY <1>1, <1>2, <1>3, <1>4

\* The end of a request that has written nothing.
LEMMA FinishQuiet ==
    ASSUME AssetsInv, NEW s \in Slot, Finish(s), setting' = setting, UNCHANGED <<item, row, excused>>,
           \A a \in Asset : ~Writes(req[s], a)
    PROVE  AssetsInv'
<1>1. \A a \in Asset : ~Writes(Idle, a)
  BY DEF Writes
<1>2. PICK d : d = Idle
  OBVIOUS
<1>3. req' = [req EXCEPT ![s] = d]
  BY <1>2 DEF Finish
<1>4. ReadsOn(d, req[s])
  BY <1>1, <1>2 DEF ReadsOn
<1> QED BY <1>1, <1>2, <1>3, <1>4, Advance

\* A step of a request on to another that does not come after its write.
LEMMA PassQuiet ==
    ASSUME AssetsInv, NEW s \in Slot, NEW d \in Request, RequestSound(d),
           Head(d.todo)[1] \in {"get", "walk", "submit"},
           req' = [req EXCEPT ![s] = d], setting' = setting, UNCHANGED <<item, row, excused>>,
           \A a \in Asset : ~Writes(req[s], a)
    PROVE  AssetsInv'
<1>1. \A a \in Asset : ~Writes(d, a)
  BY DEF Writes
<1>2. ReadsOn(d, req[s])
  BY <1>1 DEF ReadsOn
<1> QED BY <1>1, <1>2, Advance

\* A request begins.
LEMMA ArriveStep ==
    ASSUME AssetsInv, NEW s \in Slot, Arrive(s), setting' = setting
    PROVE  AssetsInv'
<1>1. PICK op \in setting.ops, a \in setting.assets : \E arg \in Argument(op, a) : Begin(s, op, a, arg)
  BY DEF Arrive
<1>2. PICK arg \in Argument(op, a) : Begin(s, op, a, arg)
  BY <1>1
<1>3. /\ setting.assets \subseteq Asset
      /\ setting.ops \subseteq {"get", "create", "transfer", "state", "attach", "remove"}
  BY AssetsAssumption DEF AssetsInv, AssetsTypes
<1>4. a \in Asset /\ op \in {"get", "create", "transfer", "state", "attach", "remove"}
  BY <1>3
<1>5. PICK todo : todo = Script(op, a, arg)
  OBVIOUS
<1>6. PICK d : d = [op |-> op, asset |-> a, arg |-> arg, todo |-> todo,
                    got |-> NoRead, visited |-> {}, alone |-> TRUE]
  OBVIOUS
<1>7. /\ arg \in Value
      /\ op = "get" => arg = Nothing
      /\ op = "create" => arg \in (Asset \ {a}) \cup {Nothing}
      /\ op = "transfer" => arg \in Holder
      /\ op = "state" => arg \in State
      /\ op \in {"attach", "remove"} => arg \in Asset \ {a}
  BY <1>3, <1>4 DEF Argument, Value
<1>8. /\ \/ op = "get" /\ todo = <<<<"get", a>>>>
         \/ op = "create" /\ arg = Nothing /\ todo = Read1(a, a)
         \/ op = "create" /\ arg # Nothing /\ todo = Read2(a, arg, a)
         \/ op \in {"transfer", "state"} /\ todo = Read1(a, a)
         \/ op = "attach" /\ todo = Read2Walk(a, arg, arg)
         \/ op = "remove" /\ todo = Read2(a, arg, arg)
      /\ todo \in Seq(Access)
  <2>1. CASE op = "get"
    BY <1>4, <1>5, <1>7, <2>1, Scripts, ShapesTyped
  <2>2. CASE op = "create" /\ arg = Nothing
    BY <1>4, <1>5, <2>2, Scripts, ShapesTyped
  <2>3. CASE op = "create" /\ arg # Nothing
    <3>1. arg \in Asset
      BY <1>7, <2>3
    <3>2. todo = Read2(a, arg, a)
      BY <1>4, <1>5, <2>3, <3>1, Scripts
    <3> QED BY <1>4, <2>3, <3>1, <3>2, ShapesTyped
  <2>4. CASE op \in {"transfer", "state"}
    <3>1. todo = Read1(a, a)
      BY <1>4, <1>5, <2>4, Scripts
    <3> QED BY <1>4, <2>4, <3>1, ShapesTyped
  <2>5. CASE op = "attach"
    <3>1. arg \in Asset
      BY <1>7, <2>5
    <3>2. todo = Read2Walk(a, arg, arg)
      BY <1>4, <1>5, <2>5, <3>1, Scripts
    <3> QED BY <1>4, <2>5, <3>1, <3>2, ShapesTyped
  <2>6. CASE op = "remove"
    <3>1. arg \in Asset
      BY <1>7, <2>6
    <3>2. todo = Read2(a, arg, arg)
      BY <1>4, <1>5, <2>6, <3>1, Scripts
    <3> QED BY <1>4, <2>6, <3>1, <3>2, ShapesTyped
  <2> QED BY <1>4, <2>1, <2>2, <2>3, <2>4, <2>5, <2>6
<1>9. NoRead \in UNION {[D -> Value] : D \in SUBSET Field}
  <2>1. NoRead \in [{} -> Value] /\ {} \in SUBSET Field
    BY DEF NoRead
  <2> QED BY <2>1
<1>10. d \in Request
  BY <1>4, <1>6, <1>7, <1>8, <1>9 DEF Request
<1>11. /\ d.op = op /\ d.asset = a /\ d.arg = arg /\ d.todo = todo /\ d.got = NoRead /\ d.visited = {}
  BY <1>6
<1>12. ArgSound(d)
  BY <1>7, <1>11 DEF ArgSound
<1>13. OnScript(d)
  BY <1>8, <1>11 DEF OnScript
<1>14. Head(d.todo) = <<"get", a>>
  <2>1. Head(todo) = <<"get", a>>
    BY <1>8 DEF Read1, Read2, Read2Walk
  <2> QED BY <1>11, <2>1
<1>15. Head(d.todo)[1] = "get" /\ Subject(d) = a
  BY <1>14, HeadOf, Zenon
<1>16. Known(d)
  <2>1. AllRead(d)
    BY <1>11 DEF AllRead, NoRead
  <2>2. a # arg \/ op \notin {"create", "attach"}
    BY <1>4, <1>7, AssetsAssumption
  <2> QED BY <1>11, <1>15, <2>1, <2>2 DEF Known
<1>17. RequestSound(d)
  BY <1>10, <1>11, <1>12, <1>13, <1>15, <1>16, FreshSound
<1>18. req' = [req EXCEPT ![s] = d] /\ UNCHANGED <<item, row, excused>>
  BY <1>2, <1>5, <1>6 DEF Begin
<1>19. \A b \in Asset : ~Writes(req[s], b)
  BY DEF Writes, Arrive
<1> QED BY <1>10, <1>15, <1>17, <1>18, <1>19, PassQuiet

\* getAsset: what a request after its write reads is what the chain says now.
LEMMA GetAssetStep ==
    ASSUME AssetsInv, NEW s \in Slot, GetAsset(s), setting' = setting
    PROVE  AssetsInv'
<1>1. PICK step \in {"get", "walk", "reconcile"} : At(s, step)
  BY DEF GetAsset, Reading
<1>2. PICK r \in Request : /\ req[s] = r /\ RequestSound(r) /\ Head(r.todo)[1] = step
                           /\ Subject(r) \in Asset
  BY <1>1, Before
<1>3. PICK f \in Field \ DOMAIN r.got :
        req' = [req EXCEPT ![s].got = Answered(@, f, item[Subject(r)][f])]
  BY <1>2 DEF GetAsset
<1>4. PICK d : d = AnswerTo(r, f)
  OBVIOUS
<1>5. req' = [req EXCEPT ![s] = d]
  BY <1>2, <1>3, <1>4 DEF AnswerTo
<1>6. Minted(Subject(r)) /\ AssetsTypes /\ UNCHANGED <<item, row, excused>>
  BY <1>2 DEF GetAsset, AssetsInv
<1>7. /\ d \in Request /\ RequestSound(d) /\ d.todo = r.todo
      /\ \A g \in DOMAIN d.got : \/ d.got[g] = item[Subject(r)][g]
                                 \/ g \in DOMAIN r.got /\ d.got[g] = r.got[g]
  <2>1. Head(r.todo)[1] \in {"get", "walk", "reconcile"}
    BY <1>1, <1>2
  <2> QED BY <1>2, <1>4, <1>6, <2>1, Answer
<1>8. d # Idle /\ r # Idle
  BY <1>7, IdleNot
<1>9. \A a \in Asset : Writes(d, a) <=> Writes(req[s], a)
  BY <1>2, <1>7, <1>8 DEF Writes, Subject
<1>10. ReadsOn(d, req[s])
  <2>1. \A a \in Asset : Writes(d, a) => a = Subject(r)
    BY <1>7 DEF Writes, Subject
  <2> QED BY <1>2, <1>7, <2>1 DEF ReadsOn
<1>11. d = Idle \/ (d \in Request /\ RequestSound(d))
  BY <1>7
<1>12. item' = item /\ row' = row /\ excused' = excused
  BY <1>6
<1> QED BY <1>5, <1>9, <1>10, <1>11, <1>12, Advance

\* getById is over, with an asset or without one.
LEMMA ReadStep ==
    ASSUME AssetsInv, NEW s \in Slot, GetAssetNull(s) \/ GetById(s), setting' = setting
    PROVE  AssetsInv'
<1>1. At(s, "get") /\ UNCHANGED <<item, row, excused>> /\ AssetsTypes
  BY DEF GetAssetNull, GetById, AssetsInv
<1>2. PICK r \in Request : /\ req[s] = r /\ RequestSound(r) /\ Head(r.todo)[1] = "get" /\ r.todo # <<>>
                           /\ \A a \in Asset : ~Writes(req[s], a)
  BY <1>1, Before
<1>3. CASE Finish(s)
  BY <1>1, <1>2, <1>3, FinishQuiet
<1>4. CASE /\ \/ DOMAIN r.got = Field /\ Allowed(r) /\ Len(r.todo) > 1
              \/ ~Minted(Subject(r)) /\ r.op = "create" /\ Subject(r) = r.asset
           /\ Pass(s)
  <2>1. PICK d : d = [r EXCEPT !.todo = Tail(@), !.got = NoRead]
    OBVIOUS
  <2>2. d \in Request
    BY <1>2, <2>1, Passed
  <2>3. /\ d.op = r.op /\ d.asset = r.asset /\ d.arg = r.arg /\ d.todo = Tail(r.todo)
        /\ d.got = NoRead /\ d.visited = r.visited /\ d.alone = r.alone
    BY <2>1 DEF Request
  <2>4. RequestSound(d) /\ Head(d.todo)[1] \in {"get", "walk", "submit"}
    BY <1>1, <1>2, <1>4, <2>2, <2>3, GetDone
  <2>5. req' = [req EXCEPT ![s] = d]
    BY <1>2, <1>4, <2>1 DEF Pass
  <2> QED BY <1>1, <1>2, <2>2, <2>4, <2>5, PassQuiet
<1> QED BY <1>2, <1>3, <1>4 DEF GetAssetNull, GetById

\* assertNoCycle.
LEMMA WalkStep ==
    ASSUME AssetsInv, NEW s \in Slot, AssertNoCycle(s), setting' = setting
    PROVE  AssetsInv'
<1>1. At(s, "walk") /\ UNCHANGED <<item, row, excused>> /\ AssetsTypes
  BY DEF AssertNoCycle, AssetsInv
<1>2. PICK r \in Request : /\ req[s] = r /\ RequestSound(r) /\ Head(r.todo)[1] = "walk" /\ r.todo # <<>>
                           /\ \A a \in Asset : ~Writes(req[s], a)
  BY <1>1, Before
<1>3. CASE Finish(s)
  BY <1>1, <1>2, <1>3, FinishQuiet
<1>a. r.arg # Nothing
  <2>1. r.op = "attach" /\ ArgSound(r)
    BY <1>2, Moves DEF RequestSound, WalkMoves
  <2> QED BY <2>1, AssetsAssumption DEF ArgSound
<1>0. DOMAIN r.got = Field
  BY <1>2 DEF AssertNoCycle
<1>4. CASE r.got.parent = Nothing
  <2>1. PICK d : d = [r EXCEPT !.todo = Tail(@), !.got = NoRead, !.visited = {}]
    OBVIOUS
  <2>2. d \in Request
    BY <1>2, <2>1, Passed
  <2>3. /\ d.op = r.op /\ d.asset = r.asset /\ d.arg = r.arg /\ d.todo = Tail(r.todo)
        /\ d.got = NoRead /\ d.visited = {} /\ d.alone = r.alone
    BY <2>1 DEF Request
  <2>4. RequestSound(d) /\ Head(d.todo)[1] = "submit"
    BY <1>0, <1>1, <1>2, <1>4, <2>2, <2>3, WalkDone
  <2>5. req' = [req EXCEPT ![s] = d]
    <3>1. req' = [req EXCEPT ![s].todo = Tail(@), ![s].got = NoRead, ![s].visited = {}]
      BY <1>2, <1>4, <1>a DEF AssertNoCycle
    <3> QED BY <1>2, <2>1, <3>1
  <2> QED BY <1>1, <1>2, <2>2, <2>4, <2>5, PassQuiet
<1>5. CASE /\ r.got.parent # Nothing /\ r.got.parent # r.arg
           /\ req' = [req EXCEPT ![s].todo = <<<<"walk", r.got.parent>>>> \o Tail(@),
                                 ![s].visited = @ \cup {Subject(r)}, ![s].got = NoRead]
  <2>1. PICK d : d = [r EXCEPT !.todo = <<<<"walk", r.got.parent>>>> \o Tail(@),
                               !.visited = @ \cup {Subject(r)}, !.got = NoRead]
    OBVIOUS
  <2>2. d \in Request /\ RequestSound(d) /\ Head(d.todo)[1] = "walk"
    BY <1>0, <1>1, <1>2, <1>5, <2>1, WalkOn
  <2>3. req' = [req EXCEPT ![s] = d]
    BY <1>2, <1>5, <2>1
  <2> QED BY <1>1, <1>2, <2>2, <2>3, PassQuiet
<1> QED BY <1>2, <1>3, <1>4, <1>5 DEF AssertNoCycle

\* prepare() and a reverted transaction write nothing.
LEMMA DropStep ==
    ASSUME AssetsInv, NEW s \in Slot, Prepare(s) \/ Revert(s), setting' = setting
    PROVE  AssetsInv'
<1>1. At(s, "submit") /\ UNCHANGED <<item, row, excused>> /\ Finish(s)
  BY DEF Prepare, Revert
<1>2. \A a \in Asset : ~Writes(req[s], a)
  BY <1>1, Before
<1> QED BY <1>1, <1>2, FinishQuiet

\* The request that has written knows nothing more of the chain.
LEMMA SubmitStep ==
    ASSUME AssetsInv, NEW s \in Slot, Submit(s), setting' = setting
    PROVE  AssetsInv'
<1>1. At(s, "submit") /\ AssetsTypes
  BY DEF Submit, AssetsInv
<1>2. PICK r \in Request : /\ req[s] = r /\ RequestSound(r) /\ Head(r.todo)[1] = "submit" /\ r.todo # <<>>
                           /\ Subject(r) \in Asset /\ \A a \in Asset : ~Writes(req[s], a)
  BY <1>1, Before
<1>3. ArgSound(r) /\ OnScript(r) /\ GotSound(r)
  BY <1>2 DEF RequestSound
<1>4. /\ r.op # "get" /\ Subject(r) = Written(r) /\ Tail(r.todo) = Reconcile(Written(r))
      /\ r.got = NoRead /\ r.asset \in Asset
  BY <1>2, <1>3, Moves DEF WriteMoves, GotSound, Request
<1>5. PICK a \in Asset : a = Written(r)
  BY <1>2, <1>4
<1>6. PICK n \in Item : item' = [item EXCEPT ![a] = n]
  <2>1. ChainStep(r)
    BY <1>2 DEF Submit
  <2> QED BY <1>1, <1>3, <1>4, <1>5, <2>1, ChainWrites
<1>7. PICK received \in BOOLEAN :
        /\ req' = [t \in Slot |->
                     IF t # s THEN Told(req[t], t)
                     ELSE IF received THEN [r EXCEPT !.todo = Tail(@), !.alone = TRUE] ELSE Idle]
        /\ excused' = IF ~received \/ \E t \in Slot \ {s} : Unsaved(t, a)
                      THEN excused \cup {a} ELSE excused
  BY <1>2, <1>5 DEF Submit
<1>8. PICK d : d = [r EXCEPT !.todo = Tail(@), !.alone = TRUE]
  OBVIOUS
<1>9. d \in Request
  BY <1>2, <1>8, Passed
<1>10. d.op = r.op /\ d.asset = r.asset /\ d.arg = r.arg /\ d.todo = Reconcile(a) /\ d.got = NoRead
  BY <1>4, <1>5, <1>8 DEF Request
<1>11. Head(d.todo)[1] = "reconcile" /\ Subject(d) = a
  <2>1. Head(Reconcile(a)) = <<"reconcile", a>>
    BY DEF Reconcile
  <2>2. Head(d.todo) = <<"reconcile", a>>
    BY <1>10, <2>1
  <2> QED BY <2>2, HeadOf, Zenon
<1>12. RequestSound(d)'
  <2>1. ArgSound(d) /\ OnScript(d)
    BY <1>3, <1>4, <1>5, <1>10 DEF ArgSound, OnScript, Written
  <2>2. ArgSound(d)' /\ OnScript(d)'
    BY <2>1 DEF ArgSound, OnScript, Written, Read1, Read2, Walk, Read1Walk, Read2Walk, Mutate, Reconcile, Saving
  <2>3. Minted(a)'
    <3>1. n # NoItem
      BY DEF Item, NoItem, State
    <3> QED BY <1>1, <1>6, <3>1 DEF Minted, AssetsTypes
  <2>4. Minted(Subject(d))'
    BY <1>11, <2>3 DEF Minted, Subject
  <2>5. GotSound(d)'
    BY <1>10, <1>11, <2>4 DEF GotSound, NoRead, Subject
  <2> QED BY <1>11, <2>2, <2>5 DEF RequestSound
<1>13. /\ \A t \in Slot \ {s} : req'[t] = Told(req[t], t)
       /\ req'[s] \in {d, Idle} /\ (received => req'[s] = d)
  BY <1>7, <1>8
<1>14. req \in [Slot -> Request \cup {Idle}]
  BY <1>1 DEF AssetsTypes
<1>15. req' \in [Slot -> Request \cup {Idle}]
  <2>1. \A t \in Slot : req'[t] \in Request \cup {Idle}
    BY <1>9, <1>13, <1>14, ToldTyped
  <2>2. req' = [t \in Slot |-> req'[t]]
    BY <1>7
  <2> QED BY <2>1, <2>2
<1>16. \A t \in {s}, q \in Request : req'[t] = q => RequestSound(q)'
  BY <1>12, <1>13, IdleNot
<1>17. \A t \in {s}, b \in Asset : Writes(req'[t], b) => b = a /\ req'[t].got = NoRead
  BY <1>10, <1>11, <1>13 DEF Writes
<1>18. \/ a \in excused'
       \/ (\A t \in Slot \ {s} : ~Writes(req[t], a)) /\ \E u \in Slot : {s} = {u} /\ Writes(req'[u], a)
  <2> SUFFICES ASSUME a \notin excused'
               PROVE  (\A t \in Slot \ {s} : ~Writes(req[t], a)) /\ Writes(req'[s], a)
    OBVIOUS
  <2>1. received /\ \A t \in Slot \ {s} : ~Unsaved(t, a)
    BY <1>7
  <2>2. \A t \in Slot \ {s} : ~Writes(req[t], a)
    BY <2>1, UnsavedWrites
  <2>3. d # Idle
    BY <1>9, IdleNot
  <2> QED BY <1>11, <1>13, <2>1, <2>2, <2>3 DEF Writes
<1>19. excused' \in {excused, excused \cup {a}}
  BY <1>7
<1>20. PICK P \in SUBSET Slot : P = {s}
  OBVIOUS
<1>21. row' = row
  BY DEF Submit
<1>22. \A t \in P, b \in Asset : ~Writes(req[t], b)
  BY <1>2, <1>20
<1> QED BY <1>6, <1>13, <1>15, <1>16, <1>17, <1>18, <1>19, <1>20, <1>21, <1>22, Mined

\* A transaction past this backend: the row is excused.
LEMMA ForeignStep ==
    ASSUME AssetsInv, ForeignWrite, setting' = setting
    PROVE  AssetsInv'
<1>1. PICK op \in setting.foreign, b \in setting.assets :
        \E arg \in Argument(op, b) :
          LET r == [op |-> op, asset |-> b, arg |-> arg] a == Written(r) IN
          /\ ChainStep(r)
          /\ req' = [t \in Slot |-> Told(req[t], t)]
          /\ excused' = excused \cup {a}
          /\ UNCHANGED row
  BY DEF ForeignWrite
<1>2. PICK arg \in Argument(op, b) :
        /\ ChainStep([op |-> op, asset |-> b, arg |-> arg])
        /\ req' = [t \in Slot |-> Told(req[t], t)]
        /\ excused' = excused \cup {Written([op |-> op, asset |-> b, arg |-> arg])}
        /\ UNCHANGED row
  BY <1>1
<1>3. PICK r : r = [op |-> op, asset |-> b, arg |-> arg]
  OBVIOUS
<1>4. /\ setting.assets \subseteq Asset
      /\ setting.foreign \subseteq {"transfer", "state", "attach", "remove"}
  BY AssetsAssumption DEF AssetsInv, AssetsTypes
<1>5. b \in Asset /\ op \in {"transfer", "state", "attach", "remove"}
  BY <1>4
<1>6. /\ op = "transfer" => arg \in Holder
      /\ op = "state" => arg \in State
      /\ op \in {"attach", "remove"} => arg \in Asset \ {b}
  BY <1>4, <1>5 DEF Argument
<1>7. ArgSound(r) /\ r.asset \in Asset
  BY <1>3, <1>5, <1>6 DEF ArgSound
<1>8. AssetsTypes /\ req \in [Slot -> Request \cup {Idle}]
  BY DEF AssetsInv, AssetsTypes
<1>9. ChainStep(r) /\ excused' = excused \cup {Written(r)}
  BY <1>2, <1>3
<1>10. PICK a \in Asset : a = Written(r)
  BY <1>7, <1>8, <1>9, ChainWrites
<1>11. PICK n \in Item : item' = [item EXCEPT ![a] = n]
  BY <1>7, <1>8, <1>9, <1>10, ChainWrites
<1>12. \A t \in Slot \ {} : req'[t] = Told(req[t], t)
  BY <1>2
<1>13. req' \in [Slot -> Request \cup {Idle}]
  <2>1. \A t \in Slot : req'[t] \in Request \cup {Idle}
    BY <1>8, <1>12, ToldTyped
  <2>2. req' = [t \in Slot |-> req'[t]]
    BY <1>2
  <2> QED BY <2>1, <2>2
<1>14. PICK P \in SUBSET Slot : P = {}
  OBVIOUS
<1>15. excused' \in {excused, excused \cup {a}} /\ a \in excused' /\ row' = row
  BY <1>2, <1>9, <1>10
<1> QED BY <1>11, <1>12, <1>13, <1>14, <1>15, Mined

\* reconcileAfterWrite keeps what was read back.
LEMMA ReconcileStep ==
    ASSUME AssetsInv, NEW s \in Slot, ReconcileAfterWrite(s), setting' = setting
    PROVE  AssetsInv'
<1>1. At(s, "reconcile") /\ AssetsTypes
  BY DEF ReconcileAfterWrite, AssetsInv
<1>2. PICK r \in Request : /\ req[s] = r /\ RequestSound(r) /\ Head(r.todo)[1] = "reconcile" /\ r.todo # <<>>
                           /\ Subject(r) \in Asset
  BY <1>1, Before
<1>3. ArgSound(r) /\ OnScript(r) /\ GotSound(r)
  BY <1>2 DEF RequestSound
<1>4. PICK a \in Asset : a = Subject(r) /\ a = Written(r) /\ Tail(r.todo) = Saving(a) /\ r.op # "get"
  BY <1>2, <1>3, Moves DEF WriteMoves
<1>5. PICK d : d = [r EXCEPT !.todo = Tail(@)]
  OBVIOUS
<1>6. d \in Request
  BY <1>2, <1>5, Passed
<1>7. d.op = r.op /\ d.asset = r.asset /\ d.arg = r.arg /\ d.todo = Saving(a) /\ d.got = r.got
  BY <1>4, <1>5 DEF Request
<1>8. Head(d.todo)[1] = "save" /\ Subject(d) = a
  <2>1. Head(Saving(a)) = <<"save", a>>
    BY DEF Saving
  <2>2. Head(d.todo) = <<"save", a>>
    BY <1>7, <2>1
  <2> QED BY <2>2, HeadOf, Zenon
<1>9. RequestSound(d)
  <2>1. ArgSound(d) /\ OnScript(d)
    BY <1>3, <1>4, <1>7 DEF ArgSound, OnScript, Written
  <2>2. DOMAIN r.got = Field /\ Minted(a)
    BY <1>2, <1>3, <1>4 DEF ReconcileAfterWrite, GotSound
  <2>3. GotSound(d)
    BY <1>3, <1>7, <1>8, <2>2 DEF GotSound
  <2> QED BY <1>8, <2>1, <2>3 DEF RequestSound
<1>10. d # Idle /\ r # Idle
  BY <1>6, IdleNot
<1>11. \A b \in Asset : Writes(d, b) <=> Writes(req[s], b)
  BY <1>2, <1>4, <1>8, <1>10 DEF Writes
<1>12. ReadsOn(d, req[s])
  BY <1>2, <1>7 DEF ReadsOn
<1>13. req' = [req EXCEPT ![s] = d] /\ item' = item /\ row' = row /\ excused' = excused
  BY <1>2, <1>5 DEF ReconcileAfterWrite
<1> QED BY <1>6, <1>9, <1>11, <1>12, <1>13, Advance

\* repository.save: without an excuse what is saved is what the chain says, and
\* no other request has the asset to save.
LEMMA SaveStep ==
    ASSUME AssetsInv, NEW s \in Slot, Save(s), setting' = setting
    PROVE  AssetsInv'
<1>1. At(s, "save") /\ AssetsTypes
  BY DEF Save, AssetsInv
<1>2. PICK r \in Request : /\ req[s] = r /\ RequestSound(r) /\ Head(r.todo)[1] = "save" /\ Subject(r) \in Asset
  BY <1>1, Before
<1>3. PICK a \in Asset : a = Subject(r)
  BY <1>2
<1>4. /\ row' = [row EXCEPT ![a] = r.got] /\ req' = [req EXCEPT ![s] = Idle]
      /\ item' = item /\ excused' = excused
  BY <1>2, <1>3 DEF Save, Finish
<1>5. /\ GotSound(r) /\ DOMAIN r.got = Field /\ Minted(a)
      /\ r.got = [f \in Field |-> r.got[f]]
  <2>1. GotSound(r) /\ DOMAIN r.got = Field /\ Minted(a)
    BY <1>2, <1>3 DEF RequestSound, GotSound
  <2>2. PICK D \in SUBSET Field : r.got \in [D -> Value]
    BY DEF Request
  <2> QED BY <2>1, <2>2
<1>6. r.got \in Item
  <2>1. r.got["holder"] \in Holder /\ r.got["state"] \in State /\ r.got["parent"] \in Asset \cup {Nothing}
    BY <1>5 DEF GotSound, Field
  <2> QED BY <1>5, <2>1 DEF Item, Field
<1>7. AssetsTypes'
  BY <1>1, <1>4, <1>6 DEF AssetsTypes
<1>8. req \in [Slot -> Request \cup {Idle}] /\ row \in [Asset -> Item \cup {NoItem}]
  BY <1>1 DEF AssetsTypes
<1>9. RequestsSound'
  <2> SUFFICES ASSUME NEW t \in Slot, NEW q \in Request, req'[t] = q
               PROVE  RequestSound(q)'
    BY DEF RequestsSound
  <2>1. t # s
    BY <1>4, <1>8, IdleNot
  <2>2. RequestSound(q)
    BY <1>4, <1>8, <2>1 DEF AssetsInv, RequestsSound
  <2> QED BY <1>4, <2>2, SoundStays
<1>10. RowsMinted'
  BY <1>4, <1>5, <1>8 DEF AssetsInv, RowsMinted, Minted
<1>11. Writes(req[s], a) /\ \A b \in Asset : Writes(req[s], b) => b = a
  BY <1>1, <1>2, <1>3 DEF Writes, At
<1>12. Settled'
  <2> SUFFICES ASSUME NEW b \in Asset, b \notin excused
               PROVE  /\ \A t \in Slot : Writes(req'[t], b) => \A f \in DOMAIN req'[t].got : req'[t].got[f] = item[b][f]
                      /\ \A t, u \in Slot : Writes(req'[t], b) /\ Writes(req'[u], b) => t = u
                      /\ (\A t \in Slot : ~Writes(req'[t], b)) => row'[b] = item[b]
    BY <1>4 DEF Settled, Writes, Subject
  <2>1. /\ \A t \in Slot : Writes(req[t], b) => \A f \in DOMAIN req[t].got : req[t].got[f] = item[b][f]
        /\ \A t, u \in Slot : Writes(req[t], b) /\ Writes(req[u], b) => t = u
        /\ (\A t \in Slot : ~Writes(req[t], b)) => row[b] = item[b]
    BY DEF AssetsInv, Settled
  <2>2. req'[s] = Idle /\ \A t \in Slot : t # s => req'[t] = req[t]
    BY <1>4, <1>8
  <2>3. ~Writes(req'[s], b)
    BY <2>2 DEF Writes
  <2>4. CASE b = a
    <3>1. \A f \in Field : r.got[f] = item[a][f]
      BY <1>2, <1>5, <1>11, <2>1, <2>4
    <3>2. item[a] \in Item
      BY <1>1, <1>5 DEF AssetsTypes, Minted
    <3>3. r.got = item[a]
      <4>1. item[a] = [f \in Field |-> item[a][f]]
        BY <3>2 DEF Item, Field
      <4> QED BY <1>5, <3>1, <4>1
    <3>4. row'[a] = item[a]
      BY <1>4, <1>8, <3>3
    <3>5. \A t \in Slot : ~Writes(req'[t], a)
      BY <1>11, <2>1, <2>2, <2>3, <2>4
    <3> QED BY <2>4, <3>4, <3>5
  <2>5. CASE b # a
    <3>1. row'[b] = row[b]
      BY <1>4, <1>8, <2>5
    <3>2. \A t \in Slot : Writes(req'[t], b) <=> Writes(req[t], b)
      BY <1>11, <2>2, <2>3, <2>5
    <3> QED BY <2>1, <2>2, <2>3, <3>1, <3>2
  <2> QED BY <2>4, <2>5
<1> QED BY <1>7, <1>9, <1>10, <1>12 DEF AssetsInv

\* A request that ends after its write leaves an excuse for the row.
LEMMA AbandonStep ==
    ASSUME AssetsInv, NEW s \in Slot, Abandon(s), setting' = setting
    PROVE  AssetsInv'
<1>1. /\ req' = [req EXCEPT ![s] = Idle] /\ item' = item /\ row' = row /\ req[s] # Idle
      /\ excused' = IF Unsaved(s, Written(req[s])) THEN excused \cup {Written(req[s])} ELSE excused
  BY DEF Abandon, Finish
<1>2. AssetsTypes /\ req \in [Slot -> Request \cup {Idle}]
  BY DEF AssetsInv, AssetsTypes
<1>3. PICK r \in Request : r = req[s]
  BY <1>1, <1>2
<1>4. ArgSound(r) /\ OnScript(r) /\ RequestSound(r)
  BY <1>3 DEF AssetsInv, RequestsSound, RequestSound
<1>5. Written(r) \in Asset \/ ~Unsaved(s, Written(r))
  <2>1. Subject(r) \in Asset
    BY <1>4, Moves
  <2> QED BY <1>3, <2>1 DEF Unsaved
<1>6. \A a \in Asset : Writes(req[s], a) => a \in excused'
  <2> SUFFICES ASSUME NEW a \in Asset, Writes(req[s], a) PROVE a \in excused'
    OBVIOUS
  <2>1. Head(r.todo)[1] \in {"reconcile", "save"} /\ Subject(r) = a
    BY <1>3 DEF Writes
  <2>2. Written(r) = a
    BY <1>4, <2>1, Moves DEF WriteMoves
  <2>3. Unsaved(s, a)
    BY UnsavedWrites
  <2> QED BY <1>1, <1>3, <2>2, <2>3
<1>7. excused \subseteq excused' /\ excused' \subseteq Asset
  BY <1>1, <1>2, <1>3, <1>5 DEF AssetsTypes
<1>8. AssetsTypes'
  BY <1>1, <1>2, <1>7 DEF AssetsTypes
<1>9. RequestsSound'
  <2> SUFFICES ASSUME NEW t \in Slot, NEW q \in Request, req'[t] = q
               PROVE  RequestSound(q)'
    BY DEF RequestsSound
  <2>1. t # s
    BY <1>1, <1>2, IdleNot
  <2>2. RequestSound(q)
    BY <1>1, <1>2, <2>1 DEF AssetsInv, RequestsSound
  <2> QED BY <1>1, <2>2, SoundStays
<1>10. RowsMinted'
  BY <1>1 DEF AssetsInv, RowsMinted, Minted
<1>11. Settled'
  <2> SUFFICES ASSUME NEW b \in Asset, b \notin excused'
               PROVE  /\ \A t \in Slot : Writes(req'[t], b) => \A f \in DOMAIN req'[t].got : req'[t].got[f] = item[b][f]
                      /\ \A t, u \in Slot : Writes(req'[t], b) /\ Writes(req'[u], b) => t = u
                      /\ (\A t \in Slot : ~Writes(req'[t], b)) => row[b] = item[b]
    BY <1>1 DEF Settled, Writes, Subject
  <2>1. /\ \A t \in Slot : Writes(req[t], b) => \A f \in DOMAIN req[t].got : req[t].got[f] = item[b][f]
        /\ \A t, u \in Slot : Writes(req[t], b) /\ Writes(req[u], b) => t = u
        /\ (\A t \in Slot : ~Writes(req[t], b)) => row[b] = item[b]
    BY <1>7 DEF AssetsInv, Settled
  <2>2. req'[s] = Idle /\ \A t \in Slot : t # s => req'[t] = req[t]
    BY <1>1, <1>2
  <2>3. ~Writes(req'[s], b) /\ ~Writes(req[s], b)
    BY <1>6, <2>2 DEF Writes
  <2>4. \A t \in Slot : Writes(req'[t], b) <=> Writes(req[t], b)
    BY <2>2, <2>3
  <2> QED BY <2>1, <2>2, <2>3, <2>4
<1> QED BY <1>8, <1>9, <1>10, <1>11 DEF AssetsInv

\* The invariant holds at the beginning ...
LEMMA AssetsInitHolds ==
    ASSUME AssetsInit PROVE AssetsInv
<1>1. [holder |-> FirstHolder, state |-> "ACTIVE", parent |-> Nothing] \in Item
  BY AssetsAssumption DEF Item, State
<1>2. AssetsTypes
  BY <1>1 DEF AssetsInit, AssetsTypes
<1>3. RequestsSound
  BY IdleNot DEF AssetsInit, RequestsSound
<1>4. RowsMinted
  BY DEF AssetsInit, RowsMinted, Minted
<1>5. \A s \in Slot, a \in Asset : ~Writes(req[s], a)
  BY DEF AssetsInit, Writes
<1>6. Settled
  BY <1>5 DEF AssetsInit, Settled
<1> QED BY <1>2, <1>3, <1>4, <1>6 DEF AssetsInv

\* ... and every step keeps it.
LEMMA AssetsNextHolds ==
    ASSUME AssetsInv, [AssetsNext]_<<setting, assetsVars>>
    PROVE  AssetsInv'
<1>1. CASE UNCHANGED <<setting, assetsVars>>
  <2>1. setting' = setting /\ item' = item /\ row' = row /\ req' = req /\ excused' = excused
    BY <1>1 DEF assetsVars
  <2>2. AssetsTypes' /\ RowsMinted'
    BY <2>1 DEF AssetsInv, AssetsTypes, RowsMinted, Minted
  <2>3. RequestsSound'
    <3> SUFFICES ASSUME NEW t \in Slot, NEW q \in Request, req'[t] = q
                 PROVE  RequestSound(q)'
      BY DEF RequestsSound
    <3>1. RequestSound(q)
      BY <2>1 DEF AssetsInv, RequestsSound
    <3> QED BY <2>1, <3>1, SoundStays
  <2>4. Settled'
    BY <2>1 DEF AssetsInv, Settled, Writes, Subject
  <2> QED BY <2>2, <2>3, <2>4 DEF AssetsInv
<1>2. CASE AssetsNext
  <2>0. setting' = setting
    BY <1>2 DEF AssetsNext
  <2>1. ASSUME NEW s \in Slot, Arrive(s) PROVE AssetsInv'
    BY <2>0, <2>1, ArriveStep
  <2>2. ASSUME NEW s \in Slot, GetAsset(s) PROVE AssetsInv'
    BY <2>0, <2>2, GetAssetStep
  <2>3. ASSUME NEW s \in Slot, GetAssetNull(s) \/ GetById(s) PROVE AssetsInv'
    BY <2>0, <2>3, ReadStep
  <2>4. ASSUME NEW s \in Slot, AssertNoCycle(s) PROVE AssetsInv'
    BY <2>0, <2>4, WalkStep
  <2>5. ASSUME NEW s \in Slot, Prepare(s) \/ Revert(s) PROVE AssetsInv'
    BY <2>0, <2>5, DropStep
  <2>6. ASSUME NEW s \in Slot, Submit(s) PROVE AssetsInv'
    BY <2>0, <2>6, SubmitStep
  <2>7. ASSUME NEW s \in Slot, ReconcileAfterWrite(s) PROVE AssetsInv'
    BY <2>0, <2>7, ReconcileStep
  <2>8. ASSUME NEW s \in Slot, Save(s) PROVE AssetsInv'
    BY <2>0, <2>8, SaveStep
  <2>9. ASSUME NEW s \in Slot, Abandon(s) PROVE AssetsInv'
    BY <2>0, <2>9, AbandonStep
  <2>10. ASSUME ForeignWrite PROVE AssetsInv'
    BY <2>0, <2>10, ForeignStep
  <2> QED BY <1>2, <2>1, <2>2, <2>3, <2>4, <2>5, <2>6, <2>7, <2>8, <2>9, <2>10 DEF AssetsNext, Serve
<1> QED BY <1>1, <1>2

\* The inductive invariant of the service: scripts, answers, what is known of
\* the chain, and the division between rows and requests after their write.
THEOREM AssetsInvariant == AssetsSpec => []AssetsInv
<1>1. AssetsInit => AssetsInv
  BY AssetsInitHolds
<1>2. AssetsInv /\ [AssetsNext]_<<setting, assetsVars>> => AssetsInv'
  BY AssetsNextHolds
<1> QED BY <1>1, <1>2, PTL DEF AssetsSpec

\* assets.service.ts:62: rows hold whole assets and only minted ones, and with
\* nothing in flight the row of an asset without an excuse is what the chain
\* says, however many requests ran and however their reads and writes mixed.
THEOREM RowSettlesCorrect == AssetsSpec => []RowSettles
<1>1. AssetsInv => RowSettles
  <2> SUFFICES ASSUME AssetsInv PROVE RowSettles
    OBVIOUS
  <2>1. AssetsTypeOK
    BY DEF AssetsInv, AssetsTypes, RowsMinted, AssetsTypeOK, Item
  <2>2. ASSUME \A s \in Slot : req[s] = Idle, NEW a \in Asset \ excused PROVE row[a] = item[a]
    <3>1. \A s \in Slot : ~Writes(req[s], a)
      BY <2>2 DEF Writes
    <3> QED BY <3>1 DEF AssetsInv, Settled
  <2> QED BY <2>1, <2>2 DEF RowSettles
<1> QED BY <1>1, AssetsInvariant, PTL

\* The checks of the service, assertNoCycle included, cover what the contract
\* asks of the assets: a request that was alone since it began and comes to submit
\* meets them all, however deep the hierarchy.
THEOREM CheckedCorrect == AssetsSpec => []CheckedIsAllowed
<1>1. AssetsInv => CheckedIsAllowed
  <2> SUFFICES ASSUME AssetsInv, NEW s \in Slot, At(s, "submit"), req[s].alone
               PROVE  AssetsAllow(req[s])
    BY DEF CheckedIsAllowed
  <2>1. PICK r \in Request : req[s] = r /\ RequestSound(r) /\ Head(r.todo)[1] = "submit"
    BY Before
  <2> QED BY <2>1 DEF RequestSound, Known
<1> QED BY <1>1, AssetsInvariant, PTL
=============================================================================
