---------------------------- MODULE WalletProofs ----------------------------
(***************************************************************************)
(* Theorems about the wallet: the undo data it keeps are those of the       *)
(* active blocks, its coins are the spendable coins of the active chain, and *)
(* the events that rolled-back reorgs leave behind take blocks from it and   *)
(* do nothing else.                                                         *)
(***************************************************************************)
EXTENDS Wallet, NaturalsInduction, WellFoundedInduction, TLAPS

-----------------------------------------------------------------------------
(* Sequences                                                                *)

LEMMA Smallest ==
    ASSUME NEW T \in SUBSET Nat, T # {}
    PROVE  \E x \in T : \A y \in T : x <= y
  <1> DEFINE R == { p \in Nat \X Nat : p[1] < p[2] }
  <1>1. IsWellFoundedOn(R, Nat)
    BY NatLessThanWellFounded DEF OpToRel
  <1>2. \E x \in T : \A y \in T : ~(<< y, x >> \in R)
    <2> HIDE DEF R
    <2> QED
      BY <1>1, WFMin
  <1>3. PICK x \in T : \A y \in T : ~(<< y, x >> \in R)
    BY <1>2
  <1>4. ASSUME NEW y \in T
        PROVE  x <= y
    <2>1. x \in Nat /\ y \in Nat /\ << y, x >> \notin R
      BY <1>3
    <2>2. ~(y < x)
      BY <2>1
    <2> QED
      BY <2>1, <2>2
  <1> QED
    BY <1>4

LEMMA TailIsRest ==
    ASSUME NEW S, NEW s \in Seq(S), s # << >>
    PROVE  /\ Tail(s) \in Seq(S) /\ Len(Tail(s)) = Len(s) - 1 /\ Len(s) >= 1
           /\ \A i \in 1..(Len(s) - 1) : Tail(s)[i] = s[i + 1]
           /\ Head(s) = s[1] /\ Head(s) \in S
  OBVIOUS

LEMMA LastOf ==
    ASSUME NEW S, NEW s \in Seq(S), s # << >>
    PROVE  Last(s) = s[Len(s)] /\ Len(s) \in Nat /\ Len(s) >= 1 /\ Last(s) \in S
  BY DEF Last

LEMMA FunIsSeq ==
    ASSUME NEW S, NEW n \in Nat, NEW f \in [1..n -> S]
    PROVE  f \in Seq(S) /\ Len(f) = n
  OBVIOUS

LEMMA JoinAt ==
    ASSUME NEW S, NEW s \in Seq(S), NEW t \in Seq(S)
    PROVE  /\ s \o t \in Seq(S) /\ Len(s \o t) = Len(s) + Len(t)
           /\ \A i \in 1..Len(s) : (s \o t)[i] = s[i]
           /\ \A i \in 1..Len(t) : (s \o t)[Len(s) + i] = t[i]
  OBVIOUS

\* The events that wait move from the journal to the batch.
LEMMA JoinTail ==
    ASSUME NEW S, NEW s \in Seq(S), NEW t \in Seq(S), s # << >>
    PROVE  Tail(s) \o t = Tail(s \o t) /\ s \o t # << >> /\ Head(s \o t) = Head(s)
  <1>1. /\ Tail(s) \in Seq(S) /\ Tail(s) \o t \in Seq(S)
        /\ Tail(s \o t) \in Seq(S) /\ s \o t # << >> /\ s \o t \in Seq(S)
    BY TailIsRest, JoinAt
  <1>2. Len(Tail(s) \o t) = Len(Tail(s \o t))
    BY <1>1, TailIsRest, JoinAt
  <1>3. ASSUME NEW i \in 1..Len(Tail(s) \o t)
        PROVE  (Tail(s) \o t)[i] = Tail(s \o t)[i]
    OBVIOUS
  <1>4. Head(s \o t) = Head(s)
    OBVIOUS
  <1> QED
    BY <1>1, <1>2, <1>3, <1>4

-----------------------------------------------------------------------------
(* Branches                                                                 *)

LEMMA BranchAt ==
    ASSUME NEW b \in Block
    PROVE  /\ branch[b] \in Seq(Block) /\ Len(branch[b]) \in Nat /\ Len(branch[b]) >= 1
           /\ DOMAIN branch[b] = 1..Len(branch[b])
           /\ branch[b][Len(branch[b])] = b
           /\ \A i \in 1..Len(branch[b]) :
                 branch[b][i] \in Block /\ branch[branch[b][i]] = SubSeq(branch[b], 1, i)
  <1>1. /\ branch[b] \in Seq(Block) /\ branch[b] # << >> /\ Last(branch[b]) = b
        /\ \A i \in DOMAIN branch[b] : branch[branch[b][i]] = SubSeq(branch[b], 1, i)
    BY WalletAssumption
  <1>2. DOMAIN branch[b] = 1..Len(branch[b])
    BY <1>1
  <1>3. branch[b][Len(branch[b])] = b /\ Len(branch[b]) \in Nat /\ Len(branch[b]) >= 1
    BY <1>1, LastOf
  <1>4. \A i \in 1..Len(branch[b]) : branch[b][i] \in Block
    BY <1>1
  <1> QED
    BY <1>1, <1>2, <1>3, <1>4

\* A block is on a branch once.
LEMMA BranchOnce ==
    ASSUME NEW b \in Block, NEW i \in 1..Len(branch[b]), NEW j \in 1..Len(branch[b]),
           branch[b][i] = branch[b][j]
    PROVE  i = j
  <1>1. SubSeq(branch[b], 1, i) = SubSeq(branch[b], 1, j)
    BY BranchAt
  <1>2. Len(SubSeq(branch[b], 1, i)) = i /\ Len(SubSeq(branch[b], 1, j)) = j
    BY BranchAt
  <1> QED
    BY <1>1, <1>2

\* A chain the wallet may have followed.
IsChain(v) == v \in Seq(Block) /\ (v # << >> => v = branch[Last(v)])

LEMMA ChainOnce ==
    ASSUME NEW v, IsChain(v)
    PROVE  /\ v \in Seq(Block) /\ Len(v) \in Nat /\ DOMAIN v = 1..Len(v)
           /\ \A i \in 1..Len(v) : v[i] \in Block
           /\ \A i, j \in 1..Len(v) : v[i] = v[j] => i = j
  <1>1. v \in Seq(Block) /\ Len(v) \in Nat /\ DOMAIN v = 1..Len(v)
    BY DEF IsChain
  <1>2. CASE v = << >>
    BY <1>1, <1>2
  <1>3. CASE v # << >>
    <2>1. Last(v) \in Block /\ v = branch[Last(v)]
      BY <1>1, <1>3, LastOf DEF IsChain
    <2> QED
      BY <1>1, <2>1, BranchOnce
  <1> QED
    BY <1>2, <1>3

LEMMA ChainPrefix ==
    ASSUME NEW v, IsChain(v), NEW n \in 0..Len(v)
    PROVE  IsChain(SubSeq(v, 1, n))
  <1>1. v \in Seq(Block) /\ Len(v) \in Nat
    BY DEF IsChain
  <1>2. CASE n = 0
    <2>1. SubSeq(v, 1, n) = << >>
      BY <1>1, <1>2
    <2> QED
      BY <2>1 DEF IsChain
  <1>3. CASE n > 0
    <2>1. SubSeq(v, 1, n) \in Seq(Block) /\ Len(SubSeq(v, 1, n)) = n
      BY <1>1, <1>3
    <2>2. SubSeq(v, 1, n) # << >> /\ SubSeq(v, 1, n)[n] = v[n]
      BY <1>1, <1>3, <2>1
    <2>3. Last(SubSeq(v, 1, n)) = v[n]
      BY <2>1, <2>2, LastOf
    <2>4. Last(v) \in Block /\ v = branch[Last(v)]
      BY <1>1, <1>3, LastOf DEF IsChain
    <2>5. branch[v[n]] = SubSeq(v, 1, n)
      BY <1>1, <1>3, <2>4, BranchAt
    <2> QED
      BY <2>1, <2>3, <2>5 DEF IsChain
  <1> QED
    BY <1>2, <1>3

LEMMA BranchIsChain ==
    ASSUME NEW b \in Block
    PROVE  IsChain(branch[b]) /\ branch[b] # << >>
  <1>1. branch[b] \in Seq(Block) /\ branch[b] # << >> /\ Last(branch[b]) = b
    BY WalletAssumption
  <1> QED
    BY <1>1 DEF IsChain

-----------------------------------------------------------------------------
(* The events of a move                                                     *)

LEMMA Largest ==
    ASSUME NEW N \in Nat, NEW T \in SUBSET (0..N), T # {}
    PROVE  Max(T) \in T
  <1> DEFINE R == { N - x : x \in T }
  <1>1. R \in SUBSET Nat /\ R # {}
    <2>1. \A x \in T : x \in 0..N
      OBVIOUS
    <2>2. \A x \in T : N - x \in Nat
      BY <2>1
    <2> QED
      BY <2>2
  <1>2. PICK r \in R : \A y \in R : r <= y
    BY <1>1, Smallest
  <1>3. PICK x \in T : r = N - x
    BY <1>2
  <1>4. ASSUME NEW y \in T
        PROVE  x >= y
    <2>1. N - y \in R
      OBVIOUS
    <2>2. N - x <= N - y
      BY <1>2, <1>3, <2>1
    <2> QED
      BY <2>2
  <1> QED
    BY <1>4 DEF Max

LEMMA CommonShared ==
    ASSUME NEW old \in Seq(Block), NEW new \in Seq(Block)
    PROVE  /\ Common(old, new) \in 0..Len(old) /\ Common(old, new) <= Len(new)
           /\ \A i \in 1..Common(old, new) : old[i] = new[i]
  <1> DEFINE T == { n \in 0..Len(old) : n <= Len(new) /\ SubSeq(old, 1, n) = SubSeq(new, 1, n) }
             c == Common(old, new)
  <1>1. T \in SUBSET (0..Len(old)) /\ Len(old) \in Nat /\ Len(new) \in Nat
    OBVIOUS
  <1>2. SubSeq(old, 1, 0) = << >> /\ SubSeq(new, 1, 0) = << >>
    OBVIOUS
  <1>3. 0 \in T
    BY <1>1, <1>2
  <1>4. c \in T
    <2>1. Max(T) \in T
      <3> HIDE DEF T
      <3> QED
        BY <1>1, <1>3, Largest
    <2> QED
      BY <2>1 DEF Common
  <1>5. c \in 0..Len(old) /\ c <= Len(new) /\ SubSeq(old, 1, c) = SubSeq(new, 1, c)
    BY <1>4
  <1>6. ASSUME NEW i \in 1..c
        PROVE  old[i] = new[i]
    <2> HIDE DEF c
    <2>1. SubSeq(old, 1, c)[i] = old[i] /\ SubSeq(new, 1, c)[i] = new[i]
      BY <1>1, <1>5
    <2> QED
      BY <1>5, <2>1
  <1> QED
    BY <1>5, <1>6

\* The disconnects of the blocks of old above the fork, from the tip down, then the
\* connects of the blocks of new above it.
LEMMA MoveEventsAre ==
    ASSUME NEW old \in Seq(Block), NEW new \in Seq(Block),
           NEW c, c = Common(old, new)
    PROVE  /\ MoveEvents(old, new) \in Seq(Event)
           /\ Len(MoveEvents(old, new)) = (Len(old) - c) + (Len(new) - c)
           /\ \A i \in 1..(Len(old) - c) :
                 MoveEvents(old, new)[i] = Disconnected(old[Len(old) + 1 - i])
           /\ \A i \in 1..(Len(new) - c) :
                 MoveEvents(old, new)[(Len(old) - c) + i] = Connected(new[c + i], c + i - 1)
  <1> DEFINE down == [ i \in 1..(Len(old) - c) |-> Disconnected(old[Len(old) + 1 - i]) ]
             up == [ i \in 1..(Len(new) - c) |-> Connected(new[c + i], c + i - 1) ]
  <1>1. /\ c \in Nat /\ Len(old) \in Nat /\ Len(new) \in Nat
        /\ Len(old) - c \in Nat /\ Len(new) - c \in Nat
    BY CommonShared
  <1>2. \A i \in 1..(Len(old) - c) : Disconnected(old[Len(old) + 1 - i]) \in Event
    BY <1>1 DEF Disconnected, Event
  <1>3. \A i \in 1..(Len(new) - c) : Connected(new[c + i], c + i - 1) \in Event
    BY <1>1 DEF Connected, Event
  <1>4. down \in Seq(Event) /\ Len(down) = Len(old) - c
    <2>1. down \in [1..(Len(old) - c) -> Event]
      BY <1>2
    <2> QED
      BY <1>1, <2>1, FunIsSeq
  <1>5. up \in Seq(Event) /\ Len(up) = Len(new) - c
    <2>1. up \in [1..(Len(new) - c) -> Event]
      BY <1>3
    <2> QED
      BY <1>1, <2>1, FunIsSeq
  <1>6. MoveEvents(old, new) = down \o up
    BY DEF MoveEvents
  <1>7. /\ \A i \in 1..(Len(old) - c) : down[i] = Disconnected(old[Len(old) + 1 - i])
        /\ \A i \in 1..(Len(new) - c) : up[i] = Connected(new[c + i], c + i - 1)
    OBVIOUS
  <1> QED
    <2> HIDE DEF down, up
    <2>1. PICK d \in Seq(Event), u \in Seq(Event) : d = down /\ u = up
      BY <1>4, <1>5
    <2>2. /\ d \o u \in Seq(Event) /\ Len(d \o u) = Len(d) + Len(u)
          /\ \A i \in 1..Len(d) : (d \o u)[i] = d[i]
          /\ \A i \in 1..Len(u) : (d \o u)[Len(d) + i] = u[i]
      BY JoinAt
    <2>3. Len(d) = Len(old) - c /\ Len(u) = Len(new) - c /\ MoveEvents(old, new) = d \o u
      BY <1>4, <1>5, <1>6, <2>1
    <2>4. /\ \A i \in 1..(Len(old) - c) : (d \o u)[i] = Disconnected(old[Len(old) + 1 - i])
          /\ \A i \in 1..(Len(new) - c) :
                (d \o u)[(Len(old) - c) + i] = Connected(new[c + i], c + i - 1)
      BY <1>7, <2>1, <2>2, <2>3
    <2> QED
      BY <2>2, <2>3, <2>4

-----------------------------------------------------------------------------
(* Undo data                                                                *)

\* The events the wallet has still to apply.
Waiting == batch \o journal

\* Event i of p disconnects b.
TakesBack(p, i, b) == p[i].kind = "disconnected" /\ p[i].block = b

\* A block that has left the chain will be taken back.
WillLeave(p) ==
    \A b \in DOMAIN block_undo :
        b \notin Range(blocks) => \E i \in 1..Len(p) : TakesBack(p, i, b)

\* An active block is in the wallet to stay, or an event at its height is still to
\* come and nothing takes it back after that.
WillStay(p) ==
    \A h \in 1..Len(blocks) :
        \/ /\ blocks[h] \in DOMAIN block_undo
           /\ \A i \in 1..Len(p) : ~TakesBack(p, i, blocks[h])
        \/ \E i \in 1..Len(p) :
              /\ p[i].kind = "connected" /\ p[i].height = h - 1
              /\ \A j \in (i + 1)..Len(p) : ~TakesBack(p, j, blocks[h])

UndoInv ==
    /\ TypeOK
    /\ IsChain(blocks) /\ blocks # << >>
    /\ trouble \cap {"rollback", "missing block"} = {} => WillLeave(Waiting) /\ WillStay(Waiting)
    /\ "late watch" \notin trouble =>
          \A b \in DOMAIN block_undo : block_undo[b].created = Credits(b)

LEMMA JoinMore ==
    ASSUME NEW S, NEW s \in Seq(S), NEW t \in Seq(S), NEW u \in Seq(S)
    PROVE  s \o (t \o u) = (s \o t) \o u
  OBVIOUS

LEMMA WaitingType ==
    ASSUME TypeOK
    PROVE  Waiting \in Seq(Event) /\ Len(Waiting) \in Nat
  BY JoinAt DEF TypeOK, Waiting

LEMMA WaitingNext ==
    ASSUME TypeOK, batch # << >>, NextEvent
    PROVE  /\ Waiting # << >> /\ Waiting' \in Seq(Event) /\ Waiting[1] = Head(batch)
           /\ Head(batch) \in Event
           /\ Len(Waiting) >= 1 /\ Len(Waiting') = Len(Waiting) - 1
           /\ \A i \in 1..(Len(Waiting) - 1) : Waiting'[i] = Waiting[i + 1]
  <1>1. batch \in Seq(Event) /\ journal \in Seq(Event)
    BY DEF TypeOK
  <1>2. Waiting' = Tail(batch) \o journal
    BY DEF NextEvent, Waiting
  <1>3. Waiting' = Tail(Waiting) /\ Waiting # << >> /\ Head(Waiting) = Head(batch)
    BY <1>1, <1>2, JoinTail DEF Waiting
  <1>4. Waiting \in Seq(Event)
    BY WaitingType
  <1> QED
    BY <1>3, <1>4, TailIsRest

LEMMA WaitingMove ==
    ASSUME TypeOK, NEW ev \in Seq(Event), journal' = journal \o ev, batch' = batch
    PROVE  /\ Waiting' = Waiting \o ev
           /\ Waiting' \in Seq(Event) /\ Len(Waiting') = Len(Waiting) + Len(ev)
           /\ \A i \in 1..Len(Waiting) : Waiting'[i] = Waiting[i]
           /\ \A i \in 1..Len(ev) : Waiting'[Len(Waiting) + i] = ev[i]
  <1>1. batch \in Seq(Event) /\ journal \in Seq(Event)
    BY DEF TypeOK
  <1>2. Waiting' = Waiting \o ev
    BY <1>1, JoinMore DEF Waiting
  <1>3. Waiting \in Seq(Event)
    BY WaitingType
  <1> QED
    BY <1>2, <1>3, JoinAt

-----------------------------------------------------------------------------
(* Types                                                                    *)

LEMMA EventsType ==
    ASSUME NEW e \in Event
    PROVE  e.kind \in {"connected", "disconnected"} /\ e.block \in Block /\ e.height \in Nat
  BY DEF Event

LEMMA CreditsType ==
    ASSUME NEW b \in Block
    PROVE  Credits(b) \subseteq Coin /\ Credits(b) \subseteq creates[b] /\ spends[b] \subseteq Coin
  BY WalletAssumption DEF Credits

LEMMA ConnectFacts ==
    ASSUME TypeOK, NEW b \in Block, Connect(b)
    PROVE  /\ utxos' = (utxos \cup Credits(b)) \ spends[b] /\ utxos' \subseteq Coin
           /\ DOMAIN block_undo' = DOMAIN block_undo \cup {b}
           /\ block_undo'[b] = UndoOf(b)
           /\ UndoOf(b) \in [created : SUBSET Coin, removed : SUBSET Coin]
           /\ UndoOf(b).created = Credits(b)
           /\ UndoOf(b).removed = (utxos \cup Credits(b)) \cap spends[b]
           /\ \A x \in DOMAIN block_undo \ {b} : block_undo'[x] = block_undo[x]
  <1>1. utxos \subseteq Coin
    BY DEF TypeOK
  <1>2. block_undo' = Put(block_undo, b, UndoOf(b)) /\ utxos' = (utxos \cup Credits(b)) \ spends[b]
    BY DEF Connect
  <1>3. UndoOf(b) = [created |-> Credits(b), removed |-> (utxos \cup Credits(b)) \cap spends[b]]
    BY DEF UndoOf
  <1> QED
    BY <1>1, <1>2, <1>3, CreditsType DEF Put

LEMMA DisconnectFacts ==
    ASSUME TypeOK, NEW b \in Block, Disconnect(b)
    PROVE  /\ DOMAIN block_undo' = DOMAIN block_undo \ {b}
           /\ \A x \in DOMAIN block_undo \ {b} : block_undo'[x] = block_undo[x]
           /\ b \in DOMAIN block_undo =>
                 /\ block_undo[b] \in [created : SUBSET Coin, removed : SUBSET Coin]
                 /\ utxos' = (utxos \ block_undo[b].created) \cup block_undo[b].removed
           /\ b \notin DOMAIN block_undo => utxos' = utxos
           /\ utxos' \subseteq Coin
  <1>1. CASE b \notin DOMAIN block_undo
    BY <1>1 DEF Disconnect, TypeOK
  <1>2. CASE b \in DOMAIN block_undo
    <2>1. /\ utxos' = (utxos \ block_undo[b].created) \cup block_undo[b].removed
          /\ block_undo' = Without(block_undo, b)
      BY <1>2 DEF Disconnect
    <2>2. block_undo[b] \in [created : SUBSET Coin, removed : SUBSET Coin] /\ utxos \subseteq Coin
      BY <1>2 DEF TypeOK
    <2>3. block_undo[b].created \subseteq Coin /\ block_undo[b].removed \subseteq Coin
      BY <2>2
    <2>4. /\ DOMAIN block_undo' = DOMAIN block_undo \ {b}
          /\ \A x \in DOMAIN block_undo \ {b} : block_undo'[x] = block_undo[x]
      BY <2>1 DEF Without
    <2> QED
      BY <1>2, <2>1, <2>2, <2>3, <2>4
  <1> QED
    BY <1>1, <1>2

LEMMA InitUndo ==
    ASSUME Init
    PROVE  UndoInv
  <1>1. Genesis \in Block /\ branch[Genesis] = << Genesis >>
    BY WalletAssumption
  <1>2. Connected(Genesis, 0) \in Event
    BY <1>1 DEF Connected, Event
  <1>3. /\ blocks = << Genesis >> /\ journal = << Connected(Genesis, 0) >> /\ batch = << >>
        /\ applying = FALSE /\ watched = {} /\ utxos = {} /\ block_undo = << >>
        /\ trouble = {} /\ moves = 0
    BY DEF Init
  <1>4. DOMAIN block_undo = {}
    BY <1>3
  <1>5. TypeOK
    <2>1. blocks \in Seq(Block) /\ journal \in Seq(Event) /\ batch \in Seq(Event)
      BY <1>1, <1>2, <1>3
    <2>2. moves \in 0..MaxMoves
      BY <1>3, WalletAssumption
    <2> QED
      BY <1>3, <1>4, <2>1, <2>2 DEF TypeOK
  <1>6. IsChain(blocks) /\ blocks # << >>
    BY <1>1, <1>3, BranchIsChain
  <1>7. Len(Waiting) = 1 /\ Waiting[1] = Connected(Genesis, 0)
    BY <1>2, <1>3 DEF Waiting
  <1>8. WillLeave(Waiting)
    BY <1>4 DEF WillLeave
  <1>9. WillStay(Waiting)
    <2>1. Waiting[1].kind = "connected" /\ Waiting[1].height = 0
      BY <1>7 DEF Connected
    <2>2. Len(blocks) = 1 /\ 1 \in 1..Len(Waiting)
      BY <1>3, <1>7
    <2> QED
      BY <1>7, <2>1, <2>2 DEF WillStay
  <1> QED
    BY <1>4, <1>5, <1>6, <1>8, <1>9 DEF UndoInv

LEMMA MoveUndo ==
    ASSUME UndoInv, NEW b \in Block, Move(b)
    PROVE  UndoInv'
  <1>1. /\ blocks' = branch[b] /\ journal' = journal \o MoveEvents(blocks, branch[b])
        /\ moves < MaxMoves /\ moves' = moves + 1 /\ batch' = batch /\ applying' = applying
        /\ watched' = watched /\ utxos' = utxos /\ block_undo' = block_undo /\ trouble' = trouble
    BY DEF Move, wallet
  <1>2. TypeOK /\ IsChain(blocks) /\ blocks # << >> /\ blocks \in Seq(Block)
    BY DEF UndoInv, TypeOK
  <1>3. IsChain(blocks') /\ blocks' # << >> /\ blocks' \in Seq(Block)
    BY <1>1, BranchIsChain DEF IsChain
  <1>4. PICK c : c = Common(blocks, blocks')
    OBVIOUS
  <1>5. /\ c \in 0..Len(blocks) /\ c <= Len(blocks')
        /\ \A i \in 1..c : blocks[i] = blocks'[i]
    BY <1>2, <1>3, <1>4, CommonShared
  <1>6. PICK ev : ev = MoveEvents(blocks, blocks')
    OBVIOUS
  <1>7. /\ ev \in Seq(Event) /\ Len(ev) = (Len(blocks) - c) + (Len(blocks') - c)
        /\ \A i \in 1..(Len(blocks) - c) : ev[i] = Disconnected(blocks[Len(blocks) + 1 - i])
        /\ \A i \in 1..(Len(blocks') - c) :
              ev[(Len(blocks) - c) + i] = Connected(blocks'[c + i], c + i - 1)
    BY <1>2, <1>3, <1>4, <1>6, MoveEventsAre
  <1>8. journal' = journal \o ev
    BY <1>1, <1>6
  <1>9. TypeOK'
    <2>1. journal' \in Seq(Event)
      BY <1>2, <1>7, <1>8, JoinAt DEF TypeOK
    <2>2. moves' \in 0..MaxMoves
      BY <1>1, <1>2, WalletAssumption DEF TypeOK
    <2> QED
      BY <1>1, <1>2, <1>3, <2>1, <2>2 DEF TypeOK
  <1>10. /\ Waiting' \in Seq(Event) /\ Len(Waiting') = Len(Waiting) + Len(ev)
         /\ \A i \in 1..Len(Waiting) : Waiting'[i] = Waiting[i]
         /\ \A i \in 1..Len(ev) : Waiting'[Len(Waiting) + i] = ev[i]
    BY <1>1, <1>2, <1>7, <1>8, WaitingMove
  <1>11. Len(Waiting) \in Nat /\ Len(blocks) \in Nat /\ Len(blocks') \in Nat /\ Len(ev) \in Nat
    BY <1>2, <1>3, <1>7, WaitingType
  <1>12. ASSUME WillLeave(Waiting)
         PROVE  WillLeave(Waiting)'
    <2>1. SUFFICES ASSUME NEW x \in DOMAIN block_undo, x \notin Range(blocks')
                   PROVE  \E i \in 1..Len(Waiting') : TakesBack(Waiting', i, x)
      BY <1>1 DEF WillLeave, TakesBack
    <2>2. CASE x \notin Range(blocks)
      <3>1. PICK i \in 1..Len(Waiting) : TakesBack(Waiting, i, x)
        BY <1>12, <2>2 DEF WillLeave
      <3>2. i \in 1..Len(Waiting') /\ TakesBack(Waiting', i, x)
        BY <1>10, <1>11, <3>1 DEF TakesBack
      <3> QED
        BY <3>2
    <2>3. CASE x \in Range(blocks)
      <3>1. PICK k \in 1..Len(blocks) : x = blocks[k]
        BY <1>2, <2>3 DEF Range
      <3>2. ~(k <= c)
        BY <1>3, <1>5, <1>11, <2>1, <3>1 DEF Range
      <3>3. PICK i : i = Len(blocks) + 1 - k
        OBVIOUS
      <3>4. i \in 1..(Len(blocks) - c) /\ Len(blocks) + 1 - i = k
        BY <1>5, <1>11, <3>1, <3>2, <3>3
      <3>5. ev[i] = Disconnected(x) /\ i \in 1..Len(ev)
        BY <1>5, <1>7, <1>11, <3>1, <3>4
      <3>6. Waiting'[Len(Waiting) + i] = Disconnected(x)
        BY <1>10, <3>5
      <3>7. Len(Waiting) + i \in 1..Len(Waiting') /\ TakesBack(Waiting', Len(Waiting) + i, x)
        BY <1>10, <1>11, <3>5, <3>6 DEF TakesBack, Disconnected
      <3> QED
        BY <3>7
    <2> QED
      BY <2>2, <2>3
  <1>13. ASSUME WillStay(Waiting)
         PROVE  WillStay(Waiting)'
    <2> SUFFICES ASSUME NEW h \in 1..Len(blocks')
                 PROVE \/ /\ blocks'[h] \in DOMAIN block_undo'
                          /\ \A i \in 1..Len(Waiting') : ~TakesBack(Waiting', i, blocks'[h])
                       \/ \E i \in 1..Len(Waiting') :
                             /\ Waiting'[i].kind = "connected" /\ Waiting'[i].height = h - 1
                             /\ \A j \in (i + 1)..Len(Waiting') : ~TakesBack(Waiting', j, blocks'[h])
      BY DEF WillStay, TakesBack
    <2>1. ASSUME NEW i \in 1..Len(ev), h <= c \/ i > Len(blocks) - c
          PROVE  ~(ev[i].kind = "disconnected" /\ ev[i].block = blocks'[h])
      <3>1. CASE i > Len(blocks) - c
        <4>1. PICK k : k = i - (Len(blocks) - c)
          OBVIOUS
        <4>2. k \in 1..(Len(blocks') - c) /\ i = (Len(blocks) - c) + k
          BY <1>5, <1>7, <1>11, <3>1, <4>1
        <4>3. ev[i] = Connected(blocks'[c + k], c + k - 1)
          BY <1>7, <4>2
        <4> QED
          BY <4>3 DEF Connected
      <3>2. CASE ~(i > Len(blocks) - c)
        <4>1. PICK k : k = Len(blocks) + 1 - i
          OBVIOUS
        <4>2. k \in 1..Len(blocks) /\ k > c /\ i \in 1..(Len(blocks) - c) /\ h \in 1..c
          BY <1>5, <1>11, <2>1, <3>2, <4>1
        <4>3. ev[i] = Disconnected(blocks[k])
          BY <1>7, <4>1, <4>2
        <4>4. blocks[h] = blocks'[h] /\ h \in 1..Len(blocks)
          BY <1>5, <1>11, <4>2
        <4>5. blocks[h] # blocks[k]
          BY <1>2, <4>2, <4>4, <1>5, <1>11, ChainOnce
        <4> QED
          BY <4>3, <4>4, <4>5 DEF Disconnected
      <3> QED
        BY <3>1, <3>2
    <2>2. CASE h <= c
      <3>1. h \in 1..Len(blocks) /\ blocks'[h] = blocks[h]
        BY <1>5, <1>11, <2>2
      <3>2. ASSUME NEW i \in 1..Len(Waiting'), TakesBack(Waiting', i, blocks'[h])
            PROVE  i \in 1..Len(Waiting) /\ TakesBack(Waiting, i, blocks[h])
        <4>1. CASE i <= Len(Waiting)
          BY <1>10, <1>11, <3>1, <3>2, <4>1 DEF TakesBack
        <4>2. CASE ~(i <= Len(Waiting))
          <5>1. PICK k : k = i - Len(Waiting)
            OBVIOUS
          <5>2. k \in 1..Len(ev) /\ i = Len(Waiting) + k
            BY <1>10, <1>11, <4>2, <5>1
          <5>3. Waiting'[i] = ev[k]
            BY <1>10, <5>2
          <5> QED
            BY <2>1, <2>2, <3>2, <5>2, <5>3 DEF TakesBack
        <4> QED
          BY <4>1, <4>2
      <3>3. CASE /\ blocks[h] \in DOMAIN block_undo
                 /\ \A i \in 1..Len(Waiting) : ~TakesBack(Waiting, i, blocks[h])
        BY <1>1, <3>1, <3>2, <3>3
      <3>4. CASE \E i \in 1..Len(Waiting) :
                    /\ Waiting[i].kind = "connected" /\ Waiting[i].height = h - 1
                    /\ \A j \in (i + 1)..Len(Waiting) : ~TakesBack(Waiting, j, blocks[h])
        <4>1. PICK i \in 1..Len(Waiting) :
                    /\ Waiting[i].kind = "connected" /\ Waiting[i].height = h - 1
                    /\ \A j \in (i + 1)..Len(Waiting) : ~TakesBack(Waiting, j, blocks[h])
          BY <3>4
        <4>2. i \in 1..Len(Waiting') /\ Waiting'[i] = Waiting[i]
          BY <1>10, <1>11
        <4>3. ASSUME NEW j \in (i + 1)..Len(Waiting')
              PROVE  ~TakesBack(Waiting', j, blocks'[h])
          <5>1. j \in 1..Len(Waiting') /\ (j \in 1..Len(Waiting) => j \in (i + 1)..Len(Waiting))
            BY <1>10, <1>11
          <5> QED
            BY <3>2, <4>1, <5>1
        <4> QED
          BY <4>1, <4>2, <4>3
      <3> QED
        BY <1>13, <3>1, <3>3, <3>4 DEF WillStay
    <2>3. CASE ~(h <= c)
      <3>1. PICK k : k = (Len(blocks) - c) + (h - c)
        OBVIOUS
      <3>2. /\ h - c \in 1..(Len(blocks') - c) /\ k \in 1..Len(ev) /\ k > Len(blocks) - c
        BY <1>5, <1>7, <1>11, <2>3, <3>1
      <3>3. ev[k] = Connected(blocks'[h], h - 1)
        <4>1. ev[k] = Connected(blocks'[c + (h - c)], c + (h - c) - 1)
          BY <1>7, <3>1, <3>2
        <4>2. c + (h - c) = h /\ c + (h - c) - 1 = h - 1
          BY <1>5, <1>11
        <4> QED
          BY <4>1, <4>2
      <3>4. /\ Len(Waiting) + k \in 1..Len(Waiting')
            /\ Waiting'[Len(Waiting) + k] = Connected(blocks'[h], h - 1)
        BY <1>10, <1>11, <3>2, <3>3
      <3>5. ASSUME NEW j \in (Len(Waiting) + k + 1)..Len(Waiting')
            PROVE  ~TakesBack(Waiting', j, blocks'[h])
        <4>1. PICK m : m = j - Len(Waiting)
          OBVIOUS
        <4>2. m \in 1..Len(ev) /\ m > Len(blocks) - c /\ j = Len(Waiting) + m
          BY <1>5, <1>10, <1>11, <3>2, <4>1
        <4>3. Waiting'[j] = ev[m]
          BY <1>10, <4>2
        <4> QED
          BY <2>1, <4>2, <4>3 DEF TakesBack
      <3>6. Waiting'[Len(Waiting) + k].kind = "connected" /\ Waiting'[Len(Waiting) + k].height = h - 1
        BY <3>4 DEF Connected
      <3> QED
        BY <3>4, <3>5, <3>6
    <2> QED
      BY <2>2, <2>3
  <1>14. ASSUME "late watch" \notin trouble'
         PROVE  \A x \in DOMAIN block_undo' : block_undo'[x].created = Credits(x)'
    BY <1>1, <1>14 DEF UndoInv, Credits
  <1> QED
    BY <1>1, <1>3, <1>9, <1>12, <1>13, <1>14 DEF UndoInv

LEMMA SameUndo ==
    ASSUME UndoInv, Waiting' = Waiting, blocks' = blocks, block_undo' = block_undo,
           trouble \subseteq trouble'
    PROVE  trouble' \cap {"rollback", "missing block"} = {} =>
              WillLeave(Waiting)' /\ WillStay(Waiting)'
  <1>1. WillLeave(Waiting) => WillLeave(Waiting)'
    BY DEF WillLeave, TakesBack
  <1>2. WillStay(Waiting) => WillStay(Waiting)'
    <2>1. SUFFICES ASSUME WillStay(Waiting), NEW h \in 1..Len(blocks)
                   PROVE \/ /\ blocks[h] \in DOMAIN block_undo
                            /\ \A i \in 1..Len(Waiting) : ~TakesBack(Waiting, i, blocks[h])
                         \/ \E i \in 1..Len(Waiting) :
                               /\ Waiting[i].kind = "connected" /\ Waiting[i].height = h - 1
                               /\ \A j \in (i + 1)..Len(Waiting) : ~TakesBack(Waiting, j, blocks[h])
      BY DEF WillStay, TakesBack
    <2> QED
      BY <2>1 DEF WillStay
  <1>3. trouble' \cap {"rollback", "missing block"} = {} =>
           trouble \cap {"rollback", "missing block"} = {}
    OBVIOUS
  <1> QED
    BY <1>1, <1>2, <1>3 DEF UndoInv

LEMMA RolledBackUndo ==
    ASSUME UndoInv, NEW b \in Block, RolledBack(b)
    PROVE  UndoInv'
  <1>1. /\ blocks' = blocks /\ batch' = batch /\ applying' = applying
        /\ moves < MaxMoves /\ moves' = moves + 1 /\ trouble' = trouble \cup {"rollback"}
        /\ watched' = watched /\ utxos' = utxos /\ block_undo' = block_undo
    BY DEF RolledBack, wallet
  <1>2. PICK n \in DOMAIN branch[b] :
           journal' = journal \o MoveEvents(blocks, SubSeq(branch[b], 1, n - 1))
    BY DEF RolledBack
  <1>3. TypeOK /\ blocks \in Seq(Block) /\ journal \in Seq(Event)
    BY DEF UndoInv, TypeOK
  <1>4. SubSeq(branch[b], 1, n - 1) \in Seq(Block)
    BY <1>2, BranchAt
  <1>5. MoveEvents(blocks, SubSeq(branch[b], 1, n - 1)) \in Seq(Event)
    BY <1>3, <1>4, MoveEventsAre
  <1>6. TypeOK'
    <2>1. journal' \in Seq(Event)
      BY <1>2, <1>3, <1>5, JoinAt
    <2>2. moves' \in 0..MaxMoves
      BY <1>1, <1>3, WalletAssumption DEF TypeOK
    <2> QED
      BY <1>1, <1>3, <2>1, <2>2 DEF TypeOK, Troubles
  <1>7. "late watch" \notin trouble' =>
           \A x \in DOMAIN block_undo' : block_undo'[x].created = Credits(x)'
    BY <1>1 DEF UndoInv, Credits
  <1> QED
    BY <1>1, <1>6, <1>7 DEF UndoInv

LEMMA WatchUndo ==
    ASSUME UndoInv, NEW a \in Address, WatchAddress(a)
    PROVE  UndoInv'
  <1>1. /\ blocks' = blocks /\ batch' = batch /\ applying' = applying /\ journal' = journal
        /\ moves' = moves /\ watched' = watched \cup {a}
        /\ utxos' = utxos /\ block_undo' = block_undo
        /\ trouble' = IF DOMAIN block_undo = {} THEN trouble ELSE trouble \cup {"late watch"}
    BY DEF WatchAddress
  <1>2. TypeOK'
    BY <1>1 DEF UndoInv, TypeOK, Troubles
  <1>3. "late watch" \notin trouble' => DOMAIN block_undo' = {}
    BY <1>1
  <1>4. trouble' \cap {"rollback", "missing block"} = {} => WillLeave(Waiting)' /\ WillStay(Waiting)'
    <2>1. Waiting' = Waiting /\ trouble \subseteq trouble'
      BY <1>1 DEF Waiting
    <2> QED
      BY <1>1, <2>1, SameUndo
  <1> QED
    BY <1>1, <1>2, <1>3, <1>4 DEF UndoInv

LEMMA TakeUndo ==
    ASSUME UndoInv, TakeEvents
    PROVE  UndoInv' /\ Waiting' = Waiting
  <1>1. /\ blocks' = blocks /\ batch = << >> /\ batch' = journal /\ journal' = << >>
        /\ applying' = applying /\ moves' = moves /\ watched' = watched
        /\ utxos' = utxos /\ block_undo' = block_undo /\ trouble' = trouble
    BY DEF TakeEvents, wallet
  <1>2. journal \in Seq(Event)
    BY DEF UndoInv, TypeOK
  <1>3. Waiting' = Waiting
    BY <1>1, <1>2 DEF Waiting
  <1>4. TypeOK'
    BY <1>1 DEF UndoInv, TypeOK
  <1>5. "late watch" \notin trouble' =>
           \A x \in DOMAIN block_undo' : block_undo'[x].created = Credits(x)'
    BY <1>1 DEF UndoInv, Credits
  <1>6. trouble' \cap {"rollback", "missing block"} = {} => WillLeave(Waiting)' /\ WillStay(Waiting)'
    BY <1>1, <1>3, SameUndo
  <1> QED
    BY <1>1, <1>3, <1>4, <1>5, <1>6 DEF UndoInv

LEMMA MissingUndo ==
    ASSUME UndoInv, MissingBlock
    PROVE  UndoInv'
  <1>1. /\ blocks' = blocks /\ batch' = << >> /\ applying' = FALSE /\ journal' = journal
        /\ moves' = moves /\ watched' = watched /\ utxos' = utxos
        /\ block_undo' = block_undo /\ trouble' = trouble \cup {"missing block"}
    BY DEF MissingBlock, wallet
  <1>2. TypeOK'
    <2>1. TypeOK
      BY DEF UndoInv
    <2>2. << >> \in Seq(Event)
      OBVIOUS
    <2>3. trouble' \subseteq Troubles
      BY <1>1, <2>1 DEF TypeOK, Troubles
    <2> QED
      BY <1>1, <2>1, <2>2, <2>3 DEF TypeOK
  <1>3. "late watch" \notin trouble' =>
           \A x \in DOMAIN block_undo' : block_undo'[x].created = Credits(x)'
    BY <1>1 DEF UndoInv, Credits
  <1> QED
    BY <1>1, <1>2, <1>3 DEF UndoInv

\* What applying an event leaves alone, and its types.
LEMMA NextEventType ==
    ASSUME TypeOK, batch # << >>, NextEvent, utxos' \subseteq Coin,
           DOMAIN block_undo' \subseteq Block,
           \A x \in DOMAIN block_undo' :
               block_undo'[x] \in [created : SUBSET Coin, removed : SUBSET Coin],
           trouble' \subseteq Troubles
    PROVE  TypeOK'
  <1>1. batch' \in Seq(Event)
    BY TailIsRest DEF NextEvent, TypeOK
  <1>2. applying' \in BOOLEAN
    BY DEF NextEvent
  <1> QED
    BY <1>1, <1>2 DEF NextEvent, TypeOK

LEMMA ConnectedUndo ==
    ASSUME UndoInv, ApplyConnected
    PROVE  UndoInv'
  <1>1. TypeOK /\ batch # << >> /\ NextEvent /\ blocks \in Seq(Block) /\ Len(blocks) \in Nat
    <2>1. TypeOK /\ batch # << >> /\ NextEvent
      BY DEF UndoInv, ApplyConnected
    <2> QED
      BY <2>1 DEF TypeOK
  <1>2. PICK g : g = Head(batch).height + 1
    OBVIOUS
  <1>3. /\ Head(batch) \in Event /\ Waiting[1] = Head(batch) /\ Len(Waiting) >= 1
        /\ Waiting' \in Seq(Event) /\ Len(Waiting') = Len(Waiting) - 1
        /\ \A i \in 1..(Len(Waiting) - 1) : Waiting'[i] = Waiting[i + 1]
    BY <1>1, WaitingNext
  <1>4. /\ Head(batch).kind = "connected" /\ g \in 1..Len(blocks)
        /\ Head(batch).height = g - 1
    <2>1. Head(batch).kind = "connected" /\ Head(batch).height < Len(blocks)
      BY DEF ApplyConnected
    <2>2. Head(batch).height \in Nat
      BY <1>3, EventsType
    <2> QED
      BY <1>1, <1>2, <2>1, <2>2
  <1>5. PICK b \in Block : b = blocks[g]
    BY <1>1, <1>4
  <1>6. Connect(b)
    BY <1>2, <1>5 DEF ApplyConnected
  <1>7. /\ DOMAIN block_undo' = DOMAIN block_undo \cup {b} /\ utxos' \subseteq Coin
        /\ block_undo'[b] = UndoOf(b)
        /\ UndoOf(b) \in [created : SUBSET Coin, removed : SUBSET Coin]
        /\ UndoOf(b).created = Credits(b)
        /\ \A x \in DOMAIN block_undo \ {b} : block_undo'[x] = block_undo[x]
    BY <1>1, <1>6, ConnectFacts
  <1>8. trouble \subseteq trouble' /\ trouble' \subseteq Troubles
    BY <1>1 DEF ApplyConnected, TypeOK, Troubles
  <1>9. TypeOK'
    <2>1. \A x \in DOMAIN block_undo :
             block_undo[x] \in [created : SUBSET Coin, removed : SUBSET Coin] /\ x \in Block
      BY <1>1 DEF TypeOK
    <2>2. \A x \in DOMAIN block_undo' :
             block_undo'[x] \in [created : SUBSET Coin, removed : SUBSET Coin] /\ x \in Block
      BY <1>5, <1>7, <2>1
    <2> QED
      BY <1>1, <1>7, <1>8, <2>2, NextEventType
  <1>10. blocks' = blocks /\ watched' = watched
    BY <1>1 DEF NextEvent
  <1>11. Len(Waiting) \in Nat
    BY <1>1, WaitingType
  <1>12. ASSUME WillLeave(Waiting)
         PROVE  WillLeave(Waiting)'
    <2>1. SUFFICES ASSUME NEW x \in DOMAIN block_undo', x \notin Range(blocks)
                   PROVE  \E i \in 1..Len(Waiting') : TakesBack(Waiting', i, x)
      BY <1>10 DEF WillLeave, TakesBack
    <2>2. b \in Range(blocks)
      BY <1>1, <1>4, <1>5 DEF Range
    <2>3. x \in DOMAIN block_undo
      BY <1>7, <2>1, <2>2
    <2>4. PICK i \in 1..Len(Waiting) : TakesBack(Waiting, i, x)
      BY <1>12, <2>1, <2>3 DEF WillLeave
    <2>5. i # 1
      BY <1>3, <1>4, <2>4 DEF TakesBack
    <2>6. i - 1 \in 1..Len(Waiting') /\ (i - 1) + 1 = i
      BY <1>3, <1>11, <2>5
    <2>7. Waiting'[i - 1] = Waiting[i]
      BY <1>3, <1>11, <2>6
    <2> QED
      BY <2>4, <2>6, <2>7 DEF TakesBack
  <1>13. ASSUME WillStay(Waiting)
         PROVE  WillStay(Waiting)'
    <2> SUFFICES ASSUME NEW h \in 1..Len(blocks)
                 PROVE \/ /\ blocks[h] \in DOMAIN block_undo'
                          /\ \A i \in 1..Len(Waiting') : ~TakesBack(Waiting', i, blocks[h])
                       \/ \E i \in 1..Len(Waiting') :
                             /\ Waiting'[i].kind = "connected" /\ Waiting'[i].height = h - 1
                             /\ \A j \in (i + 1)..Len(Waiting') : ~TakesBack(Waiting', j, blocks[h])
      BY <1>10 DEF WillStay, TakesBack
    <2>1. \A i \in 1..Len(Waiting') : i + 1 \in 2..Len(Waiting) /\ Waiting'[i] = Waiting[i + 1]
      BY <1>3, <1>11
    <2>2. CASE /\ blocks[h] \in DOMAIN block_undo
               /\ \A i \in 1..Len(Waiting) : ~TakesBack(Waiting, i, blocks[h])
      <3>1. ASSUME NEW i \in 1..Len(Waiting')
            PROVE  ~TakesBack(Waiting', i, blocks[h])
        <4>1. i + 1 \in 1..Len(Waiting) /\ Waiting'[i] = Waiting[i + 1]
          BY <1>11, <2>1
        <4> QED
          BY <2>2, <4>1 DEF TakesBack
      <3> QED
        BY <1>7, <2>2, <3>1
    <2>3. CASE \E i \in 1..Len(Waiting) :
                  /\ Waiting[i].kind = "connected" /\ Waiting[i].height = h - 1
                  /\ \A j \in (i + 1)..Len(Waiting) : ~TakesBack(Waiting, j, blocks[h])
      <3>1. PICK i \in 1..Len(Waiting) :
                  /\ Waiting[i].kind = "connected" /\ Waiting[i].height = h - 1
                  /\ \A j \in (i + 1)..Len(Waiting) : ~TakesBack(Waiting, j, blocks[h])
        BY <2>3
      <3>2. ASSUME NEW j \in i..Len(Waiting')
            PROVE  ~TakesBack(Waiting', j, blocks[h])
        <4>1. j \in 1..Len(Waiting') /\ j + 1 \in (i + 1)..Len(Waiting)
          BY <1>3, <1>11, <3>1
        <4> QED
          BY <2>1, <3>1, <4>1 DEF TakesBack
      <3>3. CASE i = 1
        <4>1. h = g
          BY <1>3, <1>4, <1>11, <3>1, <3>3
        <4> QED
          BY <1>5, <1>7, <3>2, <3>3, <4>1
      <3>4. CASE i # 1
        <4>1. i - 1 \in 1..Len(Waiting') /\ (i - 1) + 1 = i
          BY <1>3, <1>11, <3>1, <3>4
        <4>2. Waiting'[i - 1] = Waiting[i]
          BY <1>3, <4>1, <1>11
        <4>3. \A j \in ((i - 1) + 1)..Len(Waiting') : ~TakesBack(Waiting', j, blocks[h])
          BY <3>2, <4>1
        <4> QED
          BY <3>1, <4>1, <4>2, <4>3
      <3> QED
        BY <3>3, <3>4
    <2> QED
      BY <1>13, <2>2, <2>3 DEF WillStay
  <1>14. "late watch" \notin trouble' =>
            \A x \in DOMAIN block_undo' : block_undo'[x].created = Credits(x)'
    <2>1. \A x : Credits(x)' = Credits(x)
      BY <1>10 DEF Credits
    <2> QED
      BY <1>7, <1>8, <2>1 DEF UndoInv
  <1> QED
    BY <1>8, <1>9, <1>10, <1>12, <1>13, <1>14 DEF UndoInv

LEMMA DisconnectedUndo ==
    ASSUME UndoInv, ApplyDisconnected
    PROVE  UndoInv'
  <1>1. TypeOK /\ batch # << >> /\ NextEvent /\ blocks \in Seq(Block) /\ Len(blocks) \in Nat
    <2>1. TypeOK /\ batch # << >> /\ NextEvent
      BY DEF UndoInv, ApplyDisconnected
    <2> QED
      BY <2>1 DEF TypeOK
  <1>3. /\ Head(batch) \in Event /\ Waiting[1] = Head(batch) /\ Len(Waiting) >= 1
        /\ Waiting' \in Seq(Event) /\ Len(Waiting') = Len(Waiting) - 1
        /\ \A i \in 1..(Len(Waiting) - 1) : Waiting'[i] = Waiting[i + 1]
    BY <1>1, WaitingNext
  <1>4. PICK b \in Block : b = Head(batch).block
    BY <1>3, EventsType
  <1>5. Head(batch).kind = "disconnected" /\ Disconnect(b)
    BY <1>4 DEF ApplyDisconnected
  <1>6. TakesBack(Waiting, 1, b)
    BY <1>3, <1>4, <1>5 DEF TakesBack
  <1>7. /\ DOMAIN block_undo' = DOMAIN block_undo \ {b} /\ utxos' \subseteq Coin
        /\ \A x \in DOMAIN block_undo \ {b} : block_undo'[x] = block_undo[x]
    BY <1>1, <1>5, DisconnectFacts
  <1>8. trouble \subseteq trouble' /\ trouble' \subseteq Troubles
    BY <1>1 DEF ApplyDisconnected, TypeOK, Troubles
  <1>9. TypeOK'
    <2>1. \A x \in DOMAIN block_undo :
             block_undo[x] \in [created : SUBSET Coin, removed : SUBSET Coin] /\ x \in Block
      BY <1>1 DEF TypeOK
    <2>2. \A x \in DOMAIN block_undo' :
             block_undo'[x] \in [created : SUBSET Coin, removed : SUBSET Coin] /\ x \in Block
      BY <1>7, <2>1
    <2> QED
      BY <1>1, <1>7, <1>8, <2>2, NextEventType
  <1>10. blocks' = blocks /\ watched' = watched
    BY <1>1 DEF NextEvent
  <1>11. Len(Waiting) \in Nat
    BY <1>1, WaitingType
  <1>12. ASSUME WillLeave(Waiting)
         PROVE  WillLeave(Waiting)'
    <2>1. SUFFICES ASSUME NEW x \in DOMAIN block_undo', x \notin Range(blocks)
                   PROVE  \E i \in 1..Len(Waiting') : TakesBack(Waiting', i, x)
      BY <1>10 DEF WillLeave, TakesBack
    <2>3. x \in DOMAIN block_undo /\ x # b
      BY <1>7, <2>1
    <2>4. PICK i \in 1..Len(Waiting) : TakesBack(Waiting, i, x)
      BY <1>12, <2>1, <2>3 DEF WillLeave
    <2>5. i # 1
      BY <1>6, <2>3, <2>4 DEF TakesBack
    <2>6. i - 1 \in 1..Len(Waiting') /\ (i - 1) + 1 = i
      BY <1>3, <1>11, <2>5
    <2>7. Waiting'[i - 1] = Waiting[i]
      BY <1>3, <1>11, <2>6
    <2> QED
      BY <2>4, <2>6, <2>7 DEF TakesBack
  <1>13. ASSUME WillStay(Waiting)
         PROVE  WillStay(Waiting)'
    <2> SUFFICES ASSUME NEW h \in 1..Len(blocks)
                 PROVE \/ /\ blocks[h] \in DOMAIN block_undo'
                          /\ \A i \in 1..Len(Waiting') : ~TakesBack(Waiting', i, blocks[h])
                       \/ \E i \in 1..Len(Waiting') :
                             /\ Waiting'[i].kind = "connected" /\ Waiting'[i].height = h - 1
                             /\ \A j \in (i + 1)..Len(Waiting') : ~TakesBack(Waiting', j, blocks[h])
      BY <1>10 DEF WillStay, TakesBack
    <2>1. \A i \in 1..Len(Waiting') : i + 1 \in 2..Len(Waiting) /\ Waiting'[i] = Waiting[i + 1]
      BY <1>3, <1>11
    <2>2. CASE /\ blocks[h] \in DOMAIN block_undo
               /\ \A i \in 1..Len(Waiting) : ~TakesBack(Waiting, i, blocks[h])
      <3>1. ASSUME NEW i \in 1..Len(Waiting')
            PROVE  ~TakesBack(Waiting', i, blocks[h])
        <4>1. i + 1 \in 1..Len(Waiting) /\ Waiting'[i] = Waiting[i + 1]
          BY <1>11, <2>1
        <4> QED
          BY <2>2, <4>1 DEF TakesBack
      <3>2. 1 \in 1..Len(Waiting)
        BY <1>3, <1>11
      <3>3. blocks[h] # b
        BY <1>6, <2>2, <3>2
      <3> QED
        BY <1>7, <2>2, <3>1, <3>3
    <2>3. CASE \E i \in 1..Len(Waiting) :
                  /\ Waiting[i].kind = "connected" /\ Waiting[i].height = h - 1
                  /\ \A j \in (i + 1)..Len(Waiting) : ~TakesBack(Waiting, j, blocks[h])
      <3>1. PICK i \in 1..Len(Waiting) :
                  /\ Waiting[i].kind = "connected" /\ Waiting[i].height = h - 1
                  /\ \A j \in (i + 1)..Len(Waiting) : ~TakesBack(Waiting, j, blocks[h])
        BY <2>3
      <3>2. ASSUME NEW j \in i..Len(Waiting')
            PROVE  ~TakesBack(Waiting', j, blocks[h])
        <4>1. j \in 1..Len(Waiting') /\ j + 1 \in (i + 1)..Len(Waiting)
          BY <1>3, <1>11, <3>1
        <4> QED
          BY <2>1, <3>1, <4>1 DEF TakesBack
      <3>3. i # 1
        BY <1>3, <1>5, <3>1
      <3>4. i - 1 \in 1..Len(Waiting') /\ (i - 1) + 1 = i
        BY <1>3, <1>11, <3>1, <3>3
      <3>5. Waiting'[i - 1] = Waiting[i]
        BY <1>3, <3>4, <1>11
      <3>6. \A j \in ((i - 1) + 1)..Len(Waiting') : ~TakesBack(Waiting', j, blocks[h])
        BY <3>2, <3>4
      <3> QED
        BY <3>1, <3>4, <3>5, <3>6
    <2> QED
      BY <1>13, <2>2, <2>3 DEF WillStay
  <1>14. "late watch" \notin trouble' =>
            \A x \in DOMAIN block_undo' : block_undo'[x].created = Credits(x)'
    <2>1. \A x : Credits(x)' = Credits(x)
      BY <1>10 DEF Credits
    <2> QED
      BY <1>7, <1>8, <2>1 DEF UndoInv
  <1> QED
    BY <1>8, <1>9, <1>10, <1>12, <1>13, <1>14 DEF UndoInv

LEMMA NextUndo ==
    ASSUME UndoInv, [Next]_vars
    PROVE  UndoInv'
  <1>1. CASE \E b \in Block : Move(b) \/ RolledBack(b)
    BY <1>1, MoveUndo, RolledBackUndo
  <1>2. CASE \E a \in Address : WatchAddress(a)
    BY <1>2, WatchUndo
  <1>3. CASE TakeEvents
    BY <1>3, TakeUndo
  <1>4. CASE ApplyConnected
    BY <1>4, ConnectedUndo
  <1>5. CASE MissingBlock
    BY <1>5, MissingUndo
  <1>6. CASE ApplyDisconnected
    BY <1>6, DisconnectedUndo
  <1>7. CASE UNCHANGED vars
    <2>1. /\ blocks' = blocks /\ journal' = journal /\ batch' = batch /\ applying' = applying
          /\ watched' = watched /\ utxos' = utxos /\ block_undo' = block_undo
          /\ trouble' = trouble /\ moves' = moves
      BY <1>7 DEF vars, wallet
    <2>2. Waiting' = Waiting
      BY <2>1 DEF Waiting
    <2>3. TypeOK'
      BY <2>1 DEF UndoInv, TypeOK
    <2>4. \A b : Credits(b)' = Credits(b)
      BY <2>1 DEF Credits
    <2> QED
      BY <2>1, <2>2, <2>3, <2>4, SameUndo DEF UndoInv
  <1> QED
    BY <1>1, <1>2, <1>3, <1>4, <1>5, <1>6, <1>7 DEF Next

LEMMA UndoInvImplies ==
    ASSUME UndoInv
    PROVE  UndoComplete
  <1>1. TypeOK
    BY DEF UndoInv
  <1>2. ASSUME Quiet, trouble \cap {"rollback", "missing block"} = {}
        PROVE  DOMAIN block_undo = Range(blocks)
    <2>1. Len(Waiting) = 0
      <3>1. Waiting = << >> \o << >>
        BY <1>2 DEF Quiet, Waiting
      <3> QED
        BY <3>1
    <2>2. WillLeave(Waiting) /\ WillStay(Waiting) /\ blocks \in Seq(Block)
      BY <1>1, <1>2 DEF UndoInv, TypeOK
    <2>3. \A b \in DOMAIN block_undo : b \in Range(blocks)
      BY <2>1, <2>2 DEF WillLeave
    <2>4. \A h \in 1..Len(blocks) : blocks[h] \in DOMAIN block_undo
      BY <2>1, <2>2 DEF WillStay
    <2> QED
      <3>1. Range(blocks) = { blocks[h] : h \in 1..Len(blocks) }
        BY <2>2 DEF Range
      <3> QED
        BY <2>3, <2>4, <3>1
  <1>3. "late watch" \notin trouble =>
           \A b \in DOMAIN block_undo : block_undo[b].created = Credits(b)
    BY DEF UndoInv
  <1> QED
    BY <1>1, <1>2, <1>3 DEF UndoComplete

\* apply_events: a wallet that has applied every event has the undo data of exactly
\* the active blocks, whatever blocks it read for the events on the way.
THEOREM UndoTheorem == Spec => []UndoComplete
  <1>1. Init => UndoInv
    BY InitUndo
  <1>2. UndoInv /\ [Next]_vars => UndoInv'
    BY NextUndo
  <1>3. UndoInv => UndoComplete
    BY UndoInvImplies
  <1> QED
    BY <1>1, <1>2, <1>3, PTL DEF Spec

-----------------------------------------------------------------------------
(* The chains the wallet follows                                            *)

\* Event e takes the wallet from chain v to chain w.
Follows(v, e, w) ==
    \/ e.kind = "connected" /\ w = Append(v, e.block) /\ e.height = Len(v)
    \/ e.kind = "disconnected" /\ v = Append(w, e.block)

\* V[i] is the chain after the first i events of p.
Path(V, p) ==
    /\ V \in [0..Len(p) -> Seq(Block)]
    /\ \A i \in 0..Len(p) : IsChain(V[i])
    /\ \A i \in 1..Len(p) : Follows(V[i - 1], p[i], V[i])

\* The wallet has followed v: it has the undo data of its blocks, and every coin
\* it holds, or would get back, is one that a block of v at most as high gave it.
Backed(v) ==
    /\ DOMAIN block_undo = { v[i] : i \in 1..Len(v) }
    /\ \A i \in 1..Len(v) : block_undo[v[i]].created \subseteq creates[v[i]]
    /\ \A c \in utxos : \E i \in 1..Len(v) : c \in block_undo[v[i]].created
    /\ \A i \in 1..Len(v) : \A c \in block_undo[v[i]].removed :
          \E j \in 1..i : c \in block_undo[v[j]].created

\* The spendable coins of the first n blocks of v.
SpendableAt(v, n) ==
    { c \in Coin : /\ payee[c] \in watched
                   /\ \E i \in 1..n : c \in creates[v[i]]
                   /\ \A i \in 1..n : c \notin spends[v[i]] }

\* The wallet has exactly the coins and the undo data of v.
Exact(v) ==
    /\ utxos = SpendableAt(v, Len(v))
    /\ \A i \in 1..Len(v) :
          /\ block_undo[v[i]].created = Credits(v[i])
          /\ block_undo[v[i]].removed =
                (SpendableAt(v, i - 1) \cup Credits(v[i])) \cap spends[v[i]]

ExactInv ==
    trouble \subseteq {"late watch"} =>
        \E V :
            /\ Path(V, Waiting) /\ V[Len(Waiting)] = blocks
            /\ Backed(V[0])
            /\ trouble = {} /\ CoinsOnce => Exact(V[0])

-----------------------------------------------------------------------------
LEMMA AppendAt ==
    ASSUME NEW v \in Seq(Block), NEW b \in Block, NEW w, w = Append(v, b)
    PROVE  /\ w \in Seq(Block) /\ Len(w) = Len(v) + 1 /\ Len(v) \in Nat /\ w # << >>
           /\ w[Len(v) + 1] = b
           /\ \A i \in 1..Len(v) : w[i] = v[i]
  OBVIOUS

LEMMA ChainCoinsOnce ==
    ASSUME CoinsOnce, NEW v, IsChain(v), NEW i \in 1..Len(v), NEW j \in 1..Len(v), i < j
    PROVE  creates[v[j]] \cap (creates[v[i]] \cup spends[v[i]]) = {}
  <1>1. v \in Seq(Block) /\ v # << >>
    BY DEF IsChain
  <1>2. Last(v) \in Block /\ v = branch[Last(v)] /\ DOMAIN v = 1..Len(v)
    BY <1>1, LastOf DEF IsChain
  <1> QED
    BY <1>2 DEF CoinsOnce

LEMMA SpendableSame ==
    ASSUME NEW v, NEW w, NEW n \in Nat, \A i \in 1..n : v[i] = w[i]
    PROVE  SpendableAt(v, n) = SpendableAt(w, n)
  BY DEF SpendableAt

LEMMA SpendableIs ==
    ASSUME NEW v \in Seq(Block)
    PROVE  Spendable(v) = SpendableAt(v, Len(v))
  <1>1. DOMAIN v = 1..Len(v)
    OBVIOUS
  <1> QED
    BY <1>1 DEF Spendable, SpendableAt

LEMMA ConnectBacked ==
    ASSUME TypeOK, NEW v, IsChain(v), NEW b \in Block, NEW w, w = Append(v, b), IsChain(w),
           Backed(v), Connect(b)
    PROVE  Backed(w)' /\ b \notin DOMAIN block_undo
  <1> DEFINE n == Len(v)
  <1>1. /\ v \in Seq(Block) /\ n \in Nat /\ Len(w) = n + 1 /\ w[n + 1] = b
        /\ \A i \in 1..n : w[i] = v[i]
    BY AppendAt DEF IsChain
  <1>2. \A i \in 1..n : w[i] # b
    <2>1. \A i, j \in 1..Len(w) : w[i] = w[j] => i = j
      BY ChainOnce
    <2> QED
      BY <1>1, <2>1
  <1>3. b \notin DOMAIN block_undo
    BY <1>1, <1>2 DEF Backed
  <1>4. /\ utxos' = (utxos \cup Credits(b)) \ spends[b]
        /\ DOMAIN block_undo' = DOMAIN block_undo \cup {b}
        /\ block_undo'[b].created = Credits(b)
        /\ block_undo'[b].removed = (utxos \cup Credits(b)) \cap spends[b]
        /\ \A x \in DOMAIN block_undo : block_undo'[x] = block_undo[x]
    BY <1>3, ConnectFacts
  <1> HIDE DEF n
  <1>5. /\ DOMAIN block_undo = { v[i] : i \in 1..n }
        /\ \A i \in 1..n : block_undo[v[i]].created \subseteq creates[v[i]]
        /\ \A c \in utxos : \E i \in 1..n : c \in block_undo[v[i]].created
        /\ \A i \in 1..n : \A c \in block_undo[v[i]].removed :
              \E j \in 1..i : c \in block_undo[v[j]].created
    BY DEF Backed, n
  <1>6. \A i \in 1..n : block_undo'[w[i]] = block_undo[v[i]]
    BY <1>1, <1>4, <1>5
  <1>7. Credits(b) \subseteq creates[b]
    BY CreditsType
  <1>8. DOMAIN block_undo' = { w[i] : i \in 1..(n + 1) }
    <2>1. \A i \in 1..(n + 1) : i \in 1..n \/ i = n + 1
      BY <1>1
    <2>2. \A i \in 1..n : i \in 1..(n + 1)
      BY <1>1
    <2>3. n + 1 \in 1..(n + 1)
      BY <1>1
    <2> QED
      BY <1>1, <1>4, <1>5, <2>1, <2>2, <2>3
  <1>9. \A i \in 1..(n + 1) : block_undo'[w[i]].created \subseteq creates[w[i]]
    BY <1>1, <1>4, <1>5, <1>6, <1>7
  <1>10. \A c \in utxos \cup Credits(b) : \E i \in 1..(n + 1) : c \in block_undo'[w[i]].created
    <2>1. ASSUME NEW c \in utxos
          PROVE  \E i \in 1..(n + 1) : c \in block_undo'[w[i]].created
      <3>1. PICK i \in 1..n : c \in block_undo[v[i]].created
        BY <1>5
      <3> QED
        BY <1>1, <1>6, <3>1
    <2>2. ASSUME NEW c \in Credits(b)
          PROVE  \E i \in 1..(n + 1) : c \in block_undo'[w[i]].created
      <3>1. n + 1 \in 1..(n + 1) /\ c \in block_undo'[w[n + 1]].created
        BY <1>1, <1>4
      <3> QED
        BY <3>1
    <2> QED
      BY <2>1, <2>2
  <1>11. ASSUME NEW i \in 1..(n + 1), NEW c \in block_undo'[w[i]].removed
         PROVE  \E j \in 1..i : c \in block_undo'[w[j]].created
    <2>1. CASE i = n + 1
      <3>1. c \in utxos \cup Credits(b)
        BY <1>1, <1>4, <2>1, <1>11
      <3> QED
        BY <1>10, <2>1, <3>1
    <2>2. CASE i # n + 1
      <3>1. i \in 1..n
        BY <1>1, <2>2
      <3>2. PICK j \in 1..i : c \in block_undo[v[j]].created
        BY <1>5, <1>6, <1>11, <3>1
      <3>3. j \in 1..n
        BY <1>1, <3>1, <3>2
      <3> QED
        BY <1>6, <3>2, <3>3
    <2> QED
      BY <2>1, <2>2
  <1>12. \A c \in utxos' : \E i \in 1..(n + 1) : c \in block_undo'[w[i]].created
    BY <1>4, <1>10
  <1> QED
    BY <1>1, <1>3, <1>8, <1>9, <1>11, <1>12 DEF Backed, n

LEMMA ConnectExact ==
    ASSUME TypeOK, CoinsOnce, NEW v, IsChain(v), NEW b \in Block, NEW w, w = Append(v, b),
           IsChain(w), Backed(v), Exact(v), Connect(b), watched' = watched
    PROVE  Exact(w)'
  <1> DEFINE n == Len(v)
  <1>1. /\ v \in Seq(Block) /\ n \in Nat /\ Len(w) = n + 1 /\ w[n + 1] = b
        /\ \A i \in 1..n : w[i] = v[i]
    BY AppendAt DEF IsChain
  <1>2. b \notin DOMAIN block_undo
    BY ConnectBacked
  <1>3. /\ utxos' = (utxos \cup Credits(b)) \ spends[b]
        /\ block_undo'[b].created = Credits(b)
        /\ block_undo'[b].removed = (utxos \cup Credits(b)) \cap spends[b]
        /\ \A x \in DOMAIN block_undo : block_undo'[x] = block_undo[x]
    BY <1>2, ConnectFacts
  <1>4. \A x : Credits(x)' = Credits(x)
    BY DEF Credits
  <1>5. \A m : SpendableAt(w, m)' = SpendableAt(w, m)
    BY DEF SpendableAt
  <1>6. \A m \in 0..n : SpendableAt(w, m) = SpendableAt(v, m)
    <2>1. ASSUME NEW m \in 0..n
          PROVE  SpendableAt(w, m) = SpendableAt(v, m)
      <3>1. m \in Nat /\ \A i \in 1..m : w[i] = v[i]
        BY <1>1
      <3> QED
        BY <3>1, SpendableSame
    <2> QED
      BY <2>1
  <1> HIDE DEF n
  <1>7. /\ utxos = SpendableAt(v, n)
        /\ \A i \in 1..n :
              /\ block_undo[v[i]].created = Credits(v[i])
              /\ block_undo[v[i]].removed = (SpendableAt(v, i - 1) \cup Credits(v[i])) \cap spends[v[i]]
    BY DEF Exact, n
  <1>8. \A i \in 1..n : v[i] \in DOMAIN block_undo
    BY DEF Backed, n
  <1>9. \A i \in 1..n : creates[b] \cap spends[w[i]] = {}
    <2>1. \A i \in 1..n : i \in 1..Len(w) /\ n + 1 \in 1..Len(w) /\ i < n + 1
      BY <1>1
    <2> QED
      BY <1>1, <2>1, ChainCoinsOnce
  <1>10. utxos' = SpendableAt(w, n + 1)
    <2>1. utxos' = (SpendableAt(w, n) \cup Credits(b)) \ spends[b]
      BY <1>1, <1>3, <1>6, <1>7
    <2>2. \A i \in 1..(n + 1) : i \in 1..n \/ i = n + 1
      BY <1>1
    <2>3. (\A i \in 1..n : i \in 1..(n + 1)) /\ n + 1 \in 1..(n + 1)
      BY <1>1
    <2>4. \A c : c \in Credits(b) <=> c \in Coin /\ c \in creates[b] /\ payee[c] \in watched
      BY CreditsType DEF Credits
    <2>5. ASSUME NEW c \in Coin
          PROVE  c \in utxos' <=> c \in SpendableAt(w, n + 1)
      BY <1>1, <1>9, <2>1, <2>2, <2>3, <2>4 DEF SpendableAt
    <2>6. utxos' \subseteq Coin /\ SpendableAt(w, n + 1) \subseteq Coin
      BY <2>1, <2>4 DEF SpendableAt
    <2> QED
      BY <2>5, <2>6
  <1>11. ASSUME NEW i \in 1..(n + 1)
         PROVE  /\ block_undo'[w[i]].created = Credits(w[i])
                /\ block_undo'[w[i]].removed = (SpendableAt(w, i - 1) \cup Credits(w[i])) \cap spends[w[i]]
    <2>1. CASE i = n + 1
      <3>1. i - 1 = n /\ w[i] = b /\ SpendableAt(w, n) = utxos
        BY <1>1, <1>6, <1>7, <2>1
      <3> QED
        BY <1>3, <3>1
    <2>2. CASE i # n + 1
      <3>1. i \in 1..n /\ i - 1 \in 0..n
        BY <1>1, <2>2
      <3>2. w[i] = v[i] /\ block_undo'[w[i]] = block_undo[v[i]] /\ SpendableAt(w, i - 1) = SpendableAt(v, i - 1)
        BY <1>1, <1>3, <1>6, <1>8, <3>1
      <3> QED
        BY <1>7, <3>1, <3>2
    <2> QED
      BY <2>1, <2>2
  <1>12. utxos' = SpendableAt(w, Len(w))'
    BY <1>1, <1>5, <1>10
  <1>13. ASSUME NEW i \in 1..Len(w)
         PROVE  /\ block_undo'[w[i]].created = Credits(w[i])'
                /\ block_undo'[w[i]].removed =
                      (SpendableAt(w, i - 1)' \cup Credits(w[i])') \cap spends[w[i]]
    <2>1. i \in 1..(n + 1) /\ Credits(w[i])' = Credits(w[i])
      BY <1>1, <1>4
    <2>2. SpendableAt(w, i - 1)' = SpendableAt(w, i - 1)
      BY <1>5
    <2> QED
      BY <1>11, <2>1, <2>2
  <1> QED
    BY <1>12, <1>13 DEF Exact

LEMMA DisconnectBacked ==
    ASSUME TypeOK, NEW v, IsChain(v), NEW b \in Block, NEW w, IsChain(w), v = Append(w, b),
           Backed(v), Disconnect(b), block_undo[b].created \cap block_undo[b].removed = {}
    PROVE  Backed(w)' /\ b \in DOMAIN block_undo
  <1> DEFINE n == Len(w)
  <1>1. /\ w \in Seq(Block) /\ n \in Nat /\ Len(v) = n + 1 /\ v[n + 1] = b
        /\ \A i \in 1..n : v[i] = w[i]
    BY AppendAt DEF IsChain
  <1>2. \A i \in 1..n : w[i] # b
    <2>1. \A i, j \in 1..Len(v) : v[i] = v[j] => i = j
      BY ChainOnce
    <2> QED
      BY <1>1, <2>1
  <1> HIDE DEF n
  <1>3. /\ DOMAIN block_undo = { v[i] : i \in 1..(n + 1) }
        /\ \A i \in 1..(n + 1) : block_undo[v[i]].created \subseteq creates[v[i]]
        /\ \A c \in utxos : \E i \in 1..(n + 1) : c \in block_undo[v[i]].created
        /\ \A i \in 1..(n + 1) : \A c \in block_undo[v[i]].removed :
              \E j \in 1..i : c \in block_undo[v[j]].created
    BY <1>1 DEF Backed
  <1>4. n + 1 \in 1..(n + 1) /\ \A i \in 1..n : i \in 1..(n + 1)
    BY <1>1
  <1>5. b \in DOMAIN block_undo
    BY <1>1, <1>3, <1>4
  <1>6. /\ DOMAIN block_undo' = DOMAIN block_undo \ {b}
        /\ \A x \in DOMAIN block_undo \ {b} : block_undo'[x] = block_undo[x]
        /\ utxos' = (utxos \ block_undo[b].created) \cup block_undo[b].removed
    BY <1>5, DisconnectFacts
  <1>7. \A i \in 1..n : v[i] \in DOMAIN block_undo \ {b} /\ block_undo'[w[i]] = block_undo[v[i]]
    <2>1. ASSUME NEW i \in 1..n
          PROVE  v[i] \in DOMAIN block_undo \ {b} /\ block_undo'[w[i]] = block_undo[v[i]]
      <3>1. v[i] = w[i] /\ w[i] # b /\ i \in 1..(n + 1)
        BY <1>1, <1>2, <1>4
      <3>2. v[i] \in DOMAIN block_undo
        BY <1>3, <3>1
      <3> QED
        BY <1>6, <3>1, <3>2
    <2> QED
      BY <2>1
  <1>8. DOMAIN block_undo' = { w[i] : i \in 1..n }
    <2>1. \A i \in 1..(n + 1) : i \in 1..n \/ i = n + 1
      BY <1>1
    <2> QED
      BY <1>1, <1>3, <1>6, <1>7, <2>1
  <1>9. \A i \in 1..n : block_undo'[w[i]].created \subseteq creates[w[i]]
    BY <1>1, <1>3, <1>4, <1>7
  <1>10. ASSUME NEW i \in 1..(n + 1), NEW c \in block_undo[v[i]].created, c \notin block_undo[b].created
         PROVE  i \in 1..n /\ c \in block_undo'[w[i]].created
    <2>1. i # n + 1
      BY <1>1, <1>10
    <2>2. i \in 1..n
      BY <1>1, <2>1
    <2> QED
      BY <1>7, <2>2
  <1>11. ASSUME NEW c \in utxos'
         PROVE  \E i \in 1..n : c \in block_undo'[w[i]].created
    <2>1. c \notin block_undo[b].created /\ (c \in utxos \/ c \in block_undo[v[n + 1]].removed)
      BY <1>1, <1>6, <1>11
    <2>2. \E i \in 1..(n + 1) : c \in block_undo[v[i]].created
      BY <1>3, <1>4, <2>1
    <2> QED
      BY <1>10, <2>1, <2>2
  <1>12. ASSUME NEW i \in 1..n, NEW c \in block_undo'[w[i]].removed
         PROVE  \E j \in 1..i : c \in block_undo'[w[j]].created
    <2>1. PICK j \in 1..i : c \in block_undo[v[j]].created
      BY <1>3, <1>4, <1>7, <1>12
    <2>2. j \in 1..n
      BY <1>1, <2>1
    <2> QED
      BY <1>7, <2>1, <2>2
  <1> QED
    BY <1>5, <1>8, <1>9, <1>11, <1>12 DEF Backed, n

LEMMA DisconnectExact ==
    ASSUME TypeOK, CoinsOnce, NEW v, IsChain(v), NEW b \in Block, NEW w, IsChain(w),
           v = Append(w, b), Backed(v), Exact(v), Disconnect(b), watched' = watched,
           block_undo[b].created \cap block_undo[b].removed = {}
    PROVE  Exact(w)'
  <1> DEFINE n == Len(w)
  <1>1. /\ w \in Seq(Block) /\ n \in Nat /\ Len(v) = n + 1 /\ v[n + 1] = b
        /\ \A i \in 1..n : v[i] = w[i]
    BY AppendAt DEF IsChain
  <1>2. \A i \in 1..n : w[i] # b
    <2>1. \A i, j \in 1..Len(v) : v[i] = v[j] => i = j
      BY ChainOnce
    <2> QED
      BY <1>1, <2>1
  <1>3. b \in DOMAIN block_undo
    BY DisconnectBacked
  <1>4. /\ \A x \in DOMAIN block_undo \ {b} : block_undo'[x] = block_undo[x]
        /\ utxos' = (utxos \ block_undo[b].created) \cup block_undo[b].removed
    BY <1>3, DisconnectFacts
  <1>5. \A x : Credits(x)' = Credits(x)
    BY DEF Credits
  <1>6. \A m : SpendableAt(w, m)' = SpendableAt(w, m)
    BY DEF SpendableAt
  <1>7. \A m \in 0..n : SpendableAt(w, m) = SpendableAt(v, m)
    <2>1. ASSUME NEW m \in 0..n
          PROVE  SpendableAt(w, m) = SpendableAt(v, m)
      <3>1. m \in Nat /\ \A i \in 1..m : w[i] = v[i]
        BY <1>1
      <3> QED
        BY <3>1, SpendableSame
    <2> QED
      BY <2>1
  <1> HIDE DEF n
  <1>8. /\ utxos = SpendableAt(v, n + 1)
        /\ \A i \in 1..(n + 1) :
              /\ block_undo[v[i]].created = Credits(v[i])
              /\ block_undo[v[i]].removed = (SpendableAt(v, i - 1) \cup Credits(v[i])) \cap spends[v[i]]
    BY <1>1 DEF Exact
  <1>9. n + 1 \in 1..(n + 1) /\ (n + 1) - 1 = n /\ n \in 0..n /\ \A i \in 1..n : i \in 1..(n + 1)
    BY <1>1
  <1>10. /\ block_undo[b].created = Credits(b)
         /\ block_undo[b].removed = (SpendableAt(w, n) \cup Credits(b)) \cap spends[b]
    BY <1>1, <1>7, <1>8, <1>9
  <1>11. Credits(b) \cap spends[b] = {}
    BY <1>10
  <1>12. \A i \in 1..n : creates[b] \cap creates[v[i]] = {}
    <2>1. \A i \in 1..n : i \in 1..Len(v) /\ n + 1 \in 1..Len(v) /\ i < n + 1
      BY <1>1
    <2> QED
      BY <1>1, <2>1, ChainCoinsOnce
  <1>13. utxos' = SpendableAt(w, n)
    <2>1. utxos' = (SpendableAt(v, n + 1) \ Credits(b)) \cup (SpendableAt(w, n) \cap spends[b])
      BY <1>4, <1>8, <1>10, <1>11
    <2>2. \A i \in 1..(n + 1) : i \in 1..n \/ i = n + 1
      BY <1>1
    <2>3. \A c : c \in Credits(b) <=> c \in Coin /\ c \in creates[b] /\ payee[c] \in watched
      BY CreditsType DEF Credits
    <2>4. ASSUME NEW c \in Coin
          PROVE  c \in utxos' <=> c \in SpendableAt(w, n)
      <3>1. c \in SpendableAt(v, n + 1) /\ c \notin Credits(b) =>
               c \in SpendableAt(w, n)
        BY <1>1, <1>9, <2>2, <2>3 DEF SpendableAt
      <3>2. c \in SpendableAt(w, n) /\ c \notin spends[b] => c \in SpendableAt(v, n + 1)
        BY <1>1, <1>9, <2>2 DEF SpendableAt
      <3>3. c \in SpendableAt(w, n) => c \notin Credits(b)
        BY <1>1, <1>12, <2>3 DEF SpendableAt
      <3> QED
        BY <2>1, <3>1, <3>2, <3>3
    <2>5. utxos' \subseteq Coin /\ SpendableAt(w, n) \subseteq Coin
      BY <2>1 DEF SpendableAt
    <2> QED
      BY <2>4, <2>5
  <1>14. ASSUME NEW i \in 1..n
         PROVE  /\ block_undo'[w[i]].created = Credits(w[i])'
                /\ block_undo'[w[i]].removed =
                      (SpendableAt(w, i - 1)' \cup Credits(w[i])') \cap spends[w[i]]
    <2>1. Credits(w[i])' = Credits(w[i]) /\ SpendableAt(w, i - 1)' = SpendableAt(w, i - 1)
      BY <1>5, <1>6
    <2>2. i - 1 \in 0..n /\ w[i] = v[i]
      BY <1>1
    <2>3. v[i] \in DOMAIN block_undo \ {b}
      BY <1>1, <1>2, <1>9 DEF Backed
    <2>4. block_undo'[w[i]] = block_undo[v[i]]
      BY <1>4, <2>2, <2>3
    <2>5. SpendableAt(w, i - 1) = SpendableAt(v, i - 1)
      BY <1>7, <2>2
    <2>6. /\ block_undo[v[i]].created = Credits(v[i])
          /\ block_undo[v[i]].removed = (SpendableAt(v, i - 1) \cup Credits(v[i])) \cap spends[v[i]]
      BY <1>8, <1>9
    <2> QED
      BY <2>1, <2>2, <2>4, <2>5, <2>6
  <1>15. utxos' = SpendableAt(w, n)'
    BY <1>6, <1>13
  <1> QED
    BY <1>14, <1>15 DEF Exact, n

-----------------------------------------------------------------------------
(* Every step keeps ExactInv                                                *)

LEMMA InitExact ==
    ASSUME Init
    PROVE  ExactInv
  <1>1. Genesis \in Block /\ branch[Genesis] = << Genesis >>
    BY WalletAssumption
  <1>2. Connected(Genesis, 0) \in Event
    BY <1>1 DEF Connected, Event
  <1>3. /\ blocks = << Genesis >> /\ journal = << Connected(Genesis, 0) >> /\ batch = << >>
        /\ utxos = {} /\ block_undo = << >>
    BY DEF Init
  <1>4. Len(Waiting) = 1 /\ Waiting[1] = Connected(Genesis, 0)
    BY <1>2, <1>3 DEF Waiting
  <1> DEFINE V == [ i \in 0..1 |-> IF i = 0 THEN << >> ELSE << Genesis >> ]
  <1>5. V \in [0..1 -> Seq(Block)] /\ V[0] = << >> /\ V[1] = << Genesis >>
    BY <1>1
  <1>6. IsChain(V[0]) /\ IsChain(V[1])
    BY <1>1, <1>5, BranchIsChain DEF IsChain
  <1>7. Follows(V[0], Waiting[1], V[1])
    <2>1. V[1] = Append(V[0], Genesis) /\ Len(V[0]) = 0
      BY <1>1, <1>5
    <2> QED
      BY <1>4, <2>1 DEF Follows, Connected
  <1> HIDE DEF V
  <1>8. Path(V, Waiting) /\ V[Len(Waiting)] = blocks
    BY <1>3, <1>4, <1>5, <1>6, <1>7 DEF Path
  <1>9. DOMAIN block_undo = {} /\ Len(V[0]) = 0
    BY <1>3, <1>5
  <1>10. Backed(V[0])
    BY <1>3, <1>9 DEF Backed
  <1>11. Exact(V[0])
    BY <1>3, <1>9 DEF Exact, SpendableAt
  <1> QED
    BY <1>4, <1>5, <1>8, <1>10, <1>11 DEF ExactInv

\* The first event of a path has been applied.
LEMMA PathNext ==
    ASSUME TypeOK, batch # << >>, NextEvent,
           NEW V, Path(V, Waiting), V[Len(Waiting)] = blocks
    PROVE  /\ IsChain(V[0]) /\ IsChain(V[1]) /\ Follows(V[0], Head(batch), V[1])
           /\ \E W :
                 Path(W, Waiting') /\ W[Len(Waiting')] = blocks' /\ W[0] = V[1]
  <1>1. /\ Waiting[1] = Head(batch) /\ Len(Waiting) >= 1
        /\ Len(Waiting') = Len(Waiting) - 1
        /\ \A i \in 1..(Len(Waiting) - 1) : Waiting'[i] = Waiting[i + 1]
    BY WaitingNext
  <1>2. Len(Waiting) \in Nat
    BY WaitingType
  <1> DEFINE m == Len(Waiting)
             W == [ i \in 0..(m - 1) |-> V[i + 1] ]
  <1> HIDE DEF m
  <1>3. /\ m \in Nat /\ m >= 1 /\ Len(Waiting') = m - 1
        /\ V \in [0..m -> Seq(Block)] /\ V[m] = blocks
        /\ \A i \in 0..m : IsChain(V[i])
        /\ \A i \in 1..m : Follows(V[i - 1], Waiting[i], V[i])
        /\ \A i \in 1..(m - 1) : Waiting'[i] = Waiting[i + 1]
    BY <1>1, <1>2 DEF Path, m
  <1>4. \A i \in 0..(m - 1) : i + 1 \in 0..m /\ W[i] = V[i + 1]
    BY <1>3
  <1>5. W \in [0..(m - 1) -> Seq(Block)]
    <2>1. \A i \in 0..(m - 1) : V[i + 1] \in Seq(Block)
      BY <1>3, <1>4
    <2> QED
      BY <2>1
  <1> HIDE DEF W
  <1>6. \A i \in 0..(m - 1) : IsChain(W[i])
    BY <1>3, <1>4
  <1>7. ASSUME NEW i \in 1..(m - 1)
        PROVE  Follows(W[i - 1], Waiting'[i], W[i])
    <2>1. i - 1 \in 0..(m - 1) /\ i \in 0..(m - 1) /\ i + 1 \in 1..m /\ (i + 1) - 1 = i /\ (i - 1) + 1 = i
      BY <1>3
    <2>2. W[i - 1] = V[i] /\ W[i] = V[i + 1]
      BY <1>4, <2>1
    <2>3. Follows(V[i], Waiting[i + 1], V[i + 1])
      BY <1>3, <2>1
    <2> QED
      BY <1>3, <2>2, <2>3
  <1>8. W[0] = V[1] /\ W[m - 1] = blocks
    <2>1. 0 \in 0..(m - 1) /\ 0 + 1 = 1 /\ m - 1 \in 0..(m - 1) /\ (m - 1) + 1 = m
      BY <1>3
    <2>2. W[0] = V[0 + 1] /\ W[m - 1] = V[(m - 1) + 1]
      BY <1>4, <2>1
    <2> QED
      BY <1>3, <2>1, <2>2
  <1>9. blocks' = blocks
    BY DEF NextEvent
  <1>10. Path(W, Waiting')
    BY <1>3, <1>5, <1>6, <1>7 DEF Path
  <1>11. IsChain(V[0]) /\ IsChain(V[1]) /\ Follows(V[0], Head(batch), V[1])
    <2>1. 0 \in 0..m /\ 1 \in 0..m /\ 1 \in 1..m /\ 1 - 1 = 0
      BY <1>3
    <2> QED
      BY <1>1, <1>3, <2>1
  <1> QED
    BY <1>3, <1>5, <1>8, <1>9, <1>10, <1>11

LEMMA PrefixAppend ==
    ASSUME NEW v \in Seq(Block), NEW n \in 1..Len(v)
    PROVE  SubSeq(v, 1, n) = Append(SubSeq(v, 1, n - 1), v[n]) /\ Len(SubSeq(v, 1, n - 1)) = n - 1
  <1> DEFINE s == SubSeq(v, 1, n - 1)
             t == SubSeq(v, 1, n)
  <1>1. /\ s \in Seq(Block) /\ Len(s) = n - 1 /\ t \in Seq(Block) /\ Len(t) = n
        /\ (\A i \in 1..(n - 1) : s[i] = v[i]) /\ \A i \in 1..n : t[i] = v[i]
    OBVIOUS
  <1> HIDE DEF s, t
  <1>2. v[n] \in Block /\ n \in Nat
    OBVIOUS
  <1>3. /\ Append(s, v[n]) \in Seq(Block) /\ Len(Append(s, v[n])) = n
        /\ \A i \in 1..n : Append(s, v[n])[i] = v[i]
    BY <1>1, <1>2
  <1>4. t = Append(s, v[n])
    BY <1>1, <1>3
  <1> QED
    BY <1>1, <1>4 DEF s, t

LEMMA WholePrefix ==
    ASSUME NEW v \in Seq(Block)
    PROVE  SubSeq(v, 1, Len(v)) = v
  OBVIOUS

\* The events of a move lead from the old chain to the new one.
LEMMA MovePath ==
    ASSUME NEW old, IsChain(old), NEW new, IsChain(new), NEW ev, ev = MoveEvents(old, new)
    PROVE  /\ ev \in Seq(Event)
           /\ \E K :
                 Path(K, ev) /\ K[0] = old /\ K[Len(ev)] = new
  <1>1. PICK c : c = Common(old, new)
    OBVIOUS
  <1>2. old \in Seq(Block) /\ new \in Seq(Block) /\ Len(old) \in Nat /\ Len(new) \in Nat
    BY DEF IsChain
  <1>3. c \in 0..Len(old) /\ c <= Len(new) /\ \A i \in 1..c : old[i] = new[i]
    BY <1>1, <1>2, CommonShared
  <1> DEFINE d == Len(old) - c
             u == Len(new) - c
  <1>4. /\ ev \in Seq(Event) /\ Len(ev) = d + u
        /\ \A i \in 1..d : ev[i] = Disconnected(old[Len(old) + 1 - i])
        /\ \A i \in 1..u : ev[d + i] = Connected(new[c + i], c + i - 1)
    BY <1>1, <1>2, MoveEventsAre
  <1>5. d \in Nat /\ u \in Nat /\ c \in Nat
    BY <1>2, <1>3
  <1>6. SubSeq(old, 1, c) = SubSeq(new, 1, c)
    <2>1. SubSeq(old, 1, c) \in Seq(Block) /\ SubSeq(new, 1, c) \in Seq(Block)
      BY <1>2, <1>3
    <2>2. Len(SubSeq(old, 1, c)) = c /\ Len(SubSeq(new, 1, c)) = c
      BY <1>2, <1>3
    <2>3. \A i \in 1..c : SubSeq(old, 1, c)[i] = old[i] /\ SubSeq(new, 1, c)[i] = new[i]
      BY <1>2, <1>3
    <2> QED
      BY <1>3, <2>1, <2>2, <2>3
  <1> DEFINE K == [ k \in 0..Len(ev) |-> IF k <= d THEN SubSeq(old, 1, Len(old) - k)
                                         ELSE SubSeq(new, 1, c + (k - d)) ]
  <1>7. \A k \in 0..d : /\ k \in 0..Len(ev) /\ K[k] = SubSeq(old, 1, Len(old) - k)
                        /\ Len(old) - k \in 0..Len(old)
    BY <1>2, <1>3, <1>4, <1>5
  <1>8. \A k \in 0..u : d + k \in 0..Len(ev) /\ K[d + k] = SubSeq(new, 1, c + k)
    <2>1. ASSUME NEW k \in 1..u
          PROVE  d + k \in 0..Len(ev) /\ K[d + k] = SubSeq(new, 1, c + k)
      <3>1. d + k \in 0..Len(ev) /\ ~(d + k <= d) /\ c + ((d + k) - d) = c + k
        BY <1>2, <1>3, <1>4, <1>5
      <3> QED
        BY <3>1
    <2>2. d + 0 \in 0..Len(ev) /\ K[d + 0] = SubSeq(new, 1, c + 0)
      <3>1. d + 0 = d /\ d \in 0..d /\ Len(old) - d = c /\ c + 0 = c
        BY <1>2, <1>5
      <3>2. d \in 0..Len(ev) /\ K[d] = SubSeq(old, 1, Len(old) - d)
        BY <1>7, <3>1
      <3> QED
        BY <1>6, <3>1, <3>2
    <2>3. \A k \in 0..u : k = 0 \/ k \in 1..u
      BY <1>5
    <2> QED
      BY <2>1, <2>2, <2>3
  <1> HIDE DEF K
  <1>9. K \in [0..Len(ev) -> Seq(Block)]
    <2>1. \A k \in 0..Len(ev) : (IF k <= d THEN SubSeq(old, 1, Len(old) - k)
                                 ELSE SubSeq(new, 1, c + (k - d))) \in Seq(Block)
      BY <1>2, <1>3, <1>4, <1>5
    <2> QED
      BY <2>1 DEF K
  <1>10. \A k \in 0..Len(ev) : k \in 0..d \/ (k - d \in 1..u /\ d + (k - d) = k)
    BY <1>4, <1>5
  <1>11. \A k \in 0..Len(ev) : IsChain(K[k])
    <2>1. \A k \in 0..d : IsChain(K[k])
      BY <1>7, ChainPrefix
    <2>2. \A k \in 1..u : IsChain(K[d + k])
      <3>1. \A k \in 1..u : k \in 0..u /\ c + k \in 0..Len(new)
        BY <1>2, <1>3, <1>5
      <3> QED
        BY <1>8, <3>1, ChainPrefix
    <2> QED
      BY <1>10, <2>1, <2>2
  <1>12. ASSUME NEW k \in 1..d
         PROVE  Follows(K[k - 1], ev[k], K[k])
    <2>1. PICK n : n = Len(old) + 1 - k
      OBVIOUS
    <2>2. /\ n \in 1..Len(old) /\ Len(old) - k = n - 1 /\ Len(old) - (k - 1) = n
          /\ k \in 0..d /\ k - 1 \in 0..d
      BY <1>2, <1>3, <1>5, <2>1
    <2>3. K[k] = SubSeq(old, 1, n - 1) /\ K[k - 1] = SubSeq(old, 1, n)
      BY <1>7, <2>2
    <2>4. K[k - 1] = Append(K[k], old[n])
      BY <1>2, <2>2, <2>3, PrefixAppend
    <2>5. ev[k] = Disconnected(old[n])
      BY <1>4, <2>1
    <2> QED
      BY <2>4, <2>5 DEF Follows, Disconnected
  <1>13. ASSUME NEW k \in 1..u
         PROVE  Follows(K[(d + k) - 1], ev[d + k], K[d + k])
    <2>1. /\ c + k \in 1..Len(new) /\ k \in 0..u /\ k - 1 \in 0..u
          /\ (d + k) - 1 = d + (k - 1) /\ c + (k - 1) = (c + k) - 1
      BY <1>2, <1>3, <1>5
    <2>2. K[d + k] = SubSeq(new, 1, c + k) /\ K[(d + k) - 1] = SubSeq(new, 1, (c + k) - 1)
      BY <1>8, <2>1
    <2>3. /\ K[d + k] = Append(K[(d + k) - 1], new[c + k])
          /\ Len(K[(d + k) - 1]) = c + k - 1
      BY <1>2, <2>1, <2>2, PrefixAppend
    <2>4. ev[d + k] = Connected(new[c + k], c + k - 1)
      BY <1>4
    <2>5. /\ ev[d + k].kind = "connected" /\ ev[d + k].block = new[c + k]
          /\ ev[d + k].height = c + k - 1
      BY <2>4 DEF Connected
    <2> HIDE DEF d, u
    <2>6. K[d + k] = Append(K[(d + k) - 1], ev[d + k].block)
      BY <2>3, <2>5, Zenon
    <2>7. ev[d + k].height = Len(K[(d + k) - 1])
      BY <2>3, <2>5, Zenon
    <2> QED
      BY <2>5, <2>6, <2>7, Zenon DEF Follows
  <1>14. ASSUME NEW k \in 1..Len(ev)
         PROVE  Follows(K[k - 1], ev[k], K[k])
    <2>1. k \in 1..d \/ (k - d \in 1..u /\ d + (k - d) = k)
      BY <1>4, <1>5
    <2> QED
      BY <1>12, <1>13, <2>1
  <1>15. K[0] = old /\ K[Len(ev)] = new
    <2>1. 0 \in 0..d /\ Len(old) - 0 = Len(old) /\ u \in 0..u /\ Len(ev) = d + u /\ c + u = Len(new)
      BY <1>2, <1>4, <1>5
    <2>2. K[0] = SubSeq(old, 1, Len(old)) /\ K[d + u] = SubSeq(new, 1, Len(new))
      BY <1>7, <1>8, <2>1
    <2> QED
      BY <1>2, <2>1, <2>2, WholePrefix
  <1>16. Path(K, ev)
    BY <1>9, <1>11, <1>14 DEF Path
  <1> QED
    BY <1>4, <1>9, <1>15, <1>16

\* Two paths, the second from where the first ends.
LEMMA PathJoin ==
    ASSUME NEW p \in Seq(Event), NEW q \in Seq(Event)
    PROVE  \A V, K : Path(V, p) /\ Path(K, q) /\ V[Len(p)] = K[0] =>
              \E W : Path(W, p \o q) /\ W[0] = V[0] /\ W[Len(p \o q)] = K[Len(q)]
  <1> SUFFICES ASSUME NEW V, NEW K, Path(V, p), Path(K, q), V[Len(p)] = K[0]
               PROVE  \E W : /\ Path(W, p \o q) /\ W[0] = V[0]
                             /\ W[Len(p \o q)] = K[Len(q)]
    OBVIOUS
  <1>r. PICK r : r = p \o q
    OBVIOUS
  <1> DEFINE m == Len(p)
             n == Len(q)
             W == [ i \in 0..(m + n) |-> IF i <= m THEN V[i] ELSE K[i - m] ]
  <1>0. /\ Len(r) = Len(p) + Len(q)
        /\ \A i \in 1..Len(p) : r[i] = p[i]
        /\ \A i \in 1..Len(q) : r[Len(p) + i] = q[i]
    BY <1>r, JoinAt
  <1>1. m \in Nat /\ n \in Nat /\ Len(r) = m + n
    BY <1>0
  <1>2. /\ \A i \in 0..m : IsChain(V[i])
        /\ \A i \in 1..m : Follows(V[i - 1], p[i], V[i])
        /\ \A i \in 0..n : IsChain(K[i])
        /\ \A i \in 1..n : Follows(K[i - 1], q[i], K[i])
    BY DEF Path
  <1>3. /\ \A i \in 1..m : r[i] = p[i]
        /\ \A i \in 1..n : r[m + i] = q[i]
        /\ V \in [0..m -> Seq(Block)] /\ K \in [0..n -> Seq(Block)] /\ V[m] = K[0]
    BY <1>0 DEF Path
  <1> HIDE DEF m, n
  <1>4. \A i \in 0..m : i \in 0..(m + n) /\ W[i] = V[i]
    BY <1>1
  <1>5. \A i \in 0..n : m + i \in 0..(m + n) /\ W[m + i] = K[i]
    <2>1. ASSUME NEW i \in 1..n
          PROVE  m + i \in 0..(m + n) /\ W[m + i] = K[i]
      <3>1. m + i \in 0..(m + n) /\ ~(m + i <= m) /\ (m + i) - m = i
        BY <1>1
      <3> QED
        BY <3>1
    <2>2. m + 0 = m /\ m \in 0..m
      BY <1>1
    <2>3. \A i \in 0..n : i = 0 \/ i \in 1..n
      BY <1>1
    <2>4. m + 0 \in 0..(m + n) /\ W[m + 0] = K[0]
      BY <1>3, <1>4, <2>2
    <2> HIDE DEF W
    <2> QED
      BY <2>1, <2>3, <2>4
  <1>6. W \in [0..(m + n) -> Seq(Block)]
    <2>1. \A i \in 0..(m + n) : (IF i <= m THEN V[i] ELSE K[i - m]) \in Seq(Block)
      <3>1. ASSUME NEW i \in 0..(m + n)
            PROVE  (i <= m => i \in 0..m) /\ (~(i <= m) => i - m \in 0..n)
        BY <1>1
      <3> QED
        BY <1>3, <3>1
    <2> QED
      BY <2>1
  <1> HIDE DEF W
  <1>7. \A i \in 0..(m + n) : IsChain(W[i])
    <2>1. \A i \in 0..(m + n) : i \in 0..m \/ (i - m \in 0..n /\ m + (i - m) = i)
      BY <1>1
    <2> QED
      BY <1>2, <1>4, <1>5, <2>1
  <1>8. ASSUME NEW i \in 1..(m + n)
        PROVE  Follows(W[i - 1], r[i], W[i])
    <2>1. CASE i <= m
      <3>1. i \in 1..m /\ i \in 0..m /\ i - 1 \in 0..m
        BY <1>1, <2>1
      <3>2. W[i] = V[i] /\ W[i - 1] = V[i - 1] /\ r[i] = p[i]
        BY <1>3, <1>4, <3>1
      <3> QED
        BY <1>2, <3>1, <3>2
    <2>2. CASE ~(i <= m)
      <3>1. PICK k : k = i - m
        OBVIOUS
      <3>2. k \in 1..n /\ k \in 0..n /\ k - 1 \in 0..n /\ i = m + k /\ i - 1 = m + (k - 1)
        BY <1>1, <2>2, <3>1
      <3>3. W[i] = K[k] /\ W[i - 1] = K[k - 1] /\ r[i] = q[k]
        BY <1>3, <1>5, <3>2
      <3> QED
        BY <1>2, <3>2, <3>3
    <2> QED
      BY <2>1, <2>2
  <1>9. W[0] = V[0] /\ W[m + n] = K[n]
    <2>1. 0 \in 0..m /\ n \in 0..n
      BY <1>1
    <2> QED
      BY <1>4, <1>5, <2>1
  <1>10. Path(W, r)
    BY <1>1, <1>6, <1>7, <1>8 DEF Path
  <1> QED
    BY <1>r, <1>1, <1>9, <1>10 DEF n

\* The wallet's own view of a chain does not depend on anything else.
LEMMA SameView ==
    ASSUME NEW v, utxos' = utxos, block_undo' = block_undo
    PROVE  /\ Backed(v) => Backed(v)'
           /\ Exact(v) /\ watched' = watched => Exact(v)'
  <1>1. Backed(v) => Backed(v)'
    BY DEF Backed
  <1>2. ASSUME watched' = watched
        PROVE  (\A x : Credits(x)' = Credits(x)) /\ \A m : SpendableAt(v, m)' = SpendableAt(v, m)
    BY <1>2 DEF Credits, SpendableAt
  <1>3. Exact(v) /\ watched' = watched => Exact(v)'
    BY <1>2 DEF Exact
  <1> QED
    BY <1>1, <1>3

LEMMA MoveExact ==
    ASSUME UndoInv, ExactInv, NEW b \in Block, Move(b)
    PROVE  ExactInv'
  <1>1. /\ blocks' = branch[b] /\ journal' = journal \o MoveEvents(blocks, branch[b])
        /\ batch' = batch
        /\ watched' = watched /\ utxos' = utxos /\ block_undo' = block_undo /\ trouble' = trouble
    BY DEF Move, wallet
  <1>2. TypeOK /\ IsChain(blocks)
    BY DEF UndoInv
  <1>3. IsChain(branch[b])
    BY BranchIsChain
  <1>4. PICK ev : ev = MoveEvents(blocks, branch[b])
    OBVIOUS
  <1>5. /\ ev \in Seq(Event)
        /\ \E K :
              Path(K, ev) /\ K[0] = blocks /\ K[Len(ev)] = branch[b]
    BY <1>2, <1>3, <1>4, MovePath
  <1>6. PICK K :
              Path(K, ev) /\ K[0] = blocks /\ K[Len(ev)] = branch[b]
    BY <1>5
  <1>7. Waiting' = Waiting \o ev
    BY <1>1, <1>2, <1>4, <1>5, WaitingMove
  <1>8. Waiting \in Seq(Event)
    BY <1>2, WaitingType
  <1>9. SUFFICES ASSUME trouble \subseteq {"late watch"}
                 PROVE  \E W :
                           /\ Path(W, Waiting') /\ W[Len(Waiting')] = blocks'
                           /\ Backed(W[0])'
                           /\ trouble = {} /\ CoinsOnce => Exact(W[0])'
    BY <1>1 DEF ExactInv, Path, Follows, Backed, Exact, Credits, SpendableAt
  <1>10. PICK V :
            /\ Path(V, Waiting) /\ V[Len(Waiting)] = blocks
            /\ Backed(V[0])
            /\ trouble = {} /\ CoinsOnce => Exact(V[0])
    BY <1>9 DEF ExactInv
  <1>11. PICK W :
            Path(W, Waiting') /\ W[0] = V[0] /\ W[Len(Waiting')] = K[Len(ev)]
    <2>1. PICK p, r : p = Waiting /\ r = Waiting' /\ p \in Seq(Event)
      BY <1>8
    <2>2. /\ r = p \o ev /\ Path(V, p) /\ V[Len(p)] = K[0]
      BY <1>6, <1>7, <1>10, <2>1
    <2>3. ev \in Seq(Event) /\ Path(K, ev)
      BY <1>5, <1>6
    <2>4. \E W :
             Path(W, r) /\ W[0] = V[0] /\ W[Len(r)] = K[Len(ev)]
      <3>1. \A v, k : Path(v, p) /\ Path(k, ev) /\ v[Len(p)] = k[0] =>
               \E W : Path(W, p \o ev) /\ W[0] = v[0] /\ W[Len(p \o ev)] = k[Len(ev)]
        BY <2>1, <2>3, PathJoin
      <3> QED
        BY <2>2, <2>3, <3>1
    <2> QED
      BY <2>1, <2>4
  <1>12. Backed(W[0])' /\ (trouble = {} /\ CoinsOnce => Exact(W[0])')
    BY <1>1, <1>10, <1>11, SameView
  <1> QED
    BY <1>1, <1>6, <1>11, <1>12

LEMMA WatchExact ==
    ASSUME UndoInv, ExactInv, NEW a \in Address, WatchAddress(a)
    PROVE  ExactInv'
  <1>1. /\ blocks' = blocks /\ batch' = batch /\ journal' = journal
        /\ utxos' = utxos /\ block_undo' = block_undo
        /\ trouble' = IF DOMAIN block_undo = {} THEN trouble ELSE trouble \cup {"late watch"}
    BY DEF WatchAddress
  <1>2. Waiting' = Waiting
    BY <1>1 DEF Waiting
  <1>3. SUFFICES ASSUME trouble' \subseteq {"late watch"}
                 PROVE  \E W :
                           /\ Path(W, Waiting') /\ W[Len(Waiting')] = blocks'
                           /\ Backed(W[0])'
                           /\ trouble' = {} /\ CoinsOnce => Exact(W[0])'
    BY DEF ExactInv, Path, Follows, Backed, Exact, Credits, SpendableAt
  <1>4. trouble \subseteq {"late watch"} /\ (trouble' = {} => trouble = {} /\ DOMAIN block_undo = {})
    BY <1>1, <1>3
  <1>5. PICK V :
            /\ Path(V, Waiting) /\ V[Len(Waiting)] = blocks
            /\ Backed(V[0])
            /\ trouble = {} /\ CoinsOnce => Exact(V[0])
    BY <1>4 DEF ExactInv
  <1>6. Backed(V[0])'
    BY <1>1, <1>5, SameView
  <1>7. ASSUME trouble' = {}, CoinsOnce
        PROVE  Exact(V[0])'
    <2>1. V[0] \in Seq(Block) /\ Len(V[0]) \in Nat
      <3>1. 0 \in 0..Len(Waiting)
        <4>1. Len(Waiting) \in Nat
          BY WaitingType DEF UndoInv
        <4> QED
          BY <4>1
      <3> QED
        BY <1>5, <3>1 DEF Path
    <2>2. Len(V[0]) = 0
      <3>1. { V[0][i] : i \in 1..Len(V[0]) } = {}
        BY <1>4, <1>5, <1>7 DEF Backed
      <3>2. ~(1 \in 1..Len(V[0]))
        BY <3>1
      <3> QED
        BY <2>1, <3>2
    <2>3. Exact(V[0])
      BY <1>4, <1>5, <1>7
    <2>4. utxos = {}
      BY <2>2, <2>3 DEF Exact, SpendableAt
    <2>5. SpendableAt(V[0], 0)' = {} /\ utxos' = {} /\ 1..Len(V[0]) = {}
      <3>1. 1..0 = {}
        OBVIOUS
      <3>2. SpendableAt(V[0], 0)' = {}
        BY <3>1 DEF SpendableAt
      <3> QED
        BY <1>1, <2>2, <2>4, <3>1, <3>2
    <2> QED
      BY <2>2, <2>5 DEF Exact
  <1> QED
    BY <1>1, <1>2, <1>5, <1>6, <1>7

LEMMA ConnectedExact ==
    ASSUME UndoInv, ExactInv, ApplyConnected
    PROVE  ExactInv'
  <1>1. TypeOK /\ batch # << >> /\ NextEvent /\ Head(batch).kind = "connected"
    BY DEF UndoInv, ApplyConnected
  <1>2. blocks' = blocks /\ watched' = watched
    BY <1>1 DEF NextEvent
  <1>3. Head(batch) \in Event /\ Head(batch).block \in Block
    BY <1>1, WaitingNext, EventsType
  <1>4. SUFFICES ASSUME trouble' \subseteq {"late watch"}
                 PROVE  \E W :
                           /\ Path(W, Waiting') /\ W[Len(Waiting')] = blocks'
                           /\ Backed(W[0])'
                           /\ trouble' = {} /\ CoinsOnce => Exact(W[0])'
    BY DEF ExactInv, Path, Follows, Backed, Exact, Credits, SpendableAt
  <1>5. PICK b : b = Head(batch).block
    OBVIOUS
  <1>6. Connect(b) /\ trouble \subseteq trouble'
    <2>1. PICK x : x = blocks[Head(batch).height + 1]
      OBVIOUS
    <2>2. /\ Connect(x)
          /\ trouble \subseteq trouble'
          /\ x # Head(batch).block => "other block" \in trouble'
      BY <2>1 DEF ApplyConnected
    <2>3. x = b
      BY <1>4, <1>5, <2>2
    <2> QED
      BY <2>2, <2>3
  <1>7. trouble \subseteq {"late watch"} /\ (trouble' = {} => trouble = {})
    BY <1>4, <1>6
  <1>8. PICK V :
            /\ Path(V, Waiting) /\ V[Len(Waiting)] = blocks
            /\ Backed(V[0])
            /\ trouble = {} /\ CoinsOnce => Exact(V[0])
    BY <1>7 DEF ExactInv
  <1>9. /\ IsChain(V[0]) /\ IsChain(V[1]) /\ Follows(V[0], Head(batch), V[1])
        /\ \E W :
              Path(W, Waiting') /\ W[Len(Waiting')] = blocks' /\ W[0] = V[1]
    BY <1>1, <1>8, PathNext
  <1>10. V[1] = Append(V[0], b) /\ b \in Block
    BY <1>1, <1>3, <1>5, <1>9 DEF Follows
  <1>11. Backed(V[1])'
    BY <1>1, <1>6, <1>8, <1>9, <1>10, ConnectBacked
  <1>12. trouble' = {} /\ CoinsOnce => Exact(V[1])'
    BY <1>1, <1>2, <1>6, <1>7, <1>8, <1>9, <1>10, ConnectExact
  <1> QED
    BY <1>9, <1>11, <1>12

LEMMA DisconnectedExact ==
    ASSUME UndoInv, ExactInv, ApplyDisconnected
    PROVE  ExactInv'
  <1>1. TypeOK /\ batch # << >> /\ NextEvent /\ Head(batch).kind = "disconnected"
    BY DEF UndoInv, ApplyDisconnected
  <1>2. blocks' = blocks /\ watched' = watched
    BY <1>1 DEF NextEvent
  <1>3. Head(batch) \in Event /\ Head(batch).block \in Block
    BY <1>1, WaitingNext, EventsType
  <1>4. SUFFICES ASSUME trouble' \subseteq {"late watch"}
                 PROVE  \E W :
                           /\ Path(W, Waiting') /\ W[Len(Waiting')] = blocks'
                           /\ Backed(W[0])'
                           /\ trouble' = {} /\ CoinsOnce => Exact(W[0])'
    BY DEF ExactInv, Path, Follows, Backed, Exact, Credits, SpendableAt
  <1>5. PICK b : b = Head(batch).block
    OBVIOUS
  <1>6. /\ Disconnect(b) /\ trouble \subseteq trouble'
        /\ b \in DOMAIN block_undo => block_undo[b].created \cap block_undo[b].removed = {}
    <2>1. /\ Disconnect(b)
          /\ trouble' = trouble \cup { x \in {"own coin back"} :
                /\ b \in DOMAIN block_undo
                /\ block_undo[b].created \cap block_undo[b].removed # {} }
      BY <1>5 DEF ApplyDisconnected
    <2>2. "own coin back" \notin trouble'
      BY <1>4
    <2> QED
      BY <2>1, <2>2
  <1>7. trouble \subseteq {"late watch"} /\ (trouble' = {} => trouble = {})
    BY <1>4, <1>6
  <1>8. PICK V :
            /\ Path(V, Waiting) /\ V[Len(Waiting)] = blocks
            /\ Backed(V[0])
            /\ trouble = {} /\ CoinsOnce => Exact(V[0])
    BY <1>7 DEF ExactInv
  <1>9. /\ IsChain(V[0]) /\ IsChain(V[1]) /\ Follows(V[0], Head(batch), V[1])
        /\ \E W :
              Path(W, Waiting') /\ W[Len(Waiting')] = blocks' /\ W[0] = V[1]
    BY <1>1, <1>8, PathNext
  <1>10. V[0] = Append(V[1], b) /\ b \in Block
    BY <1>1, <1>3, <1>5, <1>9 DEF Follows
  <1>11. block_undo[b].created \cap block_undo[b].removed = {}
    <2>1. /\ V[1] \in Seq(Block) /\ Len(V[1]) \in Nat /\ Len(V[0]) = Len(V[1]) + 1
          /\ V[0][Len(V[1]) + 1] = b
      BY <1>9, <1>10, AppendAt DEF IsChain
    <2>2. Len(V[1]) + 1 \in 1..Len(V[0])
      BY <2>1
    <2>3. b \in DOMAIN block_undo
      BY <1>8, <2>1, <2>2 DEF Backed
    <2> QED
      BY <1>6, <2>3
  <1>12. Backed(V[1])'
    BY <1>1, <1>6, <1>8, <1>9, <1>10, <1>11, DisconnectBacked
  <1>13. trouble' = {} /\ CoinsOnce => Exact(V[1])'
    BY <1>1, <1>2, <1>6, <1>7, <1>8, <1>9, <1>10, <1>11, DisconnectExact
  <1> QED
    BY <1>9, <1>12, <1>13

LEMMA NextExact ==
    ASSUME UndoInv, ExactInv, [Next]_vars
    PROVE  ExactInv'
  <1>1. CASE \E b \in Block : Move(b)
    BY <1>1, MoveExact
  <1>2. CASE (\E b \in Block : RolledBack(b)) \/ MissingBlock
    <2>1. "rollback" \in trouble' \/ "missing block" \in trouble'
      BY <1>2 DEF RolledBack, MissingBlock
    <2>2. ~(trouble' \subseteq {"late watch"})
      BY <2>1
    <2> QED
      BY <2>2 DEF ExactInv
  <1>3. CASE \E a \in Address : WatchAddress(a)
    BY <1>3, WatchExact
  <1>4. CASE TakeEvents \/ UNCHANGED vars
    <2>1. /\ blocks' = blocks /\ watched' = watched /\ utxos' = utxos
          /\ block_undo' = block_undo /\ trouble' = trouble
      BY <1>4 DEF TakeEvents, vars, wallet
    <2>2. Waiting' = Waiting
      <3>1. CASE TakeEvents
        BY <3>1, TakeUndo
      <3>2. CASE UNCHANGED vars
        BY <3>2 DEF vars, Waiting
      <3> QED
        BY <1>4, <3>1, <3>2
    <2>3. SUFFICES ASSUME trouble' \subseteq {"late watch"}
                   PROVE  \E W :
                             /\ Path(W, Waiting') /\ W[Len(Waiting')] = blocks'
                             /\ Backed(W[0])'
                             /\ trouble' = {} /\ CoinsOnce => Exact(W[0])'
      BY DEF ExactInv, Path, Follows, Backed, Exact, Credits, SpendableAt
    <2>4. PICK V :
              /\ Path(V, Waiting) /\ V[Len(Waiting)] = blocks
              /\ Backed(V[0])
              /\ trouble = {} /\ CoinsOnce => Exact(V[0])
      BY <2>1, <2>3 DEF ExactInv
    <2>5. Backed(V[0])' /\ (trouble = {} /\ CoinsOnce => Exact(V[0])')
      BY <2>1, <2>4, SameView
    <2> QED
      BY <2>1, <2>2, <2>4, <2>5
  <1>5. CASE ApplyConnected
    BY <1>5, ConnectedExact
  <1>6. CASE ApplyDisconnected
    BY <1>6, DisconnectedExact
  <1> QED
    BY <1>1, <1>2, <1>3, <1>4, <1>5, <1>6 DEF Next

LEMMA ExactInvImplies ==
    ASSUME UndoInv, ExactInv
    PROVE  WalletExact
  <1>1. SUFFICES ASSUME Quiet, trouble \subseteq {"late watch"}
                 PROVE  CoinsActive /\ (trouble = {} /\ CoinsOnce => utxos = Spendable(blocks))
    BY DEF WalletExact
  <1>2. Len(Waiting) = 0
    <2>1. Waiting = << >> \o << >>
      BY <1>1 DEF Quiet, Waiting
    <2> QED
      BY <2>1
  <1>3. Backed(blocks) /\ (trouble = {} /\ CoinsOnce => Exact(blocks))
    BY <1>1, <1>2 DEF ExactInv
  <1>4. blocks \in Seq(Block) /\ DOMAIN blocks = 1..Len(blocks)
    <2>1. blocks \in Seq(Block)
      BY DEF UndoInv, TypeOK
    <2> QED
      BY <2>1
  <1>5. CoinsActive
    <2>1. ASSUME NEW c \in utxos
          PROVE  \E i \in 1..Len(blocks) : c \in creates[blocks[i]]
      <3>1. PICK i \in 1..Len(blocks) : c \in block_undo[blocks[i]].created
        BY <1>3 DEF Backed
      <3>2. c \in creates[blocks[i]]
        BY <1>3, <3>1 DEF Backed
      <3> QED
        BY <3>2
    <2> QED
      BY <1>4, <2>1 DEF CoinsActive
  <1>6. ASSUME trouble = {}, CoinsOnce
        PROVE  utxos = Spendable(blocks)
    BY <1>3, <1>4, <1>6, SpendableIs DEF Exact
  <1> QED
    BY <1>5, <1>6

\* apply_events: where coins are created once, and none of the six troubles has
\* happened, a wallet that has applied every event holds exactly the spendable coins
\* of the active chain; a late watch gives it no coin of an inactive block.
THEOREM ExactTheorem == Spec => []WalletExact
  <1>1. Init => UndoInv /\ ExactInv
    BY InitUndo, InitExact
  <1>2. UndoInv /\ ExactInv /\ [Next]_vars => UndoInv' /\ ExactInv'
    BY NextUndo, NextExact
  <1>3. UndoInv /\ ExactInv => WalletExact
    BY ExactInvImplies
  <1> QED
    BY <1>1, <1>2, <1>3, PTL DEF Spec

-----------------------------------------------------------------------------
(* Ancestors                                                                *)

\* x is below b on its branch.
Ancestor(x, b) == x # b /\ x \in Range(branch[b])

\* No branch has both.
Apart(x, b) == x # b /\ ~Ancestor(x, b) /\ ~Ancestor(b, x)

\* The blocks of a chain: the ancestors of each, and no two apart.
Line(A) ==
    /\ A \subseteq Block
    /\ \A b \in A : \A x \in Block : Ancestor(x, b) => x \in A
    /\ \A x, y \in A : x = y \/ Ancestor(x, y) \/ Ancestor(y, x)

LEMMA AncestorAt ==
    ASSUME NEW b \in Block, NEW x
    PROVE  Ancestor(x, b) <=> \E i \in 1..(Len(branch[b]) - 1) : x = branch[b][i]
  <1>1. /\ Len(branch[b]) \in Nat /\ Len(branch[b]) >= 1
        /\ DOMAIN branch[b] = 1..Len(branch[b]) /\ branch[b][Len(branch[b])] = b
    BY BranchAt
  <1>2. Range(branch[b]) = { branch[b][i] : i \in 1..Len(branch[b]) }
    BY <1>1 DEF Range
  <1>3. ASSUME Ancestor(x, b)
        PROVE  \E i \in 1..(Len(branch[b]) - 1) : x = branch[b][i]
    <2>1. PICK i \in 1..Len(branch[b]) : x = branch[b][i]
      BY <1>2, <1>3 DEF Ancestor
    <2>2. i # Len(branch[b])
      BY <1>1, <1>3, <2>1 DEF Ancestor
    <2> QED
      BY <1>1, <2>1, <2>2
  <1>4. ASSUME NEW i \in 1..(Len(branch[b]) - 1), x = branch[b][i]
        PROVE  Ancestor(x, b)
    <2>1. i \in 1..Len(branch[b]) /\ Len(branch[b]) \in 1..Len(branch[b]) /\ i # Len(branch[b])
      BY <1>1
    <2>2. x # b
      BY <1>1, <1>4, <2>1, BranchOnce
    <2> QED
      BY <1>2, <1>4, <2>1, <2>2 DEF Ancestor
  <1> QED
    BY <1>3, <1>4

LEMMA AncestorTrans ==
    ASSUME NEW x \in Block, NEW b \in Block, NEW y \in Block, Ancestor(x, b), Ancestor(b, y)
    PROVE  Ancestor(x, y)
  <1>1. PICK i \in 1..(Len(branch[b]) - 1) : x = branch[b][i]
    BY AncestorAt
  <1>2. PICK j \in 1..(Len(branch[y]) - 1) : b = branch[y][j]
    BY AncestorAt
  <1>3. Len(branch[y]) \in Nat /\ branch[y] \in Seq(Block) /\ Len(branch[b]) \in Nat
    BY BranchAt
  <1>4. j \in 1..Len(branch[y]) /\ branch[b] = SubSeq(branch[y], 1, j)
    BY <1>2, <1>3, BranchAt
  <1>5. Len(branch[b]) = j /\ \A n \in 1..j : branch[b][n] = branch[y][n]
    BY <1>3, <1>4
  <1>6. i \in 1..(Len(branch[y]) - 1) /\ x = branch[y][i]
    BY <1>1, <1>2, <1>3, <1>5
  <1> QED
    BY <1>6, AncestorAt

LEMMA ChainLine ==
    ASSUME NEW v, IsChain(v)
    PROVE  Line(Range(v)) /\ Range(v) = { v[i] : i \in 1..Len(v) }
  <1>1. /\ v \in Seq(Block) /\ Len(v) \in Nat /\ DOMAIN v = 1..Len(v)
        /\ \A i \in 1..Len(v) : v[i] \in Block
    BY ChainOnce
  <1>2. Range(v) = { v[i] : i \in 1..Len(v) }
    BY <1>1 DEF Range
  <1>3. ASSUME NEW i \in 1..Len(v)
        PROVE  /\ Len(branch[v[i]]) = i
               /\ \A n \in 1..i : branch[v[i]][n] = v[n]
    <2>1. v # << >>
      BY <1>1
    <2>2. Last(v) \in Block /\ v = branch[Last(v)]
      BY <1>1, <2>1, LastOf DEF IsChain
    <2>3. branch[v[i]] = SubSeq(v, 1, i)
      BY <2>2, BranchAt
    <2> QED
      BY <1>1, <2>3
  <1>4. ASSUME NEW i \in 1..Len(v), NEW x \in Block, Ancestor(x, v[i])
        PROVE  x \in Range(v)
    <2>1. PICK n \in 1..(Len(branch[v[i]]) - 1) : x = branch[v[i]][n]
      BY <1>1, <1>4, AncestorAt
    <2>2. n \in 1..i /\ n \in 1..Len(v)
      BY <1>1, <1>3, <2>1
    <2>3. x = v[n]
      BY <1>3, <2>1, <2>2
    <2> QED
      BY <1>2, <2>2, <2>3
  <1>5. ASSUME NEW i \in 1..Len(v), NEW j \in 1..Len(v), i < j
        PROVE  Ancestor(v[i], v[j])
    <2>1. i \in 1..(Len(branch[v[j]]) - 1) /\ branch[v[j]][i] = v[i]
      BY <1>1, <1>3, <1>5
    <2> QED
      BY <1>1, <2>1, AncestorAt
  <1>6. ASSUME NEW i \in 1..Len(v), NEW j \in 1..Len(v)
        PROVE  v[i] = v[j] \/ Ancestor(v[i], v[j]) \/ Ancestor(v[j], v[i])
    <2>1. i = j \/ i < j \/ j < i
      BY <1>1
    <2> QED
      BY <1>5, <2>1
  <1> QED
    BY <1>1, <1>2, <1>4, <1>6 DEF Line

\* The places of two blocks of a chain are in the order of their ancestry.
LEMMA ChainOrder ==
    ASSUME NEW v, IsChain(v), NEW i \in 1..Len(v), NEW j \in 1..Len(v), Ancestor(v[i], v[j])
    PROVE  i < j
  <1>1. /\ v \in Seq(Block) /\ Len(v) \in Nat /\ v[i] \in Block /\ v[j] \in Block
        /\ \A m, n \in 1..Len(v) : v[m] = v[n] => m = n
    BY ChainOnce
  <1>2. v # << >>
    BY <1>1
  <1>3. Last(v) \in Block /\ v = branch[Last(v)]
    BY <1>1, <1>2, LastOf DEF IsChain
  <1>4. branch[v[j]] = SubSeq(v, 1, j)
    BY <1>3, BranchAt
  <1>5. Len(branch[v[j]]) = j /\ \A n \in 1..j : branch[v[j]][n] = v[n]
    BY <1>1, <1>4
  <1>6. PICK n \in 1..(Len(branch[v[j]]) - 1) : v[i] = branch[v[j]][n]
    BY <1>1, AncestorAt
  <1>7. n \in 1..j /\ n \in 1..Len(v) /\ n < j
    BY <1>1, <1>5, <1>6
  <1>8. v[i] = v[n]
    BY <1>5, <1>6, <1>7
  <1> QED
    BY <1>1, <1>7, <1>8

-----------------------------------------------------------------------------
(* Events that connect and disconnect                                       *)

\* Event i of p connects b.
Brings(p, i, b) == p[i].kind = "connected" /\ p[i].block = b

\* q is p with the events of a move from the blocks A to the blocks T after it.
Grown(A, T, p, q) ==
    /\ p \in Seq(Event) /\ q \in Seq(Event) /\ Len(p) <= Len(q)
    /\ \A i \in 1..Len(p) : q[i] = p[i]
    /\ \A i \in (Len(p) + 1)..Len(q) :
          \/ q[i].kind = "connected" /\ q[i].block \in T \ A
          \/ q[i].kind = "disconnected" /\ q[i].block \in A \ T
    /\ \A b \in A \ T : \E i \in (Len(p) + 1)..Len(q) : TakesBack(q, i, b)
    /\ \A b \in T \ A : \E i \in (Len(p) + 1)..Len(q) : Brings(q, i, b)
    /\ \A i, j \in (Len(p) + 1)..Len(q) :
          /\ q[i].kind = "disconnected" /\ q[j].kind = "connected" => i < j
          /\ \A x, b \in Block : Ancestor(x, b) =>
                /\ TakesBack(q, i, x) /\ TakesBack(q, j, b) => j < i
                /\ Brings(q, i, x) /\ Brings(q, j, b) => i < j

LEMMA LargestIs ==
    ASSUME NEW N \in Nat, NEW T \in SUBSET (0..N), NEW n \in T
    PROVE  n <= Max(T)
  <1> DEFINE R == { N - x : x \in T }
  <1>1. R \in SUBSET Nat /\ R # {}
    <2>1. \A x \in T : x \in 0..N
      OBVIOUS
    <2>2. \A x \in T : N - x \in Nat
      BY <2>1
    <2> QED
      BY <2>2
  <1>2. PICK r \in R : \A y \in R : r <= y
    BY <1>1, Smallest
  <1>3. PICK x \in T : r = N - x
    BY <1>2
  <1>4. ASSUME NEW y \in T
        PROVE  x >= y
    <2>1. N - y \in R
      OBVIOUS
    <2>2. N - x <= N - y
      BY <1>2, <1>3, <2>1
    <2> QED
      BY <2>2
  <1>5. Max(T) \in T /\ \A y \in T : Max(T) >= y
    BY <1>4 DEF Max
  <1> QED
    BY <1>5

\* Two chains share no block above their fork.
LEMMA CommonWhole ==
    ASSUME NEW old, IsChain(old), NEW new, IsChain(new),
           NEW i \in 1..Len(old), NEW j \in 1..Len(new), old[i] = new[j]
    PROVE  i = j /\ i <= Common(old, new)
  <1>1. /\ old \in Seq(Block) /\ new \in Seq(Block) /\ Len(old) \in Nat /\ Len(new) \in Nat
        /\ old # << >> /\ new # << >>
    BY ChainOnce
  <1>2. Last(old) \in Block /\ old = branch[Last(old)] /\ Last(new) \in Block /\ new = branch[Last(new)]
    BY <1>1, LastOf DEF IsChain
  <1>3. branch[old[i]] = SubSeq(old, 1, i) /\ branch[new[j]] = SubSeq(new, 1, j)
    <2>1. branch[old[i]] = SubSeq(old, 1, i)
      BY <1>2, BranchAt
    <2>2. branch[new[j]] = SubSeq(new, 1, j)
      BY <1>2, BranchAt
    <2> QED
      BY <2>1, <2>2
  <1>4. Len(SubSeq(old, 1, i)) = i /\ Len(SubSeq(new, 1, j)) = j
    BY <1>1
  <1>5. i = j /\ SubSeq(old, 1, i) = SubSeq(new, 1, i)
    BY <1>3, <1>4
  <1> DEFINE T == { n \in 0..Len(old) : n <= Len(new) /\ SubSeq(old, 1, n) = SubSeq(new, 1, n) }
  <1>6. T \in SUBSET (0..Len(old)) /\ i \in T
    BY <1>1, <1>5
  <1>7. i <= Max(T)
    <2> HIDE DEF T
    <2> QED
      BY <1>1, <1>6, LargestIs
  <1> QED
    BY <1>5, <1>7 DEF Common

LEMMA MoveGrows ==
    ASSUME NEW old, IsChain(old), NEW new, IsChain(new), NEW p \in Seq(Event),
           NEW q, q = p \o MoveEvents(old, new)
    PROVE  Grown(Range(old), Range(new), p, q)
  <1>1. /\ old \in Seq(Block) /\ new \in Seq(Block) /\ Len(old) \in Nat /\ Len(new) \in Nat
        /\ \A i \in 1..Len(old) : old[i] \in Block
        /\ \A i \in 1..Len(new) : new[i] \in Block
    BY ChainOnce
  <1>2. PICK c \in Nat : /\ c = Common(old, new) /\ c <= Len(old) /\ c <= Len(new)
                         /\ \A i \in 1..c : old[i] = new[i]
    BY <1>1, CommonShared
  <1>3. PICK d \in Nat : d = Len(old) - c
    BY <1>1, <1>2
  <1>4. PICK u \in Nat : u = Len(new) - c
    BY <1>1, <1>2
  <1>5. PICK ev \in Seq(Event) :
           /\ ev = MoveEvents(old, new) /\ Len(ev) = d + u
           /\ \A i \in 1..d : ev[i] = Disconnected(old[Len(old) + 1 - i])
           /\ \A i \in 1..u : ev[d + i] = Connected(new[c + i], c + i - 1)
    <2>1. /\ MoveEvents(old, new) \in Seq(Event)
          /\ Len(MoveEvents(old, new)) = (Len(old) - c) + (Len(new) - c)
          /\ \A i \in 1..(Len(old) - c) :
                MoveEvents(old, new)[i] = Disconnected(old[Len(old) + 1 - i])
          /\ \A i \in 1..(Len(new) - c) :
                MoveEvents(old, new)[(Len(old) - c) + i] = Connected(new[c + i], c + i - 1)
      BY <1>1, <1>2, MoveEventsAre, SMTT(30)
    <2> QED
      BY <1>3, <1>4, <2>1
  <1>6. PICK n \in Nat : n = Len(p)
    OBVIOUS
  <1>7. /\ q \in Seq(Event) /\ Len(q) = n + d + u
        /\ \A i \in 1..n : q[i] = p[i]
        /\ \A i \in 1..Len(ev) : q[n + i] = ev[i]
    <2>1. /\ q \in Seq(Event) /\ Len(q) = Len(p) + Len(ev)
          /\ \A i \in 1..Len(p) : q[i] = p[i]
          /\ \A i \in 1..Len(ev) : q[Len(p) + i] = ev[i]
      BY <1>5, JoinAt
    <2> QED
      BY <1>5, <1>6, <2>1
  <1>30. /\ c \in Nat /\ d \in Nat /\ u \in Nat /\ n \in Nat
         /\ Len(old) \in Nat /\ Len(new) \in Nat
         /\ Len(old) = c + d /\ Len(new) = c + u /\ Len(q) = n + d + u
    <2>1. c \in Nat /\ d \in Nat /\ u \in Nat /\ n \in Nat /\ Len(old) \in Nat /\ Len(new) \in Nat
      BY <1>1, <1>2, <1>3, <1>4, <1>6
    <2>2. Len(old) = c + d /\ Len(new) = c + u
      BY <2>1, <1>3, <1>4
    <2> QED
      BY <2>1, <2>2, <1>7
  <1>20. ASSUME NEW i \in 1..d
         PROVE  n + i \in (n + 1)..Len(q) /\ q[n + i] = Disconnected(old[Len(old) + 1 - i])
    <2>1. i \in 1..Len(ev)
      BY <1>5, <1>30
    <2>2. q[n + i] = ev[i]
      BY <1>7, <2>1
    <2>3. n + i \in (n + 1)..Len(q)
      BY <1>30
    <2> QED
      BY <1>5, <2>2, <2>3
  <1>21. ASSUME NEW i \in 1..u
         PROVE  n + (d + i) \in (n + 1)..Len(q) /\ q[n + (d + i)] = Connected(new[c + i], c + i - 1)
    <2>1. d + i \in 1..Len(ev)
      BY <1>5, <1>30
    <2>2. q[n + (d + i)] = ev[d + i]
      BY <1>7, <2>1
    <2>3. n + (d + i) \in (n + 1)..Len(q)
      BY <1>30
    <2> QED
      BY <1>5, <2>2, <2>3
  <1>8. Range(old) = { old[i] : i \in 1..Len(old) } /\ Range(new) = { new[i] : i \in 1..Len(new) }
    BY ChainLine
  <1>9. ASSUME NEW i \in (c + 1)..Len(old)
        PROVE  old[i] \in Range(old) \ Range(new)
    <2>1. i \in 1..Len(old) /\ old[i] \in Range(old)
      <3>1. i \in 1..Len(old)
        BY <1>30
      <3> QED
        BY <1>8, <3>1
    <2>2. ASSUME NEW j \in 1..Len(new), old[i] = new[j]
          PROVE  FALSE
      <3>1. i <= c
        BY <2>1, <2>2, CommonWhole, <1>2
      <3> QED
        BY <1>30, <3>1
    <2> QED
      BY <1>8, <2>1, <2>2
  <1>10. ASSUME NEW i \in (c + 1)..Len(new)
         PROVE  new[i] \in Range(new) \ Range(old)
    <2>1. i \in 1..Len(new) /\ new[i] \in Range(new)
      <3>1. i \in 1..Len(new)
        BY <1>30
      <3> QED
        BY <1>8, <3>1
    <2>2. ASSUME NEW j \in 1..Len(old), old[j] = new[i]
          PROVE  FALSE
      <3>1. j = i /\ j <= c
        BY <2>1, <2>2, CommonWhole, <1>2
      <3> QED
        BY <1>30, <3>1
    <2> QED
      BY <1>8, <2>1, <2>2
  <1> DEFINE Down(i, m) == /\ m \in 1..Len(old) /\ m > c /\ i = n + Len(old) + 1 - m /\ i <= n + d
                            /\ q[i].kind = "disconnected" /\ q[i].block = old[m]
             Up(i, m) == /\ m \in 1..Len(new) /\ m > c /\ i = n + d + m - c /\ i > n + d
                         /\ q[i].kind = "connected" /\ q[i].block = new[m]
  <1>11. ASSUME NEW i \in (n + 1)..Len(q)
         PROVE  \E m : Down(i, m) \/ Up(i, m)
    <2>1. CASE i <= n + d
      <3>1. PICK k : k = i - n
        OBVIOUS
      <3>2. PICK m : m = Len(old) + 1 - k
        OBVIOUS
      <3>3. k \in 1..d /\ n + k = i
        BY <1>30, <2>1, <3>1
      <3>4. q[i] = Disconnected(old[m])
        BY <1>20, <3>2, <3>3
      <3>5. m \in 1..Len(old) /\ m > c /\ i = n + Len(old) + 1 - m
        BY <1>30, <3>1, <3>2, <3>3
      <3>6. Down(i, m)
        BY <2>1, <3>4, <3>5 DEF Disconnected
      <3> QED
        BY <3>6
    <2>2. CASE i > n + d
      <3>1. PICK k : k = i - n - d
        OBVIOUS
      <3>2. PICK m : m = c + k
        OBVIOUS
      <3>3. k \in 1..u /\ n + (d + k) = i
        BY <1>30, <2>2, <3>1
      <3>4. q[i] = Connected(new[m], m - 1)
        <4>1. q[n + (d + k)] = Connected(new[c + k], c + k - 1)
          BY <1>21, <3>3
        <4> QED
          BY <3>2, <3>3, <4>1
      <3>5. m \in 1..Len(new) /\ m > c /\ i = n + d + m - c
        BY <1>30, <3>1, <3>2, <3>3
      <3>6. Up(i, m)
        BY <2>2, <3>4, <3>5 DEF Connected
      <3> QED
        BY <3>6
    <2>3. i <= n + d \/ i > n + d
      BY <1>30
    <2> QED
      BY <2>1, <2>2, <2>3
  <1>12. ASSUME NEW b \in Range(old) \ Range(new)
         PROVE  \E i \in (n + 1)..Len(q) : TakesBack(q, i, b)
    <2>1. PICK m \in 1..Len(old) : b = old[m]
      BY <1>8
    <2>2. m > c
      <3>1. CASE m <= c
        <4>1. m \in 1..c /\ m \in 1..Len(new)
          BY <1>1, <1>2, <2>1, <3>1
        <4>2. b \in Range(new)
          BY <1>2, <1>8, <2>1, <4>1
        <4> QED
          BY <4>2
      <3> QED
        BY <1>30, <3>1
    <2>3. PICK k : k = Len(old) + 1 - m
      OBVIOUS
    <2>4. k \in 1..d /\ Len(old) + 1 - k = m
      BY <1>30, <2>1, <2>2, <2>3
    <2>5. PICK w : w = n + k
      OBVIOUS
    <2>6. w \in (n + 1)..Len(q) /\ q[w] = Disconnected(old[Len(old) + 1 - k])
      BY <1>20, <2>4, <2>5
    <2>7. q[w] = Disconnected(b)
      BY <2>1, <2>4, <2>6
    <2>8. TakesBack(q, w, b)
      BY <2>7 DEF TakesBack, Disconnected
    <2> QED
      BY <2>6, <2>8
  <1>13. ASSUME NEW b \in Range(new) \ Range(old)
         PROVE  \E i \in (n + 1)..Len(q) : Brings(q, i, b)
    <2>1. PICK m \in 1..Len(new) : b = new[m]
      BY <1>8
    <2>2. m > c
      <3>1. CASE m <= c
        <4>1. m \in 1..c /\ m \in 1..Len(old)
          BY <1>1, <1>2, <2>1, <3>1
        <4>2. b \in Range(old)
          BY <1>2, <1>8, <2>1, <4>1
        <4> QED
          BY <4>2
      <3> QED
        BY <1>30, <3>1
    <2>3. PICK k : k = m - c
      OBVIOUS
    <2>4. k \in 1..u /\ c + k = m
      <3>1. m \in Nat /\ m <= c + u
        BY <1>30, <2>1
      <3> QED
        BY <1>30, <2>2, <2>3, <3>1
    <2>5. PICK w : w = n + (d + k)
      OBVIOUS
    <2>6. w \in (n + 1)..Len(q) /\ q[w] = Connected(new[c + k], c + k - 1)
      BY <1>21, <2>4, <2>5
    <2>7. q[w] = Connected(b, c + k - 1)
      BY <2>1, <2>4, <2>6
    <2> QED
      BY <2>6, <2>7 DEF Brings, Connected
  <1>14. ASSUME NEW i \in (n + 1)..Len(q), NEW j \in (n + 1)..Len(q)
         PROVE  /\ q[i].kind = "disconnected" /\ q[j].kind = "connected" => i < j
                /\ \A x, b \in Block : Ancestor(x, b) =>
                      /\ TakesBack(q, i, x) /\ TakesBack(q, j, b) => j < i
                      /\ Brings(q, i, x) /\ Brings(q, j, b) => i < j
    <2>1. PICK l : Down(i, l) \/ Up(i, l)
      BY <1>11
    <2>2. PICK m : Down(j, m) \/ Up(j, m)
      BY <1>11
    <2>3. q[i].kind = "disconnected" /\ q[j].kind = "connected" => i < j
      BY <1>30, <2>1, <2>2
    <2>4. ASSUME NEW x \in Block, NEW b \in Block, Ancestor(x, b),
                 TakesBack(q, i, x), TakesBack(q, j, b)
          PROVE  j < i
      <3>1. Down(i, l) /\ Down(j, m) /\ x = old[l] /\ b = old[m]
        BY <2>1, <2>2, <2>4 DEF TakesBack
      <3>2. l \in 1..Len(old) /\ m \in 1..Len(old) /\ Ancestor(old[l], old[m])
        BY <2>4, <3>1
      <3>3. l < m
        BY <3>2, ChainOrder
      <3>4. i = n + Len(old) + 1 - l /\ j = n + Len(old) + 1 - m
        BY <3>1
      <3> QED
        BY <1>30, <3>2, <3>3, <3>4
    <2>5. ASSUME NEW x \in Block, NEW b \in Block, Ancestor(x, b),
                 Brings(q, i, x), Brings(q, j, b)
          PROVE  i < j
      <3>1. Up(i, l) /\ Up(j, m) /\ x = new[l] /\ b = new[m]
        BY <2>1, <2>2, <2>5 DEF Brings
      <3>2. l \in 1..Len(new) /\ m \in 1..Len(new) /\ Ancestor(new[l], new[m])
        BY <2>5, <3>1
      <3>3. l < m
        BY <3>2, ChainOrder
      <3>4. i = n + d + l - c /\ j = n + d + m - c
        BY <3>1
      <3> QED
        BY <1>30, <3>2, <3>3, <3>4
    <2> QED
      BY <2>3, <2>4, <2>5
  <1>15. ASSUME NEW i \in (n + 1)..Len(q)
         PROVE  \/ q[i].kind = "connected" /\ q[i].block \in Range(new) \ Range(old)
                \/ q[i].kind = "disconnected" /\ q[i].block \in Range(old) \ Range(new)
    <2>1. PICK m : Down(i, m) \/ Up(i, m)
      BY <1>11
    <2>2. CASE Down(i, m)
      <3>1. m \in (c + 1)..Len(old)
        BY <1>30, <2>2
      <3> QED
        BY <1>9, <2>2, <3>1
    <2>3. CASE Up(i, m)
      <3>1. m \in (c + 1)..Len(new)
        BY <1>30, <2>3
      <3> QED
        <4>1. q[i].kind = "connected" /\ q[i].block = new[m]
          BY <2>3
        <4>2. new[m] \in Range(new) \ Range(old)
          BY <1>10, <3>1
        <4> HIDE DEF Down, Up
        <4>3. q[i].block \in Range(new) \ Range(old)
          BY <4>1, <4>2, Zenon
        <4> QED
          BY <4>1, <4>3, Zenon
    <2> QED
      BY <2>1, <2>2, <2>3
  <1>16. n <= Len(q)
    BY <1>7
  <1> QED
    BY <1>2, <1>6, <1>7, <1>12, <1>13, <1>14, <1>15, <1>16 DEF Grown

-----------------------------------------------------------------------------
(* What the events that wait say of the blocks that are held                *)
(*                                                                          *)
(* A are the active blocks, D those with an undo, p the events that wait.   *)
(* Place 0 is before the first event.                                       *)

Touches(p, i, b) == Brings(p, i, b) \/ TakesBack(p, i, b)

\* The wallet has b at place k because of what is there.
Held(D, p, k, b) ==
    \/ k = 0 /\ b \in D
    \/ k \in 1..Len(p) /\ Brings(p, k, b)

\* b comes once more after k without having been taken back: an event of a
\* rolled-back reorg for a block the wallet has already.
Again(p, k, b) ==
    \E q \in (k + 1)..Len(p) :
        Brings(p, q, b) /\ \A j \in (k + 1)..(q - 1) : ~TakesBack(p, j, b)

\* b is held at k, and from then on until it is taken back or for good.
Live(A, D, p, k, b) ==
    /\ Held(D, p, k, b) /\ ~Again(p, k, b)
    /\ b \in A \/ \E j \in (k + 1)..Len(p) : TakesBack(p, j, b)

\* b comes at q, or is not active and may come after the last event.
Comes(A, p, q, b) ==
    \/ q \in 1..Len(p) /\ Brings(p, q, b)
    \/ q = Len(p) + 1 /\ b \notin A

\* b is held up to k.
In(D, p, k, b) ==
    \E l \in 0..k : Held(D, p, l, b) /\ \A j \in (l + 1)..k : ~TakesBack(p, j, b)

\* A branch apart from b comes between i and q.
Other(p, i, q, b) ==
    \E r \in (i + 1)..(q - 1) : \E m \in Block : Brings(p, r, m) /\ Apart(m, b)

\* A held block that is not active has an event to come.
NoneForgotten(A, D, p) ==
    \A b \in D : b \in A \/ \E i \in 1..Len(p) : Touches(p, i, b)

\* No block is taken back from under a live one.
TipFirst(A, D, p) ==
    \A k \in 0..Len(p), i \in 1..Len(p), x, b \in Block :
        Live(A, D, p, k, b) /\ TakesBack(p, i, x) /\ k < i /\ Ancestor(x, b)
            => \E j \in (k + 1)..(i - 1) : TakesBack(p, j, b)

\* What comes while a block is live comes above it.
OnlyAbove(A, D, p) ==
    \A k \in 0..Len(p), q \in 1..Len(p), z, b \in Block :
        Live(A, D, p, k, z) /\ Brings(p, q, b) /\ k < q /\ ~Ancestor(z, b)
            => \E j \in (k + 1)..(q - 1) : TakesBack(p, j, z)

\* A block that is taken back makes way for another branch before it comes again.
MakesWay(A, p) ==
    \A i \in 1..Len(p), q \in 1..(Len(p) + 1), b \in Block :
        TakesBack(p, i, b) /\ Comes(A, p, q, b) /\ i < q => Other(p, i, q, b)

\* What is below a held block is held with it, or another branch has come between.
BelowHeld(A, D, p) ==
    \A k \in 0..Len(p), q \in 1..(Len(p) + 1), b, y \in Block :
              /\ Held(D, p, k, y) /\ Ancestor(b, y) /\ Comes(A, p, q, b) /\ k < q
              /\ \A j \in (k + 1)..(q - 1) : ~TakesBack(p, j, y)
          => In(D, p, k, b) \/ Other(p, k, q, b)

\* Between the loss of a block below b and the arrival of one above it, b moves.
NoGap(D, p) ==
    \A k \in 0..Len(p), i, q \in 1..Len(p), x, b, y \in Block :
              /\ Held(D, p, k, b) /\ TakesBack(p, i, x) /\ Brings(p, q, y) /\ k < i /\ i < q
              /\ Ancestor(x, b) /\ Ancestor(b, y)
          => \E j \in (k + 1)..(q - 1) : Touches(p, j, b)

\* What is below a block that is taken back is taken back before it comes again.
BelowGoes(A, p) ==
    \A i \in 1..Len(p), q \in 1..(Len(p) + 1), x, b \in Block :
        TakesBack(p, i, x) /\ Ancestor(b, x) /\ Comes(A, p, q, b) /\ i < q
            => \E j \in (i + 1)..(q - 1) : TakesBack(p, j, b)

EventsFit(A, D, p) ==
    /\ NoneForgotten(A, D, p) /\ TipFirst(A, D, p) /\ OnlyAbove(A, D, p) /\ MakesWay(A, p)
    /\ BelowHeld(A, D, p) /\ NoGap(D, p) /\ BelowGoes(A, p)

-----------------------------------------------------------------------------
(* A move adds its events                                                   *)

\* A move from the blocks A to the blocks T adds its events to p.  The chain has the
\* blocks T after it or, when the move is rolled back, A again.
Pushed(A, T, B, D, p, q) ==
    /\ Line(A) /\ Line(T) /\ D \subseteq Block
    /\ Grown(A, T, p, q)
    /\ \/ B = A
       \/ B = T /\ T \ A # {}

LEMMA PushFacts ==
    ASSUME NEW A, NEW T, NEW B, NEW D, NEW p, NEW q, Pushed(A, T, B, D, p, q)
    PROVE  /\ Len(p) \in Nat /\ Len(q) \in Nat /\ Len(p) <= Len(q)
           /\ A \subseteq Block /\ T \subseteq Block /\ D \subseteq Block
           /\ \A i \in 1..Len(p) : \A b \in Block :
                 /\ Brings(q, i, b) <=> Brings(p, i, b)
                 /\ TakesBack(q, i, b) <=> TakesBack(p, i, b)
           /\ \A i \in (Len(p) + 1)..Len(q) : \A b \in Block :
                 /\ Brings(q, i, b) => b \in T \ A
                 /\ TakesBack(q, i, b) => b \in A \ T
  <1>1. /\ p \in Seq(Event) /\ q \in Seq(Event) /\ Len(p) <= Len(q)
        /\ \A i \in 1..Len(p) : q[i] = p[i]
        /\ \A i \in (Len(p) + 1)..Len(q) :
              \/ q[i].kind = "connected" /\ q[i].block \in T \ A
              \/ q[i].kind = "disconnected" /\ q[i].block \in A \ T
    BY DEF Pushed, Grown
  <1>2. A \subseteq Block /\ T \subseteq Block /\ D \subseteq Block
    BY DEF Pushed, Line
  <1>3. Len(p) \in Nat /\ Len(q) \in Nat
    BY <1>1
  <1>4. \A i \in 1..Len(p) : \A b \in Block :
           /\ Brings(q, i, b) <=> Brings(p, i, b)
           /\ TakesBack(q, i, b) <=> TakesBack(p, i, b)
    BY <1>1 DEF Brings, TakesBack
  <1>5. ASSUME NEW i \in (Len(p) + 1)..Len(q), NEW b \in Block
        PROVE  /\ Brings(q, i, b) => b \in T \ A
               /\ TakesBack(q, i, b) => b \in A \ T
    <2>1. \/ q[i].kind = "connected" /\ q[i].block \in T \ A
          \/ q[i].kind = "disconnected" /\ q[i].block \in A \ T
      BY <1>1
    <2> QED
      BY <2>1 DEF Brings, TakesBack
  <1> QED
    BY <1>1, <1>2, <1>3, <1>4, <1>5

\* The order of the new events.
LEMMA PushOrder ==
    ASSUME NEW A, NEW T, NEW B, NEW D, NEW p, NEW q, Pushed(A, T, B, D, p, q)
    PROVE  /\ \A b \in A \ T : \E i \in (Len(p) + 1)..Len(q) : TakesBack(q, i, b)
           /\ \A b \in T \ A : \E i \in (Len(p) + 1)..Len(q) : Brings(q, i, b)
           /\ \A i, j \in (Len(p) + 1)..Len(q) : \A x, b \in Block :
                 /\ TakesBack(q, i, x) /\ Brings(q, j, b) => i < j
                 /\ Ancestor(x, b) /\ TakesBack(q, i, x) /\ TakesBack(q, j, b) => j < i
                 /\ Ancestor(x, b) /\ Brings(q, i, x) /\ Brings(q, j, b) => i < j
  <1>1. Grown(A, T, p, q)
    BY DEF Pushed
  <1>2. ASSUME NEW i \in (Len(p) + 1)..Len(q), NEW j \in (Len(p) + 1)..Len(q),
               NEW x \in Block, NEW b \in Block
        PROVE  /\ TakesBack(q, i, x) /\ Brings(q, j, b) => i < j
               /\ Ancestor(x, b) /\ TakesBack(q, i, x) /\ TakesBack(q, j, b) => j < i
               /\ Ancestor(x, b) /\ Brings(q, i, x) /\ Brings(q, j, b) => i < j
    <2>1. /\ q[i].kind = "disconnected" /\ q[j].kind = "connected" => i < j
          /\ \A y, z \in Block : Ancestor(y, z) =>
                /\ TakesBack(q, i, y) /\ TakesBack(q, j, z) => j < i
                /\ Brings(q, i, y) /\ Brings(q, j, z) => i < j
      BY <1>1 DEF Grown
    <2>2. TakesBack(q, i, x) /\ Brings(q, j, b) => i < j
      BY <2>1 DEF TakesBack, Brings
    <2> QED
      BY <2>1, <2>2
  <1>3. /\ \A b \in A \ T : \E i \in (Len(p) + 1)..Len(q) : TakesBack(q, i, b)
        /\ \A b \in T \ A : \E i \in (Len(p) + 1)..Len(q) : Brings(q, i, b)
    BY <1>1 DEF Grown
  <1> QED
    BY <1>2, <1>3

LEMMA PushHeld ==
    ASSUME NEW A, NEW T, NEW B, NEW D, NEW p, NEW q, Pushed(A, T, B, D, p, q),
           NEW k \in 0..Len(q), NEW b \in Block, Held(D, q, k, b)
    PROVE  /\ k <= Len(p) => Held(D, p, k, b)
           /\ k > Len(p) => Brings(q, k, b) /\ b \in T \ A
  <1>1. /\ Len(p) \in Nat /\ Len(q) \in Nat /\ Len(p) <= Len(q)
        /\ \A i \in 1..Len(p) : \A x \in Block : Brings(q, i, x) <=> Brings(p, i, x)
        /\ \A i \in (Len(p) + 1)..Len(q) : \A x \in Block : Brings(q, i, x) => x \in T \ A
    BY PushFacts
  <1>2. CASE k <= Len(p)
    <2>1. k = 0 \/ k \in 1..Len(p)
      BY <1>1, <1>2
    <2> QED
      BY <1>1, <1>2, <2>1 DEF Held
  <1>3. CASE k > Len(p)
    <2>1. k \in (Len(p) + 1)..Len(q) /\ k # 0
      BY <1>1, <1>3
    <2>2. Brings(q, k, b)
      BY <2>1 DEF Held
    <2> QED
      BY <1>1, <1>3, <2>1, <2>2
  <1> QED
    BY <1>1, <1>2, <1>3

LEMMA PushAgain ==
    ASSUME NEW A, NEW T, NEW B, NEW D, NEW p, NEW q, Pushed(A, T, B, D, p, q),
           NEW k \in 0..Len(p), NEW b \in Block
    PROVE  /\ Again(p, k, b) => Again(q, k, b)
           /\ b \in T \ A /\ (\A j \in (k + 1)..Len(p) : ~TakesBack(p, j, b)) => Again(q, k, b)
           /\ Again(q, k, b) => \/ Again(p, k, b)
                                \/ b \in T \ A /\ \A j \in (k + 1)..Len(p) : ~TakesBack(p, j, b)
  <1>1. /\ Len(p) \in Nat /\ Len(q) \in Nat /\ Len(p) <= Len(q)
        /\ \A i \in 1..Len(p) : \A x \in Block :
              /\ Brings(q, i, x) <=> Brings(p, i, x)
              /\ TakesBack(q, i, x) <=> TakesBack(p, i, x)
        /\ \A i \in (Len(p) + 1)..Len(q) : \A x \in Block :
              /\ Brings(q, i, x) => x \in T \ A
              /\ TakesBack(q, i, x) => x \in A \ T
    BY PushFacts
  <1>2. ASSUME Again(p, k, b)
        PROVE  Again(q, k, b)
    <2>1. PICK s \in (k + 1)..Len(p) :
             Brings(p, s, b) /\ \A j \in (k + 1)..(s - 1) : ~TakesBack(p, j, b)
      BY <1>2 DEF Again
    <2>2. s \in (k + 1)..Len(q) /\ s \in 1..Len(p)
      BY <1>1
    <2>3. ASSUME NEW j \in (k + 1)..(s - 1)
          PROVE  ~TakesBack(q, j, b)
      <3>1. j \in 1..Len(p)
        BY <1>1
      <3> QED
        BY <1>1, <2>1, <3>1
    <2> QED
      BY <1>1, <2>1, <2>2, <2>3 DEF Again
  <1>3. ASSUME b \in T \ A, \A j \in (k + 1)..Len(p) : ~TakesBack(p, j, b)
        PROVE  Again(q, k, b)
    <2>1. PICK s \in (Len(p) + 1)..Len(q) : Brings(q, s, b)
      BY <1>3, PushOrder
    <2>2. s \in (k + 1)..Len(q)
      BY <1>1
    <2>3. ASSUME NEW j \in (k + 1)..(s - 1)
          PROVE  ~TakesBack(q, j, b)
      <3>1. j \in 1..Len(p) \/ j \in (Len(p) + 1)..Len(q)
        BY <1>1
      <3>2. j \in 1..Len(p) => j \in (k + 1)..Len(p)
        BY <1>1
      <3> QED
        BY <1>1, <1>3, <3>1, <3>2
    <2> QED
      BY <2>1, <2>2, <2>3 DEF Again
  <1>4. ASSUME Again(q, k, b)
        PROVE  \/ Again(p, k, b)
               \/ b \in T \ A /\ \A j \in (k + 1)..Len(p) : ~TakesBack(p, j, b)
    <2>1. PICK s \in (k + 1)..Len(q) :
             Brings(q, s, b) /\ \A j \in (k + 1)..(s - 1) : ~TakesBack(q, j, b)
      BY <1>4 DEF Again
    <2>2. CASE s <= Len(p)
      <3>1. s \in (k + 1)..Len(p) /\ s \in 1..Len(p)
        BY <1>1, <2>2
      <3>2. ASSUME NEW j \in (k + 1)..(s - 1)
            PROVE  ~TakesBack(p, j, b)
        <4>1. j \in 1..Len(p)
          BY <1>1, <3>1
        <4> QED
          BY <1>1, <2>1, <4>1
      <3> QED
        BY <1>1, <2>1, <3>1, <3>2 DEF Again
    <2>3. CASE s > Len(p)
      <3>1. s \in (Len(p) + 1)..Len(q)
        BY <1>1, <2>3
      <3>2. ASSUME NEW j \in (k + 1)..Len(p)
            PROVE  ~TakesBack(p, j, b)
        <4>1. j \in 1..Len(p) /\ j \in (k + 1)..(s - 1)
          BY <1>1, <3>1
        <4> QED
          BY <1>1, <2>1, <4>1
      <3> QED
        BY <1>1, <2>1, <3>1, <3>2
    <2> QED
      BY <1>1, <2>2, <2>3
  <1> QED
    BY <1>2, <1>3, <1>4

\* A block is live after a move only if it was live before.
LEMMA PushLive ==
    ASSUME NEW A, NEW T, NEW B, NEW D, NEW p, NEW q, Pushed(A, T, B, D, p, q),
           NEW k \in 0..Len(p), NEW b \in Block, Live(B, D, q, k, b)
    PROVE  Live(A, D, p, k, b)
  <1>1. /\ Len(p) \in Nat /\ Len(q) \in Nat /\ Len(p) <= Len(q)
        /\ \A i \in 1..Len(p) : \A x \in Block : TakesBack(q, i, x) <=> TakesBack(p, i, x)
        /\ \A i \in (Len(p) + 1)..Len(q) : \A x \in Block : TakesBack(q, i, x) => x \in A \ T
        /\ B = A \/ B = T
    <2>1. B = A \/ B = T
      BY DEF Pushed
    <2> QED
      BY <2>1, PushFacts
  <1>2. /\ Held(D, q, k, b) /\ ~Again(q, k, b)
        /\ b \in B \/ \E j \in (k + 1)..Len(q) : TakesBack(q, j, b)
    BY DEF Live
  <1>3. Held(D, p, k, b)
    <2>1. k \in 0..Len(q) /\ k <= Len(p)
      BY <1>1
    <2> QED
      BY <1>2, <2>1, PushHeld
  <1>4. ~Again(p, k, b)
    BY <1>2, PushAgain
  <1>5. ASSUME \A j \in (k + 1)..Len(p) : ~TakesBack(p, j, b)
        PROVE  b \in A
    <2>1. b \notin T \ A
      BY <1>2, <1>5, PushAgain
    <2>2. ASSUME NEW j \in (k + 1)..Len(q), TakesBack(q, j, b)
          PROVE  b \in A
      <3>1. j \in 1..Len(p) \/ j \in (Len(p) + 1)..Len(q)
        BY <1>1
      <3>2. j \in 1..Len(p) => j \in (k + 1)..Len(p)
        BY <1>1
      <3> QED
        BY <1>1, <1>5, <2>2, <3>1, <3>2
    <2> QED
      BY <1>1, <1>2, <2>1, <2>2
  <1> QED
    BY <1>3, <1>4, <1>5 DEF Live

LEMMA PushOther ==
    ASSUME NEW A, NEW T, NEW B, NEW D, NEW p, NEW q, Pushed(A, T, B, D, p, q),
           NEW i \in 0..Len(p), NEW b \in Block
    PROVE  /\ \A s \in 1..(Len(p) + 1) : \A t \in 1..(Len(q) + 1) :
                 s <= t /\ Other(p, i, s, b) => Other(q, i, t, b)
           /\ b \in A /\ b \notin B => Other(q, i, Len(q) + 1, b)
  <1>1. /\ Len(p) \in Nat /\ Len(q) \in Nat /\ Len(p) <= Len(q)
        /\ \A j \in 1..Len(p) : \A x \in Block : Brings(q, j, x) <=> Brings(p, j, x)
    BY PushFacts
  <1>2. ASSUME NEW s \in 1..(Len(p) + 1), NEW t \in 1..(Len(q) + 1), s <= t, Other(p, i, s, b)
        PROVE  Other(q, i, t, b)
    <2>1. PICK r \in (i + 1)..(s - 1), m \in Block : Brings(p, r, m) /\ Apart(m, b)
      BY <1>2 DEF Other
    <2>2. r \in 1..Len(p) /\ r \in (i + 1)..(t - 1)
      BY <1>1, <1>2
    <2>3. Brings(q, r, m)
      BY <1>1, <2>1, <2>2
    <2> QED
      BY <2>1, <2>2, <2>3 DEF Other
  <1>3. ASSUME b \in A, b \notin B
        PROVE  Other(q, i, Len(q) + 1, b)
    <2>1. PICK m \in T \ A : b \notin T
      BY <1>3 DEF Pushed
    <2>2. m \in Block /\ Apart(m, b)
      <3>1. Line(A) /\ Line(T) /\ m \in Block
        BY DEF Pushed, Line
      <3> QED
        BY <1>3, <2>1, <3>1 DEF Line, Apart
    <2>3. PICK r \in (Len(p) + 1)..Len(q) : Brings(q, r, m)
      BY PushOrder
    <2>4. r \in (i + 1)..((Len(q) + 1) - 1)
      BY <1>1
    <2> QED
      BY <2>2, <2>3, <2>4 DEF Other
  <1> QED
    BY <1>2, <1>3

\* A block that leaves the chain with the move is taken back.
LEMMA PushForgotten ==
    ASSUME NEW A, NEW T, NEW B, NEW D, NEW p, NEW q, Pushed(A, T, B, D, p, q),
           NoneForgotten(A, D, p)
    PROVE  NoneForgotten(B, D, q)
  <1> SUFFICES ASSUME NEW b \in D
               PROVE  b \in B \/ \E i \in 1..Len(q) : Touches(q, i, b)
    BY DEF NoneForgotten
  <1>1. /\ Len(p) \in Nat /\ Len(q) \in Nat /\ Len(p) <= Len(q) /\ b \in Block
        /\ \A i \in 1..Len(p) : \A x \in Block :
              /\ Brings(q, i, x) <=> Brings(p, i, x)
              /\ TakesBack(q, i, x) <=> TakesBack(p, i, x)
    BY PushFacts
  <1>2. CASE b \in A
    <2>1. b \in B \/ b \in A \ T
      BY <1>2 DEF Pushed
    <2>2. ASSUME b \in A \ T
          PROVE  \E i \in 1..Len(q) : Touches(q, i, b)
      <3>1. PICK i \in (Len(p) + 1)..Len(q) : TakesBack(q, i, b)
        BY <2>2, PushOrder
      <3>2. i \in 1..Len(q)
        BY <1>1
      <3> QED
        BY <3>1, <3>2 DEF Touches
    <2> QED
      BY <2>1, <2>2
  <1>3. CASE b \notin A
    <2>1. PICK i \in 1..Len(p) : Touches(p, i, b)
      BY <1>3 DEF NoneForgotten
    <2>2. i \in 1..Len(q) /\ Touches(q, i, b)
      BY <1>1, <2>1 DEF Touches
    <2> QED
      BY <2>2
  <1> QED
    BY <1>2, <1>3

LEMMA PushTip ==
    ASSUME NEW A, NEW T, NEW B, NEW D, NEW p, NEW q, Pushed(A, T, B, D, p, q),
           TipFirst(A, D, p)
    PROVE  TipFirst(B, D, q)
  <1> SUFFICES ASSUME NEW k \in 0..Len(q), NEW i \in 1..Len(q), NEW x \in Block, NEW b \in Block,
                      Live(B, D, q, k, b), TakesBack(q, i, x), k < i, Ancestor(x, b)
               PROVE  \E j \in (k + 1)..(i - 1) : TakesBack(q, j, b)
    BY DEF TipFirst
  <1>1. /\ Len(p) \in Nat /\ Len(q) \in Nat /\ Len(p) <= Len(q)
        /\ \A n \in 1..Len(p) : \A y \in Block : TakesBack(q, n, y) <=> TakesBack(p, n, y)
        /\ \A n \in (Len(p) + 1)..Len(q) : \A y \in Block : TakesBack(q, n, y) => y \in A \ T
    BY PushFacts
  <1>2. CASE k > Len(p)
    <2>1. Brings(q, k, b)
      BY <1>2, PushHeld DEF Live
    <2>2. k \in (Len(p) + 1)..Len(q) /\ i \in (Len(p) + 1)..Len(q)
      BY <1>1, <1>2
    <2>3. i < k
      BY <2>1, <2>2, PushOrder
    <2> QED
      BY <1>1, <2>3
  <1>3. CASE k <= Len(p)
    <2>1. k \in 0..Len(p) /\ Live(A, D, p, k, b)
      <3>1. k \in 0..Len(p)
        BY <1>1, <1>3
      <3> QED
        BY <3>1, PushLive
    <2>2. CASE i <= Len(p)
      <3>1. i \in 1..Len(p) /\ TakesBack(p, i, x)
        BY <1>1, <2>2
      <3>2. PICK j \in (k + 1)..(i - 1) : TakesBack(p, j, b)
        BY <2>1, <3>1 DEF TipFirst
      <3>3. j \in 1..Len(p)
        BY <1>1, <2>1, <3>1
      <3> QED
        BY <1>1, <3>2, <3>3
    <2>3. CASE i > Len(p)
      <3>1. i \in (Len(p) + 1)..Len(q) /\ x \in A \ T
        BY <1>1, <2>3
      <3>2. b \notin T
        BY <3>1 DEF Pushed, Line
      <3>3. CASE \E j \in (k + 1)..Len(p) : TakesBack(p, j, b)
        <4>1. PICK j \in (k + 1)..Len(p) : TakesBack(p, j, b)
          BY <3>3
        <4>2. j \in 1..Len(p) /\ j \in (k + 1)..(i - 1)
          BY <1>1, <2>1, <3>1
        <4> QED
          BY <1>1, <4>1, <4>2
      <3>4. CASE b \in A
        <4>1. PICK j \in (Len(p) + 1)..Len(q) : TakesBack(q, j, b)
          BY <3>2, <3>4, PushOrder
        <4>2. j < i
          BY <3>1, <4>1, PushOrder
        <4>3. j \in (k + 1)..(i - 1)
          BY <1>1, <2>1, <4>2
        <4> QED
          BY <4>1, <4>3
      <3> QED
        BY <2>1, <3>3, <3>4 DEF Live
    <2> QED
      BY <1>1, <2>2, <2>3
  <1> QED
    BY <1>1, <1>2, <1>3

LEMMA PushAbove ==
    ASSUME NEW A, NEW T, NEW B, NEW D, NEW p, NEW q, Pushed(A, T, B, D, p, q),
           OnlyAbove(A, D, p)
    PROVE  OnlyAbove(B, D, q)
  <1> SUFFICES ASSUME NEW k \in 0..Len(q), NEW s \in 1..Len(q), NEW z \in Block, NEW b \in Block,
                      Live(B, D, q, k, z), Brings(q, s, b), k < s, ~Ancestor(z, b)
               PROVE  \E j \in (k + 1)..(s - 1) : TakesBack(q, j, z)
    BY DEF OnlyAbove
  <1>1. /\ Len(p) \in Nat /\ Len(q) \in Nat /\ Len(p) <= Len(q)
        /\ \A n \in 1..Len(p) : \A y \in Block :
              /\ Brings(q, n, y) <=> Brings(p, n, y)
              /\ TakesBack(q, n, y) <=> TakesBack(p, n, y)
        /\ \A n \in (Len(p) + 1)..Len(q) : \A y \in Block : Brings(q, n, y) => y \in T \ A
    BY PushFacts
  <1>2. Line(A) /\ Line(T)
    BY DEF Pushed
  <1>3. ASSUME z = b
        PROVE  \E j \in (k + 1)..(s - 1) : TakesBack(q, j, z)
    <2>1. ~Again(q, k, z)
      BY DEF Live
    <2>2. s \in (k + 1)..Len(q)
      BY <1>1
    <2> QED
      BY <1>3, <2>1, <2>2 DEF Again
  <1>4. CASE k > Len(p)
    <2>1. k \in (Len(p) + 1)..Len(q) /\ s \in (Len(p) + 1)..Len(q)
      BY <1>1, <1>4
    <2>2. Brings(q, k, z) /\ z \in T /\ b \in T
      <3>1. Brings(q, k, z) /\ z \in T
        BY <1>4, PushHeld DEF Live
      <3> QED
        BY <1>1, <2>1, <3>1
    <2>3. z = b \/ Ancestor(b, z)
      BY <1>2, <2>2 DEF Line
    <2>4. ~Ancestor(b, z)
      <3>1. ASSUME Ancestor(b, z)
            PROVE  FALSE
        <4>1. s < k
          BY <2>1, <2>2, <3>1, PushOrder
        <4> QED
          BY <1>1, <4>1
      <3> QED
        BY <3>1
    <2> QED
      BY <1>3, <2>3, <2>4
  <1>5. CASE k <= Len(p)
    <2>1. k \in 0..Len(p) /\ Live(A, D, p, k, z)
      <3>1. k \in 0..Len(p)
        BY <1>1, <1>5
      <3> QED
        BY <3>1, PushLive
    <2>2. CASE s <= Len(p)
      <3>1. s \in 1..Len(p) /\ Brings(p, s, b)
        BY <1>1, <2>2
      <3>2. PICK j \in (k + 1)..(s - 1) : TakesBack(p, j, z)
        BY <2>1, <3>1 DEF OnlyAbove
      <3>3. j \in 1..Len(p)
        BY <1>1, <2>1, <3>1
      <3> QED
        BY <1>1, <3>2, <3>3
    <2>3. CASE s > Len(p)
      <3>1. s \in (Len(p) + 1)..Len(q) /\ b \in T \ A
        BY <1>1, <2>3
      <3>2. CASE \E j \in (k + 1)..Len(p) : TakesBack(p, j, z)
        <4>1. PICK j \in (k + 1)..Len(p) : TakesBack(p, j, z)
          BY <3>2
        <4>2. j \in 1..Len(p) /\ j \in (k + 1)..(s - 1)
          BY <1>1, <2>1, <3>1
        <4> QED
          BY <1>1, <4>1, <4>2
      <3>3. CASE z \in A
        <4>1. z \notin T
          BY <1>2, <3>1, <3>3 DEF Line
        <4>2. PICK j \in (Len(p) + 1)..Len(q) : TakesBack(q, j, z)
          BY <3>3, <4>1, PushOrder
        <4>3. j < s
          BY <3>1, <4>2, PushOrder
        <4>4. j \in (k + 1)..(s - 1)
          BY <1>1, <2>1, <4>3
        <4> QED
          BY <4>2, <4>4
      <3> QED
        BY <2>1, <3>2, <3>3 DEF Live
    <2> QED
      BY <1>1, <2>2, <2>3
  <1> QED
    BY <1>1, <1>4, <1>5

LEMMA PushWay ==
    ASSUME NEW A, NEW T, NEW B, NEW D, NEW p, NEW q, Pushed(A, T, B, D, p, q),
           MakesWay(A, p)
    PROVE  MakesWay(B, q)
  <1> SUFFICES ASSUME NEW i \in 1..Len(q), NEW s \in 1..(Len(q) + 1), NEW b \in Block,
                      TakesBack(q, i, b), Comes(B, q, s, b), i < s
               PROVE  Other(q, i, s, b)
    BY DEF MakesWay
  <1>1. /\ Len(p) \in Nat /\ Len(q) \in Nat /\ Len(p) <= Len(q)
        /\ \A n \in 1..Len(p) : \A y \in Block :
              /\ Brings(q, n, y) <=> Brings(p, n, y)
              /\ TakesBack(q, n, y) <=> TakesBack(p, n, y)
        /\ \A n \in (Len(p) + 1)..Len(q) : \A y \in Block :
              /\ Brings(q, n, y) => y \in T \ A
              /\ TakesBack(q, n, y) => y \in A \ T
    BY PushFacts
  <1>2. CASE i <= Len(p)
    <2>1. i \in 1..Len(p) /\ i \in 0..Len(p) /\ TakesBack(p, i, b)
      BY <1>1, <1>2
    <2>2. CASE s <= Len(p)
      <3>1. s \in 1..Len(p) /\ s \in 1..(Len(p) + 1) /\ s \in 1..Len(q) /\ s # Len(q) + 1
        BY <1>1, <2>2
      <3>2. Comes(A, p, s, b)
        BY <1>1, <3>1 DEF Comes
      <3>3. Other(p, i, s, b)
        BY <2>1, <3>1, <3>2 DEF MakesWay
      <3> QED
        BY <2>1, <3>1, <3>3, PushOther
    <2>3. CASE s > Len(p) /\ b \notin A
      <3>1. Len(p) + 1 \in 1..(Len(p) + 1) /\ i < Len(p) + 1 /\ Len(p) + 1 <= s
        BY <1>1, <2>1, <2>3
      <3>2. Comes(A, p, Len(p) + 1, b)
        BY <2>3 DEF Comes
      <3>3. Other(p, i, Len(p) + 1, b)
        BY <2>1, <3>1, <3>2 DEF MakesWay
      <3> QED
        BY <2>1, <3>1, <3>3, PushOther
    <2>4. CASE s > Len(p) /\ b \in A
      <3>1. s = Len(q) + 1 /\ b \notin B
        <4>1. s \in 1..Len(q) => s \in (Len(p) + 1)..Len(q)
          BY <1>1, <2>4
        <4> QED
          BY <1>1, <2>4, <4>1 DEF Comes
      <3> QED
        BY <2>1, <2>4, <3>1, PushOther
    <2> QED
      BY <1>1, <2>2, <2>3, <2>4
  <1>3. CASE i > Len(p)
    <2>1. i \in (Len(p) + 1)..Len(q) /\ b \in A \ T
      BY <1>1, <1>3
    <2>2. s = Len(q) + 1 /\ b \notin B
      <3>1. s \in 1..Len(q) => s \in (Len(p) + 1)..Len(q)
        BY <1>1, <2>1
      <3> QED
        BY <1>1, <2>1, <3>1 DEF Comes
    <2>3. 0 \in 0..Len(p) /\ Other(q, 0, Len(q) + 1, b)
      BY <1>1, <2>1, <2>2, PushOther
    <2>4. PICK m \in T \ A : TRUE
      BY <2>1, <2>2 DEF Pushed
    <2>5. m \in Block /\ Apart(m, b)
      <3>1. Line(A) /\ Line(T) /\ m \in Block
        BY DEF Pushed, Line
      <3> QED
        BY <2>1, <2>4, <3>1 DEF Line, Apart
    <2>6. PICK r \in (Len(p) + 1)..Len(q) : Brings(q, r, m)
      BY <2>4, PushOrder
    <2>7. i < r
      BY <2>1, <2>5, <2>6, PushOrder
    <2>8. r \in (i + 1)..(s - 1)
      BY <1>1, <2>2, <2>7
    <2> QED
      BY <2>5, <2>6, <2>8 DEF Other
  <1> QED
    BY <1>1, <1>2, <1>3

LEMMA PushGoes ==
    ASSUME NEW A, NEW T, NEW B, NEW D, NEW p, NEW q, Pushed(A, T, B, D, p, q),
           BelowGoes(A, p)
    PROVE  BelowGoes(B, q)
  <1> SUFFICES ASSUME NEW i \in 1..Len(q), NEW s \in 1..(Len(q) + 1), NEW x \in Block, NEW b \in Block,
                      TakesBack(q, i, x), Ancestor(b, x), Comes(B, q, s, b), i < s
               PROVE  \E j \in (i + 1)..(s - 1) : TakesBack(q, j, b)
    BY DEF BelowGoes
  <1>1. /\ Len(p) \in Nat /\ Len(q) \in Nat /\ Len(p) <= Len(q)
        /\ \A n \in 1..Len(p) : \A y \in Block :
              /\ Brings(q, n, y) <=> Brings(p, n, y)
              /\ TakesBack(q, n, y) <=> TakesBack(p, n, y)
        /\ \A n \in (Len(p) + 1)..Len(q) : \A y \in Block :
              /\ Brings(q, n, y) => y \in T \ A
              /\ TakesBack(q, n, y) => y \in A \ T
    BY PushFacts
  <1>2. ASSUME NEW t \in 1..(Len(p) + 1), i \in 1..Len(p), i < t, t <= s, Comes(A, p, t, b)
        PROVE  \E j \in (i + 1)..(s - 1) : TakesBack(q, j, b)
    <2>1. TakesBack(p, i, x)
      BY <1>1, <1>2
    <2>2. PICK j \in (i + 1)..(t - 1) : TakesBack(p, j, b)
      BY <1>2, <2>1 DEF BelowGoes
    <2>3. j \in 1..Len(p) /\ j \in (i + 1)..(s - 1)
      BY <1>1, <1>2
    <2> QED
      BY <1>1, <2>2, <2>3
  <1>3. CASE b \notin A /\ i \in 1..Len(p) /\ s > Len(p)
    <2>1. Len(p) + 1 \in 1..(Len(p) + 1) /\ i < Len(p) + 1 /\ Len(p) + 1 <= s
      BY <1>1, <1>3
    <2>2. Comes(A, p, Len(p) + 1, b)
      BY <1>3 DEF Comes
    <2> QED
      BY <1>2, <1>3, <2>1, <2>2
  <1>4. CASE i \in 1..Len(p) /\ s <= Len(p)
    <2>1. s \in 1..Len(p) /\ s \in 1..(Len(p) + 1) /\ s # Len(q) + 1
      BY <1>1, <1>4
    <2>2. Comes(A, p, s, b)
      BY <1>1, <2>1 DEF Comes
    <2> QED
      BY <1>2, <1>4, <2>1, <2>2
  <1>5. CASE b \in A /\ s > Len(p)
    <2>1. s = Len(q) + 1 /\ b \notin B
      <3>1. s \in 1..Len(q) => s \in (Len(p) + 1)..Len(q)
        BY <1>1, <1>5
      <3> QED
        BY <1>1, <1>5, <3>1 DEF Comes
    <2>2. b \in A \ T
      BY <1>5, <2>1 DEF Pushed
    <2>3. PICK j \in (Len(p) + 1)..Len(q) : TakesBack(q, j, b)
      BY <2>2, PushOrder
    <2>4. i < j
      <3>1. i \in 1..Len(p) \/ i \in (Len(p) + 1)..Len(q)
        BY <1>1
      <3>2. i \in (Len(p) + 1)..Len(q) => i < j
        BY <2>3, PushOrder
      <3> QED
        BY <1>1, <3>1, <3>2
    <2>5. j \in (i + 1)..(s - 1)
      BY <1>1, <2>1, <2>4
    <2> QED
      BY <2>3, <2>5
  <1>6. i \notin 1..Len(p) => b \in A /\ s > Len(p)
    <2>1. ASSUME i \notin 1..Len(p)
          PROVE  b \in A /\ s > Len(p)
      <3>1. i \in (Len(p) + 1)..Len(q) /\ s > Len(p)
        BY <1>1, <2>1
      <3>2. x \in A
        BY <1>1, <3>1
      <3> QED
        BY <3>1, <3>2 DEF Pushed, Line
    <2> QED
      BY <2>1
  <1> QED
    BY <1>1, <1>3, <1>4, <1>5, <1>6

LEMMA PushBelow ==
    ASSUME NEW A, NEW T, NEW B, NEW D, NEW p, NEW q, Pushed(A, T, B, D, p, q),
           BelowHeld(A, D, p)
    PROVE  BelowHeld(B, D, q)
  <1> SUFFICES ASSUME NEW k \in 0..Len(q), NEW s \in 1..(Len(q) + 1), NEW b \in Block, NEW y \in Block,
                      Held(D, q, k, y), Ancestor(b, y), Comes(B, q, s, b), k < s,
                      \A j \in (k + 1)..(s - 1) : ~TakesBack(q, j, y)
               PROVE  In(D, q, k, b) \/ Other(q, k, s, b)
    BY DEF BelowHeld
  <1>1. /\ Len(p) \in Nat /\ Len(q) \in Nat /\ Len(p) <= Len(q)
        /\ \A n \in 1..Len(p) : \A z \in Block :
              /\ Brings(q, n, z) <=> Brings(p, n, z)
              /\ TakesBack(q, n, z) <=> TakesBack(p, n, z)
        /\ \A n \in (Len(p) + 1)..Len(q) : \A z \in Block :
              /\ Brings(q, n, z) => z \in T \ A
              /\ TakesBack(q, n, z) => z \in A \ T
    BY PushFacts
  <1>2. ASSUME NEW t \in 1..(Len(p) + 1), k \in 0..Len(p), k < t, t <= s, Comes(A, p, t, b)
        PROVE  In(D, q, k, b) \/ Other(q, k, s, b)
    <2>1. Held(D, p, k, y)
      BY <1>2, PushHeld
    <2>2. ASSUME NEW j \in (k + 1)..(t - 1)
          PROVE  ~TakesBack(p, j, y)
      <3>1. j \in 1..Len(p) /\ j \in (k + 1)..(s - 1)
        BY <1>1, <1>2
      <3> QED
        BY <1>1, <3>1
    <2>3. In(D, p, k, b) \/ Other(p, k, t, b)
      BY <1>2, <2>1, <2>2 DEF BelowHeld
    <2>4. ASSUME In(D, p, k, b)
          PROVE  In(D, q, k, b)
      <3>1. PICK l \in 0..k : Held(D, p, l, b) /\ \A j \in (l + 1)..k : ~TakesBack(p, j, b)
        BY <2>4 DEF In
      <3>2. Held(D, q, l, b)
        BY <1>1, <1>2, <3>1 DEF Held
      <3>3. ASSUME NEW j \in (l + 1)..k
            PROVE  ~TakesBack(q, j, b)
        <4>1. j \in 1..Len(p)
          BY <1>1, <1>2
        <4> QED
          BY <1>1, <3>1, <4>1
      <3> QED
        BY <3>2, <3>3 DEF In
    <2>5. Other(p, k, t, b) => Other(q, k, s, b)
      BY <1>2, PushOther
    <2> QED
      BY <2>3, <2>4, <2>5
  <1>3. CASE k <= Len(p) /\ s <= Len(p)
    <2>1. s \in 1..Len(p) /\ s \in 1..(Len(p) + 1) /\ s # Len(q) + 1 /\ k \in 0..Len(p)
      BY <1>1, <1>3
    <2>2. Comes(A, p, s, b)
      BY <1>1, <2>1 DEF Comes
    <2> QED
      BY <1>2, <2>1, <2>2
  <1>4. CASE k <= Len(p) /\ s > Len(p) /\ b \notin A
    <2>1. Len(p) + 1 \in 1..(Len(p) + 1) /\ k < Len(p) + 1 /\ Len(p) + 1 <= s /\ k \in 0..Len(p)
      BY <1>1, <1>4
    <2>2. Comes(A, p, Len(p) + 1, b)
      BY <1>4 DEF Comes
    <2> QED
      BY <1>2, <2>1, <2>2
  <1>5. CASE k <= Len(p) /\ s > Len(p) /\ b \in A
    <2>1. s = Len(q) + 1 /\ b \notin B /\ k \in 0..Len(p)
      <3>1. s \in 1..Len(q) => s \in (Len(p) + 1)..Len(q)
        BY <1>1, <1>5
      <3> QED
        BY <1>1, <1>5, <3>1 DEF Comes
    <2> QED
      BY <1>5, <2>1, PushOther
  <1>6. CASE k > Len(p)
    <2>1. k \in (Len(p) + 1)..Len(q) /\ s > k
      BY <1>1, <1>6
    <2>2. Brings(q, k, y) /\ y \in T \ A
      BY <1>6, PushHeld
    <2>3. b \in T
      BY <2>2 DEF Pushed, Line
    <2>4. s = Len(q) + 1 /\ b \notin B
      <3>1. ASSUME s \in 1..Len(q), Brings(q, s, b)
            PROVE  FALSE
        <4>1. s \in (Len(p) + 1)..Len(q)
          BY <1>1, <2>1, <3>1
        <4>2. s < k
          BY <2>1, <2>2, <3>1, <4>1, PushOrder
        <4> QED
          BY <1>1, <2>1, <4>2
      <3> QED
        BY <3>1 DEF Comes
    <2>5. b \in T \ A
      BY <2>3, <2>4 DEF Pushed
    <2>6. PICK l \in (Len(p) + 1)..Len(q) : Brings(q, l, b)
      BY <2>5, PushOrder
    <2>7. l < k
      BY <2>1, <2>2, <2>6, PushOrder
    <2>8. l \in 0..k /\ Held(D, q, l, b)
      <3>1. l \in 0..k /\ l \in 1..Len(q)
        BY <1>1, <2>1, <2>7
      <3> QED
        BY <2>6, <3>1 DEF Held
    <2>9. ASSUME NEW j \in (l + 1)..k
          PROVE  ~TakesBack(q, j, b)
      <3>1. j \in (Len(p) + 1)..Len(q)
        BY <1>1, <2>1
      <3> QED
        BY <1>1, <2>5, <3>1
    <2> QED
      BY <2>8, <2>9 DEF In
  <1> QED
    BY <1>1, <1>3, <1>4, <1>5, <1>6

LEMMA PushGap ==
    ASSUME NEW A, NEW T, NEW B, NEW D, NEW p, NEW q, Pushed(A, T, B, D, p, q),
           TipFirst(A, D, p), NoGap(D, p)
    PROVE  NoGap(D, q)
  <1> SUFFICES ASSUME NEW k \in 0..Len(q), NEW i \in 1..Len(q), NEW s \in 1..Len(q),
                      NEW x \in Block, NEW b \in Block, NEW y \in Block,
                      Held(D, q, k, b), TakesBack(q, i, x), Brings(q, s, y), k < i, i < s,
                      Ancestor(x, b), Ancestor(b, y)
               PROVE  \E j \in (k + 1)..(s - 1) : Touches(q, j, b)
    BY DEF NoGap
  <1>1. /\ Len(p) \in Nat /\ Len(q) \in Nat /\ Len(p) <= Len(q)
        /\ \A n \in 1..Len(p) : \A z \in Block :
              /\ Brings(q, n, z) <=> Brings(p, n, z)
              /\ TakesBack(q, n, z) <=> TakesBack(p, n, z)
        /\ \A n \in (Len(p) + 1)..Len(q) : \A z \in Block :
              /\ Brings(q, n, z) => z \in T \ A
              /\ TakesBack(q, n, z) => z \in A \ T
    BY PushFacts
  <1>2. ASSUME NEW j \in (k + 1)..(s - 1), j \in 1..Len(p), Touches(p, j, b)
        PROVE  \E n \in (k + 1)..(s - 1) : Touches(q, n, b)
    BY <1>1, <1>2 DEF Touches
  <1>3. CASE s <= Len(p)
    <2>1. s \in 1..Len(p) /\ i \in 1..Len(p) /\ k \in 0..Len(p)
      BY <1>1, <1>3
    <2>2. Held(D, p, k, b) /\ TakesBack(p, i, x) /\ Brings(p, s, y)
      BY <1>1, <2>1, PushHeld
    <2>3. PICK j \in (k + 1)..(s - 1) : Touches(p, j, b)
      BY <2>1, <2>2 DEF NoGap
    <2>4. j \in 1..Len(p)
      BY <1>1, <2>1
    <2> QED
      BY <1>2, <2>3, <2>4
  <1>4. CASE s > Len(p)
    <2>1. s \in (Len(p) + 1)..Len(q) /\ y \in T \ A
      BY <1>1, <1>4
    <2>2. b \in T /\ x \in T
      <3>1. Line(T) /\ b \in T
        BY <2>1 DEF Pushed, Line
      <3> QED
        BY <3>1 DEF Line
    <2>3. i \in 1..Len(p) /\ k \in 0..Len(p) /\ TakesBack(p, i, x)
      <3>1. i \in 1..Len(p) \/ i \in (Len(p) + 1)..Len(q)
        BY <1>1
      <3>2. i \in 1..Len(p)
        BY <1>1, <2>2, <3>1
      <3> QED
        BY <1>1, <3>2
    <2>4. CASE \E j \in (k + 1)..Len(p) : Touches(p, j, b)
      <3>1. PICK j \in (k + 1)..Len(p) : Touches(p, j, b)
        BY <2>4
      <3>2. j \in (k + 1)..(s - 1) /\ j \in 1..Len(p)
        BY <1>1, <2>1, <2>3
      <3> QED
        BY <1>2, <3>1, <3>2
    <2>5. CASE b \in A /\ \A j \in (k + 1)..Len(p) : ~Touches(p, j, b)
      <3>1. Held(D, p, k, b)
        BY <2>3, PushHeld
      <3>2. ~Again(p, k, b)
        BY <2>5 DEF Again, Touches
      <3>3. Live(A, D, p, k, b)
        BY <2>5, <3>1, <3>2 DEF Live
      <3>4. PICK j \in (k + 1)..(i - 1) : TakesBack(p, j, b)
        BY <2>3, <3>3 DEF TipFirst
      <3>5. j \in (k + 1)..Len(p)
        BY <1>1, <2>3
      <3> QED
        BY <2>5, <3>4, <3>5 DEF Touches
    <2>6. CASE b \notin A
      <3>1. PICK j \in (Len(p) + 1)..Len(q) : Brings(q, j, b)
        BY <2>2, <2>6, PushOrder
      <3>2. j < s
        BY <2>1, <3>1, PushOrder
      <3>3. j \in (k + 1)..(s - 1)
        BY <1>1, <2>3, <3>2
      <3> QED
        BY <3>1, <3>3 DEF Touches
    <2> QED
      BY <2>4, <2>5, <2>6
  <1> QED
    BY <1>1, <1>3, <1>4

\* What the events say of the held blocks is still so after a move.
LEMMA PushFits ==
    ASSUME NEW A, NEW T, NEW B, NEW D, NEW p, NEW q, Pushed(A, T, B, D, p, q),
           EventsFit(A, D, p)
    PROVE  EventsFit(B, D, q)
  BY PushForgotten, PushTip, PushAbove, PushWay, PushBelow, PushGap, PushGoes DEF EventsFit

\* A held block comes again after a move only if it did before.
LEMMA PushSame ==
    ASSUME NEW A, NEW T, NEW B, NEW D, NEW p, NEW q, Pushed(A, T, B, D, p, q),
           NoneForgotten(A, D, p), NEW b \in D
    PROVE  Again(q, 0, b) <=> Again(p, 0, b)
  <1>1. Len(p) \in Nat /\ 0 \in 0..Len(p) /\ b \in Block
    BY PushFacts
  <1>2. ASSUME b \in T \ A, \A j \in (0 + 1)..Len(p) : ~TakesBack(p, j, b)
        PROVE  Again(p, 0, b)
    <2>1. PICK i \in 1..Len(p) : Touches(p, i, b)
      BY <1>2 DEF NoneForgotten
    <2>2. Brings(p, i, b)
      BY <1>2, <2>1 DEF Touches
    <2>3. \A j \in (0 + 1)..(i - 1) : j \in (0 + 1)..Len(p)
      BY <1>1
    <2> QED
      BY <1>1, <1>2, <2>2, <2>3 DEF Again
  <1> QED
    BY <1>1, <1>2, PushAgain

-----------------------------------------------------------------------------
(* The first event is applied                                               *)

\* The wallet applies the first event of p, which is about x.  A block that connects
\* is active, and so is every held block that comes again.
Popped(A, D, E, x, p, q) ==
    /\ Line(A) /\ D \subseteq Block /\ x \in Block
    /\ p \in Seq(Event) /\ q \in Seq(Event) /\ Len(p) >= 1 /\ Len(q) = Len(p) - 1
    /\ \A i \in 1..(Len(p) - 1) : q[i] = p[i + 1]
    /\ \/ /\ Brings(p, 1, x) /\ E = D \cup {x}
          /\ x \in A /\ \A b \in D : Again(p, 0, b) => b \in A
       \/ TakesBack(p, 1, x) /\ E = D \ {x}

LEMMA PopFacts ==
    ASSUME NEW A, NEW D, NEW E, NEW x, NEW p, NEW q, Popped(A, D, E, x, p, q)
    PROVE  /\ Len(p) \in Nat /\ Len(q) \in Nat /\ Len(p) = Len(q) + 1
           /\ D \subseteq Block /\ E \subseteq Block /\ x \in Block
           /\ \A i \in 1..Len(q) : \A b \in Block :
                 /\ Brings(q, i, b) <=> Brings(p, i + 1, b)
                 /\ TakesBack(q, i, b) <=> TakesBack(p, i + 1, b)
           /\ \A i \in 2..Len(p) : \A b \in Block :
                 /\ Brings(q, i - 1, b) <=> Brings(p, i, b)
                 /\ TakesBack(q, i - 1, b) <=> TakesBack(p, i, b)
           /\ \A b \in Block : Brings(p, 1, b) \/ TakesBack(p, 1, b) => b = x
           /\ \A b \in Block : ~(Brings(p, 1, b) /\ TakesBack(p, 1, b))
           /\ Brings(p, 1, x) \/ TakesBack(p, 1, x)
           /\ Brings(p, 1, x) => E = D \cup {x} /\ x \in A /\ \A b \in D : Again(p, 0, b) => b \in A
           /\ TakesBack(p, 1, x) => E = D \ {x}
  <1>1. /\ p \in Seq(Event) /\ q \in Seq(Event) /\ Len(p) >= 1 /\ Len(q) = Len(p) - 1
        /\ \A i \in 1..(Len(p) - 1) : q[i] = p[i + 1]
        /\ D \subseteq Block /\ x \in Block
    BY DEF Popped
  <1>2. Len(p) \in Nat /\ Len(q) \in Nat /\ Len(p) = Len(q) + 1
    BY <1>1
  <1>3. ASSUME NEW i \in 1..Len(q), NEW b \in Block
        PROVE  /\ Brings(q, i, b) <=> Brings(p, i + 1, b)
               /\ TakesBack(q, i, b) <=> TakesBack(p, i + 1, b)
    <2>1. i \in 1..(Len(p) - 1)
      BY <1>2
    <2>2. q[i] = p[i + 1]
      BY <1>1, <2>1
    <2> QED
      BY <2>2 DEF Brings, TakesBack
  <1>4. ASSUME NEW i \in 2..Len(p), NEW b \in Block
        PROVE  /\ Brings(q, i - 1, b) <=> Brings(p, i, b)
               /\ TakesBack(q, i - 1, b) <=> TakesBack(p, i, b)
    <2>1. i - 1 \in 1..Len(q) /\ (i - 1) + 1 = i
      BY <1>2
    <2>2. PICK n \in 1..Len(q) : n = i - 1 /\ n + 1 = i
      BY <2>1
    <2> QED
      BY <1>3, <2>2
  <1>5. \/ /\ Brings(p, 1, x) /\ E = D \cup {x}
           /\ x \in A /\ \A b \in D : Again(p, 0, b) => b \in A
        \/ TakesBack(p, 1, x) /\ E = D \ {x}
    BY DEF Popped
  <1>6. /\ \A b \in Block : Brings(p, 1, b) \/ TakesBack(p, 1, b) => b = x
        /\ \A b \in Block : ~(Brings(p, 1, b) /\ TakesBack(p, 1, b))
    BY <1>5 DEF Brings, TakesBack
  <1> QED
    BY <1>1, <1>2, <1>3, <1>4, <1>5, <1>6

LEMMA PopConnects ==
    ASSUME NEW A, NEW D, NEW E, NEW x, NEW p, NEW q, Popped(A, D, E, x, p, q), Brings(p, 1, x)
    PROVE  E = D \cup {x} /\ x \in A /\ \A b \in D : Again(p, 0, b) => b \in A
  BY PopFacts

LEMMA PopDisconnects ==
    ASSUME NEW A, NEW D, NEW E, NEW x, NEW p, NEW q, Popped(A, D, E, x, p, q), TakesBack(p, 1, x)
    PROVE  E = D \ {x}
  BY PopFacts

LEMMA PopHeld ==
    ASSUME NEW A, NEW D, NEW E, NEW x, NEW p, NEW q, Popped(A, D, E, x, p, q),
           NEW k \in 0..Len(q), NEW b \in Block, Held(E, q, k, b)
    PROVE  Held(D, p, k + 1, b) \/ (k = 0 /\ b # x /\ b \in D)
  <1>1. /\ Len(p) \in Nat /\ Len(q) \in Nat /\ Len(p) = Len(q) + 1
        /\ \A i \in 1..Len(q) : \A y \in Block : Brings(q, i, y) <=> Brings(p, i + 1, y)
        /\ Brings(p, 1, x) \/ TakesBack(p, 1, x)
        /\ Brings(p, 1, x) => E = D \cup {x}
        /\ TakesBack(p, 1, x) => E = D \ {x}
    BY PopFacts
  <1>2. PICK m : m = k + 1
    OBVIOUS
  <1>3. m \in 1..Len(p)
    BY <1>1, <1>2
  <1>4. CASE k = 0
    <2>1. b \in E
      BY <1>4 DEF Held
    <2>2. b = x => Brings(p, 1, b)
      BY <1>1, <2>1
    <2>3. b # x => b \in D
      BY <1>1, <2>1
    <2>4. m = 1
      BY <1>2, <1>4
    <2>5. b = x => Held(D, p, m, b)
      BY <1>3, <2>2, <2>4 DEF Held
    <2> QED
      BY <1>2, <1>4, <2>3, <2>5
  <1>5. CASE k # 0
    <2>1. k \in 1..Len(q) /\ Brings(q, k, b)
      BY <1>5 DEF Held
    <2>2. Brings(p, m, b)
      BY <1>1, <1>2, <2>1
    <2>3. Held(D, p, m, b)
      BY <1>3, <2>2 DEF Held
    <2> QED
      BY <1>2, <2>3
  <1> QED
    BY <1>4, <1>5

LEMMA PopAgain ==
    ASSUME NEW A, NEW D, NEW E, NEW x, NEW p, NEW q, Popped(A, D, E, x, p, q),
           NEW k \in 0..Len(q), NEW b \in Block
    PROVE  /\ Again(q, k, b) <=> Again(p, k + 1, b)
           /\ b # x => (Again(q, 0, b) <=> Again(p, 0, b))
  <1>1. /\ Len(p) \in Nat /\ Len(q) \in Nat /\ Len(p) = Len(q) + 1
        /\ \A i \in 1..Len(q) : \A y \in Block :
              /\ Brings(q, i, y) <=> Brings(p, i + 1, y)
              /\ TakesBack(q, i, y) <=> TakesBack(p, i + 1, y)
        /\ \A i \in 2..Len(p) : \A y \in Block :
              /\ Brings(q, i - 1, y) <=> Brings(p, i, y)
              /\ TakesBack(q, i - 1, y) <=> TakesBack(p, i, y)
        /\ \A y \in Block : Brings(p, 1, y) \/ TakesBack(p, 1, y) => y = x
    BY PopFacts
  <1>2. ASSUME NEW n \in 0..Len(q), Again(q, n, b), NEW m \in {n, n + 1}, m = n => n = 0 /\ b # x
        PROVE  Again(p, m, b)
    <2>1. PICK s \in (n + 1)..Len(q) :
             Brings(q, s, b) /\ \A j \in (n + 1)..(s - 1) : ~TakesBack(q, j, b)
      BY <1>2 DEF Again
    <2>2. PICK t : t = s + 1
      OBVIOUS
    <2>3. s \in 1..Len(q) /\ t \in (m + 1)..Len(p) /\ Brings(p, t, b)
      <3>1. s \in 1..Len(q) /\ t \in (m + 1)..Len(p)
        BY <1>1, <2>2
      <3> QED
        BY <1>1, <2>1, <2>2, <3>1
    <2>4. ASSUME NEW j \in (m + 1)..(t - 1)
          PROVE  ~TakesBack(p, j, b)
      <3>1. CASE j = 1
        <4>1. m = n
          BY <3>1
        <4> QED
          BY <1>1, <1>2, <3>1, <4>1
      <3>2. CASE j # 1
        <4>1. j \in 2..Len(p) /\ j - 1 \in (n + 1)..(s - 1)
          BY <1>1, <1>2, <2>2, <2>3, <3>2
        <4> QED
          BY <1>1, <2>1, <4>1
      <3> QED
        BY <3>1, <3>2
    <2> QED
      BY <2>3, <2>4 DEF Again
  <1>3. ASSUME NEW n \in 0..Len(q), NEW m \in {n, n + 1}, Again(p, m, b), m = n => n = 0 /\ b # x
        PROVE  Again(q, n, b)
    <2>1. PICK t \in (m + 1)..Len(p) :
             Brings(p, t, b) /\ \A j \in (m + 1)..(t - 1) : ~TakesBack(p, j, b)
      BY <1>3 DEF Again
    <2>2. t # 1
      BY <1>1, <1>3, <2>1
    <2>3. PICK s : s = t - 1
      OBVIOUS
    <2>4. t \in 2..Len(p) /\ s \in (n + 1)..Len(q) /\ Brings(q, s, b)
      <3>1. t \in 2..Len(p) /\ s \in (n + 1)..Len(q)
        BY <1>1, <1>3, <2>2, <2>3
      <3> QED
        BY <1>1, <2>1, <2>3, <3>1
    <2>5. ASSUME NEW j \in (n + 1)..(s - 1)
          PROVE  ~TakesBack(q, j, b)
      <3>1. j \in 1..Len(q) /\ j + 1 \in (m + 1)..(t - 1)
        BY <1>1, <2>3, <2>4
      <3> QED
        BY <1>1, <2>1, <3>1
    <2> QED
      BY <2>4, <2>5 DEF Again
  <1>4. 0 \in 0..Len(q) /\ k + 1 # k
    BY <1>1
  <1> QED
    BY <1>2, <1>3, <1>4

LEMMA PopLive ==
    ASSUME NEW A, NEW D, NEW E, NEW x, NEW p, NEW q, Popped(A, D, E, x, p, q),
           NEW k \in 0..Len(q), NEW b \in Block, Live(A, E, q, k, b)
    PROVE  Live(A, D, p, k + 1, b) \/ (k = 0 /\ b # x /\ Live(A, D, p, 0, b))
  <1>1. /\ Len(p) \in Nat /\ Len(q) \in Nat /\ Len(p) = Len(q) + 1
        /\ \A i \in 1..Len(q) : \A y \in Block : TakesBack(q, i, y) <=> TakesBack(p, i + 1, y)
    BY PopFacts
  <1>2. Held(E, q, k, b) /\ ~Again(q, k, b)
    BY DEF Live
  <1>3. b \in A \/ \E j \in (k + 2)..Len(p) : TakesBack(p, j, b)
    <2>1. ASSUME NEW j \in (k + 1)..Len(q), TakesBack(q, j, b)
          PROVE  \E i \in (k + 2)..Len(p) : TakesBack(p, i, b)
      <3>1. PICK i : i = j + 1
        OBVIOUS
      <3>2. i \in (k + 2)..Len(p) /\ j \in 1..Len(q)
        BY <1>1, <3>1
      <3> QED
        BY <1>1, <2>1, <3>1, <3>2
    <2> QED
      BY <2>1 DEF Live
  <1>4. ASSUME Held(D, p, k + 1, b)
        PROVE  Live(A, D, p, k + 1, b)
    <2>1. ~Again(p, k + 1, b)
      BY <1>2, PopAgain
    <2>2. (k + 1) + 1 = k + 2
      OBVIOUS
    <2> QED
      BY <1>3, <1>4, <2>1, <2>2 DEF Live
  <1>5. ASSUME k = 0, b # x, b \in D
        PROVE  Live(A, D, p, 0, b)
    <2>1. ~Again(p, 0, b)
      BY <1>2, <1>5, PopAgain
    <2>2. \A j \in (k + 2)..Len(p) : j \in (0 + 1)..Len(p)
      BY <1>1
    <2>3. b \in A \/ \E j \in (0 + 1)..Len(p) : TakesBack(p, j, b)
      BY <1>3, <2>2
    <2> QED
      BY <1>5, <2>1, <2>3 DEF Live, Held
  <1>6. Held(D, p, k + 1, b) \/ (k = 0 /\ b # x /\ b \in D)
    BY <1>2, PopHeld
  <1> QED
    BY <1>4, <1>5, <1>6

\* A held block that does not come again is live.
LEMMA HeldLive ==
    ASSUME NEW A, NEW D, NEW p, Len(p) \in Nat, NoneForgotten(A, D, p),
           NEW b \in D, ~Again(p, 0, b)
    PROVE  Live(A, D, p, 0, b)
  <1>1. ASSUME b \notin A
        PROVE  \E j \in (0 + 1)..Len(p) : TakesBack(p, j, b)
    <2>1. PICK i \in 1..Len(p) : Touches(p, i, b)
      BY <1>1 DEF NoneForgotten
    <2>2. CASE TakesBack(p, i, b)
      BY <2>2
    <2>3. CASE Brings(p, i, b)
      <3>1. i \in (0 + 1)..Len(p)
        OBVIOUS
      <3>2. PICK j \in (0 + 1)..(i - 1) : TakesBack(p, j, b)
        BY <2>3, <3>1 DEF Again
      <3>3. j \in (0 + 1)..Len(p)
        OBVIOUS
      <3> QED
        BY <3>2, <3>3
    <2> QED
      BY <2>1, <2>2, <2>3 DEF Touches
  <1> QED
    BY <1>1 DEF Live, Held

LEMMA PopForgotten ==
    ASSUME NEW A, NEW D, NEW E, NEW x, NEW p, NEW q, Popped(A, D, E, x, p, q),
           NoneForgotten(A, D, p)
    PROVE  NoneForgotten(A, E, q)
  <1> SUFFICES ASSUME NEW b \in E, b \notin A
               PROVE  \E i \in 1..Len(q) : Touches(q, i, b)
    BY DEF NoneForgotten
  <1>1. /\ Len(p) \in Nat /\ Len(q) \in Nat /\ Len(p) = Len(q) + 1 /\ b \in Block
        /\ \A i \in 2..Len(p) : \A y \in Block :
              /\ Brings(q, i - 1, y) <=> Brings(p, i, y)
              /\ TakesBack(q, i - 1, y) <=> TakesBack(p, i, y)
        /\ \A y \in Block : Brings(p, 1, y) \/ TakesBack(p, 1, y) => y = x
        /\ Brings(p, 1, x) \/ TakesBack(p, 1, x)
        /\ Brings(p, 1, x) => E = D \cup {x} /\ x \in A
        /\ TakesBack(p, 1, x) => E = D \ {x}
    BY PopFacts
  <1>2. b \in D /\ b # x
    BY <1>1
  <1>3. PICK i \in 1..Len(p) : Touches(p, i, b)
    BY <1>2 DEF NoneForgotten
  <1>4. i # 1
    BY <1>1, <1>2, <1>3 DEF Touches
  <1>5. PICK j : j = i - 1
    OBVIOUS
  <1>6. i \in 2..Len(p) /\ j \in 1..Len(q)
    BY <1>1, <1>4, <1>5
  <1>7. Touches(q, j, b)
    BY <1>1, <1>3, <1>5, <1>6 DEF Touches
  <1> QED
    BY <1>6, <1>7

LEMMA PopTip ==
    ASSUME NEW A, NEW D, NEW E, NEW x, NEW p, NEW q, Popped(A, D, E, x, p, q),
           TipFirst(A, D, p)
    PROVE  TipFirst(A, E, q)
  <1> SUFFICES ASSUME NEW k \in 0..Len(q), NEW i \in 1..Len(q), NEW w \in Block, NEW b \in Block,
                      Live(A, E, q, k, b), TakesBack(q, i, w), k < i, Ancestor(w, b)
               PROVE  \E j \in (k + 1)..(i - 1) : TakesBack(q, j, b)
    BY DEF TipFirst
  <1>1. /\ Len(p) \in Nat /\ Len(q) \in Nat /\ Len(p) = Len(q) + 1
        /\ \A n \in 1..Len(q) : \A y \in Block : TakesBack(q, n, y) <=> TakesBack(p, n + 1, y)
        /\ \A n \in 2..Len(p) : \A y \in Block : TakesBack(q, n - 1, y) <=> TakesBack(p, n, y)
        /\ \A y \in Block : TakesBack(p, 1, y) => y = x
    BY PopFacts
  <1>2. PICK m \in 0..Len(p) : /\ Live(A, D, p, m, b)
                               /\ m = k + 1 \/ (m = 0 /\ k = 0 /\ b # x)
    <2>1. 0 \in 0..Len(p) /\ k + 1 \in 0..Len(p)
      BY <1>1
    <2> QED
      BY <2>1, PopLive
  <1>3. PICK h \in 1..Len(p) : h = i + 1
    BY <1>1
  <1>4. TakesBack(p, h, w) /\ m < h
    BY <1>1, <1>2, <1>3
  <1>5. PICK n \in (m + 1)..(h - 1) : TakesBack(p, n, b)
    <2>1. /\ m \in 0..Len(p) /\ h \in 1..Len(p) /\ Live(A, D, p, m, b) /\ TakesBack(p, h, w)
          /\ m < h /\ Ancestor(w, b)
      BY <1>2, <1>3, <1>4
    <2> QED
      BY <2>1 DEF TipFirst
  <1>6. n # 1
    BY <1>1, <1>2, <1>5
  <1>7. PICK j : j = n - 1
    OBVIOUS
  <1>8. n \in 2..Len(p) /\ j \in (k + 1)..(i - 1)
    BY <1>1, <1>2, <1>3, <1>6, <1>7
  <1>9. TakesBack(q, j, b)
    BY <1>1, <1>5, <1>7, <1>8
  <1> QED
    BY <1>8, <1>9

LEMMA PopAbove ==
    ASSUME NEW A, NEW D, NEW E, NEW x, NEW p, NEW q, Popped(A, D, E, x, p, q),
           OnlyAbove(A, D, p)
    PROVE  OnlyAbove(A, E, q)
  <1> SUFFICES ASSUME NEW k \in 0..Len(q), NEW i \in 1..Len(q), NEW z \in Block, NEW b \in Block,
                      Live(A, E, q, k, z), Brings(q, i, b), k < i, ~Ancestor(z, b)
               PROVE  \E j \in (k + 1)..(i - 1) : TakesBack(q, j, z)
    BY DEF OnlyAbove
  <1>1. /\ Len(p) \in Nat /\ Len(q) \in Nat /\ Len(p) = Len(q) + 1
        /\ \A n \in 1..Len(q) : \A y \in Block : Brings(q, n, y) <=> Brings(p, n + 1, y)
        /\ \A n \in 2..Len(p) : \A y \in Block : TakesBack(q, n - 1, y) <=> TakesBack(p, n, y)
        /\ \A y \in Block : TakesBack(p, 1, y) => y = x
    BY PopFacts
  <1>2. PICK m \in 0..Len(p) : /\ Live(A, D, p, m, z)
                               /\ m = k + 1 \/ (m = 0 /\ k = 0 /\ z # x)
    <2>1. 0 \in 0..Len(p) /\ k + 1 \in 0..Len(p)
      BY <1>1
    <2> QED
      BY <2>1, PopLive
  <1>3. PICK h \in 1..Len(p) : h = i + 1
    BY <1>1
  <1>4. Brings(p, h, b) /\ m < h
    BY <1>1, <1>2, <1>3
  <1>5. PICK n \in (m + 1)..(h - 1) : TakesBack(p, n, z)
    <2>1. /\ m \in 0..Len(p) /\ h \in 1..Len(p) /\ Live(A, D, p, m, z) /\ Brings(p, h, b)
          /\ m < h /\ ~Ancestor(z, b)
      BY <1>2, <1>3, <1>4
    <2> QED
      BY <2>1 DEF OnlyAbove
  <1>6. n # 1
    BY <1>1, <1>2, <1>5
  <1>7. PICK j : j = n - 1
    OBVIOUS
  <1>8. n \in 2..Len(p) /\ j \in (k + 1)..(i - 1)
    BY <1>1, <1>2, <1>3, <1>6, <1>7
  <1>9. TakesBack(q, j, z)
    BY <1>1, <1>5, <1>7, <1>8
  <1> QED
    BY <1>8, <1>9

LEMMA PopGap ==
    ASSUME NEW A, NEW D, NEW E, NEW x, NEW p, NEW q, Popped(A, D, E, x, p, q),
           NoGap(D, p)
    PROVE  NoGap(E, q)
  <1> SUFFICES ASSUME NEW k \in 0..Len(q), NEW i \in 1..Len(q), NEW s \in 1..Len(q),
                      NEW w \in Block, NEW b \in Block, NEW y \in Block,
                      Held(E, q, k, b), TakesBack(q, i, w), Brings(q, s, y), k < i, i < s,
                      Ancestor(w, b), Ancestor(b, y)
               PROVE  \E j \in (k + 1)..(s - 1) : Touches(q, j, b)
    BY DEF NoGap
  <1>1. /\ Len(p) \in Nat /\ Len(q) \in Nat /\ Len(p) = Len(q) + 1
        /\ \A n \in 1..Len(q) : \A z \in Block :
              /\ Brings(q, n, z) <=> Brings(p, n + 1, z)
              /\ TakesBack(q, n, z) <=> TakesBack(p, n + 1, z)
        /\ \A n \in 2..Len(p) : \A z \in Block :
              /\ Brings(q, n - 1, z) <=> Brings(p, n, z)
              /\ TakesBack(q, n - 1, z) <=> TakesBack(p, n, z)
        /\ \A z \in Block : Brings(p, 1, z) \/ TakesBack(p, 1, z) => z = x
    BY PopFacts
  <1>2. PICK m \in 0..Len(p) : /\ Held(D, p, m, b)
                               /\ m = k + 1 \/ (m = 0 /\ k = 0 /\ b # x)
    <2>1. 0 \in 0..Len(p) /\ k + 1 \in 0..Len(p)
      BY <1>1
    <2>2. b \in D => Held(D, p, 0, b)
      BY DEF Held
    <2> QED
      BY <2>1, <2>2, PopHeld
  <1>3. PICK h \in 1..Len(p) : h = i + 1
    BY <1>1
  <1>4. PICK t \in 1..Len(p) : t = s + 1
    BY <1>1
  <1>5. TakesBack(p, h, w) /\ Brings(p, t, y) /\ m < h /\ h < t
    BY <1>1, <1>2, <1>3, <1>4
  <1>6. PICK n \in (m + 1)..(t - 1) : Touches(p, n, b)
    <2>1. /\ m \in 0..Len(p) /\ h \in 1..Len(p) /\ t \in 1..Len(p) /\ Held(D, p, m, b)
          /\ TakesBack(p, h, w) /\ Brings(p, t, y) /\ m < h /\ h < t
          /\ Ancestor(w, b) /\ Ancestor(b, y)
      BY <1>2, <1>3, <1>4, <1>5
    <2> QED
      BY <2>1 DEF NoGap
  <1>7. n # 1
    BY <1>1, <1>2, <1>6 DEF Touches
  <1>8. PICK j : j = n - 1
    OBVIOUS
  <1>9. n \in 2..Len(p) /\ j \in (k + 1)..(s - 1)
    BY <1>1, <1>2, <1>4, <1>7, <1>8
  <1>10. Touches(q, j, b)
    BY <1>1, <1>6, <1>8, <1>9 DEF Touches
  <1> QED
    BY <1>9, <1>10

LEMMA PopComes ==
    ASSUME NEW A, NEW D, NEW E, NEW x, NEW p, NEW q, Popped(A, D, E, x, p, q),
           NEW s \in 1..(Len(q) + 1), NEW b \in Block, Comes(A, q, s, b)
    PROVE  Comes(A, p, s + 1, b)
  <1>1. /\ Len(p) \in Nat /\ Len(q) \in Nat /\ Len(p) = Len(q) + 1
        /\ \A n \in 1..Len(q) : \A z \in Block : Brings(q, n, z) <=> Brings(p, n + 1, z)
    BY PopFacts
  <1>2. PICK t : t = s + 1
    OBVIOUS
  <1>3. CASE s \in 1..Len(q) /\ Brings(q, s, b)
    <2>1. t \in 1..Len(p) /\ Brings(p, t, b)
      BY <1>1, <1>2, <1>3
    <2> QED
      BY <1>2, <2>1 DEF Comes
  <1>4. CASE s = Len(q) + 1 /\ b \notin A
    <2>1. t = Len(p) + 1
      BY <1>1, <1>2, <1>4
    <2> QED
      BY <1>2, <1>4, <2>1 DEF Comes
  <1> QED
    BY <1>3, <1>4 DEF Comes

\* Another branch that comes after the first event.
LEMMA PopOther ==
    ASSUME NEW A, NEW D, NEW E, NEW x, NEW p, NEW q, Popped(A, D, E, x, p, q),
           NEW i \in 0..Len(q), NEW s \in 1..(Len(q) + 1), NEW b \in Block,
           Other(p, i + 1, s + 1, b)
    PROVE  Other(q, i, s, b)
  <1>1. /\ Len(p) \in Nat /\ Len(q) \in Nat /\ Len(p) = Len(q) + 1
        /\ \A n \in 2..Len(p) : \A z \in Block : Brings(q, n - 1, z) <=> Brings(p, n, z)
    BY PopFacts
  <1>2. PICK n \in ((i + 1) + 1)..((s + 1) - 1), m \in Block : Brings(p, n, m) /\ Apart(m, b)
    BY DEF Other
  <1>3. PICK j : j = n - 1
    OBVIOUS
  <1>4. n \in 2..Len(p) /\ j \in (i + 1)..(s - 1)
    BY <1>1, <1>3
  <1>5. Brings(q, j, m)
    BY <1>1, <1>2, <1>3, <1>4
  <1> QED
    BY <1>2, <1>4, <1>5 DEF Other

LEMMA PopWay ==
    ASSUME NEW A, NEW D, NEW E, NEW x, NEW p, NEW q, Popped(A, D, E, x, p, q),
           MakesWay(A, p)
    PROVE  MakesWay(A, q)
  <1> SUFFICES ASSUME NEW i \in 1..Len(q), NEW s \in 1..(Len(q) + 1), NEW b \in Block,
                      TakesBack(q, i, b), Comes(A, q, s, b), i < s
               PROVE  Other(q, i, s, b)
    BY DEF MakesWay
  <1>1. /\ Len(p) \in Nat /\ Len(q) \in Nat /\ Len(p) = Len(q) + 1
        /\ \A n \in 1..Len(q) : \A z \in Block : TakesBack(q, n, z) <=> TakesBack(p, n + 1, z)
    BY PopFacts
  <1>2. TakesBack(p, i + 1, b) /\ Comes(A, p, s + 1, b)
    BY <1>1, PopComes
  <1>3. i + 1 \in 1..Len(p) /\ s + 1 \in 1..(Len(p) + 1) /\ i + 1 < s + 1 /\ i \in 0..Len(q)
    BY <1>1
  <1>4. Other(p, i + 1, s + 1, b)
    BY <1>2, <1>3 DEF MakesWay
  <1> QED
    BY <1>3, <1>4, PopOther

LEMMA PopGoes ==
    ASSUME NEW A, NEW D, NEW E, NEW x, NEW p, NEW q, Popped(A, D, E, x, p, q),
           BelowGoes(A, p)
    PROVE  BelowGoes(A, q)
  <1> SUFFICES ASSUME NEW i \in 1..Len(q), NEW s \in 1..(Len(q) + 1), NEW w \in Block, NEW b \in Block,
                      TakesBack(q, i, w), Ancestor(b, w), Comes(A, q, s, b), i < s
               PROVE  \E j \in (i + 1)..(s - 1) : TakesBack(q, j, b)
    BY DEF BelowGoes
  <1>1. /\ Len(p) \in Nat /\ Len(q) \in Nat /\ Len(p) = Len(q) + 1
        /\ \A n \in 1..Len(q) : \A z \in Block : TakesBack(q, n, z) <=> TakesBack(p, n + 1, z)
        /\ \A n \in 2..Len(p) : \A z \in Block : TakesBack(q, n - 1, z) <=> TakesBack(p, n, z)
    BY PopFacts
  <1>2. TakesBack(p, i + 1, w) /\ Comes(A, p, s + 1, b)
    BY <1>1, PopComes
  <1>3. i + 1 \in 1..Len(p) /\ s + 1 \in 1..(Len(p) + 1) /\ i + 1 < s + 1
    BY <1>1
  <1>4. PICK n \in ((i + 1) + 1)..((s + 1) - 1) : TakesBack(p, n, b)
    BY <1>2, <1>3 DEF BelowGoes
  <1>5. PICK j : j = n - 1
    OBVIOUS
  <1>6. n \in 2..Len(p) /\ j \in (i + 1)..(s - 1)
    BY <1>1, <1>5
  <1>7. TakesBack(q, j, b)
    BY <1>1, <1>4, <1>5, <1>6
  <1> QED
    BY <1>6, <1>7

\* What is held up to place k + 1 is held up to place k of the rest.
LEMMA PopIn ==
    ASSUME NEW A, NEW D, NEW E, NEW x, NEW p, NEW q, Popped(A, D, E, x, p, q),
           NEW k \in 0..Len(q), NEW b \in Block, In(D, p, k + 1, b)
    PROVE  In(E, q, k, b)
  <1>1. /\ Len(p) \in Nat /\ Len(q) \in Nat /\ Len(p) = Len(q) + 1
        /\ \A n \in 1..Len(q) : \A z \in Block : TakesBack(q, n, z) <=> TakesBack(p, n + 1, z)
        /\ \A n \in 2..Len(p) : \A z \in Block : Brings(q, n - 1, z) <=> Brings(p, n, z)
        /\ \A z \in Block : Brings(p, 1, z) => z = x
        /\ Brings(p, 1, x) \/ TakesBack(p, 1, x)
        /\ Brings(p, 1, x) => E = D \cup {x}
        /\ TakesBack(p, 1, x) => E = D \ {x}
    BY PopFacts
  <1>2. PICK l \in 0..(k + 1) :
           Held(D, p, l, b) /\ \A j \in (l + 1)..(k + 1) : ~TakesBack(p, j, b)
    BY DEF In
  <1>3. PICK m \in 0..k : IF l <= 1 THEN m = 0 ELSE m = l - 1
    BY <1>1
  <1>4. Held(E, q, m, b)
    <2>1. CASE l > 1
      <3>1. l \in 2..Len(p) /\ m = l - 1 /\ m \in 1..Len(q) /\ l # 0
        BY <1>1, <1>3, <2>1
      <3>2. Brings(p, l, b)
        BY <1>2, <3>1 DEF Held
      <3>3. Brings(q, m, b)
        BY <1>1, <3>1, <3>2
      <3> QED
        BY <3>1, <3>3 DEF Held
    <2>2. CASE l = 1
      <3>1. Brings(p, 1, b)
        BY <1>2, <2>2 DEF Held
      <3>2. b \in E
        BY <1>1, <3>1
      <3> QED
        BY <1>3, <2>2, <3>2 DEF Held
    <2>3. CASE l = 0
      <3>1. b \in D
        BY <1>2, <2>3 DEF Held
      <3>2. 1 \in (l + 1)..(k + 1)
        BY <2>3
      <3>3. ~TakesBack(p, 1, b)
        BY <1>2, <3>2
      <3>4. b \in E
        BY <1>1, <3>1, <3>3
      <3> QED
        BY <1>3, <2>3, <3>4 DEF Held
    <2>4. l = 0 \/ l = 1 \/ l > 1
      OBVIOUS
    <2> QED
      BY <2>1, <2>2, <2>3, <2>4
  <1>5. ASSUME NEW j \in (m + 1)..k
        PROVE  ~TakesBack(q, j, b)
    <2>1. j \in 1..Len(q) /\ j + 1 \in (l + 1)..(k + 1)
      BY <1>1, <1>3
    <2> QED
      BY <1>1, <1>2, <2>1
  <1> QED
    BY <1>4, <1>5 DEF In

LEMMA PopBelow ==
    ASSUME NEW A, NEW D, NEW E, NEW x, NEW p, NEW q, Popped(A, D, E, x, p, q),
           NoneForgotten(A, D, p), OnlyAbove(A, D, p), MakesWay(A, p), BelowHeld(A, D, p)
    PROVE  BelowHeld(A, E, q)
  <1> SUFFICES ASSUME NEW k \in 0..Len(q), NEW s \in 1..(Len(q) + 1), NEW b \in Block, NEW y \in Block,
                      Held(E, q, k, y), Ancestor(b, y), Comes(A, q, s, b), k < s,
                      \A j \in (k + 1)..(s - 1) : ~TakesBack(q, j, y)
               PROVE  In(E, q, k, b) \/ Other(q, k, s, b)
    BY DEF BelowHeld
  <1>1. /\ Len(p) \in Nat /\ Len(q) \in Nat /\ Len(p) = Len(q) + 1
        /\ \A n \in 2..Len(p) : \A z \in Block : TakesBack(q, n - 1, z) <=> TakesBack(p, n, z)
        /\ \A z \in Block : Brings(p, 1, z) \/ TakesBack(p, 1, z) => z = x
        /\ \A z \in Block : ~(Brings(p, 1, z) /\ TakesBack(p, 1, z))
        /\ Brings(p, 1, x) \/ TakesBack(p, 1, x)
        /\ Brings(p, 1, x) => E = D \cup {x} /\ x \in A /\ \A z \in D : Again(p, 0, z) => z \in A
        /\ TakesBack(p, 1, x) => E = D \ {x}
        /\ x \in Block
    BY PopFacts
  <1>2. Comes(A, p, s + 1, b) /\ s + 1 \in 1..(Len(p) + 1)
    BY <1>1, PopComes
  <1>3. ASSUME NEW j \in (k + 2)..s
        PROVE  ~TakesBack(p, j, y)
    <2>1. j \in 2..Len(p) /\ j - 1 \in (k + 1)..(s - 1)
      BY <1>1
    <2> QED
      BY <1>1, <2>1
  <1>4. CASE Held(D, p, k + 1, y)
    <2>1. k + 1 \in 0..Len(p) /\ k + 1 < s + 1
      BY <1>1
    <2>2. \A j \in ((k + 1) + 1)..((s + 1) - 1) : ~TakesBack(p, j, y)
      BY <1>3
    <2>3. In(D, p, k + 1, b) \/ Other(p, k + 1, s + 1, b)
      BY <1>2, <1>4, <2>1, <2>2 DEF BelowHeld
    <2> QED
      BY <2>3, PopIn, PopOther
  <1>5. CASE k = 0 /\ y # x /\ y \in D
    <2>1. 0 \in 0..Len(p) /\ 0 < s + 1 /\ Held(D, p, 0, y) /\ 0 \in 0..Len(q)
      BY <1>1, <1>5 DEF Held
    <2>2. ASSUME NEW j \in (0 + 1)..((s + 1) - 1)
          PROVE  ~TakesBack(p, j, y)
      <3>1. CASE j = 1
        BY <1>1, <1>5, <3>1
      <3>2. CASE j # 1
        <4>1. j \in (k + 2)..s
          BY <1>5, <3>2
        <4> QED
          BY <1>3, <4>1
      <3> QED
        BY <3>1, <3>2
    <2>3. In(D, p, 0, b) \/ Other(p, 0, s + 1, b)
      BY <1>2, <2>1, <2>2 DEF BelowHeld
    <2>4. Other(p, 1, s + 1, b) => Other(q, 0, s, b)
      <3>1. 0 + 1 = 1
        OBVIOUS
      <3> QED
        BY <2>1, <3>1, PopOther
    <2>5. CASE In(D, p, 0, b)
      <3>1. b \in D
        <4>1. PICK l \in 0..0 : Held(D, p, l, b)
          BY <2>5 DEF In
        <4>2. l = 0
          OBVIOUS
        <4> QED
          BY <4>1, <4>2 DEF Held
      <3>2. CASE b \in E
        BY <1>5, <2>1, <3>2 DEF In, Held
      <3>3. CASE b \notin E
        <4>1. TakesBack(p, 1, b)
          BY <1>1, <3>1, <3>3
        <4>2. 1 \in 1..Len(p) /\ 1 < s + 1
          BY <1>1
        <4>3. Other(p, 1, s + 1, b)
          BY <1>2, <4>1, <4>2 DEF MakesWay
        <4> QED
          BY <1>5, <2>4, <4>3
      <3> QED
        BY <3>2, <3>3
    <2>6. CASE Other(p, 0, s + 1, b)
      <3>1. PICK r \in (0 + 1)..((s + 1) - 1), m \in Block : Brings(p, r, m) /\ Apart(m, b)
        BY <2>6 DEF Other
      <3>2. CASE r # 1
        <4>1. r \in (1 + 1)..((s + 1) - 1)
          BY <3>2
        <4>2. Other(p, 1, s + 1, b)
          BY <3>1, <4>1 DEF Other
        <4> QED
          BY <1>5, <2>4, <4>2
      <3>3. CASE r = 1
        <4>1. m = x /\ Brings(p, 1, x) /\ x \in A
          BY <1>1, <3>1, <3>3
        <4>2. y \in A
          <5>1. CASE Again(p, 0, y)
            BY <1>1, <1>5, <4>1, <5>1
          <5>2. CASE ~Again(p, 0, y)
            <6>1. Live(A, D, p, 0, y)
              BY <1>1, <1>5, <5>2, HeldLive
            <6>2. 1 \in 1..Len(p) /\ 0 < 1 /\ ~(\E j \in (0 + 1)..(1 - 1) : TakesBack(p, j, y))
              BY <1>1
            <6>3. Ancestor(y, x)
              BY <1>1, <2>1, <4>1, <6>1, <6>2 DEF OnlyAbove
            <6> QED
              BY <4>1, <6>3 DEF Popped, Line
          <5> QED
            BY <5>1, <5>2
        <4>3. Line(A)
          BY DEF Popped
        <4>4. b \in A
          BY <4>2, <4>3 DEF Line
        <4> QED
          BY <3>1, <4>1, <4>3, <4>4 DEF Line, Apart
      <3> QED
        BY <3>2, <3>3
    <2> QED
      BY <2>3, <2>5, <2>6
  <1> QED
    BY <1>4, <1>5, PopHeld

\* What the events say of the held blocks is still so of the rest of them.
LEMMA PopFits ==
    ASSUME NEW A, NEW D, NEW E, NEW x, NEW p, NEW q, Popped(A, D, E, x, p, q),
           EventsFit(A, D, p)
    PROVE  EventsFit(A, E, q)
  BY PopForgotten, PopTip, PopAbove, PopWay, PopBelow, PopGap, PopGoes DEF EventsFit

-----------------------------------------------------------------------------
(* The coins of a wallet that has seen rolled-back reorgs                   *)
(*                                                                          *)
(* u is the undo data, coins are the coins the wallet has.                  *)

\* A held block below b has created c.
Origin(u, b, c) == \E x \in DOMAIN u : Ancestor(x, b) /\ c \in u[x].created

\* The coins a block took from others are of held blocks below it.
Sourced(u, b) == \A c \in u[b].removed \ u[b].created : Origin(u, b, c)

CoinsHeld(u, coins) == \A c \in coins : \E b \in DOMAIN u : c \in u[b].created

SourcedUnlessAgain(u, p) == \A b \in DOMAIN u : ~Again(p, 0, b) => Sourced(u, b)

\* A block that does not move before one above it comes.
SourcedBelow(u, p) ==
    \A b \in DOMAIN u, q \in 1..Len(p), y \in Block :
              /\ Brings(p, q, y) /\ Ancestor(b, y)
              /\ \A j \in 1..(q - 1) : ~Touches(p, j, b)
          => Sourced(u, b)

\* z is taken back before b moves, and before it comes again.
GoesBefore(p, z, b) ==
    \E i \in 1..Len(p) :
        /\ TakesBack(p, i, z)
        /\ \A j \in 1..(i - 1) : ~Brings(p, j, z)
        /\ \A j \in 1..i : ~Touches(p, j, b)

\* A coin that a block which comes again has removed, and that the wallet has, is of
\* a block below it or of one that goes first.
ReturnedGoes(u, coins, p) ==
    \A b \in DOMAIN u : Again(p, 0, b) =>
        \A c \in (coins \cap u[b].removed) \ u[b].created :
            \/ Origin(u, b, c)
            \/ \E z \in DOMAIN u : c \in u[z].created /\ GoesBefore(p, z, b)

CoinsFit(u, coins, p) ==
    /\ CoinsHeld(u, coins) /\ SourcedUnlessAgain(u, p) /\ SourcedBelow(u, p)
    /\ ReturnedGoes(u, coins, p)

LEMMA PushCoins ==
    ASSUME NEW A, NEW T, NEW B, NEW u, NEW coins, NEW p, NEW q, Pushed(A, T, B, DOMAIN u, p, q),
           NoneForgotten(A, DOMAIN u, p), CoinsFit(u, coins, p)
    PROVE  CoinsFit(u, coins, q)
  <1>1. /\ Len(p) \in Nat /\ Len(q) \in Nat /\ Len(p) <= Len(q) /\ DOMAIN u \subseteq Block
        /\ \A i \in 1..Len(p) : \A b \in Block :
              /\ Brings(q, i, b) <=> Brings(p, i, b)
              /\ TakesBack(q, i, b) <=> TakesBack(p, i, b)
        /\ \A i \in (Len(p) + 1)..Len(q) : \A b \in Block :
              /\ Brings(q, i, b) => b \in T \ A
              /\ TakesBack(q, i, b) => b \in A \ T
    BY PushFacts
  <1>2. \A b \in DOMAIN u : Again(q, 0, b) <=> Again(p, 0, b)
    BY PushSame
  <1>3. SourcedUnlessAgain(u, q)
    BY <1>2 DEF CoinsFit, SourcedUnlessAgain
  <1>4. ASSUME NEW b \in DOMAIN u, NEW s \in 1..Len(q), NEW y \in Block,
               Brings(q, s, y), Ancestor(b, y), \A j \in 1..(s - 1) : ~Touches(q, j, b)
        PROVE  Sourced(u, b)
    <2>1. CASE s <= Len(p)
      <3>1. s \in 1..Len(p)
        BY <1>1, <2>1
      <3>2. ASSUME NEW j \in 1..(s - 1)
            PROVE  ~Touches(p, j, b)
        <4>1. j \in 1..Len(p)
          BY <1>1, <3>1
        <4> QED
          BY <1>1, <1>4, <4>1 DEF Touches
      <3>3. Brings(p, s, y)
        BY <1>1, <1>4, <3>1
      <3> QED
        BY <1>4, <3>1, <3>2, <3>3 DEF CoinsFit, SourcedBelow
    <2>2. CASE s > Len(p)
      <3>1. ASSUME NEW j \in 1..Len(p)
            PROVE  ~Brings(p, j, b)
        <4>1. j \in 1..(s - 1)
          BY <1>1, <2>2
        <4> QED
          BY <1>1, <1>4, <4>1 DEF Touches
      <3>2. ~Again(p, 0, b)
        BY <3>1 DEF Again
      <3> QED
        BY <3>2 DEF CoinsFit, SourcedUnlessAgain
    <2> QED
      BY <1>1, <2>1, <2>2
  <1>5. ASSUME NEW z \in DOMAIN u, NEW b \in DOMAIN u, GoesBefore(p, z, b)
        PROVE  GoesBefore(q, z, b)
    <2>1. PICK i \in 1..Len(p) :
             /\ TakesBack(p, i, z)
             /\ \A j \in 1..(i - 1) : ~Brings(p, j, z)
             /\ \A j \in 1..i : ~Touches(p, j, b)
      BY <1>5 DEF GoesBefore
    <2>2. i \in 1..Len(q) /\ TakesBack(q, i, z)
      BY <1>1, <2>1
    <2>3. ASSUME NEW j \in 1..(i - 1)
          PROVE  ~Brings(q, j, z)
      <3>1. j \in 1..Len(p)
        BY <1>1
      <3> QED
        BY <1>1, <2>1, <3>1
    <2>4. ASSUME NEW j \in 1..i
          PROVE  ~Touches(q, j, b)
      <3>1. j \in 1..Len(p)
        BY <1>1
      <3> QED
        BY <1>1, <2>1, <3>1 DEF Touches
    <2> QED
      BY <2>2, <2>3, <2>4 DEF GoesBefore
  <1>6. ReturnedGoes(u, coins, q)
    BY <1>2, <1>5 DEF CoinsFit, ReturnedGoes
  <1> QED
    BY <1>3, <1>4, <1>6 DEF CoinsFit, SourcedBelow

\* A block that goes before b, if not with the first event.
LEMMA PopBefore ==
    ASSUME NEW A, NEW D, NEW E, NEW x, NEW p, NEW q, Popped(A, D, E, x, p, q),
           NEW z \in Block, NEW b \in Block, GoesBefore(p, z, b), ~TakesBack(p, 1, z)
    PROVE  GoesBefore(q, z, b)
  <1>1. /\ Len(p) \in Nat /\ Len(q) \in Nat /\ Len(p) = Len(q) + 1
        /\ \A n \in 1..Len(q) : \A y \in Block :
              /\ Brings(q, n, y) <=> Brings(p, n + 1, y)
              /\ TakesBack(q, n, y) <=> TakesBack(p, n + 1, y)
        /\ \A n \in 2..Len(p) : \A y \in Block : TakesBack(q, n - 1, y) <=> TakesBack(p, n, y)
    BY PopFacts
  <1>2. PICK i \in 1..Len(p) :
           /\ TakesBack(p, i, z)
           /\ \A j \in 1..(i - 1) : ~Brings(p, j, z)
           /\ \A j \in 1..i : ~Touches(p, j, b)
    BY DEF GoesBefore
  <1>3. i # 1
    BY <1>2
  <1>4. PICK h \in 1..Len(q) : h = i - 1 /\ i = h + 1
    BY <1>1, <1>3
  <1>5. TakesBack(q, h, z)
    BY <1>1, <1>2, <1>4
  <1>6. ASSUME NEW j \in 1..(h - 1)
        PROVE  ~Brings(q, j, z)
    <2>1. j \in 1..Len(q) /\ j + 1 \in 1..(i - 1)
      BY <1>1, <1>4
    <2> QED
      BY <1>1, <1>2, <2>1
  <1>7. ASSUME NEW j \in 1..h
        PROVE  ~Touches(q, j, b)
    <2>1. j \in 1..Len(q) /\ j + 1 \in 1..i
      BY <1>1, <1>4
    <2> QED
      BY <1>1, <1>2, <2>1 DEF Touches
  <1> QED
    BY <1>4, <1>5, <1>6, <1>7 DEF GoesBefore

\* A block without an event up to place s of the rest has none up to s + 1.
LEMMA PopUntouched ==
    ASSUME NEW A, NEW D, NEW E, NEW x, NEW p, NEW q, Popped(A, D, E, x, p, q),
           NEW s \in 1..Len(q), NEW b \in Block, b # x, \A j \in 1..(s - 1) : ~Touches(q, j, b)
    PROVE  s + 1 \in 1..Len(p) /\ \A j \in 1..((s + 1) - 1) : ~Touches(p, j, b)
  <1>1. /\ Len(p) \in Nat /\ Len(q) \in Nat /\ Len(p) = Len(q) + 1
        /\ \A n \in 2..Len(p) : \A y \in Block :
              /\ Brings(q, n - 1, y) <=> Brings(p, n, y)
              /\ TakesBack(q, n - 1, y) <=> TakesBack(p, n, y)
        /\ \A z \in Block : Brings(p, 1, z) \/ TakesBack(p, 1, z) => z = x
    BY PopFacts
  <1>2. ASSUME NEW j \in 1..((s + 1) - 1)
        PROVE  ~Touches(p, j, b)
    <2>1. CASE j = 1
      BY <1>1, <2>1 DEF Touches
    <2>2. CASE j # 1
      <3>1. j \in 2..Len(p) /\ j - 1 \in 1..(s - 1)
        BY <1>1, <2>2
      <3> QED
        BY <1>1, <3>1 DEF Touches
    <2> QED
      BY <2>1, <2>2
  <1> QED
    BY <1>1, <1>2

\* A held block that does not come again is below a block that connects.
LEMMA ConnectBelow ==
    ASSUME NEW A, NEW D, NEW E, NEW x, NEW p, NEW q, Popped(A, D, E, x, p, q),
           Brings(p, 1, x), EventsFit(A, D, p), NEW b \in D, ~Again(p, 0, b)
    PROVE  Ancestor(b, x)
  <1>1. /\ Len(p) \in Nat /\ Len(p) >= 1 /\ 1 \in 1..Len(p) /\ 0 \in 0..Len(p)
        /\ b \in Block /\ x \in Block
    BY PopFacts DEF Popped
  <1>2. Live(A, D, p, 0, b)
    BY <1>1, HeldLive DEF EventsFit
  <1>3. 0 < 1 /\ ~(\E j \in (0 + 1)..(1 - 1) : TakesBack(p, j, b))
    OBVIOUS
  <1> QED
    BY <1>1, <1>2, <1>3 DEF EventsFit, OnlyAbove

\* Every held block is below a block that connects for the first time.
LEMMA ConnectOnTop ==
    ASSUME NEW A, NEW D, NEW E, NEW x, NEW p, NEW q, Popped(A, D, E, x, p, q),
           Brings(p, 1, x), EventsFit(A, D, p), x \notin D, NEW y \in D
    PROVE  Ancestor(y, x)
  <1>1. /\ Len(p) \in Nat /\ 1 \in 1..Len(p) /\ 0 \in 0..Len(p) /\ Line(A)
        /\ y \in Block /\ x \in Block /\ x \in A /\ \A b \in D : Again(p, 0, b) => b \in A
    <2>1. x \in A /\ \A b \in D : Again(p, 0, b) => b \in A
      BY PopConnects
    <2>2. /\ p \in Seq(Event) /\ Len(p) >= 1 /\ Line(A)
          /\ D \subseteq Block /\ x \in Block
      BY DEF Popped
    <2> QED
      BY <2>1, <2>2
  <1>2. CASE ~Again(p, 0, y)
    BY <1>2, ConnectBelow
  <1>3. CASE Again(p, 0, y)
    <2>1. y \in A /\ y # x
      BY <1>1, <1>3
    <2>2. ASSUME Ancestor(x, y)
          PROVE  FALSE
      <3>1. Held(D, p, 0, y) /\ Comes(A, p, 1, x)
        BY <1>1 DEF Held, Comes
      <3>2. 1 \in 1..(Len(p) + 1) /\ 0 < 1 /\ \A j \in (0 + 1)..(1 - 1) : ~TakesBack(p, j, y)
        BY <1>1
      <3>3. In(D, p, 0, x) \/ Other(p, 0, 1, x)
        BY <1>1, <2>2, <3>1, <3>2 DEF EventsFit, BelowHeld
      <3>4. ~Other(p, 0, 1, x)
        BY DEF Other
      <3>5. PICK l \in 0..0 : Held(D, p, l, x)
        BY <3>3, <3>4 DEF In
      <3>6. l = 0
        OBVIOUS
      <3> QED
        BY <3>5, <3>6 DEF Held
    <2> QED
      BY <1>1, <2>1, <2>2 DEF Line
  <1> QED
    BY <1>2, <1>3

\* A block connects.  cr are its credits, sp what it spends; an undo that is there
\* already is not changed.
LEMMA ConnectCoins ==
    ASSUME NEW A, NEW u, NEW v, NEW x, NEW p, NEW q, Popped(A, DOMAIN u, DOMAIN v, x, p, q),
           Brings(p, 1, x), EventsFit(A, DOMAIN u, p),
           NEW coins, NEW more, CoinsFit(u, coins, p), NEW cr, NEW sp,
           more = (coins \cup cr) \ sp,
           v[x].created = cr, v[x].removed = (coins \cup cr) \cap sp,
           \A y \in DOMAIN u : v[y] = u[y]
    PROVE  CoinsFit(v, more, q)
  <1>1. /\ Len(p) \in Nat /\ Len(q) \in Nat /\ Len(p) = Len(q) + 1
        /\ DOMAIN u \subseteq Block /\ DOMAIN v \subseteq Block /\ x \in Block /\ x \in A
        /\ \A n \in 1..Len(q) : \A z \in Block : Brings(q, n, z) <=> Brings(p, n + 1, z)
        /\ \A z \in Block : ~(Brings(p, 1, z) /\ TakesBack(p, 1, z))
        /\ \A z \in Block : Brings(p, 1, z) \/ TakesBack(p, 1, z) => z = x
        /\ DOMAIN v = DOMAIN u \cup {x}
        /\ \A b \in DOMAIN u : Again(p, 0, b) => b \in A
    <2>1. /\ DOMAIN v = DOMAIN u \cup {x} /\ x \in A
          /\ \A b \in DOMAIN u : Again(p, 0, b) => b \in A
      BY PopConnects
    <2> QED
      BY <2>1, PopFacts
  <1>2. Line(A) /\ 1 \in 1..Len(p) /\ 0 \in 0..Len(p) /\ 0 \in 0..Len(q)
    BY <1>1 DEF Popped
  <1>3. \A b, c : Origin(u, b, c) => Origin(v, b, c)
    BY <1>1 DEF Origin
  <1>4. ASSUME NEW b \in DOMAIN u, Sourced(u, b)
        PROVE  Sourced(v, b)
    BY <1>3, <1>4 DEF Sourced
  <1>5. ASSUME NEW b \in DOMAIN u, ~Again(p, 0, b)
        PROVE  Ancestor(b, x)
    BY <1>5, ConnectBelow
  <1>6. ASSUME NEW c \in v[x].removed \ v[x].created
        PROVE  Origin(v, x, c)
    <2>1. c \in coins /\ c \notin cr
      OBVIOUS
    <2>2. CASE x \in DOMAIN u
      <3>1. Again(p, 0, x)
        <4>1. 1 \in (0 + 1)..Len(p) /\ \A j \in (0 + 1)..(1 - 1) : ~TakesBack(p, j, x)
          BY <1>2
        <4> QED
          BY <4>1 DEF Again
      <3>2. c \in (coins \cap u[x].removed) \ u[x].created
        BY <2>1, <2>2
      <3>3. ASSUME NEW z \in DOMAIN u, GoesBefore(p, z, x)
            PROVE  FALSE
        <4>1. PICK i \in 1..Len(p) : \A j \in 1..i : ~Touches(p, j, x)
          BY <3>3 DEF GoesBefore
        <4>2. 1 \in 1..i
          BY <1>1
        <4> QED
          BY <4>1, <4>2 DEF Touches
      <3> QED
        BY <1>3, <2>2, <3>1, <3>2, <3>3 DEF CoinsFit, ReturnedGoes
    <2>3. CASE x \notin DOMAIN u
      <3>1. PICK y \in DOMAIN u : c \in u[y].created
        BY <2>1 DEF CoinsFit, CoinsHeld
      <3>2. Ancestor(y, x)
        BY <2>3, ConnectOnTop
      <3> QED
        BY <1>1, <3>1, <3>2 DEF Origin
    <2> QED
      BY <2>2, <2>3
  <1>7. Sourced(v, x)
    BY <1>6 DEF Sourced
  <1>8. CoinsHeld(v, more)
    <2> SUFFICES ASSUME NEW c \in more
                 PROVE  \E b \in DOMAIN v : c \in v[b].created
      BY DEF CoinsHeld
    <2>1. CASE c \in cr
      BY <1>1, <2>1
    <2>2. CASE c \in coins
      <3>1. PICK b \in DOMAIN u : c \in u[b].created
        BY <2>2 DEF CoinsFit, CoinsHeld
      <3> QED
        BY <1>1, <3>1
    <2> QED
      BY <2>1, <2>2
  <1>9. SourcedUnlessAgain(v, q)
    <2> SUFFICES ASSUME NEW b \in DOMAIN v, ~Again(q, 0, b)
                 PROVE  Sourced(v, b)
      BY DEF SourcedUnlessAgain
    <2>1. CASE b = x
      BY <1>7, <2>1
    <2>2. CASE b # x
      <3>1. b \in DOMAIN u /\ b \in Block
        BY <1>1, <2>2
      <3>2. ~Again(p, 0, b)
        BY <1>2, <2>2, <3>1, PopAgain
      <3>3. Sourced(u, b)
        BY <3>1, <3>2 DEF CoinsFit, SourcedUnlessAgain
      <3> QED
        BY <1>4, <3>1, <3>3
    <2> QED
      BY <2>1, <2>2
  <1>10. SourcedBelow(v, q)
    <2> SUFFICES ASSUME NEW b \in DOMAIN v, NEW s \in 1..Len(q), NEW y \in Block,
                        Brings(q, s, y), Ancestor(b, y), \A j \in 1..(s - 1) : ~Touches(q, j, b)
                 PROVE  Sourced(v, b)
      BY DEF SourcedBelow
    <2>1. CASE b = x
      BY <1>7, <2>1
    <2>2. CASE b # x
      <3>1. b \in DOMAIN u /\ b \in Block
        BY <1>1, <2>2
      <3>2. s + 1 \in 1..Len(p) /\ \A j \in 1..((s + 1) - 1) : ~Touches(p, j, b)
        BY <2>2, <3>1, PopUntouched
      <3>3. Brings(p, s + 1, y)
        BY <1>1
      <3>4. Sourced(u, b)
        BY <3>1, <3>2, <3>3 DEF CoinsFit, SourcedBelow
      <3> QED
        BY <1>4, <3>1, <3>4
    <2> QED
      BY <2>1, <2>2
  <1>11. ReturnedGoes(v, more, q)
    <2> SUFFICES ASSUME NEW b \in DOMAIN v, Again(q, 0, b),
                        NEW c \in (more \cap v[b].removed) \ v[b].created
                 PROVE  \/ Origin(v, b, c)
                        \/ \E z \in DOMAIN v : c \in v[z].created /\ GoesBefore(q, z, b)
      BY DEF ReturnedGoes
    <2>1. CASE b = x
      BY <1>6, <2>1
    <2>2. CASE b # x
      <3>1. b \in DOMAIN u /\ b \in Block /\ v[b] = u[b]
        BY <1>1, <2>2
      <3>2. Again(p, 0, b) /\ b \in A
        <4>1. Again(p, 0, b)
          BY <1>2, <2>2, <3>1, PopAgain
        <4> QED
          BY <1>1, <3>1, <4>1
      <3>3. CASE c \in coins
        <4>1. \/ Origin(u, b, c)
              \/ \E z \in DOMAIN u : c \in u[z].created /\ GoesBefore(p, z, b)
          BY <3>1, <3>2, <3>3 DEF CoinsFit, ReturnedGoes
        <4>2. ASSUME NEW z \in DOMAIN u, c \in u[z].created, GoesBefore(p, z, b)
              PROVE  z \in DOMAIN v /\ c \in v[z].created /\ GoesBefore(q, z, b)
          <5>1. ~TakesBack(p, 1, z) /\ z \in Block
            BY <1>1
          <5>2. GoesBefore(q, z, b)
            BY <3>1, <4>2, <5>1, PopBefore
          <5> QED
            BY <1>1, <4>2, <5>2
        <4> QED
          BY <1>3, <4>1, <4>2
      <3>4. CASE c \in cr
        <4>1. Ancestor(x, b) \/ Ancestor(b, x)
          BY <1>1, <1>2, <2>2, <3>2 DEF Line
        <4>2. CASE Ancestor(x, b)
          BY <1>1, <3>4, <4>2 DEF Origin
        <4>3. CASE Ancestor(b, x)
          <5>1. \A j \in 1..(1 - 1) : ~Touches(p, j, b)
            OBVIOUS
          <5>2. Sourced(u, b)
            BY <1>1, <1>2, <3>1, <4>3, <5>1 DEF CoinsFit, SourcedBelow
          <5>3. Origin(u, b, c)
            BY <3>1, <5>2 DEF Sourced
          <5> QED
            BY <1>3, <5>3
        <4> QED
          BY <4>1, <4>2, <4>3
      <3> QED
        BY <3>3, <3>4
    <2> QED
      BY <2>1, <2>2
  <1> QED
    BY <1>8, <1>9, <1>10, <1>11 DEF CoinsFit

\* The first event that brings b.
LEMMA FirstBrings ==
    ASSUME NEW p, Len(p) \in Nat, NEW b, Again(p, 0, b)
    PROVE  \E s \in 1..Len(p) : Brings(p, s, b) /\ \A j \in 1..(s - 1) : ~Touches(p, j, b)
  <1>1. PICK t \in (0 + 1)..Len(p) :
           Brings(p, t, b) /\ \A j \in (0 + 1)..(t - 1) : ~TakesBack(p, j, b)
    BY DEF Again
  <1> DEFINE S == { n \in 1..t : Brings(p, n, b) }
  <1>2. S \in SUBSET Nat /\ S # {}
    <2>1. t \in 1..t
      BY <1>1
    <2> QED
      BY <1>1, <2>1
  <1>3. PICK s \in S : \A n \in S : s <= n
    <2> HIDE DEF S
    <2> QED
      BY <1>2, Smallest
  <1>4. s \in 1..Len(p) /\ Brings(p, s, b) /\ s <= t
    BY <1>1, <1>3
  <1>5. ASSUME NEW j \in 1..(s - 1)
        PROVE  ~Touches(p, j, b)
    <2>1. j \in 1..t /\ j \in (0 + 1)..(t - 1) /\ ~(s <= j)
      BY <1>1, <1>4
    <2>2. ~Brings(p, j, b)
      BY <1>3, <2>1
    <2> QED
      BY <1>1, <2>1, <2>2 DEF Touches
  <1> QED
    BY <1>4, <1>5

\* A held block that does not come again and is taken back before place s is taken
\* back before then without coming first.
LEMMA FirstTakesBack ==
    ASSUME NEW p, Len(p) \in Nat, NEW w, ~Again(p, 0, w), NEW s \in 1..Len(p),
           NEW t \in 1..(s - 1), TakesBack(p, t, w)
    PROVE  \E i \in 1..(s - 1) : TakesBack(p, i, w) /\ \A j \in 1..(i - 1) : ~Brings(p, j, w)
  <1> DEFINE S == { n \in 1..t : TakesBack(p, n, w) }
  <1>1. S \in SUBSET Nat /\ S # {}
    <2>1. t \in 1..t
      OBVIOUS
    <2> QED
      BY <2>1
  <1>2. PICK i \in S : \A n \in S : i <= n
    <2> HIDE DEF S
    <2> QED
      BY <1>1, Smallest
  <1>3. i \in 1..(s - 1) /\ TakesBack(p, i, w) /\ i <= t
    BY <1>2
  <1>4. ASSUME NEW j \in 1..(i - 1), Brings(p, j, w)
        PROVE  FALSE
    <2>1. j \in (0 + 1)..Len(p)
      BY <1>3
    <2>2. ASSUME NEW n \in (0 + 1)..(j - 1)
          PROVE  ~TakesBack(p, n, w)
      <3>1. n \in 1..t /\ ~(i <= n)
        BY <1>3
      <3> QED
        BY <1>2, <3>1
    <2> QED
      BY <1>4, <2>1, <2>2 DEF Again
  <1> QED
    BY <1>3, <1>4

\* A block disconnects.
LEMMA DisconnectCoins ==
    ASSUME NEW A, NEW u, NEW v, NEW x, NEW p, NEW q, Popped(A, DOMAIN u, DOMAIN v, x, p, q),
           TakesBack(p, 1, x), EventsFit(A, DOMAIN u, p),
           NEW coins, NEW less, CoinsFit(u, coins, p),
           x \in DOMAIN u => /\ less = (coins \ u[x].created) \cup u[x].removed
                             /\ u[x].created \cap u[x].removed = {},
           x \notin DOMAIN u => less = coins,
           \A y \in DOMAIN v : v[y] = u[y]
    PROVE  CoinsFit(v, less, q)
  <1>1. /\ Len(p) \in Nat /\ Len(q) \in Nat /\ Len(p) = Len(q) + 1
        /\ DOMAIN u \subseteq Block /\ DOMAIN v \subseteq Block /\ x \in Block
        /\ \A n \in 1..Len(q) : \A z \in Block : Brings(q, n, z) <=> Brings(p, n + 1, z)
        /\ \A z \in Block : ~(Brings(p, 1, z) /\ TakesBack(p, 1, z))
        /\ \A z \in Block : Brings(p, 1, z) \/ TakesBack(p, 1, z) => z = x
    BY PopFacts
  <1>2. DOMAIN v = DOMAIN u \ {x}
    BY PopDisconnects
  <1>3. 1 \in 1..Len(p) /\ 0 \in 0..Len(p) /\ 0 \in 0..Len(q)
    BY <1>1 DEF Popped
  <1>4. \A b, c : Origin(u, b, c) /\ ~Ancestor(x, b) => Origin(v, b, c)
    BY <1>2 DEF Origin
  <1>5. ASSUME NEW b \in DOMAIN v, Sourced(u, b), ~Ancestor(x, b)
        PROVE  Sourced(v, b)
    BY <1>4, <1>5 DEF Sourced
  <1>6. \A b \in DOMAIN v : b \in DOMAIN u /\ b \in Block /\ b # x
    BY <1>1, <1>2
  <1>7. ASSUME x \in DOMAIN u, NEW c \in u[x].removed
        PROVE  Origin(u, x, c) /\ c \notin u[x].created
    <2>1. ~Again(p, 0, x)
      <3>1. ASSUME Again(p, 0, x)
            PROVE  FALSE
        <4>1. PICK s \in 1..Len(p) : Brings(p, s, x) /\ \A j \in 1..(s - 1) : ~Touches(p, j, x)
          BY <1>1, <3>1, FirstBrings
        <4>2. s # 1
          BY <1>1, <4>1
        <4>3. 1 \in 1..(s - 1)
          BY <1>1, <4>2
        <4> QED
          BY <4>1, <4>3 DEF Touches
      <3> QED
        BY <3>1
    <2>2. Sourced(u, x)
      BY <1>7, <2>1 DEF CoinsFit, SourcedUnlessAgain
    <2>3. c \notin u[x].created
      BY <1>7
    <2> QED
      BY <2>2, <2>3 DEF Sourced
  <1>8. CoinsHeld(v, less)
    <2> SUFFICES ASSUME NEW c \in less
                 PROVE  \E b \in DOMAIN v : c \in v[b].created
      BY DEF CoinsHeld
    <2>1. CASE c \in coins /\ (x \in DOMAIN u => c \notin u[x].created)
      <3>1. PICK b \in DOMAIN u : c \in u[b].created
        BY <2>1 DEF CoinsFit, CoinsHeld
      <3> QED
        BY <1>2, <2>1, <3>1
    <2>2. CASE x \in DOMAIN u /\ c \in u[x].removed
      <3>1. PICK b \in DOMAIN u : Ancestor(b, x) /\ c \in u[b].created
        BY <1>7, <2>2 DEF Origin
      <3>2. b # x
        BY <1>7, <2>2, <3>1
      <3> QED
        BY <1>2, <3>1, <3>2
    <2> QED
      BY <2>1, <2>2
  <1>9. SourcedUnlessAgain(v, q)
    <2> SUFFICES ASSUME NEW b \in DOMAIN v, ~Again(q, 0, b)
                 PROVE  Sourced(v, b)
      BY DEF SourcedUnlessAgain
    <2>1. ~Again(p, 0, b)
      BY <1>3, <1>6, PopAgain
    <2>2. Sourced(u, b)
      BY <1>6, <2>1 DEF CoinsFit, SourcedUnlessAgain
    <2>3. Live(A, DOMAIN u, p, 0, b)
      BY <1>1, <1>6, <2>1, HeldLive DEF EventsFit
    <2>4. 0 < 1 /\ ~(\E j \in (0 + 1)..(1 - 1) : TakesBack(p, j, b))
      OBVIOUS
    <2>5. ~Ancestor(x, b)
      BY <1>1, <1>3, <1>6, <2>3, <2>4 DEF EventsFit, TipFirst
    <2> QED
      BY <1>5, <2>2, <2>5
  <1>10. SourcedBelow(v, q)
    <2> SUFFICES ASSUME NEW b \in DOMAIN v, NEW s \in 1..Len(q), NEW y \in Block,
                        Brings(q, s, y), Ancestor(b, y), \A j \in 1..(s - 1) : ~Touches(q, j, b)
                 PROVE  Sourced(v, b)
      BY DEF SourcedBelow
    <2>1. PICK t : t = s + 1
      OBVIOUS
    <2>2. t \in 1..Len(p) /\ (\A j \in 1..(t - 1) : ~Touches(p, j, b)) /\ 1 < t
      <3>1. s + 1 \in 1..Len(p) /\ \A j \in 1..((s + 1) - 1) : ~Touches(p, j, b)
        BY <1>6, PopUntouched
      <3> QED
        BY <2>1, <3>1
    <2>3. Brings(p, t, y)
      BY <1>1, <2>1
    <2>4. Sourced(u, b)
      BY <1>6, <2>2, <2>3 DEF CoinsFit, SourcedBelow
    <2>5. ~Ancestor(x, b)
      <3>1. Held(DOMAIN u, p, 0, b)
        BY <1>6 DEF Held
      <3>2. ~(\E j \in (0 + 1)..(t - 1) : Touches(p, j, b))
        BY <2>2
      <3>3. 0 < 1 /\ NoGap(DOMAIN u, p) /\ b \in Block
        BY <1>6 DEF EventsFit
      <3> QED
        BY <1>1, <1>3, <2>2, <2>3, <3>1, <3>2, <3>3 DEF NoGap
    <2> QED
      BY <1>5, <2>4, <2>5
  <1>11. ReturnedGoes(v, less, q)
    <2> SUFFICES ASSUME NEW b \in DOMAIN v, Again(q, 0, b),
                        NEW c \in (less \cap v[b].removed) \ v[b].created
                 PROVE  \/ Origin(v, b, c)
                        \/ \E z \in DOMAIN v : c \in v[z].created /\ GoesBefore(q, z, b)
      BY DEF ReturnedGoes
    <2>1. Again(p, 0, b) /\ b \in DOMAIN u /\ b \in Block /\ b # x /\ v[b] = u[b]
      BY <1>3, <1>6, PopAgain
    <2>2. CASE c \in coins /\ (x \in DOMAIN u => c \notin u[x].created)
      <3>1. \/ Origin(u, b, c)
            \/ \E z \in DOMAIN u : c \in u[z].created /\ GoesBefore(p, z, b)
        BY <2>1, <2>2 DEF CoinsFit, ReturnedGoes
      <3>2. ASSUME Origin(u, b, c)
            PROVE  Origin(v, b, c)
        BY <1>2, <2>2, <3>2 DEF Origin
      <3>3. ASSUME NEW z \in DOMAIN u, c \in u[z].created, GoesBefore(p, z, b)
            PROVE  z \in DOMAIN v /\ c \in v[z].created /\ GoesBefore(q, z, b)
        <4>1. z # x /\ z \in DOMAIN v /\ z \in Block
          BY <1>1, <1>2, <2>2, <3>3
        <4>2. GoesBefore(q, z, b)
          BY <1>1, <2>1, <3>3, <4>1, PopBefore
        <4> QED
          BY <3>3, <4>1, <4>2
      <3> QED
        BY <3>1, <3>2, <3>3
    <2>3. CASE x \in DOMAIN u /\ c \in u[x].removed
      <3>1. PICK w \in DOMAIN u : Ancestor(w, x) /\ c \in u[w].created
        BY <1>7, <2>3 DEF Origin
      <3>2. w # x /\ w \in DOMAIN v /\ w \in Block /\ c \in v[w].created
        BY <1>1, <1>2, <1>7, <2>3, <3>1
      <3>3. CASE Ancestor(w, b)
        BY <3>2, <3>3 DEF Origin
      <3>4. CASE ~Ancestor(w, b)
        <4>1. ~Again(p, 0, w)
          <5>1. ASSUME Again(p, 0, w)
                PROVE  FALSE
            <6>1. PICK s \in 1..Len(p) : Brings(p, s, w) /\ \A j \in 1..(s - 1) : ~Touches(p, j, w)
              BY <1>1, <5>1, FirstBrings
            <6>2. s # 1
              BY <1>1, <3>2, <6>1
            <6>3. s \in 1..(Len(p) + 1) /\ 1 < s /\ Comes(A, p, s, w)
              BY <1>1, <6>1, <6>2 DEF Comes
            <6>4. PICK j \in (1 + 1)..(s - 1) : TakesBack(p, j, w)
              BY <1>1, <1>3, <3>1, <3>2, <6>3 DEF EventsFit, BelowGoes
            <6>5. j \in 1..(s - 1)
              OBVIOUS
            <6> QED
              BY <6>1, <6>4, <6>5 DEF Touches
          <5> QED
            BY <5>1
        <4>2. PICK s \in 1..Len(p) : Brings(p, s, b) /\ \A j \in 1..(s - 1) : ~Touches(p, j, b)
          BY <1>1, <2>1, FirstBrings
        <4>3. Live(A, DOMAIN u, p, 0, w)
          BY <1>1, <4>1, HeldLive DEF EventsFit
        <4>4. PICK t \in (0 + 1)..(s - 1) : TakesBack(p, t, w)
          <5>1. 0 < s
            OBVIOUS
          <5> QED
            BY <1>3, <2>1, <3>2, <3>4, <4>2, <4>3, <5>1 DEF EventsFit, OnlyAbove
        <4>5. PICK i \in 1..(s - 1) : TakesBack(p, i, w) /\ \A j \in 1..(i - 1) : ~Brings(p, j, w)
          <5>1. t \in 1..(s - 1)
            OBVIOUS
          <5> QED
            BY <1>1, <4>1, <4>4, <5>1, FirstTakesBack
        <4>6. i \in 1..Len(p) /\ \A j \in 1..i : j \in 1..(s - 1)
          BY <1>1
        <4>7. GoesBefore(p, w, b)
          BY <4>2, <4>5, <4>6 DEF GoesBefore
        <4>8. GoesBefore(q, w, b)
          BY <1>1, <2>1, <3>2, <4>7, PopBefore
        <4> QED
          BY <3>2, <4>8
      <3> QED
        BY <3>3, <3>4
    <2> QED
      BY <2>2, <2>3
  <1> QED
    BY <1>8, <1>9, <1>10, <1>11 DEF CoinsFit

-----------------------------------------------------------------------------
(* Which coins those are, where coins are created and spent once             *)

InLine(x, y) == x = y \/ Ancestor(x, y) \/ Ancestor(y, x)

\* The held blocks are on one branch, and the coins are what they created and do not
\* spend, but for blocks that come again.  What a held block spent of another's is
\* in its undo.
CoinsKept(u, coins, p) ==
    /\ \A x, y \in DOMAIN u : InLine(x, y)
    /\ \A b \in DOMAIN u : u[b].removed \subseteq spends[b] /\ u[b].created \subseteq creates[b]
    /\ \A b \in DOMAIN u : \A c \in u[b].created :
          (\A y \in DOMAIN u : c \notin spends[y]) => c \in coins
    /\ \A b \in DOMAIN u : ~Again(p, 0, b) => coins \cap spends[b] = {}
    /\ \A y, b \in DOMAIN u : u[y].created \cap spends[b] \subseteq u[b].removed

LEMMA OnceOnBranch ==
    ASSUME CoinsOnce, SpentOnce, NEW x \in Block, NEW b \in Block, Ancestor(x, b)
    PROVE  /\ creates[b] \cap creates[x] = {} /\ creates[b] \cap spends[x] = {}
           /\ spends[x] \cap spends[b] = {}
  <1>1. /\ Len(branch[b]) \in Nat /\ Len(branch[b]) >= 1 /\ DOMAIN branch[b] = 1..Len(branch[b])
        /\ branch[b][Len(branch[b])] = b
    BY BranchAt
  <1>2. PICK i \in 1..(Len(branch[b]) - 1) : x = branch[b][i]
    BY AncestorAt
  <1>3. PICK j \in DOMAIN branch[b] : j = Len(branch[b]) /\ branch[b][j] = b
    BY <1>1
  <1>4. i \in DOMAIN branch[b] /\ i < j
    BY <1>1, <1>3
  <1>5. creates[branch[b][j]] \cap (creates[branch[b][i]] \cup spends[branch[b][i]]) = {}
    BY <1>4 DEF CoinsOnce
  <1>6. spends[branch[b][i]] \cap spends[branch[b][j]] = {}
    BY <1>4 DEF SpentOnce
  <1> QED
    BY <1>2, <1>3, <1>5, <1>6

LEMMA PushKept ==
    ASSUME NEW A, NEW T, NEW B, NEW u, NEW coins, NEW p, NEW q, Pushed(A, T, B, DOMAIN u, p, q),
           NoneForgotten(A, DOMAIN u, p), CoinsKept(u, coins, p)
    PROVE  CoinsKept(u, coins, q)
  <1>1. \A b \in DOMAIN u : Again(q, 0, b) <=> Again(p, 0, b)
    BY PushSame
  <1> QED
    BY <1>1 DEF CoinsKept

LEMMA ConnectKept ==
    ASSUME CoinsOnce, SpentOnce,
           NEW A, NEW u, NEW v, NEW x, NEW p, NEW q, Popped(A, DOMAIN u, DOMAIN v, x, p, q),
           Brings(p, 1, x), EventsFit(A, DOMAIN u, p),
           NEW coins, NEW more, CoinsKept(u, coins, p), NEW cr, cr \subseteq creates[x],
           more = (coins \cup cr) \ spends[x],
           v[x].created = cr, v[x].removed = (coins \cup cr) \cap spends[x],
           \A y \in DOMAIN u : v[y] = u[y]
    PROVE  CoinsKept(v, more, q)
  <1>1. /\ DOMAIN v = DOMAIN u \cup {x} /\ DOMAIN u \subseteq Block /\ x \in Block
        /\ 0 \in 0..Len(q)
    <2>1. DOMAIN u \subseteq Block /\ x \in Block /\ Len(q) \in Nat
      BY PopFacts
    <2>2. DOMAIN v = DOMAIN u \cup {x}
      BY PopConnects
    <2> QED
      BY <2>1, <2>2
  <1>2. ASSUME NEW b \in DOMAIN u, b # x
        PROVE  Again(q, 0, b) <=> Again(p, 0, b)
    BY <1>1, <1>2, PopAgain
  <1>3. ASSUME NEW b \in DOMAIN u, ~Again(p, 0, b)
        PROVE  cr \cap spends[b] = {} /\ spends[b] \cap spends[x] = {}
    <2>1. Ancestor(b, x)
      BY <1>3, ConnectBelow
    <2> QED
      BY <1>1, <2>1, OnceOnBranch
  <1>4. ASSUME x \notin DOMAIN u, NEW b \in DOMAIN u
        PROVE  Ancestor(b, x) /\ cr \cap spends[b] = {} /\ spends[b] \cap spends[x] = {}
    <2>1. Ancestor(b, x)
      BY <1>4, ConnectOnTop
    <2> QED
      BY <1>1, <2>1, OnceOnBranch
  <1>5. \A y, z \in DOMAIN v : InLine(y, z)
    <2>1. \A y, z \in DOMAIN u : InLine(y, z)
      BY DEF CoinsKept
    <2>2. \A y \in DOMAIN u : InLine(x, y) /\ InLine(y, x)
      BY <1>4, <2>1 DEF InLine
    <2>3. InLine(x, x)
      BY DEF InLine
    <2> QED
      BY <1>1, <2>1, <2>2, <2>3
  <1>6. ASSUME NEW b \in DOMAIN v
        PROVE  v[b].removed \subseteq spends[b] /\ v[b].created \subseteq creates[b]
    <2>1. CASE b = x
      BY <2>1
    <2>2. CASE b # x
      BY <1>1, <2>2 DEF CoinsKept
    <2> QED
      BY <2>1, <2>2
  <1>7. ASSUME NEW b \in DOMAIN v, NEW c \in v[b].created, \A y \in DOMAIN v : c \notin spends[y]
        PROVE  c \in more
    <2>1. c \notin spends[x]
      BY <1>1, <1>7
    <2>2. CASE b = x
      BY <2>1, <2>2
    <2>3. CASE b # x
      <3>1. b \in DOMAIN u /\ c \in u[b].created /\ \A y \in DOMAIN u : c \notin spends[y]
        BY <1>1, <1>7, <2>3
      <3>2. c \in coins
        BY <3>1 DEF CoinsKept
      <3> QED
        BY <2>1, <3>2
    <2> QED
      BY <2>2, <2>3
  <1>8. ASSUME NEW b \in DOMAIN v, ~Again(q, 0, b)
        PROVE  more \cap spends[b] = {}
    <2>1. CASE b = x
      BY <2>1
    <2>2. CASE b # x
      <3>1. b \in DOMAIN u /\ ~Again(p, 0, b)
        BY <1>1, <1>2, <1>8, <2>2
      <3>2. coins \cap spends[b] = {} /\ cr \cap spends[b] = {}
        BY <1>3, <3>1 DEF CoinsKept
      <3> QED
        BY <3>2
    <2> QED
      BY <2>1, <2>2
  <1>9. ASSUME NEW y \in DOMAIN v, NEW b \in DOMAIN v, NEW c \in v[y].created \cap spends[b]
        PROVE  c \in v[b].removed
    <2>1. CASE y \in DOMAIN u /\ b \in DOMAIN u
      <3>1. v[y] = u[y] /\ v[b] = u[b]
        BY <2>1
      <3> QED
        BY <2>1, <3>1 DEF CoinsKept
    <2>2. CASE b = x /\ y = x
      BY <2>2
    <2>3. CASE b = x /\ y # x /\ x \notin DOMAIN u
      <3>1. y \in DOMAIN u /\ c \in u[y].created /\ c \in spends[x]
        BY <1>1, <2>3
      <3>2. \A z \in DOMAIN u : c \notin spends[z]
        BY <1>4, <2>3, <3>1
      <3>3. c \in coins
        BY <3>1, <3>2 DEF CoinsKept
      <3> QED
        BY <2>3, <3>1, <3>3
    <2>4. CASE b # x /\ y = x /\ x \notin DOMAIN u
      BY <1>1, <1>4, <2>4
    <2> QED
      BY <1>1, <2>1, <2>2, <2>3, <2>4
  <1> QED
    BY <1>5, <1>6, <1>7, <1>8, <1>9 DEF CoinsKept

LEMMA DisconnectKept ==
    ASSUME CoinsOnce, SpentOnce,
           NEW A, NEW u, NEW v, NEW x, NEW p, NEW q, Popped(A, DOMAIN u, DOMAIN v, x, p, q),
           TakesBack(p, 1, x),
           NEW coins, NEW less, CoinsKept(u, coins, p),
           x \in DOMAIN u => /\ less = (coins \ u[x].created) \cup u[x].removed
                             /\ u[x].created \cap u[x].removed = {},
           x \notin DOMAIN u => less = coins,
           \A y \in DOMAIN v : v[y] = u[y]
    PROVE  CoinsKept(v, less, q)
  <1>1. DOMAIN v = DOMAIN u \ {x} /\ DOMAIN u \subseteq Block /\ x \in Block /\ 0 \in 0..Len(q)
    <2>1. DOMAIN u \subseteq Block /\ x \in Block /\ Len(q) \in Nat
      BY PopFacts
    <2>2. DOMAIN v = DOMAIN u \ {x}
      BY PopDisconnects
    <2> QED
      BY <2>1, <2>2
  <1>2. ASSUME NEW b \in DOMAIN v
        PROVE  /\ b \in DOMAIN u /\ b \in Block /\ b # x /\ v[b] = u[b]
               /\ Again(q, 0, b) <=> Again(p, 0, b)
    BY <1>1, PopAgain
  <1>3. ASSUME x \in DOMAIN u, NEW b \in DOMAIN v
        PROVE  creates[b] \cap creates[x] = {} /\ spends[x] \cap spends[b] = {}
    <2>1. b \in DOMAIN u /\ b \in Block /\ b # x
      BY <1>2
    <2>2. Ancestor(b, x) \/ Ancestor(x, b)
      BY <1>3, <2>1 DEF CoinsKept, InLine
    <2> QED
      BY <1>1, <2>1, <2>2, OnceOnBranch
  <1>4. /\ \A y, z \in DOMAIN v : InLine(y, z)
        /\ \A b \in DOMAIN v : v[b].removed \subseteq spends[b] /\ v[b].created \subseteq creates[b]
        /\ \A y, b \in DOMAIN v : v[y].created \cap spends[b] \subseteq v[b].removed
    BY <1>2 DEF CoinsKept
  <1>5. ASSUME NEW b \in DOMAIN v, NEW c \in v[b].created, \A y \in DOMAIN v : c \notin spends[y]
        PROVE  c \in less
    <2>1. b \in DOMAIN u /\ b # x /\ c \in u[b].created /\ c \in creates[b]
      BY <1>2, <1>4
    <2>2. CASE x \in DOMAIN u /\ c \in spends[x]
      <3>1. c \in u[x].removed
        BY <2>1, <2>2 DEF CoinsKept
      <3> QED
        BY <2>2, <3>1
    <2>3. CASE x \notin DOMAIN u \/ c \notin spends[x]
      <3>1. \A y \in DOMAIN u : c \notin spends[y]
        BY <1>1, <1>5, <2>3
      <3>2. c \in coins
        BY <2>1, <3>1 DEF CoinsKept
      <3>3. x \in DOMAIN u => c \notin u[x].created
        <4>1. x \in DOMAIN u => u[x].created \subseteq creates[x]
          BY DEF CoinsKept
        <4> QED
          BY <1>3, <2>1, <4>1
      <3> QED
        BY <3>2, <3>3
    <2> QED
      BY <2>2, <2>3
  <1>6. ASSUME NEW b \in DOMAIN v, ~Again(q, 0, b)
        PROVE  less \cap spends[b] = {}
    <2>1. b \in DOMAIN u /\ ~Again(p, 0, b)
      BY <1>2, <1>6
    <2>2. coins \cap spends[b] = {}
      BY <2>1 DEF CoinsKept
    <2>3. CASE x \notin DOMAIN u
      BY <2>2, <2>3
    <2>4. CASE x \in DOMAIN u
      <3>1. u[x].removed \subseteq spends[x]
        BY <2>4 DEF CoinsKept
      <3> QED
        BY <1>3, <2>2, <2>4, <3>1
    <2> QED
      BY <2>3, <2>4
  <1> QED
    BY <1>4, <1>5, <1>6 DEF CoinsKept

-----------------------------------------------------------------------------
(* The invariant                                                            *)

\* A held block that comes again has its event in the batch, or is active while a
\* batch is applied.
AgainActive(A, D, p, bt, ap) ==
    \A b \in D : Again(p, 0, b) /\ bt # << >> =>
        (ap /\ b \in A) \/ \E i \in 1..Len(bt) : Brings(bt, i, b)

RollFits(A, u, coins, p, bt, ap) ==
    /\ EventsFit(A, DOMAIN u, p) /\ AgainActive(A, DOMAIN u, p, bt, ap) /\ CoinsFit(u, coins, p)
    /\ CoinsOnce /\ SpentOnce => CoinsKept(u, coins, p)

CreatedCredits == \A b \in DOMAIN block_undo : block_undo[b].created \subseteq Credits(b)

\* None but the two troubles, and every block of the batch that is being applied is
\* active: the others would be a trouble when their event is applied.
Fine ==
    /\ trouble \subseteq {"late watch", "rollback"}
    /\ applying => \A i \in 1..Len(batch) :
                      batch[i].kind = "connected" => batch[i].block \in Range(blocks)

RollInv ==
    /\ applying => batch # << >>
    /\ Fine => /\ RollFits(Range(blocks), block_undo, utxos, Waiting, batch, applying)
               /\ CreatedCredits

LEMMA InitRoll ==
    ASSUME Init
    PROVE  RollInv
  <1>1. /\ blocks = << Genesis >> /\ journal = << Connected(Genesis, 0) >> /\ batch = << >>
        /\ ~applying /\ utxos = {} /\ block_undo = << >>
    BY DEF Init
  <1>2. DOMAIN block_undo = {}
    BY <1>1
  <1>3. PICK p : p = Waiting
    OBVIOUS
  <1>4. Len(p) = 1 /\ p[1] = Connected(Genesis, 0)
    <2>1. Genesis \in Block
      BY WalletAssumption
    <2>2. Connected(Genesis, 0) \in Event
      BY <2>1 DEF Connected, Event
    <2> QED
      BY <1>1, <1>3, <2>2 DEF Waiting
  <1>5. \A b : Brings(p, 1, b) => b = Genesis
    BY <1>4 DEF Brings, Connected
  <1>6. \A i \in 1..Len(p), b \in Block : ~TakesBack(p, i, b)
    BY <1>4 DEF TakesBack, Connected
  <1>7. \A x : ~Ancestor(x, Genesis)
    <2>1. branch[Genesis] = << Genesis >>
      BY WalletAssumption
    <2> QED
      BY <2>1 DEF Ancestor, Range
  <1>8. \A A, k, b : Held({}, p, k, b) => k = 1 /\ b = Genesis
    BY <1>4, <1>5 DEF Held
  <1>9. EventsFit(Range(blocks), {}, p)
    <2> DEFINE A == Range(blocks)
    <2>1. NoneForgotten(A, {}, p)
      BY DEF NoneForgotten
    <2>2. TipFirst(A, {}, p) /\ MakesWay(A, p) /\ NoGap({}, p) /\ BelowGoes(A, p)
      BY <1>6 DEF TipFirst, MakesWay, NoGap, BelowGoes
    <2>3. OnlyAbove(A, {}, p)
      <3> SUFFICES ASSUME NEW k \in 0..Len(p), NEW q \in 1..Len(p), NEW z, Live(A, {}, p, k, z), k < q
                   PROVE  FALSE
        BY DEF OnlyAbove
      <3>1. k = 1
        BY <1>8 DEF Live
      <3> QED
        BY <1>4, <3>1
    <2>4. BelowHeld(A, {}, p)
      BY <1>7, <1>8 DEF BelowHeld
    <2> QED
      BY <2>1, <2>2, <2>3, <2>4 DEF EventsFit
  <1>10. AgainActive(Range(blocks), {}, p, batch, applying)
    BY DEF AgainActive
  <1>11. CoinsFit(block_undo, utxos, p)
    BY <1>1, <1>2 DEF CoinsFit, CoinsHeld, SourcedUnlessAgain, SourcedBelow, ReturnedGoes
  <1>12. CreatedCredits
    BY <1>2 DEF CreatedCredits
  <1>13. CoinsKept(block_undo, utxos, p)
    BY <1>2 DEF CoinsKept
  <1> QED
    BY <1>1, <1>2, <1>3, <1>9, <1>10, <1>11, <1>12, <1>13 DEF RollInv, RollFits

\* A move, or a reorg that is rolled back, adds the events of the way to new.
LEMMA PushRoll ==
    ASSUME UndoInv, RollInv, NEW new, IsChain(new), ~applying,
           journal' = journal \o MoveEvents(blocks, new), batch' = batch, applying' = applying,
           watched' = watched, utxos' = utxos, block_undo' = block_undo, trouble \subseteq trouble',
           \/ blocks' = blocks
           \/ blocks' = new /\ Range(new) \ Range(blocks) # {}
    PROVE  RollInv'
  <1>1. TypeOK /\ IsChain(blocks) /\ DOMAIN block_undo \subseteq Block
    <2>1. TypeOK /\ IsChain(blocks)
      BY DEF UndoInv
    <2> QED
      BY <2>1 DEF TypeOK
  <1>2. PICK p, q : p = Waiting /\ q = Waiting'
    OBVIOUS
  <1>3. p \in Seq(Event) /\ q = p \o MoveEvents(blocks, new)
    <2>1. new \in Seq(Block) /\ blocks \in Seq(Block)
      BY <1>1 DEF IsChain
    <2>2. MoveEvents(blocks, new) \in Seq(Event)
      BY <2>1, MoveEventsAre
    <2>3. Waiting' = Waiting \o MoveEvents(blocks, new)
      BY <1>1, <2>2, WaitingMove
    <2> QED
      BY <1>1, <1>2, <2>3, WaitingType
  <1>4. Pushed(Range(blocks), Range(new), Range(blocks'), DOMAIN block_undo, p, q)
    <2>1. Grown(Range(blocks), Range(new), p, q)
      BY <1>1, <1>3, MoveGrows
    <2>2. Line(Range(blocks)) /\ Line(Range(new))
      BY <1>1, ChainLine
    <2>3. \/ Range(blocks') = Range(blocks)
          \/ Range(blocks') = Range(new) /\ Range(new) \ Range(blocks) # {}
      OBVIOUS
    <2> QED
      BY <1>1, <2>1, <2>2, <2>3 DEF Pushed
  <1>5. SUFFICES ASSUME Fine'
                 PROVE  /\ RollFits(Range(blocks'), block_undo, utxos, q, batch, applying)
                        /\ CreatedCredits'
    BY <1>2 DEF RollInv
  <1>6. Fine
    BY <1>5 DEF Fine
  <1>7. /\ EventsFit(Range(blocks), DOMAIN block_undo, p)
        /\ AgainActive(Range(blocks), DOMAIN block_undo, p, batch, applying)
        /\ CoinsFit(block_undo, utxos, p) /\ CreatedCredits
        /\ CoinsOnce /\ SpentOnce => CoinsKept(block_undo, utxos, p)
    BY <1>2, <1>6 DEF RollInv, RollFits
  <1>8. EventsFit(Range(blocks'), DOMAIN block_undo, q)
    BY <1>4, <1>7, PushFits
  <1>9. NoneForgotten(Range(blocks), DOMAIN block_undo, p)
    BY <1>7 DEF EventsFit
  <1>10. CoinsFit(block_undo, utxos, q)
    BY <1>4, <1>7, <1>9, PushCoins
  <1>11. \A b \in DOMAIN block_undo : Again(q, 0, b) <=> Again(p, 0, b)
    BY <1>4, <1>9, PushSame
  <1>12. AgainActive(Range(blocks'), DOMAIN block_undo, q, batch, applying)
    BY <1>7, <1>11 DEF AgainActive
  <1>13. CreatedCredits'
    BY <1>7 DEF CreatedCredits, Credits
  <1>14. CoinsOnce /\ SpentOnce => CoinsKept(block_undo, utxos, q)
    BY <1>4, <1>7, <1>9, PushKept
  <1> QED
    BY <1>8, <1>10, <1>12, <1>13, <1>14 DEF RollFits

\* A block that is heavier than the tip is not on the chain: work grows along a branch.
LEMMA HeavierIsNew ==
    ASSUME IsChain(blocks), blocks # << >>, NEW b \in Block, work[b] > work[Last(blocks)]
    PROVE  b \in Range(branch[b]) /\ b \notin Range(blocks)
  <1>1. PICK t \in Block : t = Last(blocks) /\ blocks = branch[t]
    <2>1. blocks \in Seq(Block)
      BY DEF IsChain
    <2> QED
      BY <2>1, LastOf DEF IsChain
  <1>2. work[b] \in Nat /\ work[t] \in Nat /\ work[b] > work[t]
    BY <1>1, WalletAssumption
  <1>3. b \notin Range(blocks)
    <2>1. ASSUME b \in Range(branch[t])
          PROVE  FALSE
      <3>1. b # t
        BY <1>2
      <3>2. work[b] < work[t]
        BY <2>1, <3>1, WalletAssumption
      <3> QED
        BY <1>2, <3>2
    <2> QED
      BY <1>1, <2>1
  <1>4. b \in Range(branch[b])
    <2>1. Len(branch[b]) \in DOMAIN branch[b] /\ branch[b][Len(branch[b])] = b
      BY BranchAt
    <2> QED
      BY <2>1 DEF Range
  <1> QED
    BY <1>3, <1>4

LEMMA MoveRoll ==
    ASSUME UndoInv, RollInv, NEW b \in Block, Move(b)
    PROVE  RollInv'
  <1>1. /\ blocks' = branch[b] /\ journal' = journal \o MoveEvents(blocks, branch[b])
        /\ batch' = batch /\ applying' = applying /\ watched' = watched /\ utxos' = utxos
        /\ block_undo' = block_undo /\ trouble' = trouble
        /\ ~applying /\ work[b] > work[Last(blocks)]
    BY DEF Move, wallet
  <1>2. IsChain(branch[b])
    BY BranchIsChain
  <1>3. b \in Range(branch[b]) /\ b \notin Range(blocks)
    BY <1>1, HeavierIsNew DEF UndoInv
  <1> QED
    BY <1>1, <1>2, <1>3, PushRoll

LEMMA RolledBackRoll ==
    ASSUME UndoInv, RollInv, NEW b \in Block, RolledBack(b)
    PROVE  RollInv'
  <1>1. /\ blocks' = blocks /\ batch' = batch /\ applying' = applying /\ watched' = watched
        /\ utxos' = utxos /\ block_undo' = block_undo /\ trouble \subseteq trouble' /\ ~applying
    BY DEF RolledBack, wallet
  <1>2. PICK n \in DOMAIN branch[b] :
           journal' = journal \o MoveEvents(blocks, SubSeq(branch[b], 1, n - 1))
    BY DEF RolledBack
  <1>3. IsChain(SubSeq(branch[b], 1, n - 1))
    <2>1. n - 1 \in 0..Len(branch[b])
      BY BranchAt
    <2> QED
      BY <2>1, BranchIsChain, ChainPrefix
  <1> QED
    BY <1>1, <1>2, <1>3, PushRoll

LEMMA WatchRoll ==
    ASSUME RollInv, NEW a \in Address, WatchAddress(a)
    PROVE  RollInv'
  <1>1. /\ blocks' = blocks /\ batch' = batch /\ applying' = applying /\ journal' = journal
        /\ watched' = watched \cup {a} /\ utxos' = utxos /\ block_undo' = block_undo
        /\ trouble \subseteq trouble'
    BY DEF WatchAddress
  <1>2. Waiting' = Waiting
    BY <1>1 DEF Waiting
  <1>3. \A b : Credits(b) \subseteq Credits(b)'
    BY <1>1 DEF Credits
  <1>4. CreatedCredits => CreatedCredits'
    BY <1>1, <1>3 DEF CreatedCredits
  <1>5. Fine' => Fine
    BY <1>1 DEF Fine
  <1> QED
    BY <1>1, <1>2, <1>4, <1>5 DEF RollInv

LEMMA TakeRoll ==
    ASSUME UndoInv, RollInv, TakeEvents
    PROVE  RollInv'
  <1>1. /\ blocks' = blocks /\ batch = << >> /\ batch' = journal /\ journal # << >>
        /\ applying' = applying /\ watched' = watched
        /\ utxos' = utxos /\ block_undo' = block_undo /\ trouble' = trouble
    BY DEF TakeEvents, wallet
  <1>2. ~applying
    BY <1>1 DEF RollInv
  <1>3. Waiting' = Waiting
    BY TakeUndo
  <1>4. Waiting = journal
    <2>1. journal \in Seq(Event)
      BY DEF UndoInv, TypeOK
    <2> QED
      BY <1>1, <2>1 DEF Waiting
  <1>5. Fine' => Fine
    BY <1>1, <1>2 DEF Fine
  <1>6. CreatedCredits => CreatedCredits'
    BY <1>1 DEF CreatedCredits, Credits
  <1>7. AgainActive(Range(blocks), DOMAIN block_undo, Waiting, journal, applying)
    BY <1>4 DEF AgainActive, Again
  <1> QED
    BY <1>1, <1>2, <1>3, <1>5, <1>6, <1>7 DEF RollInv, RollFits

\* The rest of a batch brings again what the batch did.
LEMMA AgainPops ==
    ASSUME NEW A, NEW D, NEW E, NEW x, NEW p, NEW q, Popped(A, D, E, x, p, q),
           NEW bt \in Seq(Event), bt # << >>, p[1] = bt[1], NEW ap, AgainActive(A, D, p, bt, ap)
    PROVE  AgainActive(A, E, q, Tail(bt), Tail(bt) # << >>)
  <1> SUFFICES ASSUME NEW b \in E, Again(q, 0, b), Tail(bt) # << >>
               PROVE  b \in A \/ \E i \in 1..Len(Tail(bt)) : Brings(Tail(bt), i, b)
    BY DEF AgainActive
  <1>1. /\ Len(q) \in Nat /\ E \subseteq Block
        /\ \A y \in Block : Brings(p, 1, y) \/ TakesBack(p, 1, y) => y = x
        /\ Brings(p, 1, x) \/ TakesBack(p, 1, x)
        /\ Brings(p, 1, x) => E = D \cup {x} /\ x \in A
        /\ TakesBack(p, 1, x) => E = D \ {x}
    BY PopFacts
  <1>2. CASE b = x
    BY <1>1, <1>2
  <1>3. CASE b # x
    <2>1. b \in D /\ b \in Block /\ 0 \in 0..Len(q)
      BY <1>1, <1>3
    <2>2. Again(p, 0, b)
      BY <1>3, <2>1, PopAgain
    <2>3. b \in A \/ \E i \in 1..Len(bt) : Brings(bt, i, b)
      BY <2>1, <2>2 DEF AgainActive
    <2>4. ASSUME NEW i \in 1..Len(bt), Brings(bt, i, b)
          PROVE  \E j \in 1..Len(Tail(bt)) : Brings(Tail(bt), j, b)
      <3>1. i # 1
        <4>1. i = 1 => Brings(p, 1, b)
          BY <2>4 DEF Brings
        <4> QED
          BY <1>1, <1>3, <2>1, <4>1
      <3>2. /\ Len(bt) \in Nat /\ Len(Tail(bt)) = Len(bt) - 1
            /\ \A j \in 1..(Len(bt) - 1) : Tail(bt)[j] = bt[j + 1]
        BY TailIsRest
      <3>3. PICK j \in 1..(Len(bt) - 1) : j + 1 = i
        BY <3>1, <3>2
      <3>4. Brings(Tail(bt), j, b)
        BY <2>4, <3>2, <3>3 DEF Brings
      <3> QED
        BY <3>2, <3>4
    <2> QED
      BY <2>3, <2>4
  <1> QED
    BY <1>2, <1>3

\* Where an event of a batch is applied and all is fine afterwards, all was.
LEMMA FineBefore ==
    ASSUME TypeOK, batch # << >>, NextEvent, Fine', trouble \subseteq trouble',
           Head(batch).kind = "connected" => Head(batch).block \in Range(blocks)
    PROVE  /\ Fine
           /\ \A i \in 1..Len(batch) :
                 batch[i].kind = "connected" => batch[i].block \in Range(blocks)
  <1>1. batch \in Seq(Event) /\ blocks' = blocks /\ batch' = Tail(batch) /\ applying' = (Tail(batch) # << >>)
    BY DEF TypeOK, NextEvent
  <1>2. /\ Len(batch) \in Nat /\ Len(Tail(batch)) = Len(batch) - 1 /\ Tail(batch) \in Seq(Event)
        /\ \A j \in 1..(Len(batch) - 1) : Tail(batch)[j] = batch[j + 1]
    BY <1>1, TailIsRest
  <1>3. ASSUME NEW i \in 1..Len(batch), batch[i].kind = "connected"
        PROVE  batch[i].block \in Range(blocks)
    <2>1. CASE i = 1
      <3>1. Head(batch) = batch[1]
        BY <1>1
      <3> QED
        BY <1>3, <2>1, <3>1
    <2>2. CASE i # 1
      <3>1. PICK j \in 1..(Len(batch) - 1) : j + 1 = i
        BY <1>2, <2>2
      <3>2. Tail(batch) # << >> /\ j \in 1..Len(Tail(batch)) /\ Tail(batch)[j] = batch[i]
        <4>1. j \in 1..Len(Tail(batch)) /\ Tail(batch)[j] = batch[i]
          BY <1>2, <3>1
        <4>2. Tail(batch) # << >>
          <5>1. PICK r \in Seq(Event) : r = Tail(batch)
            BY <1>2
          <5>2. Len(r) >= 1
            BY <1>2, <4>1, <5>1
          <5>3. r # << >>
            BY <5>2
          <5> QED
            BY <5>1, <5>3
        <4> QED
          BY <4>1, <4>2
      <3>3. applying' /\ batch'[j] = batch[i] /\ j \in 1..Len(batch')
        BY <1>1, <3>2
      <3>4. batch'[j].kind = "connected" => batch'[j].block \in Range(blocks')
        BY <3>3 DEF Fine
      <3> QED
        BY <1>1, <1>3, <3>3, <3>4
    <2> QED
      BY <2>1, <2>2
  <1>4. trouble \subseteq {"late watch", "rollback"}
    BY DEF Fine
  <1> QED
    BY <1>3, <1>4 DEF Fine

LEMMA ConnectedRoll ==
    ASSUME UndoInv, RollInv, ApplyConnected
    PROVE  RollInv'
  <1>1. /\ TypeOK /\ batch # << >> /\ NextEvent /\ IsChain(blocks)
        /\ batch \in Seq(Event) /\ DOMAIN block_undo \subseteq Block
        /\ blocks \in Seq(Block) /\ Len(blocks) \in Nat
    <2>1. TypeOK /\ batch # << >> /\ NextEvent /\ IsChain(blocks)
      BY DEF UndoInv, ApplyConnected
    <2> QED
      BY <2>1 DEF TypeOK
  <1>2. /\ blocks' = blocks /\ watched' = watched /\ batch' = Tail(batch)
        /\ applying' = (Tail(batch) # << >>)
    BY <1>1 DEF NextEvent
  <1>3. applying' => batch' # << >>
    BY <1>2
  <1>4. SUFFICES ASSUME Fine'
                 PROVE  /\ RollFits(Range(blocks'), block_undo', utxos', Waiting', batch', applying')
                        /\ CreatedCredits'
    BY <1>3 DEF RollInv
  <1>5. trouble' \subseteq {"late watch", "rollback"}
    BY <1>4 DEF Fine
  <1>6. PICK p, q : p = Waiting /\ q = Waiting'
    OBVIOUS
  <1>7. /\ Head(batch) \in Event /\ p[1] = Head(batch) /\ Len(p) >= 1
        /\ q \in Seq(Event) /\ Len(q) = Len(p) - 1
        /\ \A i \in 1..(Len(p) - 1) : q[i] = p[i + 1]
        /\ p \in Seq(Event)
    BY <1>1, <1>6, WaitingNext, WaitingType
  <1>8. PICK g : g = Head(batch).height + 1
    OBVIOUS
  <1>9. Head(batch).kind = "connected" /\ g \in 1..Len(blocks)
    <2>1. Head(batch).kind = "connected" /\ Head(batch).height < Len(blocks)
      BY DEF ApplyConnected
    <2>2. Head(batch).height \in Nat
      BY <1>7, EventsType
    <2> QED
      BY <1>1, <1>8, <2>1, <2>2
  <1>10. PICK x \in Block : x = blocks[g]
    BY <1>1, <1>9
  <1>11. /\ Connect(x) /\ trouble \subseteq trouble'
         /\ x # Head(batch).block => "other block" \in trouble'
         /\ x \in DOMAIN block_undo /\ block_undo[x] # UndoOf(x) => "undo overwritten" \in trouble'
    BY <1>8, <1>10 DEF ApplyConnected
  <1>12. x = Head(batch).block /\ (x \in DOMAIN block_undo => block_undo[x] = UndoOf(x))
    BY <1>5, <1>11
  <1>13. Line(Range(blocks)) /\ x \in Range(blocks)
    BY <1>1, <1>9, <1>10, ChainLine
  <1>14. /\ Fine
         /\ \A i \in 1..Len(batch) :
               batch[i].kind = "connected" => batch[i].block \in Range(blocks)
    BY <1>1, <1>4, <1>11, <1>12, <1>13, FineBefore
  <1>15. /\ EventsFit(Range(blocks), DOMAIN block_undo, p)
         /\ AgainActive(Range(blocks), DOMAIN block_undo, p, batch, applying)
         /\ CoinsFit(block_undo, utxos, p) /\ CreatedCredits
         /\ CoinsOnce /\ SpentOnce => CoinsKept(block_undo, utxos, p)
    BY <1>6, <1>14 DEF RollInv, RollFits
  <1>16. \A b \in DOMAIN block_undo : Again(p, 0, b) => b \in Range(blocks)
    BY <1>1, <1>14, <1>15 DEF AgainActive, Brings
  <1>17. /\ utxos' = (utxos \cup Credits(x)) \ spends[x]
         /\ DOMAIN block_undo' = DOMAIN block_undo \cup {x}
         /\ block_undo'[x] = UndoOf(x)
         /\ UndoOf(x).created = Credits(x)
         /\ UndoOf(x).removed = (utxos \cup Credits(x)) \cap spends[x]
         /\ \A y \in DOMAIN block_undo \ {x} : block_undo'[y] = block_undo[y]
    BY <1>1, <1>11, ConnectFacts
  <1>18. Brings(p, 1, x)
    BY <1>7, <1>9, <1>12 DEF Brings
  <1>19. Popped(Range(blocks), DOMAIN block_undo, DOMAIN block_undo', x, p, q)
    BY <1>1, <1>7, <1>13, <1>16, <1>17, <1>18 DEF Popped
  <1>20. EventsFit(Range(blocks), DOMAIN block_undo', q)
    BY <1>15, <1>19, PopFits
  <1>21. CoinsFit(block_undo', utxos', q)
    <2>1. \A y \in DOMAIN block_undo : block_undo'[y] = block_undo[y]
      BY <1>12, <1>17
    <2>2. /\ block_undo'[x].created = Credits(x)
          /\ block_undo'[x].removed = (utxos \cup Credits(x)) \cap spends[x]
      BY <1>17
    <2> QED
      BY <1>15, <1>17, <1>18, <1>19, <2>1, <2>2, ConnectCoins
  <1>24. CoinsOnce /\ SpentOnce => CoinsKept(block_undo', utxos', q)
    <2>1. \A y \in DOMAIN block_undo : block_undo'[y] = block_undo[y]
      BY <1>12, <1>17
    <2>2. /\ block_undo'[x].created = Credits(x)
          /\ block_undo'[x].removed = (utxos \cup Credits(x)) \cap spends[x]
          /\ Credits(x) \subseteq creates[x]
      BY <1>17, CreditsType
    <2> QED
      BY <1>15, <1>17, <1>18, <1>19, <2>1, <2>2, ConnectKept
  <1>22. AgainActive(Range(blocks), DOMAIN block_undo', q, Tail(batch), Tail(batch) # << >>)
    <2>1. p[1] = batch[1]
      BY <1>1, <1>7
    <2> QED
      BY <1>1, <1>15, <1>19, <2>1, AgainPops
  <1>23. CreatedCredits'
    <2>1. \A b : Credits(b)' = Credits(b)
      BY <1>2 DEF Credits
    <2> QED
      BY <1>15, <1>17, <2>1 DEF CreatedCredits
  <1> QED
    BY <1>2, <1>6, <1>20, <1>21, <1>22, <1>23, <1>24 DEF RollFits

LEMMA DisconnectedRoll ==
    ASSUME UndoInv, RollInv, ApplyDisconnected
    PROVE  RollInv'
  <1>1. /\ TypeOK /\ batch # << >> /\ NextEvent /\ IsChain(blocks)
        /\ batch \in Seq(Event) /\ DOMAIN block_undo \subseteq Block
    <2>1. TypeOK /\ batch # << >> /\ NextEvent /\ IsChain(blocks)
      BY DEF UndoInv, ApplyDisconnected
    <2> QED
      BY <2>1 DEF TypeOK
  <1>2. /\ blocks' = blocks /\ watched' = watched /\ batch' = Tail(batch)
        /\ applying' = (Tail(batch) # << >>)
    BY <1>1 DEF NextEvent
  <1>3. applying' => batch' # << >>
    BY <1>2
  <1>4. SUFFICES ASSUME Fine'
                 PROVE  /\ RollFits(Range(blocks'), block_undo', utxos', Waiting', batch', applying')
                        /\ CreatedCredits'
    BY <1>3 DEF RollInv
  <1>5. trouble' \subseteq {"late watch", "rollback"}
    BY <1>4 DEF Fine
  <1>6. PICK p, q : p = Waiting /\ q = Waiting'
    OBVIOUS
  <1>7. /\ Head(batch) \in Event /\ p[1] = Head(batch) /\ Len(p) >= 1
        /\ q \in Seq(Event) /\ Len(q) = Len(p) - 1
        /\ \A i \in 1..(Len(p) - 1) : q[i] = p[i + 1]
        /\ p \in Seq(Event)
    BY <1>1, <1>6, WaitingNext, WaitingType
  <1>8. PICK x \in Block : x = Head(batch).block
    BY <1>7, EventsType
  <1>9. /\ Head(batch).kind = "disconnected" /\ Disconnect(x) /\ trouble \subseteq trouble'
        /\ x \in DOMAIN block_undo /\ block_undo[x].created \cap block_undo[x].removed # {} =>
              "own coin back" \in trouble'
    BY <1>8 DEF ApplyDisconnected
  <1>10. x \in DOMAIN block_undo => block_undo[x].created \cap block_undo[x].removed = {}
    BY <1>5, <1>9
  <1>11. Fine
    BY <1>1, <1>4, <1>9, FineBefore
  <1>12. /\ EventsFit(Range(blocks), DOMAIN block_undo, p)
         /\ AgainActive(Range(blocks), DOMAIN block_undo, p, batch, applying)
         /\ CoinsFit(block_undo, utxos, p) /\ CreatedCredits
         /\ CoinsOnce /\ SpentOnce => CoinsKept(block_undo, utxos, p)
    BY <1>6, <1>11 DEF RollInv, RollFits
  <1>13. /\ DOMAIN block_undo' = DOMAIN block_undo \ {x}
         /\ \A y \in DOMAIN block_undo \ {x} : block_undo'[y] = block_undo[y]
         /\ x \in DOMAIN block_undo =>
               utxos' = (utxos \ block_undo[x].created) \cup block_undo[x].removed
         /\ x \notin DOMAIN block_undo => utxos' = utxos
    BY <1>1, <1>9, DisconnectFacts
  <1>14. TakesBack(p, 1, x)
    BY <1>7, <1>8, <1>9 DEF TakesBack
  <1>15. Popped(Range(blocks), DOMAIN block_undo, DOMAIN block_undo', x, p, q)
    <2>1. Line(Range(blocks))
      BY <1>1, ChainLine
    <2> QED
      BY <1>1, <1>7, <1>13, <1>14, <2>1 DEF Popped
  <1>16. EventsFit(Range(blocks), DOMAIN block_undo', q)
    BY <1>12, <1>15, PopFits
  <1>17. CoinsFit(block_undo', utxos', q)
    BY <1>10, <1>12, <1>13, <1>14, <1>15, DisconnectCoins
  <1>20. CoinsOnce /\ SpentOnce => CoinsKept(block_undo', utxos', q)
    <2>1. \A y \in DOMAIN block_undo' : block_undo'[y] = block_undo[y]
      BY <1>13
    <2> QED
      BY <1>10, <1>12, <1>13, <1>14, <1>15, <2>1, DisconnectKept
  <1>18. AgainActive(Range(blocks), DOMAIN block_undo', q, Tail(batch), Tail(batch) # << >>)
    <2>1. p[1] = batch[1]
      BY <1>1, <1>7
    <2> QED
      BY <1>1, <1>12, <1>15, <2>1, AgainPops
  <1>19. CreatedCredits'
    <2>1. \A b : Credits(b)' = Credits(b)
      BY <1>2 DEF Credits
    <2> QED
      BY <1>12, <1>13, <2>1 DEF CreatedCredits
  <1> QED
    BY <1>2, <1>6, <1>16, <1>17, <1>18, <1>19, <1>20 DEF RollFits

LEMMA NextRoll ==
    ASSUME UndoInv, RollInv, [Next]_vars
    PROVE  RollInv'
  <1>1. CASE UNCHANGED vars
    <2>1. /\ blocks' = blocks /\ batch' = batch /\ applying' = applying /\ journal' = journal
          /\ watched' = watched /\ utxos' = utxos /\ block_undo' = block_undo /\ trouble' = trouble
      BY <1>1 DEF vars, wallet
    <2> QED
      BY <2>1 DEF RollInv, RollFits, Fine, CreatedCredits, Credits, Waiting
  <1>2. CASE \E b \in Block : Move(b) \/ RolledBack(b)
    BY <1>2, MoveRoll, RolledBackRoll
  <1>3. CASE \E a \in Address : WatchAddress(a)
    BY <1>3, WatchRoll
  <1>4. CASE TakeEvents
    BY <1>4, TakeRoll
  <1>5. CASE ApplyConnected
    BY <1>5, ConnectedRoll
  <1>6. CASE MissingBlock
    <2>1. ~applying' /\ "missing block" \in trouble'
      BY <1>6 DEF MissingBlock
    <2> QED
      BY <2>1 DEF RollInv, Fine
  <1>7. CASE ApplyDisconnected
    BY <1>7, DisconnectedRoll
  <1> QED
    BY <1>1, <1>2, <1>3, <1>4, <1>5, <1>6, <1>7 DEF Next

LEMMA RollInvImplies ==
    ASSUME UndoInv, RollInv
    PROVE  RollbackTakesBlocks
  <1>1. SUFFICES ASSUME Quiet, trouble \subseteq {"late watch", "rollback"}
                 PROVE  /\ DOMAIN block_undo \subseteq Range(blocks)
                        /\ CoinsActive
                        /\ CoinsOnce /\ SpentOnce => utxos = Kept
    BY DEF RollbackTakesBlocks
  <1>2. Len(Waiting) = 0 /\ ~applying
    <2>1. Waiting = << >> \o << >> /\ batch = << >>
      BY <1>1 DEF Quiet, Waiting
    <2> QED
      BY <2>1 DEF RollInv
  <1>3. Fine
    BY <1>1, <1>2 DEF Fine
  <1>4. /\ NoneForgotten(Range(blocks), DOMAIN block_undo, Waiting)
        /\ CoinsHeld(block_undo, utxos) /\ CreatedCredits
        /\ CoinsOnce /\ SpentOnce => CoinsKept(block_undo, utxos, Waiting)
    BY <1>3 DEF RollInv, RollFits, EventsFit, CoinsFit
  <1>5. DOMAIN block_undo \subseteq Range(blocks)
    BY <1>2, <1>4 DEF NoneForgotten
  <1>6. CoinsActive
    <2> SUFFICES ASSUME NEW c \in utxos
                 PROVE  \E i \in DOMAIN blocks : c \in creates[blocks[i]]
      BY DEF CoinsActive
    <2>1. PICK b \in DOMAIN block_undo : c \in block_undo[b].created
      BY <1>4 DEF CoinsHeld
    <2>2. b \in Range(blocks) /\ c \in creates[b]
      BY <1>4, <1>5, <2>1 DEF CreatedCredits, Credits
    <2> QED
      BY <2>2 DEF Range
  <1>7. ASSUME CoinsOnce, SpentOnce
        PROVE  utxos = Kept
    <2>1. CoinsKept(block_undo, utxos, Waiting)
      BY <1>4, <1>7
    <2>2. \A b \in DOMAIN block_undo : utxos \cap spends[b] = {}
      <3>1. \A b : ~Again(Waiting, 0, b)
        BY <1>2 DEF Again
      <3> QED
        BY <2>1, <3>1 DEF CoinsKept
    <2>3. \A b \in DOMAIN block_undo : \A c \in block_undo[b].created :
             (\A y \in DOMAIN block_undo : c \notin spends[y]) => c \in utxos
      BY <2>1 DEF CoinsKept
    <2>4. \A c \in utxos : \E b \in DOMAIN block_undo : c \in block_undo[b].created
      BY <1>4 DEF CoinsHeld
    <2>5. utxos \subseteq Coin
      BY DEF UndoInv, TypeOK
    <2>6. \A c \in Kept : c \in utxos
      BY <2>3 DEF Kept
    <2>7. \A c \in utxos : c \in Kept
      BY <2>2, <2>4, <2>5 DEF Kept
    <2> QED
      BY <2>6, <2>7
  <1> QED
    BY <1>5, <1>6, <1>7

\* apply_events: whatever reorgs are rolled back, and however their events, drains
\* and applications interleave, a wallet that has applied every event has undo data of
\* active blocks only, counts no coin that an active block did not create, and, where
\* coins are created and spent once, holds exactly what those blocks created and do not
\* spend - as long as it met none of the four troubles of applying an event.  The undo
\* data of an active block may be gone: what it spent counts again.
THEOREM RollbackTheorem == Spec => []RollbackTakesBlocks
  <1>1. Init => UndoInv /\ RollInv
    BY InitUndo, InitRoll
  <1>2. UndoInv /\ RollInv /\ [Next]_vars => UndoInv' /\ RollInv'
    BY NextUndo, NextRoll
  <1>3. UndoInv /\ RollInv => RollbackTakesBlocks
    BY RollInvImplies
  <1> QED
    BY <1>1, <1>2, <1>3, PTL DEF Spec
=============================================================================
