------------------------------- MODULE Wallet -------------------------------
(***************************************************************************)
(* The wallet (wallet.rs) and the chain it follows.  The wallet drains the  *)
(* event journal under one lock (take_events) and applies the batch under   *)
(* another (apply_events), so the chain may move in between.  A connect     *)
(* event names a height, and the wallet reads the block that is active at   *)
(* that height when it applies the event, not when it was pushed.           *)
(*                                                                          *)
(* apply_events holds the chain's lock from the first event of a batch to   *)
(* the last; its loop is one action per event.                              *)
(*                                                                          *)
(* A block is the coins it creates and the coins it spends.  Events the     *)
(* wallet ignores (reorgs, orphans) are left out.  The window of the        *)
(* journal, and the error when the wallet lags behind it, are in            *)
(* EventJournal.                                                            *)
(***************************************************************************)
EXTENDS Integers, Sequences, FiniteSets, SequencesExt

CONSTANTS
    Block,
    Genesis,
    branch,          \* [Block -> Seq(Block)]: genesis up to the block itself
    work,            \* cumulative work of a block
    Bad,             \* blocks that are found invalid when they are connected
    Coin,
    creates,         \* block -> coins its outputs are
    spends,          \* block -> coins its inputs name
    Address,
    payee,           \* coin -> address of its P2PKH script
    MaxMoves         \* bound: how often the chain moves

ASSUME WalletAssumption ==
    /\ Genesis \in Block \ Bad
    /\ branch \in [Block -> Seq(Block)]
    /\ branch[Genesis] = << Genesis >>
    /\ \A b \in Block :
          /\ branch[b] # << >> /\ Last(branch[b]) = b
          /\ \A i \in DOMAIN branch[b] : branch[branch[b][i]] = SubSeq(branch[b], 1, i)
    /\ work \in [Block -> Nat]
    /\ \A b \in Block : \A x \in Range(branch[b]) \ {b} : work[x] < work[b]
    /\ creates \in [Block -> SUBSET Coin] /\ spends \in [Block -> SUBSET Coin]
    /\ payee \in [Coin -> Address]
    /\ MaxMoves \in Nat

VARIABLES
    blocks,      \* the active chain
    journal,     \* events not yet drained
    batch,       \* events drained and not yet applied
    applying,    \* apply_events is between two events of the batch
    watched,
    utxos,
    block_undo,  \* block -> [created, removed]
    moves

\* Auxiliary: not state of the program, read by no guard.
VARIABLE
    trouble      \* what has happened that the wallet may not recover from

wallet == << watched, utxos, block_undo >>
vars == << blocks, journal, batch, applying, wallet, trouble, moves >>

Connected(b, h) == [kind |-> "connected", block |-> b, height |-> h]
Disconnected(b) == [kind |-> "disconnected", block |-> b, height |-> 0]

\* How many blocks two chains share.
Common(old, new) ==
    Max({ n \in 0..Len(old) : n <= Len(new) /\ SubSeq(old, 1, n) = SubSeq(new, 1, n) })

\* The events of a move from chain old to chain new: disconnects from the tip
\* down, connects from the fork up.
MoveEvents(old, new) ==
    LET c == Common(old, new)
        down == [ i \in 1..(Len(old) - c) |-> Disconnected(old[Len(old) + 1 - i]) ]
        up == [ i \in 1..(Len(new) - c) |-> Connected(new[c + i], c + i - 1) ]
    IN  down \o up

-----------------------------------------------------------------------------
(* The chain                                                                *)

\* connect_block extends the tip or reorganizes to a heavier branch.
Move(b) ==
    /\ ~applying
    /\ moves < MaxMoves
    /\ work[b] > work[Last(blocks)]
    /\ Range(branch[b]) \cap Bad = {}
    /\ blocks' = branch[b]
    /\ journal' = journal \o MoveEvents(blocks, branch[b])
    /\ moves' = moves + 1
    /\ UNCHANGED << batch, applying, wallet, trouble >>

\* A reorg that meets a bad block is rolled back; its events stay.
RolledBack(b) ==
    /\ ~applying
    /\ moves < MaxMoves
    /\ work[b] > work[Last(blocks)]
    /\ Common(blocks, branch[b]) < Len(blocks)
    /\ \E n \in DOMAIN branch[b] :
          LET good == SubSeq(branch[b], 1, n - 1)
          IN  /\ branch[b][n] \in Bad /\ Range(good) \cap Bad = {}
              /\ journal' = journal \o MoveEvents(blocks, good)
    /\ trouble' = trouble \cup {"rollback"}
    /\ moves' = moves + 1
    /\ UNCHANGED << blocks, batch, applying, wallet >>

-----------------------------------------------------------------------------
(* The wallet                                                               *)

\* watch_address: what was paid to a before is not looked up.
WatchAddress(a) ==
    /\ ~applying
    /\ a \notin watched
    /\ watched' = watched \cup {a}
    /\ trouble' = IF DOMAIN block_undo = {} THEN trouble ELSE trouble \cup {"late watch"}
    /\ UNCHANGED << blocks, journal, batch, applying, utxos, block_undo, moves >>

TakeEvents ==
    /\ batch = << >> /\ journal # << >>
    /\ batch' = journal
    /\ journal' = << >>
    /\ UNCHANGED << blocks, applying, wallet, trouble, moves >>

\* The outputs of b that pay to a watched address.
Credits(b) == { c \in creates[b] : payee[c] \in watched }

Put(f, k, v) == [ x \in DOMAIN f \cup {k} |-> IF x = k THEN v ELSE f[x] ]
Without(f, k) == [ x \in DOMAIN f \ {k} |-> f[x] ]

\* The undo data of b applied to the coins the wallet has.
UndoOf(b) ==
    [ created |-> Credits(b), removed |-> (utxos \cup Credits(b)) \cap spends[b] ]

\* Mutant of Connect: does not note what the block spends.
MutConnect(b) ==
    /\ utxos' = (utxos \cup Credits(b)) \ spends[b]
    /\ block_undo' = Put(block_undo, b, [created |-> Credits(b), removed |-> {}])

\* A block connects: its credits come in, what its inputs name goes out, and the
\* undo of the block is noted, over an earlier one if there is one.
Connect(b) ==
    /\ utxos' = (utxos \cup Credits(b)) \ spends[b]
    /\ block_undo' = Put(block_undo, b, UndoOf(b))

\* Mutant of Disconnect: keeps the undo.
MutKeepUndo(b) ==
    IF b \notin DOMAIN block_undo THEN UNCHANGED << utxos, block_undo >>
    ELSE /\ utxos' = (utxos \ block_undo[b].created) \cup block_undo[b].removed
         /\ UNCHANGED block_undo

\* Mutant of Disconnect: the coins the block created stay.
MutDisconnect(b) ==
    IF b \notin DOMAIN block_undo THEN UNCHANGED << utxos, block_undo >>
    ELSE /\ utxos' = utxos \cup block_undo[b].removed
         /\ block_undo' = Without(block_undo, b)

\* A block disconnects: what it created goes, what it removed comes back - also a
\* coin that it had created itself.
Disconnect(b) ==
    IF b \notin DOMAIN block_undo THEN UNCHANGED << utxos, block_undo >>
    ELSE /\ utxos' = (utxos \ block_undo[b].created) \cup block_undo[b].removed
         /\ block_undo' = Without(block_undo, b)

\* On to the next event of the batch.
NextEvent ==
    /\ batch' = Tail(batch)
    /\ applying' = (Tail(batch) # << >>)
    /\ UNCHANGED << blocks, journal, watched, moves >>

\* BlockConnected: the block that is active at the height of the event by now.
ApplyConnected ==
    /\ batch # << >> /\ Head(batch).kind = "connected"
    /\ Head(batch).height < Len(blocks)
    /\ LET b == blocks[Head(batch).height + 1]
       IN  /\ Connect(b)
           /\ trouble' = trouble
                \cup { x \in {"other block"} : b # Head(batch).block }
                \cup { x \in {"undo overwritten"} :
                         b \in DOMAIN block_undo /\ block_undo[b] # UndoOf(b) }
    /\ NextEvent

\* MissingActiveBlock: the rest of the batch is not applied.
MissingBlock ==
    /\ batch # << >> /\ Head(batch).kind = "connected"
    /\ Head(batch).height >= Len(blocks)
    /\ batch' = << >>
    /\ applying' = FALSE
    /\ trouble' = trouble \cup {"missing block"}
    /\ UNCHANGED << blocks, journal, wallet, moves >>

\* BlockDisconnected.
ApplyDisconnected ==
    /\ batch # << >> /\ Head(batch).kind = "disconnected"
    /\ LET b == Head(batch).block
       IN  /\ Disconnect(b)
           /\ trouble' = trouble \cup { x \in {"own coin back"} :
                /\ b \in DOMAIN block_undo
                /\ block_undo[b].created \cap block_undo[b].removed # {} }
    /\ NextEvent

-----------------------------------------------------------------------------
Init ==
    /\ blocks = << Genesis >>
    /\ journal = << Connected(Genesis, 0) >>
    /\ batch = << >>
    /\ applying = FALSE
    /\ watched = {} /\ utxos = {}
    /\ block_undo = << >>
    /\ trouble = {}
    /\ moves = 0

Next ==
    \/ \E b \in Block : Move(b) \/ RolledBack(b)
    \/ \E a \in Address : WatchAddress(a)
    \/ TakeEvents
    \/ ApplyConnected \/ MissingBlock \/ ApplyDisconnected

Spec == Init /\ [][Next]_vars

-----------------------------------------------------------------------------
(* Properties                                                               *)

Event == [kind : {"connected", "disconnected"}, block : Block, height : Nat]

Troubles == {"rollback", "late watch", "other block", "missing block",
             "undo overwritten", "own coin back"}

TypeOK ==
    /\ blocks \in Seq(Block)
    /\ journal \in Seq(Event)
    /\ batch \in Seq(Event)
    /\ applying \in BOOLEAN
    /\ watched \subseteq Address /\ utxos \subseteq Coin
    /\ DOMAIN block_undo \subseteq Block
    /\ \A b \in DOMAIN block_undo :
          block_undo[b] \in [created : SUBSET Coin, removed : SUBSET Coin]
    /\ trouble \subseteq Troubles
    /\ moves \in 0..MaxMoves

\* Every event has been applied.
Quiet == journal = << >> /\ batch = << >>

\* The watched coins of a chain that it does not spend.
Spendable(chain) ==
    { c \in Coin : /\ payee[c] \in watched
                   /\ \E i \in DOMAIN chain : c \in creates[chain[i]]
                   /\ \A i \in DOMAIN chain : c \notin spends[chain[i]] }

\* No coin is of a block that is not active.
CoinsActive == \A c \in utxos : \E i \in DOMAIN blocks : c \in creates[blocks[i]]

\* No block of a branch creates a coin that an earlier one created or spent (two
\* equal coinbases would).
CoinsOnce ==
    \A b \in Block : \A i, j \in DOMAIN branch[b] :
        i < j => creates[branch[b][j]]
                    \cap (creates[branch[b][i]] \cup spends[branch[b][i]]) = {}

\* A wallet that has applied every event holds exactly the spendable coins of the
\* active chain, however reorgs, drains and applications interleave, as long as
\* coins are created once and none of the six troubles has happened.  After a late
\* watch it may lack coins, but it counts none of a block that is not active.
WalletExact ==
    /\ Quiet /\ trouble = {} /\ CoinsOnce => utxos = Spendable(blocks)
    /\ Quiet /\ trouble \subseteq {"late watch"} => CoinsActive

\* No block of a branch spends a coin that an earlier one spent.
SpentOnce ==
    \A b \in Block : \A i, j \in DOMAIN branch[b] :
        i < j => spends[branch[b][i]] \cap spends[branch[b][j]] = {}

\* What the blocks the wallet has the undo of created and do not spend.
Kept ==
    { c \in Coin : /\ \E b \in DOMAIN block_undo : c \in block_undo[b].created
                   /\ \A b \in DOMAIN block_undo : c \notin spends[b] }

\* The events a rolled-back reorg leaves behind may take active blocks from the
\* wallet, as if it had never seen them: what they created is lost, and what they
\* spent is counted again, although it stays spent on the active chain.  That is
\* all.  A wallet that has applied every event has undo data of active blocks only,
\* counts no coin that an active block did not create, and holds exactly what the
\* blocks it has left created and do not spend, whatever was rolled back, as long as
\* coins are created and spent once and no other trouble but a late watch happened.
RollbackTakesBlocks ==
    Quiet /\ trouble \subseteq {"late watch", "rollback"} =>
        /\ DOMAIN block_undo \subseteq Range(blocks)
        /\ CoinsActive
        /\ CoinsOnce /\ SpentOnce => utxos = Kept

\* A wallet that has applied every event has the undo of exactly the active
\* blocks, so the next reorg can be followed as well, although it may have read
\* other blocks than the events were pushed for, some of them twice.
UndoComplete ==
    /\ TypeOK
    /\ Quiet /\ trouble \cap {"rollback", "missing block"} = {} =>
          /\ DOMAIN block_undo = Range(blocks)
          /\ "late watch" \notin trouble =>
                \A b \in Range(blocks) : block_undo[b].created = Credits(b)
=============================================================================
