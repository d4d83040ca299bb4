----------------------------- MODULE ChainProofs -----------------------------
(***************************************************************************)
(* Proofs about connect_block, for every tree of blocks, every arrival      *)
(* order and every bound.  The inductive invariant is                       *)
(*   TypeOK, ActiveLinked, TreeConsistent, TipHasMostWork, EventsFollowChain *)
(* strengthened by what a call in progress relies on: CallShape and         *)
(* ReorgInProgress.                                                         *)
(***************************************************************************)
EXTENDS Chain, FiniteSetTheorems, TLAPS

\* The orphan queue of a call in progress, and the answer it will give.
CallShape ==
    /\ IsFiniteSet(DOMAIN orphans)
    /\ pc = "drain" => queue # << >> /\ draining
    /\ pc = "idle" => ~draining
    /\ draining => ret \in {"Connected", "Reorganized"}

\* What reorg_to_block relies on between two of its steps: the snapshot is a
\* chain of the tree with the most work in it, and the path hangs on the tree,
\* all of it known except its last block, which has more work than the snapshot.
ReorgInProgress ==
    /\ LinkedChain(snapshot.blocks, snapshot.active_hashes)
    /\ snapshot.total_work = known[Last(snapshot.blocks)].work
    /\ \A h \in DOMAIN known : known[h].work <= snapshot.total_work
    /\ path # << >>
    /\ \A i \in 1..Len(path) :
          /\ path[i] # Genesis
          /\ prev_blockhash[path[i]] \in DOMAIN known
          /\ i < Len(path) => path[i] \in DOMAIN known
          /\ i > 1 => prev_blockhash[path[i]] = path[i - 1]
    /\ path[Len(path)] \notin DOMAIN known
    /\ new_tip_work = CandidateWork(path[Len(path)])
    /\ new_tip_work > snapshot.total_work

\* How the state a call began with compares with the present one.
CallProgress ==
    /\ pc = "reorg" /\ ~draining => before = snapshot
    /\ pc = "reorg" /\ draining  => snapshot.total_work > before.total_work
    /\ pc = "drain" => total_work > before.total_work

IInv ==
    /\ TypeOK
    /\ ActiveLinked
    /\ TreeConsistent
    /\ TipHasMostWork
    /\ EventsFollowChain
    /\ CallShape
    /\ pc = "reorg" => ReorgInProgress
    /\ CallProgress

-----------------------------------------------------------------------------
(* The unspent set                                                          *)

\* The undo data of a block is typed, whatever set it is computed on.
LEMMA UndoType ==
    ASSUME NEW U, NEW txs \in Seq(Tx)
    PROVE  UndoOf(U, txs) \in Seq(Undo)
  <1>1. \A i \in DOMAIN txs : outputs[txs[i]] \in SUBSET OutPoint
    BY TxAssumption
  <1>2. \A i : ViewBefore(U, txs, i) \in SUBSET OutPoint
    BY DEF ViewBefore
  <1>3. \A i \in DOMAIN txs :
           [ removed |-> Spends(txs[i]) \cap ViewBefore(U, txs, i),
             created |-> outputs[txs[i]] ] \in Undo
    BY <1>1, <1>2 DEF Undo
  <1>4. DOMAIN txs = 1..Len(txs) /\ Len(txs) \in Nat
    OBVIOUS
  <1> QED BY <1>3, <1>4 DEF UndoOf

\* Applying a list of transactions gives a set of outpoints.
LEMMA ApplyType ==
    ASSUME NEW U, NEW txs
    PROVE  ApplyTransactions(U, txs) \subseteq OutPoint
  BY DEF ApplyTransactions, ViewBefore

\* Undoing a block gives a set of outpoints.
LEMMA DisconnectType ==
    ASSUME NEW U, NEW undo
    PROVE  DisconnectUndo(U, undo) \subseteq OutPoint
  BY DEF DisconnectUndo

-----------------------------------------------------------------------------
(* The tree                                                                 *)

\* No block leaves the tree, and none changes its height or its work.
TreeStep ==
    \A h \in DOMAIN known :
        /\ h \in DOMAIN known'
        /\ known'[h].height = known[h].height
        /\ known'[h].work = known[h].work

\* A block joins the tree above its parent, with its parent's work and its own.
Inserted(b) ==
    /\ b \in Hash \ DOMAIN known
    /\ prev_blockhash[b] \in DOMAIN known
    /\ DOMAIN known' = DOMAIN known \cup {b}
    /\ known'[b].work = CandidateWork(b)
    /\ TreeStep

\* The work of a block above a block of the tree is a positive number.
LEMMA CandidateWorkType ==
    ASSUME TypeOK, NEW b \in Hash, prev_blockhash[b] \in DOMAIN known
    PROVE  CandidateWork(b) \in Nat \ {0}
  <1>1. known[prev_blockhash[b]].work \in Nat \ {0}
    BY DEF TypeOK, Meta
  <1>2. BlockWork(bits[b]) \in Nat \ {0}
    BY ChainAssumption
  <1> QED BY <1>1, <1>2 DEF CandidateWork

\* Inserting a block over its parent, or inserting again one that is there:
\* the tree grows by that block at most and stays consistent.
LEMMA InsertBlock ==
    ASSUME TypeOK, TreeConsistent, Genesis \in DOMAIN known,
           NEW b \in Hash, prev_blockhash[b] \in DOMAIN known,
           b # Genesis,
           NEW undo \in Seq(Undo),
           known' = KnownWith(b, HeightOf(b), CandidateWork(b), undo)
    PROVE  /\ DOMAIN known' = DOMAIN known \cup {b}
           /\ DOMAIN known' \subseteq Hash
           /\ known' \in [DOMAIN known' -> Meta]
           /\ known'[b].height = HeightOf(b)
           /\ known'[b].work = CandidateWork(b)
           /\ TreeStep
           /\ TreeConsistent'
  <1>1. \A h \in DOMAIN known : /\ known[h] \in Meta
                                /\ known[h].height \in Nat
                                /\ known[h].work \in Nat \ {0}
    BY DEF TypeOK, Meta
  <1>2. HeightOf(b) \in Nat /\ CandidateWork(b) \in Nat \ {0}
    BY <1>1, CandidateWorkType DEF HeightOf
  <1>3. /\ DOMAIN known' = DOMAIN known \cup {b}
        /\ known'[b] = [height |-> HeightOf(b), work |-> CandidateWork(b), undo |-> undo]
        /\ \A h \in DOMAIN known : h # b => known'[h] = known[h]
    BY DEF KnownWith
  <1>4. known'[b] \in Meta /\ known'[b].height = HeightOf(b) /\ known'[b].work = CandidateWork(b)
    BY <1>2, <1>3 DEF Meta
  <1>5. known' \in [DOMAIN known' -> Meta]
    BY <1>1, <1>3, <1>4 DEF KnownWith
  <1>6. b \in DOMAIN known => known[b].height = HeightOf(b) /\ known[b].work = CandidateWork(b)
    BY DEF TreeConsistent, HeightOf
  <1>7. TreeStep
    BY <1>3, <1>4, <1>6 DEF TreeStep
  <1>8. TreeConsistent'
    <2> SUFFICES ASSUME NEW h \in DOMAIN known' \ {Genesis}
                 PROVE  /\ prev_blockhash[h] \in DOMAIN known'
                        /\ known'[h].height = known'[prev_blockhash[h]].height + 1
                        /\ known'[h].work = known'[prev_blockhash[h]].work + BlockWork(bits[h])
      BY DEF TreeConsistent, CandidateWork
    <2>1. CASE h = b
      BY <2>1, <1>3, <1>4, <1>7 DEF TreeStep, HeightOf, CandidateWork
    <2>2. CASE h # b
      <3>1. h \in DOMAIN known \ {Genesis} BY <2>2, <1>3
      <3> QED BY <3>1, <1>7 DEF TreeStep, TreeConsistent, CandidateWork
    <2> QED BY <2>1, <2>2
  <1> QED BY <1>3, <1>4, <1>5, <1>7, <1>8 DEF TypeOK

\* The snapshot of a reorg remains a chain of the tree while the tree grows.
LEMMA SnapshotStays ==
    ASSUME ReorgInProgress, TypeOK, TreeStep, UNCHANGED snapshot
    PROVE  /\ LinkedChain(snapshot.blocks, snapshot.active_hashes)'
           /\ snapshot'.total_work = known'[Last(snapshot'.blocks)].work
  <1> DEFINE bs == snapshot.blocks
  <1>1. bs \in Seq(Hash) /\ Len(bs) \in Nat BY DEF TypeOK, State
  <1>2. LinkedChain(snapshot.blocks, snapshot.active_hashes)
    BY DEF ReorgInProgress
  <1>3. LinkedChain(snapshot.blocks, snapshot.active_hashes)'
    BY <1>2 DEF LinkedChain, TreeStep
  <1>4. Len(bs) \in 1..Len(bs) BY <1>1, <1>2 DEF LinkedChain
  <1>5. Last(bs) \in DOMAIN known BY <1>2, <1>4 DEF LinkedChain, Last
  <1> QED BY <1>3, <1>5 DEF ReorgInProgress, TreeStep

\* Facts about the active chain that every step uses.
LEMMA ActiveFacts ==
    ASSUME TypeOK, ActiveLinked
    PROVE  /\ Len(blocks) \in Nat /\ Len(blocks) >= 1
           /\ \A i \in 1..Len(blocks) : blocks[i] \in DOMAIN known
           /\ Tip = blocks[Len(blocks)]
           /\ Tip \in DOMAIN known /\ Tip \in Hash
           /\ known[Tip].height = Len(blocks) - 1
           /\ Genesis \in DOMAIN known /\ Genesis \in active_hashes
  <1>1. Len(blocks) \in Nat /\ Len(blocks) >= 1 BY DEF TypeOK
  <1>2. 1 \in 1..Len(blocks) /\ Len(blocks) \in 1..Len(blocks) BY <1>1
  <1>3. Tip = blocks[Len(blocks)] BY DEF Tip, Last
  <1>4. Tip \in DOMAIN known /\ known[Tip].height = Len(blocks) - 1
    BY <1>2, <1>3 DEF ActiveLinked, LinkedChain
  <1>5. blocks[1] = Genesis /\ Genesis \in DOMAIN known /\ Genesis \in active_hashes
    BY <1>2 DEF ActiveLinked, LinkedChain
  <1>6. \A i \in 1..Len(blocks) : blocks[i] \in DOMAIN known
    BY DEF ActiveLinked, LinkedChain
  <1> QED BY <1>1, <1>3, <1>4, <1>5, <1>6 DEF TypeOK

\* A block pushed on its parent, the tip: the active chain is still one branch
\* of the tree, one longer.
LEMMA PushTipStep ==
    ASSUME TypeOK, ActiveLinked, TreeConsistent,
           NEW b \in Hash, b # Genesis, prev_blockhash[b] = Tip,
           PushTip(b, Len(blocks))
    PROVE  /\ DOMAIN known' = DOMAIN known \cup {b}
           /\ DOMAIN known' \subseteq Hash /\ known' \in [DOMAIN known' -> Meta]
           /\ blocks' \in Seq(Hash) /\ blocks' # << >>
           /\ active_hashes' \subseteq Hash
           /\ utxo' \subseteq OutPoint
           /\ (store \subseteq Hash => store' \subseteq Hash)
           /\ (replayed \subseteq Hash => replayed' \subseteq Hash)
           /\ (replayed = active_hashes => replayed' = active_hashes')
           /\ Last(blocks') = b
           /\ known'[b].work = CandidateWork(b)
           /\ CandidateWork(b) = known[Tip].work + BlockWork(bits[b])
           /\ TreeStep
           /\ TreeConsistent'
           /\ ActiveLinked'
  <1>1. /\ Len(blocks) \in Nat /\ Len(blocks) >= 1
        /\ Tip = blocks[Len(blocks)] /\ Tip \in DOMAIN known
        /\ known[Tip].height = Len(blocks) - 1 /\ Genesis \in DOMAIN known
    BY ActiveFacts
  <1>2. HeightOf(b) = Len(blocks) BY <1>1 DEF HeightOf
  <1>3. UndoOf(utxo, transactions[b]) \in Seq(Undo)
    BY UndoType, ChainAssumption
  <1>4. known' = KnownWith(b, HeightOf(b), CandidateWork(b), UndoOf(utxo, transactions[b]))
    BY <1>2 DEF PushTip
  <1>5. /\ DOMAIN known' = DOMAIN known \cup {b}
        /\ DOMAIN known' \subseteq Hash
        /\ known' \in [DOMAIN known' -> Meta]
        /\ known'[b].height = HeightOf(b)
        /\ known'[b].work = CandidateWork(b)
        /\ TreeStep
        /\ TreeConsistent'
    BY <1>1, <1>3, <1>4, InsertBlock
  <1>6. /\ blocks' \in Seq(Hash) /\ Len(blocks') = Len(blocks) + 1
        /\ blocks'[Len(blocks) + 1] = b
        /\ \A i \in 1..Len(blocks) : blocks'[i] = blocks[i]
    BY DEF PushTip, TypeOK
  <1>7. blocks' # << >> /\ Last(blocks') = b
    BY <1>1, <1>6 DEF Last
  <1>8. active_hashes' = active_hashes \cup {b} /\ replayed' = replayed \cup {b}
    BY DEF PushTip
  <1>9. ActiveLinked'
    <2>1. blocks'[1] = Genesis
      BY <1>1, <1>6 DEF ActiveLinked, LinkedChain
    <2>2. active_hashes' = { blocks'[i] : i \in 1..Len(blocks') }
      <3>1. active_hashes = { blocks[i] : i \in 1..Len(blocks) }
        BY DEF ActiveLinked, LinkedChain
      <3>2. \A i : i \in 1..Len(blocks') <=> i \in 1..Len(blocks) \/ i = Len(blocks) + 1
        BY <1>1, <1>6
      <3> QED BY <3>1, <3>2, <1>6, <1>8
    <2>3. ASSUME NEW i \in 1..Len(blocks')
          PROVE  /\ blocks'[i] \in DOMAIN known'
                 /\ known'[blocks'[i]].height = i - 1
                 /\ i > 1 => prev_blockhash[blocks'[i]] = blocks'[i - 1]
      <3>1. CASE i = Len(blocks) + 1
        BY <3>1, <1>1, <1>2, <1>5, <1>6
      <3>2. CASE i # Len(blocks) + 1
        <4>1. i \in 1..Len(blocks) /\ (i > 1 => i - 1 \in 1..Len(blocks))
          BY <3>2, <1>1, <1>6
        <4>2. /\ blocks[i] \in DOMAIN known
              /\ known[blocks[i]].height = i - 1
              /\ i > 1 => prev_blockhash[blocks[i]] = blocks[i - 1]
          BY <4>1 DEF ActiveLinked, LinkedChain
        <4> QED BY <4>1, <4>2, <1>5, <1>6 DEF TreeStep
      <3> QED BY <3>1, <3>2
    <2> QED BY <2>1, <2>2, <2>3, <1>7 DEF ActiveLinked, LinkedChain
  <1>10. utxo' \subseteq OutPoint BY ApplyType DEF PushTip
  <1>11. store' = store \cup {b} BY DEF PushTip
  <1>12. active_hashes \subseteq Hash BY DEF TypeOK
  <1>13. CandidateWork(b) = known[Tip].work + BlockWork(bits[b]) BY DEF CandidateWork
  <1> QED BY <1>5, <1>6, <1>7, <1>8, <1>9, <1>10, <1>11, <1>12, <1>13

\* enqueue_ready_orphans and the end of a call: the local state stays typed and
\* the queue is empty exactly when the call is over.
LEMMA EnqueueStep ==
    ASSUME TypeOK, CallShape, NEW q \in Seq(Hash), EnqueueReady(q)
    PROVE  /\ pc' \in {"idle", "drain"}
           /\ queue' \in Seq(Hash)
           /\ draining' \in BOOLEAN
           /\ pc' = "drain" => queue' # << >> /\ draining'
           /\ pc' = "idle" => ~draining'
           /\ path' = << >> /\ new_tip_work' = 0 /\ snapshot' = NoState
           /\ DOMAIN orphans' \subseteq Hash /\ orphans' \in [DOMAIN orphans' -> Nat]
           /\ IsFiniteSet(DOMAIN orphans')
  <1> DEFINE ready == { o \in DOMAIN orphans : prev_blockhash[o] \in DOMAIN known' }
  <1>1. PICK order \in SetToSeqs(ready) :
            /\ queue' = q \o order
            /\ orphans' = [ o \in DOMAIN orphans \ ready |-> orphans[o] ]
            /\ draining' = (q \o order # << >>)
            /\ pc' = IF q \o order = << >> THEN "idle" ELSE "drain"
            /\ path' = << >>
            /\ new_tip_work' = 0
            /\ snapshot' = NoState
    BY DEF EnqueueReady
  <1>2. ready \in SUBSET DOMAIN orphans /\ ready \subseteq Hash
    BY DEF TypeOK
  <1>3. IsFiniteSet(ready) /\ Cardinality(ready) \in Nat
    BY <1>2, FS_Subset, FS_CardinalityType DEF CallShape
  <1> HIDE DEF ready
  <1>4. order \in [1..Cardinality(ready) -> ready]
    BY DEF SetToSeqs
  <1>5. order \in Seq(Hash)
    BY <1>2, <1>3, <1>4
  <1>6. queue' \in Seq(Hash) BY <1>1, <1>5
  <1>7. DOMAIN orphans' \in SUBSET DOMAIN orphans BY <1>1
  <1>8. DOMAIN orphans' \subseteq Hash /\ orphans' \in [DOMAIN orphans' -> Nat]
    BY <1>1, <1>7 DEF TypeOK
  <1>9. IsFiniteSet(DOMAIN orphans')
    BY <1>7, FS_Subset DEF CallShape
  <1>10. /\ pc' \in {"idle", "drain"} /\ draining' \in BOOLEAN
         /\ pc' = "drain" => queue' # << >> /\ draining'
         /\ pc' = "idle" => ~draining'
    BY <1>1
  <1> QED BY <1>1, <1>6, <1>8, <1>9, <1>10

\* What reorg_to_block snapshots is a typed active state, and so is its absence.
LEMMA StateTypes ==
    ASSUME TypeOK
    PROVE  ActiveState \in State /\ NoState \in State
  BY DEF TypeOK, ActiveState, NoState, State

\* The end of a call leaves the call's own variables typed and at rest.
LEMMA ReturnStep ==
    ASSUME NEW outcome \in Outcome, Return(outcome)
    PROVE  /\ pc' = "idle" /\ path' = << >> /\ path' \in Seq(Hash)
           /\ new_tip_work' = 0 /\ snapshot' = NoState /\ snapshot' \in State
           /\ queue' = << >> /\ queue' \in Seq(Hash)
           /\ draining' = FALSE /\ ret' \in Outcome /\ ret' = outcome
  BY DEF Return, NoState, State

\* The answer to a failing call: an orphan's failure hides the block's success.
LEMMA FailStep ==
    ASSUME NEW outcome \in {"Limit", "AlreadyKnown", "Invalid"}, Fail(outcome)
    PROVE  \E o \in Outcome : /\ Return(o)
                              /\ ~draining => o = outcome
                              /\ draining => o = "OrphanInvalid"
  <1>1. CASE draining BY <1>1 DEF Fail, Outcome
  <1>2. CASE ~draining BY <1>2 DEF Fail, Outcome
  <1> QED BY <1>1, <1>2

-----------------------------------------------------------------------------
(* connect_block_inner preserves the invariant                              *)

\* A call that ends outside a reorg with the chain as it was.
LEMMA QuietReturn ==
    ASSUME IInv, pc # "reorg", TrackCall,
           NEW outcome \in Outcome, Return(outcome),
           UNCHANGED << blocks, active_hashes, known, total_work, utxo,
                        network_time, store, replayed, rolledBack >>,
           DOMAIN orphans' \subseteq Hash, orphans' \in [DOMAIN orphans' -> Nat],
           IsFiniteSet(DOMAIN orphans'),
           orphan_receive_seq' \in 0..MaxReceiveSeq,
           poisoned' \in BOOLEAN
    PROVE  IInv'
  <1>1. /\ pc' = "idle" /\ path' \in Seq(Hash) /\ new_tip_work' = 0
        /\ snapshot' \in State /\ queue' \in Seq(Hash)
        /\ draining' = FALSE /\ ret' \in Outcome
    BY ReturnStep
  <1>2. before' \in State BY <1>1, StateTypes DEF TrackCall, IInv
  <1>3. TypeOK' BY <1>1, <1>2 DEF IInv, TypeOK
  <1>4. ActiveLinked' /\ TreeConsistent' /\ TipHasMostWork' /\ EventsFollowChain'
    BY DEF IInv, ActiveLinked, LinkedChain, TreeConsistent, CandidateWork,
           TipHasMostWork, Tip, EventsFollowChain
  <1>5. CallShape' BY <1>1 DEF CallShape
  <1>6. CallProgress' BY <1>1 DEF CallProgress
  <1> QED BY <1>1, <1>3, <1>4, <1>5, <1>6 DEF IInv

\* A block refused by its limits, as already known or as invalid changes no chain state.
LEMMA RefuseBlockStep ==
    ASSUME IInv, pc # "reorg", TrackCall, NEW b \in Hash, RefuseBlock(b)
    PROVE  IInv'
  <1>1. PICK outcome \in {"Limit", "AlreadyKnown", "Invalid"} : Fail(outcome)
    BY DEF RefuseBlock
  <1>2. PICK o \in Outcome : Return(o) BY <1>1, FailStep
  <1>3. UNCHANGED << chainVars, replayed, rolledBack >> BY DEF RefuseBlock
  <1> QED BY <1>2, <1>3, QuietReturn DEF chainVars, IInv, TypeOK, CallShape

\* A panic in expected_bits ends the call and leaves everything but the lock as it was.
LEMMA PanicBlockStep ==
    ASSUME IInv, pc # "reorg", TrackCall, NEW b \in Hash, PanicBlock(b)
    PROVE  IInv'
  <1>1. "Panicked" \in Outcome BY DEF Outcome
  <1>2. Return("Panicked") /\ poisoned' \in BOOLEAN BY DEF PanicBlock
  <1>3. UNCHANGED << blocks, active_hashes, known, total_work, utxo, orphans,
                     orphan_receive_seq, network_time, store, replayed, rolledBack >>
    BY DEF PanicBlock
  <1> QED BY <1>1, <1>2, <1>3, QuietReturn DEF IInv, TypeOK, CallShape

\* Parking an orphan, with or without an eviction, touches only the orphan pool.
LEMMA AddOrphanStep ==
    ASSUME IInv, pc # "reorg", TrackCall, NEW b \in Hash, AddOrphan(b)
    PROVE  IInv'
  <1>1. PICK kept \in SUBSET DOMAIN orphans :
            orphans' = [ o \in kept \cup {b} |->
                          IF o = b THEN orphan_receive_seq + 1 ELSE orphans[o] ]
    BY DEF AddOrphan
  <1>2. IsFiniteSet(kept \cup {b})
    BY <1>1, FS_Subset, FS_AddElement DEF IInv, CallShape
  <1>3. DOMAIN orphans' = kept \cup {b} BY <1>1
  <1>4. /\ orphan_receive_seq + 1 \in Nat
        /\ orphan_receive_seq' \in 0..MaxReceiveSeq
    <2>1. /\ orphan_receive_seq < MaxReceiveSeq
          /\ orphan_receive_seq' = orphan_receive_seq + 1
      BY DEF AddOrphan
    <2>2. orphan_receive_seq \in 0..MaxReceiveSeq BY DEF IInv, TypeOK
    <2>3. MaxReceiveSeq \in Nat BY ChainAssumption
    <2> QED BY <2>1, <2>2, <2>3
  <1>5. DOMAIN orphans' \subseteq Hash /\ orphans' \in [DOMAIN orphans' -> Nat]
    BY <1>1, <1>3, <1>4 DEF IInv, TypeOK
  <1>6. "Orphaned" \in Outcome BY DEF Outcome
  <1>7. /\ Return("Orphaned")
        /\ UNCHANGED << blocks, active_hashes, known, total_work, utxo,
                        network_time, store, poisoned, replayed, rolledBack >>
    BY DEF AddOrphan
  <1> QED BY <1>2, <1>3, <1>4, <1>5, <1>6, <1>7, QuietReturn DEF IInv, TypeOK

\* The new tip has more work than anything in the tree.
LEMMA ExtendTipStep ==
    ASSUME IInv, pc # "reorg", TrackCall, NEW b \in Hash, NEW q \in Seq(Hash),
           ExtendTip(b, q)
    PROVE  /\ IInv' /\ Inserted(b) /\ Last(blocks') = b
           /\ total_work' = CandidateWork(b) /\ total_work' > total_work
           /\ pc' # "reorg"
  <1>1. /\ Len(blocks) \in Nat /\ Tip \in DOMAIN known /\ Genesis \in DOMAIN known
        /\ known[Tip].height = Len(blocks) - 1
    BY ActiveFacts DEF IInv
  <1>2. b # Genesis /\ b \notin DOMAIN known /\ prev_blockhash[b] = Tip
    BY <1>1 DEF ExtendTip, Acceptable, Attachable
  <1>3. PushTip(b, Len(blocks))
    BY <1>1, <1>2 DEF ExtendTip, HeightOf
  <1>4. /\ DOMAIN known' = DOMAIN known \cup {b}
        /\ DOMAIN known' \subseteq Hash /\ known' \in [DOMAIN known' -> Meta]
        /\ blocks' \in Seq(Hash) /\ blocks' # << >>
        /\ active_hashes' \subseteq Hash /\ utxo' \subseteq OutPoint
        /\ store' \subseteq Hash /\ replayed' \subseteq Hash
        /\ (replayed = active_hashes => replayed' = active_hashes')
        /\ Last(blocks') = b /\ known'[b].work = CandidateWork(b)
        /\ CandidateWork(b) = known[Tip].work + BlockWork(bits[b])
        /\ TreeStep /\ TreeConsistent' /\ ActiveLinked'
    BY <1>2, <1>3, PushTipStep DEF IInv, TypeOK
  <1>5. /\ pc' \in {"idle", "drain"} /\ queue' \in Seq(Hash) /\ draining' \in BOOLEAN
        /\ pc' = "drain" => queue' # << >> /\ draining'
        /\ pc' = "idle" => ~draining'
        /\ path' = << >> /\ new_tip_work' = 0 /\ snapshot' = NoState
        /\ DOMAIN orphans' \subseteq Hash /\ orphans' \in [DOMAIN orphans' -> Nat]
        /\ IsFiniteSet(DOMAIN orphans')
    BY EnqueueStep DEF ExtendTip, IInv
  <1>6. /\ total_work' = CandidateWork(b)
        /\ total_work = known[Tip].work
        /\ total_work \in Nat /\ BlockWork(bits[b]) \in Nat \ {0}
    BY ChainAssumption DEF ExtendTip, IInv, TipHasMostWork, TypeOK
  <1>7. total_work' > total_work /\ total_work' \in Nat \ {0}
    BY <1>4, <1>6
  <1>8. before' \in State BY StateTypes DEF TrackCall, IInv, TypeOK
  <1>9. ret' = (IF draining THEN ret ELSE "Connected") BY DEF ExtendTip, Succeed
  <1>10. TypeOK'
    <2>1. ret' \in Outcome BY <1>9 DEF IInv, TypeOK, Outcome
    <2>2. path' \in Seq(Hash) /\ new_tip_work' \in Nat /\ snapshot' \in State
      BY <1>5, StateTypes DEF IInv
    <2>3. UNCHANGED << orphan_receive_seq, network_time, poisoned, rolledBack >>
      BY DEF ExtendTip
    <2> QED BY <2>1, <2>2, <2>3, <1>4, <1>5, <1>7, <1>8 DEF IInv, TypeOK
  <1>11. TipHasMostWork'
    <2>1. known'[Last(blocks')].work = total_work' BY <1>4, <1>6
    <2>2. ASSUME NEW h \in DOMAIN known' PROVE known'[h].work <= total_work'
      <3>1. CASE h = b BY <3>1, <1>4, <1>6, <1>7
      <3>2. CASE h # b
        <4>1. h \in DOMAIN known /\ known'[h].work = known[h].work
          BY <3>2, <1>4 DEF TreeStep
        <4>2. known[h].work \in Nat /\ known[h].work <= total_work
          BY <4>1 DEF IInv, TypeOK, Meta, TipHasMostWork
        <4> QED BY <4>1, <4>2, <1>6, <1>7
      <3> QED BY <3>1, <3>2
    <2> QED BY <2>1, <2>2 DEF TipHasMostWork, Tip
  <1>12. EventsFollowChain'
    BY <1>4 DEF EventsFollowChain, IInv, ExtendTip
  <1>13. CallShape'
    <2>1. draining => ret \in {"Connected", "Reorganized"} BY DEF IInv, CallShape
    <2> QED BY <2>1, <1>5, <1>9 DEF CallShape
  <1>14. CallProgress'
    <2>1. CASE pc = "idle"
      <3>1. pc' = "drain" => before' = ActiveState BY <2>1 DEF TrackCall
      <3> QED BY <3>1, <1>5, <1>7 DEF CallProgress, ActiveState
    <2>2. CASE pc = "drain"
      <3>1. pc' = "drain" => before' = before BY <2>2 DEF TrackCall
      <3>2. total_work > before.total_work /\ before.total_work \in Nat
        BY <2>2 DEF IInv, CallProgress, TypeOK, State
      <3> QED BY <3>1, <3>2, <1>5, <1>6, <1>7 DEF CallProgress
    <2> QED BY <2>1, <2>2 DEF IInv, TypeOK
  <1>15. IInv' BY <1>4, <1>5, <1>10, <1>11, <1>12, <1>13, <1>14 DEF IInv
  <1> QED BY <1>1, <1>2, <1>4, <1>5, <1>6, <1>7, <1>15 DEF Inserted

\* A side-chain block does not beat the tip, so the tip still has most work.
LEMMA StoreSideChainStep ==
    ASSUME IInv, pc # "reorg", TrackCall, NEW b \in Hash, NEW q \in Seq(Hash),
           StoreSideChain(b, q)
    PROVE  /\ IInv' /\ Inserted(b) /\ UNCHANGED << blocks, total_work >>
           /\ CandidateWork(b) <= total_work
           /\ pc' # "reorg"
  <1>1. Tip \in DOMAIN known /\ Genesis \in DOMAIN known
    BY ActiveFacts DEF IInv
  <1>2. /\ b # Genesis /\ b \notin DOMAIN known /\ prev_blockhash[b] \in DOMAIN known
        /\ CandidateWork(b) <= total_work
    BY <1>1 DEF StoreSideChain, Acceptable, Attachable
  <1>3. << >> \in Seq(Undo) OBVIOUS
  <1>4. known' = KnownWith(b, HeightOf(b), CandidateWork(b), << >>)
    BY DEF StoreSideChain
  <1>5. /\ DOMAIN known' = DOMAIN known \cup {b}
        /\ DOMAIN known' \subseteq Hash /\ known' \in [DOMAIN known' -> Meta]
        /\ known'[b].work = CandidateWork(b)
        /\ TreeStep /\ TreeConsistent'
    BY <1>1, <1>2, <1>3, <1>4, InsertBlock DEF IInv
  <1>6. UNCHANGED << blocks, active_hashes, total_work, utxo, orphan_receive_seq,
                     network_time, store, poisoned, replayed, rolledBack >>
    BY DEF StoreSideChain
  <1>7. /\ pc' \in {"idle", "drain"} /\ queue' \in Seq(Hash) /\ draining' \in BOOLEAN
        /\ pc' = "drain" => queue' # << >> /\ draining' /\ draining
        /\ pc' = "idle" => ~draining'
        /\ path' \in Seq(Hash) /\ new_tip_work' \in Nat /\ snapshot' \in State
        /\ DOMAIN orphans' \subseteq Hash /\ orphans' \in [DOMAIN orphans' -> Nat]
        /\ IsFiniteSet(DOMAIN orphans')
        /\ ret' \in Outcome
        /\ draining => ret' = ret
    <2>1. CASE draining
      <3>1. EnqueueReady(q) /\ ret' = ret BY <2>1 DEF StoreSideChain
      <3>2. /\ pc' \in {"idle", "drain"} /\ queue' \in Seq(Hash) /\ draining' \in BOOLEAN
            /\ pc' = "drain" => queue' # << >> /\ draining'
            /\ pc' = "idle" => ~draining'
            /\ path' = << >> /\ new_tip_work' = 0 /\ snapshot' = NoState
            /\ DOMAIN orphans' \subseteq Hash /\ orphans' \in [DOMAIN orphans' -> Nat]
            /\ IsFiniteSet(DOMAIN orphans')
        BY <3>1, EnqueueStep DEF IInv
      <3>3. path' \in Seq(Hash) /\ new_tip_work' \in Nat /\ snapshot' \in State
        BY <3>2, StateTypes DEF IInv
      <3>4. ret' \in Outcome BY <3>1 DEF IInv, TypeOK
      <3> QED BY <2>1, <3>1, <3>2, <3>3, <3>4
    <2>2. CASE ~draining
      <3>1. Return("SideChain") /\ orphans' = orphans BY <2>2 DEF StoreSideChain
      <3>2. "SideChain" \in Outcome BY DEF Outcome
      <3>3. /\ pc' = "idle" /\ path' \in Seq(Hash) /\ new_tip_work' = 0
            /\ snapshot' \in State /\ queue' \in Seq(Hash)
            /\ draining' = FALSE /\ ret' \in Outcome
        BY <3>1, <3>2, ReturnStep
      <3> QED BY <2>2, <3>1, <3>3 DEF IInv, TypeOK, CallShape
    <2> QED BY <2>1, <2>2
  <1>8. before' \in State BY StateTypes DEF TrackCall, IInv, TypeOK
  <1>9. TypeOK' BY <1>5, <1>6, <1>7, <1>8 DEF IInv, TypeOK
  <1>10. ActiveLinked' BY <1>5, <1>6 DEF IInv, ActiveLinked, LinkedChain, TreeStep
  <1>11. TipHasMostWork'
    <2>1. /\ total_work = known[Tip].work
          /\ \A h \in DOMAIN known : known[h].work <= total_work
      BY DEF IInv, TipHasMostWork
    <2>2. Last(blocks') = Tip BY <1>6 DEF Tip
    <2> QED BY <2>1, <2>2, <1>1, <1>2, <1>5, <1>6 DEF TipHasMostWork, Tip, TreeStep
  <1>12. EventsFollowChain' BY <1>6 DEF IInv, EventsFollowChain
  <1>13. CallShape' BY <1>7 DEF IInv, CallShape
  <1>14. CallProgress'
    <2>1. pc' = "drain" => pc = "drain"
      BY <1>7 DEF IInv, CallShape, TypeOK
    <2>2. pc' = "drain" => before' = before BY <2>1 DEF TrackCall
    <2> QED BY <2>1, <2>2, <1>6, <1>7 DEF IInv, CallProgress
  <1>15. IInv' BY <1>5, <1>7, <1>9, <1>10, <1>11, <1>12, <1>13, <1>14 DEF IInv
  <1> QED BY <1>2, <1>5, <1>6, <1>7, <1>15 DEF Inserted

\* A block that beats the tip from another branch starts a reorg with a good snapshot.
LEMMA BeginReorgStep ==
    ASSUME IInv, pc # "reorg", TrackCall, NEW b \in Hash, NEW q \in Seq(Hash),
           BeginReorg(b, q)
    PROVE  IInv'
  <1>1. Tip \in DOMAIN known /\ Genesis \in DOMAIN known
    BY ActiveFacts DEF IInv
  <1>2. /\ b # Genesis /\ b \notin DOMAIN known /\ prev_blockhash[b] \in DOMAIN known
        /\ CandidateWork(b) > total_work
    BY <1>1 DEF BeginReorg, Acceptable, Attachable
  <1>3. /\ pc' = "reorg" /\ path' = << b >> /\ new_tip_work' = CandidateWork(b)
        /\ snapshot' = ActiveState /\ queue' = q
        /\ UNCHANGED << chainVars, draining, ret, replayed, rolledBack >>
    BY DEF BeginReorg
  <1>4. CandidateWork(b) \in Nat
    BY <1>2, CandidateWorkType DEF IInv
  <1>5. before' \in State BY StateTypes DEF TrackCall, IInv, TypeOK
  <1>6. TypeOK'
    BY <1>3, <1>4, <1>5, StateTypes DEF IInv, TypeOK, chainVars
  <1>7. ActiveLinked' /\ TreeConsistent' /\ TipHasMostWork' /\ EventsFollowChain'
    BY <1>3 DEF chainVars, IInv, ActiveLinked, LinkedChain, TreeConsistent,
                CandidateWork, TipHasMostWork, EventsFollowChain
  <1>8. CallShape' BY <1>3 DEF chainVars, IInv, CallShape
  <1>9. ReorgInProgress'
    <2>1. /\ snapshot'.blocks = blocks /\ snapshot'.active_hashes = active_hashes
          /\ snapshot'.total_work = total_work /\ known' = known
      BY <1>3 DEF ActiveState, chainVars
    <2>2. LinkedChain(snapshot.blocks, snapshot.active_hashes)'
      BY <2>1 DEF IInv, ActiveLinked, LinkedChain
    <2>3. /\ snapshot'.total_work = known'[Last(snapshot'.blocks)].work
          /\ \A h \in DOMAIN known' : known'[h].work <= snapshot'.total_work
      BY <2>1 DEF IInv, TipHasMostWork, Tip
    <2>4. /\ path' # << >> /\ Len(path') = 1 /\ path'[1] = b
      BY <1>3
    <2>5. new_tip_work' = CandidateWork(b)' /\ new_tip_work' > snapshot'.total_work
      BY <2>1, <1>2, <1>3 DEF CandidateWork
    <2>6. \A i \in 1..Len(path') :
             /\ path'[i] # Genesis
             /\ prev_blockhash[path'[i]] \in DOMAIN known'
             /\ i < Len(path') => path'[i] \in DOMAIN known'
             /\ i > 1 => prev_blockhash[path'[i]] = path'[i - 1]
      BY <2>1, <2>4, <1>2
    <2> QED BY <2>1, <2>2, <2>3, <2>4, <2>5, <2>6, <1>2 DEF ReorgInProgress, CandidateWork
  <1>10. CallProgress'
    <2>1. CASE pc = "idle"
      <3>1. before' = ActiveState BY <2>1, <1>3 DEF TrackCall
      <3>2. ~draining' BY <2>1, <1>3 DEF IInv, CallShape
      <3> QED BY <3>1, <3>2, <1>3 DEF CallProgress
    <2>2. CASE pc = "drain"
      <3>1. before' = before /\ draining' BY <2>2, <1>3 DEF TrackCall, IInv, CallShape
      <3>2. total_work > before.total_work BY <2>2 DEF IInv, CallProgress
      <3> QED BY <3>1, <3>2, <1>3 DEF CallProgress, ActiveState
    <2> QED BY <2>1, <2>2 DEF IInv, TypeOK
  <1> QED BY <1>6, <1>7, <1>8, <1>9, <1>10 DEF IInv

-----------------------------------------------------------------------------
(* try_reorg_to_block preserves the invariant                               *)

\* Facts about the fork path while a reorg runs.
LEMMA PathFacts ==
    ASSUME IInv, pc = "reorg"
    PROVE  /\ ReorgInProgress
           /\ Len(path) \in Nat /\ Len(path) >= 1
           /\ Head(path) = path[1] /\ Head(path) \in Hash
           /\ Head(path) # Genesis
           /\ prev_blockhash[Head(path)] \in DOMAIN known
           /\ snapshot.total_work \in Nat
  <1>1. ReorgInProgress BY DEF IInv
  <1>2. path \in Seq(Hash) /\ path # << >> BY <1>1 DEF IInv, TypeOK, ReorgInProgress
  <1>3. Len(path) \in Nat /\ Len(path) >= 1 /\ Head(path) = path[1] /\ Head(path) \in Hash
    BY <1>2
  <1>4. 1 \in 1..Len(path) BY <1>3
  <1>5. path[1] # Genesis /\ prev_blockhash[path[1]] \in DOMAIN known
    BY <1>1, <1>4 DEF ReorgInProgress
  <1>6. snapshot.total_work \in Nat BY DEF IInv, TypeOK, State
  <1> QED BY <1>1, <1>3, <1>5, <1>6

\* One step down the fork path keeps the path on the tree.
LEMMA CollectForkPathStep ==
    ASSUME IInv, CollectForkPath
    PROVE  IInv'
  <1> DEFINE p == prev_blockhash[Head(path)]
  <1>1. pc = "reorg" /\ p \notin active_hashes /\ path' = << p >> \o path
    BY DEF CollectForkPath
  <1>2. UNCHANGED << chainVars, pc, new_tip_work, snapshot, queue, draining, ret, auxVars >>
    BY DEF CollectForkPath
  <1>3. /\ ReorgInProgress /\ Len(path) \in Nat /\ Len(path) >= 1
        /\ Head(path) = path[1] /\ p \in DOMAIN known
    BY <1>1, PathFacts
  <1>4. p # Genesis /\ p \in Hash
    BY <1>1, <1>3, ActiveFacts DEF IInv, TypeOK
  <1>5. prev_blockhash[p] \in DOMAIN known
    BY <1>3, <1>4 DEF IInv, TreeConsistent
  <1>6. /\ path' \in Seq(Hash) /\ Len(path') = Len(path) + 1 /\ path'[1] = p
        /\ \A i \in 2..(Len(path) + 1) : path'[i] = path[i - 1]
    <2>1. path \in Seq(Hash) BY DEF IInv, TypeOK
    <2> HIDE DEF p
    <2> QED BY <1>1, <1>4, <2>1
  <1>7. TypeOK' BY <1>2, <1>6 DEF IInv, TypeOK, chainVars, auxVars
  <1>8. ActiveLinked' /\ TreeConsistent' /\ TipHasMostWork' /\ EventsFollowChain'
    BY <1>1, <1>2 DEF chainVars, auxVars, IInv, ActiveLinked, LinkedChain,
                 TreeConsistent, CandidateWork, TipHasMostWork, EventsFollowChain
  <1>9. CallShape' /\ CallProgress'
    BY <1>2 DEF chainVars, auxVars, IInv, CallShape, CallProgress
  <1>10. ReorgInProgress'
    <2>1. known' = known /\ snapshot' = snapshot /\ new_tip_work' = new_tip_work
      BY <1>2 DEF chainVars
    <2>2. LinkedChain(snapshot.blocks, snapshot.active_hashes)'
      BY <2>1, <1>3 DEF ReorgInProgress, LinkedChain
    <2>3. path'[Len(path')] = path[Len(path)] /\ path' # << >>
      BY <1>3, <1>6
    <2>4. ASSUME NEW i \in 1..Len(path')
          PROVE  /\ path'[i] # Genesis
                 /\ prev_blockhash[path'[i]] \in DOMAIN known
                 /\ i < Len(path') => path'[i] \in DOMAIN known
                 /\ i > 1 => prev_blockhash[path'[i]] = path'[i - 1]
      <3>1. CASE i = 1 BY <3>1, <1>3, <1>4, <1>5, <1>6
      <3>2. CASE i = 2
        <4>1. path'[2] = path[1] /\ 1 \in 1..Len(path) BY <3>2, <1>3, <1>6
        <4>2. path'[2 - 1] = p BY <1>6
        <4>3. /\ path[1] # Genesis
              /\ prev_blockhash[path[1]] \in DOMAIN known
              /\ 1 < Len(path) => path[1] \in DOMAIN known
          BY <4>1, <1>3 DEF ReorgInProgress
        <4> QED BY <3>2, <4>1, <4>2, <4>3, <1>3, <1>6
      <3>3. CASE i > 2
        <4>1. /\ i - 1 \in 1..Len(path) /\ i - 1 > 1
              /\ path'[i] = path[i - 1] /\ path'[i - 1] = path[i - 2]
          BY <3>3, <1>3, <1>6
        <4>2. /\ path[i - 1] # Genesis
              /\ prev_blockhash[path[i - 1]] \in DOMAIN known
              /\ i - 1 < Len(path) => path[i - 1] \in DOMAIN known
              /\ prev_blockhash[path[i - 1]] = path[(i - 1) - 1]
          BY <4>1, <1>3 DEF ReorgInProgress
        <4>3. (i - 1) - 1 = i - 2 BY <3>3
        <4> QED BY <4>1, <4>2, <4>3, <1>3, <1>6
      <3> QED BY <3>1, <3>2, <3>3, <1>3, <1>6
    <2> QED BY <2>1, <2>2, <2>3, <2>4, <1>3 DEF ReorgInProgress, CandidateWork
  <1> QED BY <1>7, <1>8, <1>9, <1>10 DEF IInv

\* The fork point lies below the tip, so there is a block to disconnect to, and
\* the tip's hash occurs once in the chain.
LEMMA DisconnectTipStep ==
    ASSUME IInv, DisconnectTip
    PROVE  IInv'
  <1>1. /\ pc = "reorg" /\ prev_blockhash[Head(path)] \in active_hashes
        /\ prev_blockhash[Head(path)] # Tip
        /\ blocks' = Front(blocks) /\ active_hashes' = active_hashes \ {Tip}
        /\ utxo' = DisconnectUndo(utxo, known[Tip].undo)
        /\ total_work' = known[Last(Front(blocks))].work
        /\ replayed' = replayed \ {Tip}
    BY DEF DisconnectTip
  <1>2. UNCHANGED << known, orphans, orphan_receive_seq, network_time, store,
                     poisoned, callVars, before, rolledBack >>
    BY DEF DisconnectTip
  <1>3. /\ Len(blocks) \in Nat /\ Len(blocks) >= 1 /\ Tip = blocks[Len(blocks)]
        /\ \A i \in 1..Len(blocks) : blocks[i] \in DOMAIN known
    BY ActiveFacts DEF IInv
  <1>4. active_hashes = { blocks[i] : i \in 1..Len(blocks) }
    BY DEF IInv, ActiveLinked, LinkedChain
  <1>5. Len(blocks) >= 2
    <2>1. PICK i \in 1..Len(blocks) : prev_blockhash[Head(path)] = blocks[i]
      BY <1>1, <1>4
    <2> QED BY <2>1, <1>1, <1>3
  <1>6. /\ blocks' \in Seq(Hash) /\ Len(blocks') = Len(blocks) - 1
        /\ \A i \in 1..(Len(blocks) - 1) : blocks'[i] = blocks[i]
    BY <1>1, <1>3, <1>5 DEF Front, IInv, TypeOK
  <1>7. blocks' # << >> BY <1>5, <1>6
  <1>8. ActiveLinked'
    <2>1. blocks'[1] = Genesis
      BY <1>5, <1>6 DEF IInv, ActiveLinked, LinkedChain
    <2>2. \A i \in 1..Len(blocks) : known[blocks[i]].height = i - 1
      BY DEF IInv, ActiveLinked, LinkedChain
    <2>3. \A i \in 1..(Len(blocks) - 1) : blocks[i] # Tip
      <3> TAKE i \in 1..(Len(blocks) - 1)
      <3>1. i \in 1..Len(blocks) /\ Len(blocks) \in 1..Len(blocks) BY <1>3
      <3>2. known[blocks[i]].height = i - 1 /\ known[Tip].height = Len(blocks) - 1
        BY <3>1, <2>2, <1>3
      <3>3. i - 1 # Len(blocks) - 1 BY <1>3
      <3> QED BY <3>2, <3>3
    <2>4. active_hashes' = { blocks'[i] : i \in 1..Len(blocks') }
      <3>1. \A i : i \in 1..Len(blocks) <=> i \in 1..(Len(blocks) - 1) \/ i = Len(blocks)
        BY <1>3
      <3> QED BY <3>1, <2>3, <1>1, <1>3, <1>4, <1>6
    <2>5. ASSUME NEW i \in 1..Len(blocks')
          PROVE  /\ blocks'[i] \in DOMAIN known'
                 /\ known'[blocks'[i]].height = i - 1
                 /\ i > 1 => prev_blockhash[blocks'[i]] = blocks'[i - 1]
      <3>1. /\ i \in 1..Len(blocks) /\ blocks'[i] = blocks[i]
            /\ i > 1 => blocks'[i - 1] = blocks[i - 1]
        BY <1>3, <1>6
      <3>2. i > 1 => prev_blockhash[blocks[i]] = blocks[i - 1]
        BY <3>1 DEF IInv, ActiveLinked, LinkedChain
      <3> QED BY <3>1, <3>2, <2>2, <1>2, <1>3
    <2> QED BY <2>1, <2>4, <2>5, <1>7 DEF ActiveLinked, LinkedChain
  <1>9. TypeOK'
    <2>1. Last(Front(blocks)) \in DOMAIN known
      BY <1>1, <1>3, <1>5, <1>6 DEF Last
    <2>2. total_work' \in Nat \ {0} BY <2>1, <1>1 DEF IInv, TypeOK, Meta
    <2>3. utxo' \subseteq OutPoint BY <1>1, DisconnectType
    <2>4. active_hashes' \subseteq Hash /\ replayed' \subseteq Hash
      BY <1>1 DEF IInv, TypeOK
    <2> QED BY <2>2, <2>3, <2>4, <1>2, <1>6, <1>7 DEF IInv, TypeOK, callVars
  <1>10. TreeConsistent' /\ TipHasMostWork' /\ EventsFollowChain'
    BY <1>1, <1>2 DEF callVars, IInv, TreeConsistent, CandidateWork,
                 TipHasMostWork, EventsFollowChain
  <1>11. CallShape' /\ CallProgress'
    BY <1>1, <1>2 DEF callVars, IInv, CallShape, CallProgress
  <1>12. ReorgInProgress'
    BY <1>1, <1>2 DEF callVars, IInv, ReorgInProgress, LinkedChain, CandidateWork
  <1> QED BY <1>8, <1>9, <1>10, <1>11, <1>12 DEF IInv

\* The block inserted again keeps its height and its work: the recomputed
\* values agree with the recorded ones.
LEMMA ConnectForkBlockStep ==
    ASSUME IInv, ConnectForkBlock
    PROVE  IInv' /\ TreeStep /\ DOMAIN known' = DOMAIN known
  <1> DEFINE b == Head(path)
  <1>1. /\ pc = "reorg" /\ prev_blockhash[b] = Tip /\ Len(path) > 1
        /\ PushTip(b, Len(blocks)) /\ path' = Tail(path)
    BY DEF ConnectForkBlock, ReadyToConnect
  <1>2. UNCHANGED << total_work, orphans, orphan_receive_seq, network_time,
                     poisoned, pc, new_tip_work, snapshot, queue, draining, ret,
                     before, rolledBack >>
    BY DEF ConnectForkBlock
  <1>3. /\ ReorgInProgress /\ Len(path) \in Nat /\ b = path[1] /\ b \in Hash
        /\ b # Genesis /\ snapshot.total_work \in Nat
    BY <1>1, PathFacts
  <1>4. b \in DOMAIN known
    <2>1. 1 \in 1..Len(path) /\ 1 < Len(path) BY <1>1, <1>3
    <2> QED BY <2>1, <1>3 DEF ReorgInProgress
  <1> HIDE DEF b
  <1>5. /\ DOMAIN known' = DOMAIN known \cup {b}
        /\ DOMAIN known' \subseteq Hash /\ known' \in [DOMAIN known' -> Meta]
        /\ blocks' \in Seq(Hash) /\ blocks' # << >>
        /\ active_hashes' \subseteq Hash /\ utxo' \subseteq OutPoint
        /\ store' \subseteq Hash /\ replayed' \subseteq Hash
        /\ (replayed = active_hashes => replayed' = active_hashes')
        /\ TreeStep /\ TreeConsistent' /\ ActiveLinked'
    BY <1>1, <1>3, PushTipStep DEF IInv, TypeOK
  <1>6. DOMAIN known' = DOMAIN known BY <1>4, <1>5
  <1>7. /\ path' \in Seq(Hash) /\ Len(path') = Len(path) - 1
        /\ \A i \in 1..(Len(path) - 1) : path'[i] = path[i + 1]
    <2>1. path \in Seq(Hash) /\ path # << >> BY <1>1 DEF IInv, TypeOK
    <2> QED BY <2>1, <1>1
  <1>8. TypeOK' BY <1>2, <1>5, <1>7 DEF IInv, TypeOK
  <1>9. TipHasMostWork' BY <1>1, <1>2 DEF TipHasMostWork
  <1>10. EventsFollowChain' BY <1>2, <1>5 DEF IInv, EventsFollowChain
  <1>11. CallShape' /\ CallProgress'
    BY <1>1, <1>2 DEF IInv, CallShape, CallProgress
  <1>12. ReorgInProgress'
    <2>1. /\ LinkedChain(snapshot.blocks, snapshot.active_hashes)'
          /\ snapshot'.total_work = known'[Last(snapshot'.blocks)].work
      BY <1>2, <1>3, <1>5, SnapshotStays DEF IInv
    <2>2. \A h \in DOMAIN known' : known'[h].work <= snapshot'.total_work
      BY <1>2, <1>3, <1>5, <1>6 DEF ReorgInProgress, TreeStep
    <2>3. path' # << >> /\ path'[Len(path')] = path[Len(path)]
      <3>1. Len(path) - 1 \in 1..(Len(path) - 1) /\ (Len(path) - 1) + 1 = Len(path)
        BY <1>1, <1>3
      <3>2. path'[Len(path) - 1] = path[Len(path)] BY <3>1, <1>7
      <3>3. Len(path') # 0 BY <3>1, <1>7
      <3> QED BY <3>2, <3>3, <1>7
    <2>4. ASSUME NEW i \in 1..Len(path')
          PROVE  /\ path'[i] # Genesis
                 /\ prev_blockhash[path'[i]] \in DOMAIN known'
                 /\ i < Len(path') => path'[i] \in DOMAIN known'
                 /\ i > 1 => prev_blockhash[path'[i]] = path'[i - 1]
      <3>1. /\ i + 1 \in 1..Len(path) /\ path'[i] = path[i + 1]
            /\ i > 1 => path'[i - 1] = path[i]
        BY <1>1, <1>3, <1>7
      <3>2. /\ path[i + 1] # Genesis
            /\ prev_blockhash[path[i + 1]] \in DOMAIN known
            /\ i + 1 < Len(path) => path[i + 1] \in DOMAIN known
            /\ i + 1 > 1 => prev_blockhash[path[i + 1]] = path[(i + 1) - 1]
        BY <3>1, <1>3 DEF ReorgInProgress
      <3>3. (i + 1) - 1 = i OBVIOUS
      <3> QED BY <3>1, <3>2, <3>3, <1>3, <1>6, <1>7
    <2>5. path[Len(path)] \notin DOMAIN known' BY <1>3, <1>6 DEF ReorgInProgress
    <2>6. new_tip_work' = known'[prev_blockhash[path'[Len(path')]]].work
                             + BlockWork(bits[path'[Len(path')]])
      <3>1. Len(path) \in 1..Len(path) BY <1>1, <1>3
      <3>2. prev_blockhash[path[Len(path)]] \in DOMAIN known
        BY <3>1, <1>3 DEF ReorgInProgress
      <3>3. new_tip_work = known[prev_blockhash[path[Len(path)]]].work
                             + BlockWork(bits[path[Len(path)]])
        BY <1>3 DEF ReorgInProgress, CandidateWork
      <3> QED BY <3>2, <3>3, <2>3, <1>2, <1>5 DEF TreeStep
    <2>7. new_tip_work' > snapshot'.total_work BY <1>2, <1>3 DEF ReorgInProgress
    <2> QED BY <2>1, <2>2, <2>3, <2>4, <2>5, <2>6, <2>7 DEF ReorgInProgress, CandidateWork
  <1> QED BY <1>5, <1>6, <1>8, <1>9, <1>10, <1>11, <1>12 DEF IInv

\* The work computed when the reorg began is the work of the new tip, and it
\* beats everything else in the tree.
LEMMA FinishReorgStep ==
    ASSUME IInv, FinishReorg
    PROVE  /\ IInv' /\ Inserted(Head(path))
           /\ Last(blocks') = Head(path)
           /\ total_work' = CandidateWork(Head(path))
           /\ total_work' > snapshot.total_work
           /\ pc' # "reorg"
  <1> DEFINE b == Head(path)
  <1>1. /\ pc = "reorg" /\ prev_blockhash[b] = Tip /\ Len(path) = 1
        /\ PushTip(b, Len(blocks)) /\ total_work' = new_tip_work
        /\ EnqueueReady(queue) /\ Succeed("Reorganized") /\ TrackCall
    BY DEF FinishReorg, ReadyToConnect
  <1>2. UNCHANGED << orphan_receive_seq, network_time, poisoned, rolledBack >>
    BY DEF FinishReorg
  <1>3. /\ ReorgInProgress /\ b = path[1] /\ b \in Hash
        /\ b # Genesis /\ snapshot.total_work \in Nat
        /\ prev_blockhash[b] \in DOMAIN known
    BY <1>1, PathFacts
  <1>4. /\ b \notin DOMAIN known /\ new_tip_work = CandidateWork(b)
        /\ new_tip_work > snapshot.total_work
        /\ \A h \in DOMAIN known : known[h].work <= snapshot.total_work
    BY <1>1, <1>3 DEF ReorgInProgress
  <1>5. CandidateWork(b) \in Nat \ {0}
    BY <1>3, CandidateWorkType DEF IInv
  <1> HIDE DEF b
  <1>6. /\ DOMAIN known' = DOMAIN known \cup {b}
        /\ DOMAIN known' \subseteq Hash /\ known' \in [DOMAIN known' -> Meta]
        /\ blocks' \in Seq(Hash) /\ blocks' # << >>
        /\ active_hashes' \subseteq Hash /\ utxo' \subseteq OutPoint
        /\ store' \subseteq Hash /\ replayed' \subseteq Hash
        /\ (replayed = active_hashes => replayed' = active_hashes')
        /\ Last(blocks') = b /\ known'[b].work = CandidateWork(b)
        /\ TreeStep /\ TreeConsistent' /\ ActiveLinked'
    BY <1>1, <1>3, PushTipStep DEF IInv, TypeOK
  <1>7. queue \in Seq(Hash) BY DEF IInv, TypeOK
  <1>8. /\ pc' \in {"idle", "drain"} /\ queue' \in Seq(Hash) /\ draining' \in BOOLEAN
        /\ pc' = "drain" => queue' # << >> /\ draining'
        /\ pc' = "idle" => ~draining'
        /\ path' = << >> /\ new_tip_work' = 0 /\ snapshot' = NoState
        /\ DOMAIN orphans' \subseteq Hash /\ orphans' \in [DOMAIN orphans' -> Nat]
        /\ IsFiniteSet(DOMAIN orphans')
    BY <1>1, <1>7, EnqueueStep DEF IInv
  <1>9. ret' = (IF draining THEN ret ELSE "Reorganized") BY <1>1 DEF Succeed
  <1>10. TypeOK'
    <2>1. ret' \in Outcome BY <1>9 DEF IInv, TypeOK, Outcome
    <2>2. path' \in Seq(Hash) /\ new_tip_work' \in Nat /\ snapshot' \in State
      BY <1>8, StateTypes DEF IInv
    <2>3. before' \in State BY <1>1, StateTypes DEF TrackCall, IInv, TypeOK
    <2>4. total_work' \in Nat \ {0} BY <1>1, <1>4, <1>5
    <2> QED BY <2>1, <2>2, <2>3, <2>4, <1>2, <1>6, <1>8 DEF IInv, TypeOK
  <1>11. TipHasMostWork'
    <2>1. known'[Last(blocks')].work = total_work' BY <1>1, <1>4, <1>6
    <2>2. ASSUME NEW h \in DOMAIN known' PROVE known'[h].work <= total_work'
      <3>1. CASE h = b BY <3>1, <1>1, <1>4, <1>5, <1>6
      <3>2. CASE h # b
        <4>1. h \in DOMAIN known /\ known'[h].work = known[h].work
          BY <3>2, <1>6 DEF TreeStep
        <4>2. known[h].work \in Nat BY <4>1 DEF IInv, TypeOK, Meta
        <4> QED BY <4>1, <4>2, <1>1, <1>3, <1>4, <1>5
      <3> QED BY <3>1, <3>2
    <2> QED BY <2>1, <2>2 DEF TipHasMostWork, Tip
  <1>12. EventsFollowChain' BY <1>2, <1>6 DEF IInv, EventsFollowChain
  <1>13. CallShape'
    <2>1. draining => ret \in {"Connected", "Reorganized"} BY DEF IInv, CallShape
    <2> QED BY <2>1, <1>8, <1>9 DEF CallShape
  <1>14. CallProgress'
    <2>1. pc' = "drain" => before' = before BY <1>1 DEF TrackCall
    <2>2. before.total_work \in Nat BY DEF IInv, TypeOK, State
    <2>3. snapshot.total_work >= before.total_work
      BY <1>1, <1>3, <2>2 DEF IInv, CallProgress, TypeOK
    <2>4. total_work' > before.total_work BY <2>2, <2>3, <1>1, <1>3, <1>4, <1>5
    <2> QED BY <2>1, <2>4, <1>8 DEF CallProgress
  <1>15. IInv' BY <1>6, <1>8, <1>10, <1>11, <1>12, <1>13, <1>14 DEF IInv
  <1>16. Inserted(b) BY <1>3, <1>4, <1>6 DEF Inserted
  <1> QED BY <1>1, <1>4, <1>6, <1>8, <1>15, <1>16 DEF b

\* Restoring the snapshot restores the invariant: the tree kept its heights and
\* work, and the block that began the reorg never entered it.
LEMMA FailReorgStep ==
    ASSUME IInv, FailReorg
    PROVE  /\ IInv' /\ pc' = "idle"
           /\ (ret' = "Invalid" /\ ~draining) \/ (ret' = "OrphanInvalid" /\ draining)
  <1>1. /\ pc = "reorg" /\ blocks' = snapshot.blocks /\ utxo' = snapshot.utxo
        /\ total_work' = snapshot.total_work
        /\ active_hashes' = snapshot.active_hashes
        /\ rolledBack' = TRUE /\ Fail("Invalid") /\ TrackCall
    BY DEF FailReorg, ReadyToConnect
  <1>2. UNCHANGED << known, orphans, orphan_receive_seq, network_time, store,
                     poisoned, replayed >>
    BY DEF FailReorg
  <1>3. PICK o \in Outcome : /\ Return(o)
                             /\ ~draining => o = "Invalid"
                             /\ draining => o = "OrphanInvalid"
    BY <1>1, FailStep
  <1>4. /\ pc' = "idle" /\ path' \in Seq(Hash) /\ new_tip_work' = 0
        /\ snapshot' \in State /\ queue' \in Seq(Hash)
        /\ draining' = FALSE /\ ret' \in Outcome /\ ret' = o
    BY <1>3, ReturnStep
  <1>5. ReorgInProgress /\ snapshot.total_work \in Nat
    BY <1>1, PathFacts
  <1>6. ActiveLinked'
    BY <1>1, <1>2, <1>5 DEF ReorgInProgress, ActiveLinked, LinkedChain
  <1>7. TipHasMostWork'
    BY <1>1, <1>2, <1>5 DEF ReorgInProgress, TipHasMostWork, Tip
  <1>8. TypeOK'
    <2>1. /\ blocks' \in Seq(Hash) /\ utxo' \subseteq OutPoint
          /\ active_hashes' \subseteq Hash
      BY <1>1 DEF IInv, TypeOK, State
    <2>2. blocks' # << >> BY <1>6 DEF ActiveLinked, LinkedChain
    <2>3. total_work' \in Nat \ {0}
      <3>1. Last(blocks') \in DOMAIN known
        <4>1. Len(blocks') \in 1..Len(blocks') BY <2>1, <2>2
        <4> QED BY <4>1, <1>2, <1>6 DEF ActiveLinked, LinkedChain, Last
      <3>2. total_work' = known[Last(blocks')].work
        BY <1>1, <1>5 DEF ReorgInProgress
      <3> QED BY <3>1, <3>2 DEF IInv, TypeOK, Meta
    <2>4. before' \in State BY <1>1, <1>4, StateTypes DEF TrackCall, IInv
    <2> QED BY <2>1, <2>2, <2>3, <2>4, <1>1, <1>2, <1>4 DEF IInv, TypeOK
  <1>9. TreeConsistent' /\ EventsFollowChain'
    BY <1>1, <1>2 DEF IInv, TreeConsistent, CandidateWork, EventsFollowChain
  <1>10. CallShape' /\ CallProgress'
    BY <1>2, <1>4 DEF IInv, CallShape, CallProgress
  <1>11. IInv' BY <1>4, <1>6, <1>7, <1>8, <1>9, <1>10 DEF IInv
  <1> QED BY <1>3, <1>4, <1>11

-----------------------------------------------------------------------------
(* The theorems                                                             *)

\* The chain that new_genesis returns satisfies the invariant.
LEMMA InitIInv == Init => IInv
  <1> SUFFICES ASSUME Init PROVE IInv OBVIOUS
  <1>1. UndoOf({}, transactions[Genesis]) \in Seq(Undo)
    BY UndoType, ChainAssumption
  <1>2. ApplyTransactions({}, transactions[Genesis]) \subseteq OutPoint
    BY ApplyType
  <1>3. BlockWork(bits[Genesis]) \in Nat \ {0} /\ Genesis \in Hash
    BY ChainAssumption
  <1>4. /\ DOMAIN known = {Genesis} /\ known[Genesis].height = 0
        /\ known[Genesis].work = BlockWork(bits[Genesis])
        /\ known[Genesis] \in Meta
    BY <1>1, <1>3 DEF Init, Meta
  <1>5. known \in [DOMAIN known -> Meta] BY <1>4 DEF Init
  <1>6. blocks = << Genesis >> /\ Len(blocks) = 1 /\ blocks[1] = Genesis
        /\ blocks \in Seq(Hash) /\ blocks # << >> /\ Tip = Genesis
    BY <1>3 DEF Init, Tip, Last
  <1>7. NoState \in State BY DEF NoState, State
  <1>8. TypeOK
    <2>1. DOMAIN orphans = {} /\ orphans \in [{} -> Nat] BY DEF Init
    <2>2. 0 \in 0..MaxReceiveSeq BY ChainAssumption
    <2>3. "None" \in Outcome BY DEF Outcome
    <2>4. /\ total_work \in Nat \ {0} /\ utxo \subseteq OutPoint
          /\ active_hashes \subseteq Hash /\ store \subseteq Hash
          /\ replayed \subseteq Hash /\ DOMAIN known \subseteq Hash
      BY <1>2, <1>3, <1>4 DEF Init
    <2>5. /\ orphans \in [DOMAIN orphans -> Nat] /\ DOMAIN orphans \subseteq Hash
          /\ orphan_receive_seq \in 0..MaxReceiveSeq /\ network_time \in NetworkTime
          /\ poisoned \in BOOLEAN /\ pc \in {"idle", "reorg", "drain"}
      BY <2>1, <2>2 DEF Init
    <2>6. path \in Seq(Hash) /\ new_tip_work \in Nat /\ queue \in Seq(Hash)
      BY DEF Init
    <2>7. /\ snapshot \in State /\ before \in State /\ ret \in Outcome
          /\ draining \in BOOLEAN /\ rolledBack \in BOOLEAN
      BY <2>3, <1>7, Zenon DEF Init
    <2> QED BY <2>4, <2>5, <2>6, <2>7, <1>5, <1>6 DEF TypeOK
  <1>9. ActiveLinked BY <1>4, <1>6 DEF Init, ActiveLinked, LinkedChain
  <1>10. TreeConsistent BY <1>4 DEF TreeConsistent
  <1>11. TipHasMostWork BY <1>3, <1>4, <1>6 DEF Init, TipHasMostWork
  <1>12. EventsFollowChain BY DEF Init, EventsFollowChain
  <1>13. CallShape BY FS_EmptySet DEF Init, CallShape
  <1>14. CallProgress BY DEF Init, CallProgress
  <1> QED BY <1>8, <1>9, <1>10, <1>11, <1>12, <1>13, <1>14 DEF Init, IInv

\* The two ways a block reaches connect_block_inner: from a caller and from
\* the orphan queue.
LEMMA OfferedBlock ==
    ASSUME IInv, \/ \E b \in Hash : ConnectBlock(b)
                 \/ ConnectOrphan
    PROVE  /\ pc # "reorg" /\ TrackCall
           /\ \E b \in Hash, q \in Seq(Hash) :
                \/ RefuseBlock(b)
                \/ PanicBlock(b)
                \/ AddOrphan(b)
                \/ ExtendTip(b, q)
                \/ StoreSideChain(b, q)
                \/ BeginReorg(b, q)
  <1>1. CASE \E b \in Hash : ConnectBlock(b)
    <2>1. << >> \in Seq(Hash) OBVIOUS
    <2> QED BY <1>1, <2>1 DEF ConnectBlock
  <1>2. CASE ConnectOrphan
    <2>1. pc = "drain" /\ queue \in Seq(Hash) /\ queue # << >>
      BY <1>2 DEF ConnectOrphan, IInv, TypeOK, CallShape
    <2>2. Head(queue) \in Hash /\ Tail(queue) \in Seq(Hash) BY <2>1
    <2> QED BY <1>2, <2>1, <2>2 DEF ConnectOrphan
  <1> QED BY <1>1, <1>2

\* Steps that touch neither the chain nor the call in progress.
LEMMA QuietStep ==
    ASSUME IInv,
           \/ \E t \in NetworkTime : SetNetworkTime(t)
           \/ PoisonedCall
           \/ UNCHANGED vars
    PROVE  IInv' /\ TreeStep
  <1>1. UNCHANGED << blocks, active_hashes, known, total_work, utxo, orphans,
                     orphan_receive_seq, store, poisoned, pc, path, new_tip_work,
                     snapshot, queue, draining, auxVars >>
    BY DEF SetNetworkTime, PoisonedCall, chainVars, callVars, vars
  <1>2. network_time' \in NetworkTime /\ ret' \in Outcome
    BY DEF SetNetworkTime, PoisonedCall, chainVars, callVars, vars, IInv, TypeOK, Outcome
  <1>3. draining => ret' = ret
    BY DEF SetNetworkTime, PoisonedCall, vars, callVars, IInv, CallShape
  <1>4. TypeOK' BY <1>1, <1>2 DEF IInv, TypeOK, auxVars
  <1>5. ActiveLinked' /\ TreeConsistent' /\ TipHasMostWork' /\ EventsFollowChain'
    BY <1>1 DEF auxVars, IInv, ActiveLinked, LinkedChain, TreeConsistent,
                CandidateWork, TipHasMostWork, Tip, EventsFollowChain
  <1>6. CallShape' /\ CallProgress'
    BY <1>1, <1>3 DEF auxVars, IInv, CallShape, CallProgress
  <1>7. pc' = "reorg" => ReorgInProgress'
    BY <1>1 DEF IInv, ReorgInProgress, LinkedChain, CandidateWork
  <1>8. TreeStep BY <1>1 DEF TreeStep
  <1> QED BY <1>4, <1>5, <1>6, <1>7, <1>8 DEF IInv

\* Every step preserves the invariant.
LEMMA NextIInv == IInv /\ [Next]_vars => IInv'
  <1> SUFFICES ASSUME IInv, [Next]_vars PROVE IInv' OBVIOUS
  <1>1. CASE (\E b \in Hash : ConnectBlock(b)) \/ ConnectOrphan
    BY <1>1, OfferedBlock, RefuseBlockStep, PanicBlockStep, AddOrphanStep,
       ExtendTipStep, StoreSideChainStep, BeginReorgStep
  <1>2. CASE CollectForkPath BY <1>2, CollectForkPathStep
  <1>3. CASE DisconnectTip BY <1>3, DisconnectTipStep
  <1>4. CASE ConnectForkBlock BY <1>4, ConnectForkBlockStep
  <1>5. CASE FinishReorg BY <1>5, FinishReorgStep
  <1>6. CASE FailReorg BY <1>6, FailReorgStep
  <1>7. CASE \/ \E t \in NetworkTime : SetNetworkTime(t)
             \/ PoisonedCall
             \/ UNCHANGED vars
    BY <1>7, QuietStep
  <1> QED BY <1>1, <1>2, <1>3, <1>4, <1>5, <1>6, <1>7 DEF Next, CallStep

\* The inductive invariant holds in every reachable state of the chain.
THEOREM Invariance == Spec => []IInv
  BY InitIInv, NextIInv, PTL DEF Spec

\* Every variable of the chain keeps its type.
THEOREM TypeCorrect == Spec => []TypeOK
  BY Invariance, PTL DEF IInv

\* The active chain is one branch of the tree from genesis to the tip, also in
\* the middle of a reorg and after a rollback, and heights and work recorded in
\* the tree add up along every branch.
THEOREM TreeSoundTheorem == Spec => []TreeSound
  BY Invariance, PTL DEF IInv, TreeSound

\* Outside a reorg no accepted block has more work than the tip.
THEOREM MostWorkTheorem == Spec => []TipHasMostWork
  BY Invariance, PTL DEF IInv

\* The events lead a consumer to the active chain until a reorg is rolled back.
THEOREM EventsTheorem == Spec => []EventsFollowChain
  BY Invariance, PTL DEF IInv

\* No step takes a block out of the tree or changes its height or work.
THEOREM TreeGrowsTheorem == Spec => TreeOnlyGrows
  <1>1. IInv /\ [Next]_vars => [TreeStep]_vars
    <2> SUFFICES ASSUME IInv, Next PROVE TreeStep OBVIOUS
    <2>1. CASE (\E b \in Hash : ConnectBlock(b)) \/ ConnectOrphan
      <3>1. PICK b \in Hash, q \in Seq(Hash) :
                \/ RefuseBlock(b) \/ PanicBlock(b) \/ AddOrphan(b)
                \/ ExtendTip(b, q) \/ StoreSideChain(b, q) \/ BeginReorg(b, q)
        BY <2>1, OfferedBlock
      <3>2. CASE RefuseBlock(b) \/ PanicBlock(b) \/ AddOrphan(b) \/ BeginReorg(b, q)
        <4>1. known' = known
          BY <3>2 DEF RefuseBlock, PanicBlock, AddOrphan, BeginReorg, chainVars
        <4> QED BY <4>1 DEF TreeStep
      <3>3. CASE ExtendTip(b, q) BY <3>3, <2>1, OfferedBlock, ExtendTipStep DEF Inserted
      <3>4. CASE StoreSideChain(b, q) BY <3>4, <2>1, OfferedBlock, StoreSideChainStep DEF Inserted
      <3> QED BY <3>1, <3>2, <3>3, <3>4
    <2>2. CASE CollectForkPath \/ DisconnectTip \/ FailReorg
      <3>1. known' = known
        BY <2>2 DEF CollectForkPath, DisconnectTip, FailReorg, chainVars
      <3> QED BY <3>1 DEF TreeStep
    <2>3. CASE ConnectForkBlock BY <2>3, ConnectForkBlockStep
    <2>4. CASE FinishReorg BY <2>4, FinishReorgStep DEF Inserted
    <2>5. CASE (\E t \in NetworkTime : SetNetworkTime(t)) \/ PoisonedCall
      BY <2>5, QuietStep
    <2> QED BY <2>1, <2>2, <2>3, <2>4, <2>5 DEF Next, CallStep
  <1>2. [TreeStep]_vars <=>
          [ \A h \in DOMAIN known :
              /\ h \in DOMAIN known'
              /\ known'[h].height = known[h].height
              /\ known'[h].work = known[h].work ]_vars
    BY DEF TreeStep
  <1> QED BY Invariance, <1>1, <1>2, PTL DEF Spec, TreeOnlyGrows

-----------------------------------------------------------------------------
(* connect_block implements ForkChoice                                      *)

\* The abstract state: work of every block of the tree, and the tip that the
\* last finished block left, which a reorg in progress has in its snapshot.
TreeWork == [ h \in DOMAIN known |-> known[h].work ]
AcceptedTip == IF pc = "reorg" THEN Last(snapshot.blocks) ELSE Tip

\* A step that keeps the tree keeps the abstract work function.
LEMMA SameWork ==
    ASSUME TreeStep, DOMAIN known' = DOMAIN known
    PROVE  TreeWork' = TreeWork
  BY DEF TreeStep, TreeWork

\* A block that joins the tree is one Accept step of ForkChoice, provided that
\* the tip moves to it exactly when it has more work than the tip.
LEMMA AcceptStep ==
    ASSUME NEW b, Inserted(b), AcceptedTip \in DOMAIN known,
           AcceptedTip' = IF CandidateWork(b) > known[AcceptedTip].work
                          THEN b ELSE AcceptedTip
    PROVE  FC!Next
  <1>1. b \in Hash /\ b \notin DOMAIN TreeWork /\ prev_blockhash[b] \in DOMAIN TreeWork
    BY DEF Inserted, TreeWork
  <1>2. TreeWork[prev_blockhash[b]] + BlockWork(bits[b]) = CandidateWork(b)
    BY DEF Inserted, TreeWork, CandidateWork
  <1>3. TreeWork[AcceptedTip] = known[AcceptedTip].work
    BY DEF TreeWork
  <1>4. TreeWork' = [ h \in DOMAIN TreeWork \cup {b} |->
                        IF h = b THEN CandidateWork(b) ELSE TreeWork[h] ]
    BY DEF Inserted, TreeStep, TreeWork
  <1>5. FC!Accept(b)
    BY <1>1, <1>2, <1>3, <1>4 DEF FC!Accept, TreeWork, AcceptedTip
  <1> QED BY <1>1, <1>5 DEF FC!Next

\* Every step of the chain is an Accept step or leaves the abstract state alone.
LEMMA RefinementStep ==
    ASSUME IInv, [Next]_vars
    PROVE  FC!Next \/ UNCHANGED << TreeWork, AcceptedTip >>
  <1>1. Tip \in DOMAIN known BY ActiveFacts DEF IInv
  <1>2. CASE (\E b \in Hash : ConnectBlock(b)) \/ ConnectOrphan
    <2>1. pc # "reorg" /\ TrackCall BY <1>2, OfferedBlock
    <2>2. PICK b \in Hash, q \in Seq(Hash) :
              \/ RefuseBlock(b) \/ PanicBlock(b) \/ AddOrphan(b)
              \/ ExtendTip(b, q) \/ StoreSideChain(b, q) \/ BeginReorg(b, q)
      BY <1>2, OfferedBlock
    <2>3. /\ AcceptedTip = Tip /\ total_work = known[Tip].work
          /\ total_work \in Nat
      BY <2>1 DEF AcceptedTip, IInv, TipHasMostWork, TypeOK
    <2>4. CASE RefuseBlock(b) \/ PanicBlock(b) \/ AddOrphan(b)
      <3>1. known' = known /\ blocks' = blocks /\ pc' # "reorg"
        BY <2>4 DEF RefuseBlock, PanicBlock, AddOrphan, chainVars, Fail, Return
      <3> QED BY <3>1, <2>1 DEF TreeWork, AcceptedTip, Tip
    <2>5. CASE ExtendTip(b, q)
      <3>1. /\ Inserted(b) /\ Last(blocks') = b /\ pc' # "reorg"
            /\ CandidateWork(b) > total_work
        BY <2>1, <2>5, ExtendTipStep
      <3>2. AcceptedTip' = b BY <3>1 DEF AcceptedTip, Tip
      <3> QED BY <3>1, <3>2, <2>3, <1>1, AcceptStep
    <2>6. CASE StoreSideChain(b, q)
      <3>1. /\ Inserted(b) /\ blocks' = blocks /\ pc' # "reorg"
            /\ CandidateWork(b) <= total_work
        BY <2>1, <2>6, StoreSideChainStep
      <3>2. AcceptedTip' = AcceptedTip BY <3>1, <2>3 DEF AcceptedTip, Tip
      <3>3. CandidateWork(b) \in Nat
        BY <3>1, CandidateWorkType DEF Inserted, IInv
      <3>4. ~(CandidateWork(b) > total_work) BY <3>1, <3>3, <2>3
      <3> QED BY <3>1, <3>2, <3>4, <2>3, <1>1, AcceptStep
    <2>7. CASE BeginReorg(b, q)
      <3>1. known' = known /\ pc' = "reorg" /\ snapshot'.blocks = blocks
        BY <2>7 DEF BeginReorg, chainVars, ActiveState
      <3> QED BY <3>1, <2>3 DEF TreeWork, AcceptedTip, Tip
    <2> QED BY <2>2, <2>4, <2>5, <2>6, <2>7
  <1>3. CASE CollectForkPath \/ DisconnectTip
    <2>1. known' = known /\ pc = "reorg" /\ pc' = "reorg" /\ snapshot' = snapshot
      BY <1>3 DEF CollectForkPath, DisconnectTip, chainVars, callVars
    <2> QED BY <2>1 DEF TreeWork, AcceptedTip
  <1>4. CASE ConnectForkBlock
    <2>1. TreeStep /\ DOMAIN known' = DOMAIN known BY <1>4, ConnectForkBlockStep
    <2>2. pc = "reorg" /\ pc' = "reorg" /\ snapshot' = snapshot
      BY <1>4 DEF ConnectForkBlock, ReadyToConnect
    <2> QED BY <2>1, <2>2, SameWork DEF AcceptedTip
  <1>5. CASE FinishReorg
    <2>1. /\ Inserted(Head(path)) /\ Last(blocks') = Head(path) /\ pc' # "reorg"
          /\ CandidateWork(Head(path)) > snapshot.total_work
      BY <1>5, FinishReorgStep
    <2>2. pc = "reorg" BY <1>5 DEF FinishReorg, ReadyToConnect
    <2>3. ReorgInProgress BY <2>2, PathFacts
    <2>4. AcceptedTip = Last(snapshot.blocks) /\ AcceptedTip' = Head(path)
      BY <2>1, <2>2 DEF AcceptedTip, Tip
    <2>5. Last(snapshot.blocks) \in DOMAIN known
      <3>1. snapshot.blocks \in Seq(Hash) BY DEF IInv, TypeOK, State
      <3>2. snapshot.blocks # << >> BY <2>3 DEF ReorgInProgress, LinkedChain
      <3>3. Len(snapshot.blocks) \in 1..Len(snapshot.blocks) BY <3>1, <3>2
      <3> QED BY <3>3, <2>3 DEF ReorgInProgress, LinkedChain, Last
    <2>6. snapshot.total_work = known[Last(snapshot.blocks)].work
      BY <2>3 DEF ReorgInProgress
    <2> QED BY <2>1, <2>4, <2>5, <2>6, AcceptStep
  <1>6. CASE FailReorg
    <2>1. /\ known' = known /\ blocks' = snapshot.blocks /\ pc = "reorg"
      BY <1>6 DEF FailReorg, ReadyToConnect
    <2>2. pc' = "idle" BY <1>6, FailReorgStep
    <2> QED BY <2>1, <2>2 DEF TreeWork, AcceptedTip, Tip
  <1>7. CASE (\E t \in NetworkTime : SetNetworkTime(t)) \/ PoisonedCall \/ UNCHANGED vars
    <2>1. UNCHANGED << known, blocks, pc, snapshot >>
      BY <1>7 DEF SetNetworkTime, PoisonedCall, vars, chainVars, callVars
    <2> QED BY <2>1 DEF TreeWork, AcceptedTip, Tip
  <1> QED BY <1>2, <1>3, <1>4, <1>5, <1>6, <1>7 DEF Next, CallStep

\* connect_block implements ForkChoice: whatever the order of arrival, the
\* orphans, the reorgs and the rollbacks, the tip moves exactly when a block
\* with strictly more work joins the tree.
THEOREM ForkChoiceTheorem == Spec => ImplementsForkChoice
  <1>1. Init => FC!Init
    <2> SUFFICES ASSUME Init PROVE FC!Init OBVIOUS
    <2>1. TreeWork = [ h \in {Genesis} |-> BlockWork(bits[Genesis]) ]
      BY DEF Init, TreeWork
    <2>2. AcceptedTip = Genesis BY DEF Init, AcceptedTip, Tip, Last
    <2> QED BY <2>1, <2>2 DEF FC!Init, TreeWork, AcceptedTip
  <1>2. IInv /\ [Next]_vars => [FC!Next]_(FC!vars)
    <2> SUFFICES ASSUME IInv, [Next]_vars PROVE [FC!Next]_(FC!vars) OBVIOUS
    <2>1. FC!Next \/ UNCHANGED << TreeWork, AcceptedTip >> BY RefinementStep
    <2> QED BY <2>1 DEF FC!vars, TreeWork, AcceptedTip
  <1> QED BY Invariance, <1>1, <1>2, PTL DEF Spec, ImplementsForkChoice, FC!Spec

-----------------------------------------------------------------------------
(* What a call leaves behind                                                *)

\* A step that ends a call, case by case: nothing was connected, something was,
\* or a reorg was rolled back.
LEMMA CallEnd ==
    ASSUME IInv, Next, pc' = "idle"
    PROVE  \/ /\ pc = "idle" /\ ActiveState' = ActiveState
           \/ /\ pc = "idle" /\ total_work' > total_work
              /\ ret' \notin {"Limit", "AlreadyKnown", "Invalid"}
           \/ /\ pc # "idle" /\ total_work' > before.total_work
              /\ ret' \notin {"Limit", "AlreadyKnown", "Invalid"}
           \/ /\ pc = "reorg" /\ before = snapshot /\ ActiveState' = snapshot
  <1>1. total_work \in Nat /\ before.total_work \in Nat /\ snapshot.total_work \in Nat
    BY DEF IInv, TypeOK, State
  <1>2. CASE (\E b \in Hash : ConnectBlock(b)) \/ ConnectOrphan
    <2>1. pc # "reorg" /\ TrackCall BY <1>2, OfferedBlock
    <2>2. PICK b \in Hash, q \in Seq(Hash) :
              \/ RefuseBlock(b) \/ PanicBlock(b) \/ AddOrphan(b)
              \/ ExtendTip(b, q) \/ StoreSideChain(b, q) \/ BeginReorg(b, q)
      BY <1>2, OfferedBlock
    <2>3. CASE RefuseBlock(b) \/ PanicBlock(b) \/ AddOrphan(b)
      <3>1. ActiveState' = ActiveState /\ total_work' = total_work
        BY <2>3 DEF RefuseBlock, PanicBlock, AddOrphan, chainVars, ActiveState
      <3>2. CASE pc = "idle" BY <3>1, <3>2
      <3>3. CASE pc = "drain"
        <4>1. draining /\ total_work > before.total_work
          BY <3>3 DEF IInv, CallShape, CallProgress
        <4>2. ret' \in {"OrphanInvalid", "Panicked", "Orphaned"}
          BY <4>1, <2>3 DEF RefuseBlock, PanicBlock, AddOrphan, Fail, Return
        <4> QED BY <3>1, <3>3, <4>1, <4>2
      <3> QED BY <3>2, <3>3, <2>1 DEF IInv, TypeOK
    <2>4. CASE ExtendTip(b, q)
      <3>1. total_work' > total_work /\ total_work' \in Nat
        BY <2>1, <2>4, ExtendTipStep DEF IInv, TypeOK
      <3>2. ret' \in {"Connected", "Reorganized"}
        BY <2>4 DEF ExtendTip, Succeed, IInv, CallShape
      <3>3. pc = "drain" => total_work > before.total_work
        BY DEF IInv, CallProgress
      <3> QED BY <3>1, <3>2, <3>3, <2>1, <1>1 DEF IInv, TypeOK
    <2>5. CASE StoreSideChain(b, q)
      <3>1. ActiveState' = ActiveState /\ total_work' = total_work
        BY <2>5 DEF StoreSideChain, ActiveState
      <3>2. CASE pc = "idle" BY <3>1, <3>2
      <3>3. CASE pc = "drain"
        <4>1. /\ draining /\ total_work > before.total_work
              /\ ret \in {"Connected", "Reorganized"}
          BY <3>3 DEF IInv, CallShape, CallProgress
        <4>2. ret' = ret BY <4>1, <2>5 DEF StoreSideChain
        <4> QED BY <3>1, <3>3, <4>1, <4>2
      <3> QED BY <3>2, <3>3, <2>1 DEF IInv, TypeOK
    <2>6. CASE BeginReorg(b, q) BY <2>6 DEF BeginReorg
    <2> QED BY <2>2, <2>3, <2>4, <2>5, <2>6
  <1>3. CASE CollectForkPath \/ DisconnectTip \/ ConnectForkBlock
    BY <1>3 DEF CollectForkPath, DisconnectTip, ConnectForkBlock, ReadyToConnect, callVars
  <1>4. CASE FinishReorg
    <2>1. pc = "reorg" /\ total_work' > snapshot.total_work /\ total_work' \in Nat
      BY <1>4, FinishReorgStep DEF FinishReorg, ReadyToConnect, IInv, TypeOK
    <2>2. snapshot.total_work >= before.total_work
      BY <2>1, <1>1 DEF IInv, CallProgress, TypeOK
    <2>3. ret' \in {"Connected", "Reorganized"}
      BY <1>4 DEF FinishReorg, Succeed, IInv, CallShape
    <2> QED BY <2>1, <2>2, <2>3, <1>1
  <1>5. CASE FailReorg
    <2>1. /\ pc = "reorg" /\ blocks' = snapshot.blocks /\ utxo' = snapshot.utxo
          /\ total_work' = snapshot.total_work
          /\ active_hashes' = snapshot.active_hashes
      BY <1>5 DEF FailReorg, ReadyToConnect
    <2>2. CASE ~draining
      <3>1. snapshot = [ blocks |-> snapshot.blocks, utxo |-> snapshot.utxo,
                         total_work |-> snapshot.total_work,
                         active_hashes |-> snapshot.active_hashes ]
        BY DEF IInv, TypeOK, State
      <3>2. ActiveState' = snapshot BY <2>1, <3>1 DEF ActiveState
      <3>3. before = snapshot BY <2>1, <2>2 DEF IInv, CallProgress
      <3> QED BY <2>1, <3>2, <3>3
    <2>3. CASE draining
      <3>1. ret' = "OrphanInvalid" BY <2>3, <1>5, FailReorgStep
      <3>2. snapshot.total_work > before.total_work
        BY <2>1, <2>3 DEF IInv, CallProgress
      <3> QED BY <2>1, <3>1, <3>2
    <2> QED BY <2>2, <2>3
  <1>6. CASE (\E t \in NetworkTime : SetNetworkTime(t)) \/ PoisonedCall
    BY <1>6 DEF SetNetworkTime, PoisonedCall, chainVars, ActiveState
  <1> QED BY <1>2, <1>3, <1>4, <1>5, <1>6 DEF Next, CallStep

\* A call that fails on the block it was given leaves the active chain, the
\* unspent set and the total work as it found them.
THEOREM FailedCallTheorem == Spec => FailedCallRestores
  <1> DEFINE A == pc' = "idle" /\ ret' \in {"Limit", "AlreadyKnown", "Invalid"}
                     => ActiveState' = AtStart
  <1>1. IInv /\ [Next]_vars => [A]_vars
    BY CallEnd DEF AtStart
  <1> QED BY Invariance, <1>1, PTL DEF Spec, FailedCallRestores

\* From one call's end to the next the total work never goes down, and the tip
\* moves only to strictly more work.
THEOREM WorkGrowsTheorem == Spec => WorkOnlyGrows
  <1> DEFINE A == pc' = "idle" =>
                    /\ total_work' >= AtStart.total_work
                    /\ Last(blocks') # Last(AtStart.blocks) =>
                          total_work' > AtStart.total_work
  <1>1. IInv /\ [Next]_vars => [A]_vars
    <2> SUFFICES ASSUME IInv, Next, pc' = "idle"
                 PROVE  /\ total_work' >= AtStart.total_work
                        /\ Last(blocks') # Last(AtStart.blocks) =>
                              total_work' > AtStart.total_work
      OBVIOUS
    <2>1. /\ total_work \in Nat /\ before.total_work \in Nat
          /\ snapshot.total_work \in Nat /\ total_work' \in Nat
      BY NextIInv DEF IInv, TypeOK, State
    <2>2. pc = "idle" => /\ AtStart.total_work = total_work
                         /\ AtStart.blocks = blocks
      BY DEF AtStart, ActiveState
    <2>3. pc # "idle" => AtStart = before BY DEF AtStart
    <2>4. CASE pc = "idle" /\ ActiveState' = ActiveState
      BY <2>1, <2>2, <2>4 DEF ActiveState
    <2>5. CASE pc = "idle" /\ total_work' > total_work
      BY <2>1, <2>2, <2>5 DEF ActiveState
    <2>6. CASE pc # "idle" /\ total_work' > before.total_work
      BY <2>1, <2>3, <2>6
    <2>7. CASE pc = "reorg" /\ before = snapshot /\ ActiveState' = snapshot
      <3>1. total_work' = before.total_work /\ blocks' = before.blocks
        BY <2>7 DEF ActiveState
      <3> QED BY <2>1, <2>3, <2>7, <3>1
    <2> QED BY <2>4, <2>5, <2>6, <2>7, CallEnd
  <1> QED BY Invariance, <1>1, PTL DEF Spec, WorkOnlyGrows
=============================================================================
