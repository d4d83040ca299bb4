---------------------------- MODULE ReplayProofs ----------------------------
(***************************************************************************)
(* Theorems about Chain beyond its active state: the orphan pool, the data  *)
(* a reorg relies on, and the unspent set.                                  *)
(*                                                                          *)
(* The unspent set that connect_block keeps by applying and undoing blocks  *)
(* is the replay of the active chain, and every active block is valid on    *)
(* the blocks below it.                                                     *)
(***************************************************************************)
EXTENDS ChainProofs


\* The active chain the call will leave if it fails now.
Settled == IF pc = "reorg" THEN snapshot.active_hashes ELSE active_hashes

\* connect_block kept one TxUndo for every transaction of h.
HasUndo(h) == Len(known[h].undo) = Len(transactions[h])

\* Orphans wait for blocks outside the tree or on a side chain, and every block
\* that is or may again be active can be disconnected.
WaitInv ==
    /\ Cardinality(DOMAIN orphans) <= MaxOrphans
    /\ DOMAIN orphans \cap DOMAIN known = {}
    /\ \A o \in DOMAIN orphans : prev_blockhash[o] \notin Settled
    /\ \A h \in active_hashes \cup Settled : HasUndo(h)
    /\ pc = "reorg" => path[Len(path)] \notin DOMAIN orphans

-----------------------------------------------------------------------------
(* Steps shared by the actions                                              *)

\* The blocks of the active chain are in the tree.
LEMMA ActiveKnown ==
    ASSUME IInv
    PROVE  active_hashes \subseteq DOMAIN known /\ Settled \subseteq DOMAIN known
  <1>1. active_hashes \subseteq DOMAIN known
    BY DEF IInv, ActiveLinked, LinkedChain
  <1>2. pc = "reorg" => snapshot.active_hashes \subseteq DOMAIN known
    BY DEF IInv, ReorgInProgress, LinkedChain
  <1> QED
    BY <1>1, <1>2 DEF Settled

\* Nothing changes that the invariant speaks of, or the chain gets shorter.
LEMMA SameWaits ==
    ASSUME WaitInv, known' = known, orphans' = orphans, Settled' \subseteq Settled \cup active_hashes,
           Settled' \subseteq Settled, active_hashes' \subseteq active_hashes \cup Settled,
           pc' = "reorg" => path'[Len(path')] \notin DOMAIN orphans
    PROVE  WaitInv'
  BY DEF WaitInv, HasUndo

\* Fewer orphans.
LEMMA FewerOrphans ==
    ASSUME IInv, WaitInv, NEW S \in SUBSET DOMAIN orphans
    PROVE  IsFiniteSet(S) /\ Cardinality(S) <= MaxOrphans
  <1>1. IsFiniteSet(DOMAIN orphans)
    BY DEF IInv, CallShape
  <1>2. /\ IsFiniteSet(S) /\ Cardinality(S) <= Cardinality(DOMAIN orphans)
        /\ Cardinality(S) \in Nat /\ Cardinality(DOMAIN orphans) \in Nat
    BY <1>1, FS_Subset, FS_CardinalityType
  <1> QED
    BY <1>2, ChainAssumption DEF WaitInv

\* After enqueue_ready_orphans no orphan waits for a block of the tree.
LEMMA EnqueueWaits ==
    ASSUME IInv, WaitInv, NEW q, EnqueueReady(q)
    PROVE  /\ pc' # "reorg" /\ DOMAIN orphans' \subseteq DOMAIN orphans
           /\ Cardinality(DOMAIN orphans') <= MaxOrphans
           /\ \A o \in DOMAIN orphans' : prev_blockhash[o] \notin DOMAIN known'
  <1> DEFINE ready == { o \in DOMAIN orphans : prev_blockhash[o] \in DOMAIN known' }
  <1>1. /\ orphans' = [ o \in DOMAIN orphans \ ready |-> orphans[o] ]
        /\ pc' \in {"idle", "drain"}
    BY DEF EnqueueReady
  <1>2. DOMAIN orphans' = DOMAIN orphans \ ready
    BY <1>1
  <1> QED
    BY <1>1, <1>2, FewerOrphans

\* apply_transactions returns one TxUndo for every transaction.
LEMMA PushHasUndo ==
    ASSUME IInv, NEW b \in Hash, NEW n, PushTip(b, n)
    PROVE  /\ DOMAIN known' = DOMAIN known \cup {b}
           /\ active_hashes' = active_hashes \cup {b}
           /\ HasUndo(b)'
           /\ \A h \in DOMAIN known : HasUndo(h) => HasUndo(h)'
  <1> DEFINE undo == UndoOf(utxo, transactions[b])
  <1>1. transactions[b] \in Seq(Tx)
    BY ChainAssumption
  <1>2. undo \in Seq(Undo) /\ DOMAIN undo = DOMAIN transactions[b]
    BY <1>1, UndoType DEF UndoOf
  <1>3. Len(undo) = Len(transactions[b])
    <2> HIDE DEF undo
    <2> QED
      BY <1>1, <1>2
  <1>4. /\ known' = KnownWith(b, n, CandidateWork(b), undo)
        /\ active_hashes' = active_hashes \cup {b}
    BY DEF PushTip
  <1> HIDE DEF undo
  <1>5. /\ DOMAIN known' = DOMAIN known \cup {b} /\ known'[b].undo = undo
        /\ \A h \in DOMAIN known : h # b => known'[h] = known[h]
    BY <1>4 DEF KnownWith
  <1> QED
    BY <1>3, <1>4, <1>5 DEF HasUndo

\* A block becomes the tip and its orphans are queued.
LEMMA TipWaits ==
    ASSUME IInv, IInv', WaitInv, NEW b \in Hash, b \notin DOMAIN orphans, NEW n, PushTip(b, n),
           NEW q, EnqueueReady(q)
    PROVE  WaitInv'
  <1>1. /\ DOMAIN known' = DOMAIN known \cup {b} /\ active_hashes' = active_hashes \cup {b}
        /\ HasUndo(b)' /\ \A h \in DOMAIN known : HasUndo(h) => HasUndo(h)'
    BY PushHasUndo
  <1>2. /\ pc' # "reorg" /\ DOMAIN orphans' \subseteq DOMAIN orphans
        /\ Cardinality(DOMAIN orphans') <= MaxOrphans
        /\ \A o \in DOMAIN orphans' : prev_blockhash[o] \notin DOMAIN known'
    BY EnqueueWaits
  <1>3. Settled' = active_hashes'
    BY <1>2 DEF Settled
  <1>4. active_hashes' \subseteq DOMAIN known' /\ active_hashes \subseteq DOMAIN known
    BY ActiveKnown DEF IInv, ActiveLinked, LinkedChain
  <1>5. \A h \in active_hashes' \cup Settled' : HasUndo(h)'
    BY <1>1, <1>3, <1>4 DEF WaitInv
  <1> QED
    BY <1>1, <1>2, <1>3, <1>4, <1>5 DEF WaitInv

-----------------------------------------------------------------------------
(* The actions                                                              *)

\* A set of numbers that is not empty has a smallest one.
LEMMA Smallest ==
    ASSUME NEW T \in SUBSET Nat, T # {}
    PROVE  \E x \in T : \A y \in T : x <= y
  <1> DEFINE R == { p \in Nat \X Nat : p[1] < p[2] }
  <1>1. IsWellFoundedOn(R, Nat)
    BY NatLessThanWellFounded DEF OpToRel
  <1>2. \E x \in T : \A y \in T : ~(<< y, x >> \in R)
    <2> HIDE DEF R
    <2> QED
      BY <1>1, WFMin
  <1>3. PICK x \in T : \A y \in T : ~(<< y, x >> \in R)
    BY <1>2
  <1>4. ASSUME NEW y \in T
        PROVE  x <= y
    <2>1. x \in Nat /\ y \in Nat /\ << y, x >> \notin R
      BY <1>3
    <2>2. ~(y < x)
      BY <2>1
    <2> QED
      BY <2>1, <2>2
  <1> QED
    BY <1>4

\* insert_orphan evicts an orphan that is there.
LEMMA OldestIsThere ==
    ASSUME TypeOK, DOMAIN orphans # {}
    PROVE  OldestOrphan \in DOMAIN orphans
  <1> DEFINE T == { orphans[o] : o \in DOMAIN orphans }
  <1>1. T \in SUBSET Nat /\ T # {}
    BY DEF TypeOK
  <1>2. \E x \in T : \A y \in T : x <= y
    <2> HIDE DEF T
    <2> QED
      BY <1>1, Smallest
  <1>3. \E o \in DOMAIN orphans : \A p \in DOMAIN orphans : orphans[o] <= orphans[p]
    BY <1>2
  <1> QED
    BY <1>3 DEF OldestOrphan

LEMMA AddOrphanWaits ==
    ASSUME IInv, WaitInv, NEW b \in Hash, AddOrphan(b), pc # "reorg"
    PROVE  WaitInv'
  <1> DEFINE D == DOMAIN orphans
             kept == IF Cardinality(D) >= MaxOrphans THEN D \ {OldestOrphan} ELSE D
  <1>1. /\ b \notin DOMAIN known \cup D /\ prev_blockhash[b] \notin DOMAIN known
        /\ DOMAIN orphans' = kept \cup {b} /\ pc' = "idle"
        /\ UNCHANGED << known, active_hashes >>
    BY DEF AddOrphan, Return
  <1>2. IsFiniteSet(D) /\ Cardinality(D) \in Nat
    BY FS_CardinalityType DEF IInv, CallShape
  <1>3. kept \in SUBSET D /\ IsFiniteSet(kept) /\ Cardinality(kept) \in Nat
    BY <1>2, FS_Subset, FS_CardinalityType
  <1>4. Cardinality(kept) < MaxOrphans
    <2>1. CASE Cardinality(D) >= MaxOrphans
      <3>1. D # {}
        <4>1. Cardinality({}) = 0
          BY FS_EmptySet
        <4>2. MaxOrphans \in Nat \ {0}
          BY ChainAssumption
        <4>3. Cardinality(D) # 0
          BY <1>2, <2>1, <4>2
        <4> QED
          BY <4>1, <4>3
      <3>2. OldestOrphan \in D
        BY <3>1, OldestIsThere DEF IInv
      <3>3. Cardinality(D \ {OldestOrphan}) = Cardinality(D) - 1
        BY <1>2, <3>2, FS_RemoveElement
      <3> QED
        BY <1>2, <2>1, <3>3, ChainAssumption DEF WaitInv
    <2>2. CASE ~(Cardinality(D) >= MaxOrphans)
      BY <1>2, <2>2, ChainAssumption
    <2> QED
      BY <2>1, <2>2
  <1>5. Cardinality(kept \cup {b}) <= MaxOrphans
    <2>1. b \notin kept
      BY <1>1, <1>3
    <2>2. Cardinality(kept \cup {b}) = Cardinality(kept) + 1
      BY <1>3, <2>1, FS_AddElement
    <2> QED
      BY <1>3, <1>4, <2>2, ChainAssumption
  <1>6. Settled' = active_hashes /\ Settled = active_hashes /\ active_hashes \subseteq DOMAIN known
    BY <1>1, ActiveKnown DEF Settled
  <1>7. DOMAIN orphans' \subseteq D \cup {b}
    BY <1>1, <1>3
  <1> HIDE DEF kept
  <1> QED
    BY <1>1, <1>5, <1>6, <1>7 DEF WaitInv, HasUndo

LEMMA OfferWaits ==
    ASSUME IInv, IInv', WaitInv, pc # "reorg", NEW b \in Hash, NEW q \in Seq(Hash),
           \/ RefuseBlock(b) \/ PanicBlock(b) \/ AddOrphan(b)
           \/ ExtendTip(b, q) \/ StoreSideChain(b, q) \/ BeginReorg(b, q)
    PROVE  WaitInv'
  <1>1. Settled = active_hashes
    BY DEF Settled
  <1>2. CASE RefuseBlock(b) \/ PanicBlock(b)
    <2>1. UNCHANGED << known, orphans, active_hashes >> /\ pc' = "idle"
      BY <1>2 DEF RefuseBlock, PanicBlock, Fail, Return, chainVars
    <2>2. Settled' = active_hashes
      BY <2>1 DEF Settled
    <2> QED
      BY <1>1, <2>1, <2>2, SameWaits
  <1>3. CASE AddOrphan(b)
    BY <1>3, AddOrphanWaits
  <1>4. CASE ExtendTip(b, q)
    BY <1>4, TipWaits DEF ExtendTip, Acceptable, Attachable
  <1>5. CASE StoreSideChain(b, q)
    <2>1. /\ b \notin DOMAIN known \cup DOMAIN orphans /\ active_hashes' = active_hashes
          /\ known' = KnownWith(b, HeightOf(b), CandidateWork(b), << >>)
          /\ EnqueueReady(q) \/ (Return("SideChain") /\ orphans' = orphans)
      BY <1>5 DEF StoreSideChain, Acceptable, Attachable
    <2>2. /\ DOMAIN known' = DOMAIN known \cup {b}
          /\ \A h \in DOMAIN known : known'[h] = known[h]
      BY <2>1 DEF KnownWith
    <2>3. active_hashes \subseteq DOMAIN known
      BY ActiveKnown
    <2>4. \A h \in active_hashes : HasUndo(h)'
      BY <2>2, <2>3 DEF WaitInv, HasUndo
    <2>5. /\ pc' # "reorg" /\ DOMAIN orphans' \subseteq DOMAIN orphans
          /\ Cardinality(DOMAIN orphans') <= MaxOrphans
      <3>1. CASE EnqueueReady(q)
        BY <3>1, EnqueueWaits
      <3>2. CASE Return("SideChain") /\ orphans' = orphans
        BY <3>2 DEF Return, WaitInv
      <3> QED
        BY <2>1, <3>1, <3>2
    <2>6. Settled' = active_hashes
      BY <2>1, <2>5 DEF Settled
    <2> QED
      BY <1>1, <2>1, <2>2, <2>4, <2>5, <2>6 DEF WaitInv
  <1>6. CASE BeginReorg(b, q)
    <2>1. /\ UNCHANGED << known, orphans, active_hashes >> /\ pc' = "reorg" /\ path' = << b >>
          /\ snapshot' = ActiveState /\ b \notin DOMAIN orphans
      BY <1>6 DEF BeginReorg, Acceptable, Attachable, chainVars
    <2>2. Settled' = active_hashes
      BY <2>1 DEF Settled, ActiveState
    <2>3. path'[Len(path')] = b
      BY <2>1
    <2> QED
      BY <1>1, <2>1, <2>2, <2>3, SameWaits
  <1> QED
    BY <1>2, <1>3, <1>4, <1>5, <1>6

LEMMA ReorgWaits ==
    ASSUME IInv, IInv', WaitInv,
           CollectForkPath \/ DisconnectTip \/ ConnectForkBlock \/ FinishReorg \/ FailReorg
    PROVE  WaitInv'
  <1> DEFINE last == path[Len(path)]
  <1>1. pc = "reorg" /\ Settled = snapshot.active_hashes /\ last \notin DOMAIN orphans
        /\ path \in Seq(Hash) /\ path # << >>
    BY DEF CollectForkPath, DisconnectTip, ConnectForkBlock, FinishReorg, FailReorg,
           ReadyToConnect, Settled, WaitInv, IInv, TypeOK, ReorgInProgress
  <1>2. Len(path) \in Nat \ {0} /\ Head(path) = path[1] /\ Head(path) \in Hash
    BY <1>1
  <1>3. CASE CollectForkPath
    <2>1. /\ UNCHANGED << known, orphans, active_hashes, snapshot >> /\ pc' = "reorg"
          /\ path' = << prev_blockhash[Head(path)] >> \o path
      BY <1>1, <1>3 DEF CollectForkPath, chainVars
    <2>2. prev_blockhash[Head(path)] \in Hash
      <3>1. ReorgInProgress /\ DOMAIN known \subseteq Hash
        BY <1>1 DEF IInv, TypeOK
      <3>2. 1 \in 1..Len(path)
        BY <1>2
      <3>3. prev_blockhash[path[1]] \in DOMAIN known
        BY <3>1, <3>2 DEF ReorgInProgress
      <3> QED
        BY <1>2, <3>1, <3>3
    <2>3. path'[Len(path')] = last
      <3>1. Len(path') = Len(path) + 1 /\ path'[Len(path) + 1] = path[Len(path)]
        BY <1>1, <1>2, <2>1, <2>2
      <3> QED
        BY <3>1
    <2>4. Settled' = Settled
      BY <1>1, <2>1 DEF Settled
    <2> QED
      BY <1>1, <2>1, <2>3, <2>4, SameWaits
  <1>4. CASE DisconnectTip
    <2>1. /\ UNCHANGED << known, orphans, snapshot, pc, path >>
          /\ active_hashes' \subseteq active_hashes
      BY <1>4 DEF DisconnectTip, callVars
    <2>2. Settled' = Settled
      BY <1>1, <2>1 DEF Settled
    <2> QED
      BY <1>1, <2>1, <2>2, SameWaits
  <1>5. CASE ConnectForkBlock
    <2>1. /\ UNCHANGED << orphans, snapshot, pc >> /\ path' = Tail(path) /\ Len(path) > 1
          /\ PushTip(Head(path), Len(blocks))
      BY <1>5 DEF ConnectForkBlock
    <2>2. Head(path) \in DOMAIN known
      BY <1>1, <1>2, <2>1 DEF IInv, ReorgInProgress
    <2> DEFINE b == Head(path)
    <2>3. /\ DOMAIN known' = DOMAIN known /\ active_hashes' = active_hashes \cup {b}
          /\ Len(known'[b].undo) = Len(transactions[b])
          /\ \A h \in DOMAIN known : HasUndo(h) => Len(known'[h].undo) = Len(transactions[h])
      <3>1. b \in Hash /\ b \in DOMAIN known /\ PushTip(b, Len(blocks))
        BY <1>2, <2>1, <2>2
      <3> HIDE DEF b
      <3>2. DOMAIN known' = DOMAIN known \cup {b} /\ active_hashes' = active_hashes \cup {b}
        BY <3>1, PushHasUndo
      <3>3. Len(known'[b].undo) = Len(transactions[b])
        BY <3>1, PushHasUndo DEF HasUndo
      <3>4. \A h \in DOMAIN known : HasUndo(h) => Len(known'[h].undo) = Len(transactions[h])
        BY <3>1, PushHasUndo DEF HasUndo
      <3> QED
        BY <3>1, <3>2, <3>3, <3>4
    <2> HIDE DEF b
    <2>4. path'[Len(path')] = last
      <3>1. Len(path') = Len(path) - 1 /\ path'[Len(path) - 1] = path[Len(path)]
        BY <1>1, <1>2, <2>1
      <3> QED
        BY <3>1
    <2>5. Settled' = Settled /\ active_hashes \subseteq DOMAIN known /\ Settled \subseteq DOMAIN known
      BY <1>1, <2>1, ActiveKnown DEF Settled
    <2>6. \A h \in active_hashes' \cup Settled' : HasUndo(h)'
      <3>1. \A h \in active_hashes \cup Settled : HasUndo(h) /\ h \in DOMAIN known
        BY <2>5 DEF WaitInv
      <3>2. active_hashes' \cup Settled' = active_hashes \cup Settled \cup {b}
        BY <2>3, <2>5
      <3> QED
        BY <2>3, <3>1, <3>2 DEF HasUndo
    <2> QED
      BY <1>1, <2>1, <2>3, <2>4, <2>5, <2>6 DEF WaitInv
  <1>6. CASE FinishReorg
    <2>1. PushTip(Head(path), Len(blocks)) /\ EnqueueReady(queue) /\ Len(path) = 1
      BY <1>6 DEF FinishReorg
    <2>2. Head(path) \notin DOMAIN orphans
      BY <1>1, <1>2, <2>1
    <2> QED
      BY <1>2, <2>1, <2>2, TipWaits
  <1>7. CASE FailReorg
    <2>1. /\ UNCHANGED << known, orphans >> /\ active_hashes' = snapshot.active_hashes
          /\ pc' = "idle"
      BY <1>7 DEF FailReorg, Fail, Return
    <2>2. Settled' = Settled /\ active_hashes' = Settled
      BY <1>1, <2>1 DEF Settled
    <2> QED
      BY <2>1, <2>2, SameWaits
  <1> QED
    BY <1>3, <1>4, <1>5, <1>6, <1>7

LEMMA NextWaits ==
    ASSUME IInv, IInv', WaitInv, [Next]_vars
    PROVE  WaitInv'
  <1>1. CASE (\E b \in Hash : ConnectBlock(b)) \/ ConnectOrphan
    BY <1>1, OfferedBlock, OfferWaits
  <1>2. CASE CollectForkPath \/ DisconnectTip \/ ConnectForkBlock \/ FinishReorg \/ FailReorg
    BY <1>2, ReorgWaits
  <1>3. CASE (\E t \in NetworkTime : SetNetworkTime(t)) \/ PoisonedCall \/ UNCHANGED vars
    <2>1. UNCHANGED << known, orphans, active_hashes, pc, path, snapshot >>
      BY <1>3 DEF SetNetworkTime, PoisonedCall, chainVars, callVars, vars
    <2> QED
      BY <2>1, SameWaits DEF Settled, WaitInv
  <1> QED
    BY <1>1, <1>2, <1>3 DEF Next, CallStep

LEMMA InitWaits ==
    ASSUME Init
    PROVE  WaitInv
  <1> DEFINE undo == UndoOf({}, transactions[Genesis])
  <1>1. transactions[Genesis] \in Seq(Tx)
    BY ChainAssumption
  <1>2. undo \in Seq(Undo) /\ DOMAIN undo = DOMAIN transactions[Genesis]
    BY <1>1, UndoType DEF UndoOf
  <1>3. Len(undo) = Len(transactions[Genesis])
    <2> HIDE DEF undo
    <2> QED
      BY <1>1, <1>2
  <1>4. known[Genesis].undo = undo /\ active_hashes = {Genesis} /\ pc = "idle"
        /\ DOMAIN orphans = {}
    BY DEF Init
  <1>5. Cardinality({}) = 0
    BY FS_EmptySet
  <1> HIDE DEF undo
  <1> QED
    BY <1>3, <1>4, <1>5, ChainAssumption DEF WaitInv, Settled, HasUndo

\* What WaitInv says of the states in which the properties speak.
LEMMA WaitShows ==
    ASSUME IInv, WaitInv
    PROVE  OrphansWait /\ ReorgWalkSafe
  <1>1. OrphansWait
    BY DEF WaitInv, OrphansWait, Settled
  <1>2. ReorgWalkSafe
    <2>1. SUFFICES ASSUME pc = "reorg"
                   PROVE  /\ path # << >> /\ prev_blockhash[Head(path)] \in DOMAIN known
                          /\ \A i \in 2..Len(path) : prev_blockhash[path[i]] = path[i - 1]
                          /\ ~RetargetPanics(Len(blocks))
                          /\ \A i \in 1..Len(blocks) : HasUndo(blocks[i])
      BY DEF ReorgWalkSafe, HasUndo
    <2>2. path \in Seq(Hash) /\ path # << >> /\ ReorgInProgress
      BY <2>1 DEF IInv, TypeOK, ReorgInProgress
    <2>3. Len(path) \in Nat \ {0} /\ Head(path) = path[1]
      BY <2>2
    <2>4. prev_blockhash[Head(path)] \in DOMAIN known
      BY <2>2, <2>3 DEF ReorgInProgress
    <2>5. \A i \in 2..Len(path) : prev_blockhash[path[i]] = path[i - 1]
      BY <2>2, <2>3 DEF ReorgInProgress
    <2>6. ~RetargetPanics(Len(blocks))
      <3>1. Len(blocks) \in Nat
        BY DEF IInv, TypeOK
      <3> QED
        BY <3>1 DEF RetargetPanics
    <2>7. \A i \in 1..Len(blocks) : blocks[i] \in active_hashes
      BY DEF IInv, ActiveLinked, LinkedChain
    <2> QED
      BY <2>2, <2>4, <2>5, <2>6, <2>7 DEF WaitInv
  <1> QED
    BY <1>1, <1>2

-----------------------------------------------------------------------------
(* The theorems                                                             *)

\* The orphan pool and the undo data are sound in every state of connect_block.
THEOREM WaitInvariant == Spec => []WaitInv
  <1>1. Init => WaitInv
    BY InitWaits
  <1>2. IInv /\ IInv' /\ WaitInv /\ [Next]_vars => WaitInv'
    BY NextWaits
  <1> QED
    BY <1>1, <1>2, Invariance, PTL DEF Spec

\* insert_orphan keeps the pool within MAX_ORPHAN_BLOCKS and process_orphans
\* leaves no orphan behind that waits for an active block, whatever fails on the
\* way: a bad orphan, a rolled-back reorg, a panic.
THEOREM OrphansTheorem == Spec => []OrphansWait
  BY WaitInvariant, Invariance, WaitShows, PTL

\* try_reorg_to_block never meets MissingAncestor or NoActiveTip, never trips the
\* retarget assertion, and can undo every block it has to disconnect.
THEOREM ReorgWalkTheorem == Spec => []ReorgWalkSafe
  BY WaitInvariant, Invariance, WaitShows, PTL

-----------------------------------------------------------------------------
(* The unspent set                                                          *)

\* The unspent set after the first n blocks of bs.
Below(bs, n) ==
    { o \in OutPoint :
        \E i \in 1..n : \E j \in DOMAIN transactions[bs[i]] :
            /\ o \in outputs[transactions[bs[i]][j]]
            /\ \A k \in i..n : \A m \in DOMAIN transactions[bs[k]] :
                  k > i \/ m > j => o \notin Spends(transactions[bs[k]][m]) }

-----------------------------------------------------------------------------
(* Replaying a branch                                                       *)

LEMMA ReplayIsBelow ==
    ASSUME NEW bs \in Seq(Hash)
    PROVE  Replay(bs) = Below(bs, Len(bs))
  <1>1. DOMAIN bs = 1..Len(bs)
    OBVIOUS
  <1> QED
    BY <1>1 DEF Replay, Below

LEMMA BelowIncluded ==
    ASSUME NEW bs, NEW cs, NEW n \in Nat, \A i \in 1..n : bs[i] = cs[i]
    PROVE  Below(bs, n) \subseteq Below(cs, n)
  <1> SUFFICES ASSUME NEW o \in Below(bs, n)
               PROVE  o \in Below(cs, n)
    OBVIOUS
  <1>1. PICK i \in 1..n : \E j \in DOMAIN transactions[bs[i]] :
           /\ o \in outputs[transactions[bs[i]][j]]
           /\ \A k \in i..n : \A m \in DOMAIN transactions[bs[k]] :
                 k > i \/ m > j => o \notin Spends(transactions[bs[k]][m])
    BY DEF Below
  <1>2. bs[i] = cs[i] /\ \A k \in i..n : k \in 1..n /\ bs[k] = cs[k]
    BY <1>1
  <1>3. \E j \in DOMAIN transactions[cs[i]] :
           /\ o \in outputs[transactions[cs[i]][j]]
           /\ \A k \in i..n : \A m \in DOMAIN transactions[cs[k]] :
                 k > i \/ m > j => o \notin Spends(transactions[cs[k]][m])
    BY <1>1, <1>2
  <1>4. o \in OutPoint
    BY DEF Below
  <1> QED
    BY <1>3, <1>4 DEF Below

LEMMA BelowSame ==
    ASSUME NEW bs, NEW cs, NEW n \in Nat, \A i \in 1..n : bs[i] = cs[i]
    PROVE  Below(bs, n) = Below(cs, n)
  <1>1. Below(bs, n) \subseteq Below(cs, n) /\ Below(cs, n) \subseteq Below(bs, n)
    BY BelowIncluded
  <1> QED
    BY <1>1

\* One more block is one more application of its transactions.
LEMMA BelowStep ==
    ASSUME NEW bs, NEW n \in Nat, transactions[bs[n + 1]] \in Seq(Tx)
    PROVE  Below(bs, n + 1) = ApplyTransactions(Below(bs, n), transactions[bs[n + 1]])
  <1> DEFINE txs == transactions[bs[n + 1]]
  <1>1. Len(txs) \in Nat /\ DOMAIN txs = 1..Len(txs)
    OBVIOUS
  <1>2. ASSUME NEW o \in OutPoint, o \in Below(bs, n + 1)
        PROVE  o \in ApplyTransactions(Below(bs, n), txs)
    <2>0. PICK i \in 1..(n + 1) : \E j \in DOMAIN transactions[bs[i]] :
             /\ o \in outputs[transactions[bs[i]][j]]
             /\ \A k \in i..(n + 1) : \A m \in DOMAIN transactions[bs[k]] :
                   k > i \/ m > j => o \notin Spends(transactions[bs[k]][m])
      BY <1>2 DEF Below
    <2>1. PICK j \in DOMAIN transactions[bs[i]] :
             /\ o \in outputs[transactions[bs[i]][j]]
             /\ \A k \in i..(n + 1) : \A m \in DOMAIN transactions[bs[k]] :
                   k > i \/ m > j => o \notin Spends(transactions[bs[k]][m])
      BY <2>0
    <2>2. CASE i = n + 1
      <3>1. j \in 1..Len(txs) /\ o \in outputs[txs[j]]
        BY <1>1, <2>1, <2>2
      <3>2. \A m \in (j + 1)..Len(txs) : o \notin Spends(txs[m])
        BY <1>1, <2>1, <2>2, <3>1
      <3> QED
        BY <1>1, <3>1, <3>2 DEF ApplyTransactions, ViewBefore
    <2>3. CASE i \in 1..n
      <3>1. \A k \in i..n : k \in i..(n + 1)
        BY <2>3
      <3>2. o \in Below(bs, n)
        BY <2>1, <2>3, <3>1 DEF Below
      <3>3. n + 1 \in i..(n + 1) /\ n + 1 > i
        BY <2>3
      <3>4. \A m \in 1..Len(txs) : o \notin Spends(txs[m])
        BY <1>1, <2>1, <3>3
      <3> QED
        BY <1>1, <3>2, <3>4 DEF ApplyTransactions, ViewBefore
    <2> QED
      BY <2>2, <2>3
  <1>3. ASSUME NEW o \in OutPoint, o \in ApplyTransactions(Below(bs, n), txs)
        PROVE  o \in Below(bs, n + 1)
    <2>1. CASE o \in Below(bs, n) /\ \A m \in 1..Len(txs) : o \notin Spends(txs[m])
      <3>0. PICK i \in 1..n : \E j \in DOMAIN transactions[bs[i]] :
               /\ o \in outputs[transactions[bs[i]][j]]
               /\ \A k \in i..n : \A m \in DOMAIN transactions[bs[k]] :
                     k > i \/ m > j => o \notin Spends(transactions[bs[k]][m])
        BY <2>1 DEF Below
      <3>1. PICK j \in DOMAIN transactions[bs[i]] :
               /\ o \in outputs[transactions[bs[i]][j]]
               /\ \A k \in i..n : \A m \in DOMAIN transactions[bs[k]] :
                     k > i \/ m > j => o \notin Spends(transactions[bs[k]][m])
        BY <3>0
      <3>2. \A k \in i..(n + 1) : k \in i..n \/ k = n + 1
        OBVIOUS
      <3>3. \A k \in i..(n + 1) : \A m \in DOMAIN transactions[bs[k]] :
               k > i \/ m > j => o \notin Spends(transactions[bs[k]][m])
        BY <1>1, <2>1, <3>1, <3>2
      <3>4. i \in 1..(n + 1)
        OBVIOUS
      <3> QED
        BY <3>1, <3>3, <3>4 DEF Below
    <2>2. CASE \E j \in 1..Len(txs) :
                  /\ o \in outputs[txs[j]]
                  /\ \A m \in (j + 1)..Len(txs) : o \notin Spends(txs[m])
      <3>1. PICK j \in 1..Len(txs) :
               /\ o \in outputs[txs[j]]
               /\ \A m \in (j + 1)..Len(txs) : o \notin Spends(txs[m])
        BY <2>2
      <3>2. \A m \in 1..Len(txs) : m > j => m \in (j + 1)..Len(txs)
        BY <1>1
      <3>3. \A k \in (n + 1)..(n + 1) : k = n + 1
        OBVIOUS
      <3>4. \A k \in (n + 1)..(n + 1) : \A m \in DOMAIN transactions[bs[k]] :
               k > n + 1 \/ m > j => o \notin Spends(transactions[bs[k]][m])
        BY <1>1, <3>1, <3>2, <3>3
      <3>5. n + 1 \in 1..(n + 1)
        OBVIOUS
      <3> QED
        BY <1>1, <3>1, <3>4, <3>5 DEF Below
    <2> QED
      BY <1>1, <1>3, <2>1, <2>2 DEF ApplyTransactions, ViewBefore
  <1>4. Below(bs, n + 1) \subseteq OutPoint /\ ApplyTransactions(Below(bs, n), txs) \subseteq OutPoint
    BY DEF Below, ApplyTransactions, ViewBefore
  <1> QED
    BY <1>2, <1>3, <1>4

-----------------------------------------------------------------------------
(* Undoing a block                                                          *)

LEMMA LeastOf ==
    ASSUME NEW T \in SUBSET Nat, T # {}
    PROVE  Min(T) \in T /\ \A y \in T : Min(T) <= y
  BY Smallest DEF Min

\* disconnect_undo takes back what apply_transactions did, provided the block
\* creates no outpoint that was there before it.
LEMMA UndoReverts ==
    ASSUME NEW U \in SUBSET OutPoint, NEW txs \in Seq(Tx),
           \A i \in DOMAIN txs : outputs[txs[i]] \cap U = {}
    PROVE  DisconnectUndo(ApplyTransactions(U, txs), UndoOf(U, txs)) = U
  <1> DEFINE undo == UndoOf(U, txs)
             Touching(o) == { i \in DOMAIN undo : o \in undo[i].removed \cup undo[i].created }
  <1>1. Len(txs) \in Nat /\ DOMAIN txs = 1..Len(txs) /\ DOMAIN undo = 1..Len(txs)
    BY DEF UndoOf
  <1>2. \A i \in 1..Len(txs) : /\ undo[i].removed = Spends(txs[i]) \cap ViewBefore(U, txs, i)
                               /\ undo[i].created = outputs[txs[i]]
    BY <1>1 DEF UndoOf
  <1>3. \A o \in OutPoint : Touching(o) \in SUBSET Nat
    BY <1>1
  <1>4. ASSUME NEW o \in OutPoint, o \in U
        PROVE  IF Touching(o) = {} THEN o \in ApplyTransactions(U, txs)
               ELSE o \in undo[Min(Touching(o))].removed
    <2>1. \A i \in 1..Len(txs) : o \notin outputs[txs[i]]
      BY <1>1, <1>4
    <2>2. CASE Touching(o) = {}
      <3> DEFINE spent == { k \in 1..Len(txs) : o \in Spends(txs[k]) }
      <3>1. spent = {}
        <4> SUFFICES ASSUME spent # {} PROVE FALSE
          OBVIOUS
        <4>1. spent \in SUBSET Nat
          OBVIOUS
        <4>2. PICK k \in spent : \A y \in spent : k <= y
          <5> HIDE DEF spent
          <5> QED
            BY <4>1, Smallest
        <4>3. \A y \in 1..(k - 1) : y \in 1..Len(txs) /\ ~(k <= y)
          BY <1>1
        <4>4. \A y \in 1..(k - 1) : o \notin Spends(txs[y])
          BY <4>2, <4>3
        <4>5. o \in ViewBefore(U, txs, k)
          BY <1>4, <4>4 DEF ViewBefore
        <4>6. k \in 1..Len(txs) /\ o \in Spends(txs[k])
          OBVIOUS
        <4>7. o \in undo[k].removed /\ k \in DOMAIN undo
          BY <1>1, <1>2, <4>5, <4>6
        <4>8. k \in Touching(o)
          BY <4>7
        <4> QED
          BY <2>2, <4>8
      <3>2. \A k \in 1..Len(txs) : o \notin Spends(txs[k])
        BY <3>1
      <3>3. o \in ApplyTransactions(U, txs)
        BY <1>1, <1>4, <3>2 DEF ApplyTransactions, ViewBefore
      <3> QED
        BY <2>2, <3>3
    <2>3. CASE Touching(o) # {}
      <3>1. Min(Touching(o)) \in Touching(o)
        <4> HIDE DEF Touching
        <4> QED
          BY <1>3, <2>3, LeastOf
      <3>2. PICK i \in 1..Len(txs) : i = Min(Touching(o)) /\ o \in undo[i].removed \cup undo[i].created
        BY <1>1, <3>1
      <3>3. o \in undo[i].removed
        BY <1>2, <2>1, <3>2
      <3> QED
        BY <2>3, <3>2, <3>3
    <2> QED
      BY <2>2, <2>3
  <1>5. ASSUME NEW o \in OutPoint, o \notin U
        PROVE  ~(IF Touching(o) = {} THEN o \in ApplyTransactions(U, txs)
                 ELSE o \in undo[Min(Touching(o))].removed)
    <2>1. CASE Touching(o) = {}
      <3>1. \A i \in 1..Len(txs) : o \notin outputs[txs[i]]
        BY <1>1, <1>2, <2>1
      <3>2. o \notin ApplyTransactions(U, txs)
        BY <1>1, <1>5, <3>1 DEF ApplyTransactions, ViewBefore
      <3> QED
        BY <2>1, <3>2
    <2>2. CASE Touching(o) # {}
      <3> DEFINE i == Min(Touching(o))
      <3>1. i \in Touching(o) /\ \A y \in Touching(o) : i <= y
        <4> HIDE DEF Touching
        <4> QED
          BY <1>3, <2>2, LeastOf
      <3> HIDE DEF i
      <3>2. i \in 1..Len(txs)
        BY <1>1, <3>1
      <3>3. \A j \in 1..(i - 1) : j \in 1..Len(txs) /\ ~(i <= j)
        BY <1>1, <3>2
      <3>4. \A j \in 1..(i - 1) : o \notin outputs[txs[j]]
        BY <1>1, <1>2, <3>1, <3>3
      <3>5. o \notin ViewBefore(U, txs, i)
        BY <1>5, <3>4 DEF ViewBefore
      <3>6. o \notin undo[i].removed
        BY <1>2, <3>2, <3>5
      <3> QED
        BY <2>2, <3>6 DEF i
    <2> QED
      BY <2>1, <2>2
  <1>6. DisconnectUndo(ApplyTransactions(U, txs), undo) =
          { o \in OutPoint : IF Touching(o) = {} THEN o \in ApplyTransactions(U, txs)
                             ELSE o \in undo[Min(Touching(o))].removed }
    BY DEF DisconnectUndo
  <1> HIDE DEF undo, Touching
  <1>7. DisconnectUndo(ApplyTransactions(U, txs), undo) = U
    BY <1>4, <1>5, <1>6
  <1> QED
    BY <1>7 DEF undo

-----------------------------------------------------------------------------
(* The invariant                                                            *)

\* A branch from genesis, as far as the links go.
Branch(bs) ==
    /\ bs \in Seq(Hash) /\ bs # << >> /\ bs[1] = Genesis
    /\ \A i \in 2..Len(bs) : prev_blockhash[bs[i]] = bs[i - 1]

\* No block creates an outpoint that is unspent on the branch below it (the rule of
\* BIP 30, which the code does not check: two equal coinbases would break it).
NoOverwrite ==
    \A bs \in Seq(Hash), b \in Hash :
        Branch(bs) /\ prev_blockhash[b] = bs[Len(bs)] =>
            \A j \in DOMAIN transactions[b] :
                outputs[transactions[b][j]] \cap Below(bs, Len(bs)) = {}

\* Block i of bs is valid on the ones below it, and its undo data are those of
\* applying it there.
KeptBlock(bs, i) ==
    /\ known[bs[i]].undo = UndoOf(Below(bs, i - 1), transactions[bs[i]])
    /\ i > 1 => ValidTransactions(Below(bs, i - 1), transactions[bs[i]])

Replayed(bs, U) ==
    /\ U = Below(bs, Len(bs))
    /\ \A i \in 1..Len(bs) : KeptBlock(bs, i)

\* The active state, and the one a failing reorg goes back to.  A fork path leaves
\* the active chain at its first block and is collected before any disconnect.
ReplayInv ==
    /\ Replayed(blocks, utxo)
    /\ pc = "reorg" =>
          /\ Replayed(snapshot.blocks, snapshot.utxo)
          /\ \A i \in 1..Len(path) : path[i] \notin snapshot.active_hashes
          /\ prev_blockhash[Head(path)] \notin active_hashes =>
                active_hashes = snapshot.active_hashes

-----------------------------------------------------------------------------
(* Steps shared by the actions                                              *)

\* What is said of block i speaks of the first i blocks only.
LEMMA KeptSame ==
    ASSUME NEW bs, NEW cs, NEW i \in Nat \ {0}, \A k \in 1..i : cs[k] = bs[k],
           KeptBlock(bs, i), known'[bs[i]].undo = known[bs[i]].undo
    PROVE  KeptBlock(cs, i)'
  <1>1. i - 1 \in Nat /\ \A k \in 1..(i - 1) : bs[k] = cs[k]
    OBVIOUS
  <1>2. Below(bs, i - 1) = Below(cs, i - 1) /\ cs[i] = bs[i]
    BY <1>1, BelowSame
  <1>3. known'[cs[i]].undo = UndoOf(Below(cs, i - 1), transactions[cs[i]])
    BY <1>2 DEF KeptBlock
  <1>4. i > 1 => ValidTransactions(Below(cs, i - 1), transactions[cs[i]])
    BY <1>2 DEF KeptBlock
  <1> QED
    BY <1>3, <1>4 DEF KeptBlock

\* A branch whose blocks keep their undo data stays as it is.
LEMMA ReplayedSame ==
    ASSUME NEW bs \in Seq(Hash), NEW U, Replayed(bs, U),
           \A i \in 1..Len(bs) : known'[bs[i]].undo = known[bs[i]].undo
    PROVE  U = Below(bs, Len(bs)) /\ \A i \in 1..Len(bs) : KeptBlock(bs, i)'
  <1>1. ASSUME NEW i \in 1..Len(bs)
        PROVE  KeptBlock(bs, i)'
    <2>1. i \in Nat \ {0} /\ KeptBlock(bs, i) /\ known'[bs[i]].undo = known[bs[i]].undo
      BY DEF Replayed
    <2> QED
      BY <2>1, KeptSame
  <1> QED
    BY <1>1 DEF Replayed

\* A block on the tip is not on the active chain.
LEMMA NewOnTip ==
    ASSUME IInv, NEW b \in Hash, prev_blockhash[b] = Tip, b # Genesis
    PROVE  b \notin active_hashes
  <1>1. SUFFICES ASSUME NEW i \in 1..Len(blocks), b = blocks[i] PROVE FALSE
    BY DEF IInv, ActiveLinked, LinkedChain
  <1>2. /\ Len(blocks) \in Nat /\ known[Tip].height = Len(blocks) - 1 /\ b \in DOMAIN known
    BY <1>1, ActiveFacts DEF IInv
  <1>3. known[b].height = i - 1
    BY <1>1 DEF IInv, ActiveLinked, LinkedChain
  <1>4. known[b].height = known[Tip].height + 1
    BY <1>2 DEF IInv, TreeConsistent
  <1> QED
    BY <1>2, <1>3, <1>4

\* A valid block is pushed on the tip.
LEMMA PushReplayed ==
    ASSUME IInv, Replayed(blocks, utxo), NEW b \in Hash, b # Genesis, prev_blockhash[b] = Tip,
           ValidForParent(b, Len(blocks)), PushTip(b, Len(blocks))
    PROVE  Replayed(blocks, utxo)'
  <1>0. PICK n : n = Len(blocks)
    OBVIOUS
  <1> DEFINE txs == transactions[b]
  <1>1. n \in Nat \ {0} /\ blocks \in Seq(Hash) /\ txs \in Seq(Tx) /\ blocks' = Append(blocks, b)
        /\ utxo' = ApplyTransactions(utxo, txs) /\ utxo = Below(blocks, n)
    BY <1>0, ChainAssumption DEF PushTip, IInv, TypeOK, Replayed
  <1>2. /\ Len(blocks') = n + 1 /\ blocks'[n + 1] = b
        /\ \A k \in 1..n : blocks'[k] = blocks[k]
    BY <1>0, <1>1
  <1>3. b \notin active_hashes
    BY NewOnTip
  <1>4. /\ known'[b].undo = UndoOf(utxo, txs)
        /\ \A h \in DOMAIN known : h # b => known'[h] = known[h]
    BY DEF PushTip, KnownWith
  <1>5. Below(blocks', n) = utxo
    BY <1>1, <1>2, BelowSame
  <1>6. utxo' = Below(blocks', n + 1)
    <2>1. transactions[blocks'[n + 1]] \in Seq(Tx) /\ n \in Nat
      BY <1>1, <1>2
    <2>2. Below(blocks', n + 1) = ApplyTransactions(Below(blocks', n), transactions[blocks'[n + 1]])
      BY <2>1, BelowStep
    <2> QED
      BY <1>1, <1>2, <1>5, <2>2
  <1>7. KeptBlock(blocks, n + 1)'
    <2>1. ValidTransactions(utxo, txs)
      BY DEF ValidForParent
    <2>2. (n + 1) - 1 = n
      BY <1>1
    <2>3. known'[blocks'[n + 1]].undo = UndoOf(Below(blocks', (n + 1) - 1), transactions[blocks'[n + 1]])
      BY <1>2, <1>4, <1>5, <2>2
    <2>4. ValidTransactions(Below(blocks', (n + 1) - 1), transactions[blocks'[n + 1]])
      BY <1>2, <1>5, <2>1, <2>2
    <2> QED
      BY <2>3, <2>4 DEF KeptBlock
  <1>8. ASSUME NEW i \in 1..n
        PROVE  KeptBlock(blocks, i)'
    <2>1. i \in Nat \ {0} /\ \A k \in 1..i : blocks'[k] = blocks[k]
      BY <1>1, <1>2
    <2>2. blocks[i] \in active_hashes /\ blocks[i] \in DOMAIN known
      BY <1>0 DEF IInv, ActiveLinked, LinkedChain
    <2>3. known'[blocks[i]].undo = known[blocks[i]].undo
      BY <1>3, <1>4, <2>2
    <2>4. KeptBlock(blocks, i)
      BY <1>0 DEF Replayed
    <2> QED
      BY <2>1, <2>3, <2>4, KeptSame
  <1>9. \A i \in 1..(n + 1) : i \in 1..n \/ i = n + 1
    BY <1>1
  <1> QED
    BY <1>2, <1>6, <1>7, <1>8, <1>9 DEF Replayed

\* Neither the active chain nor the undo data of its blocks change.
LEMMA ActiveStays ==
    ASSUME IInv, Replayed(blocks, utxo), UNCHANGED << blocks, utxo >>,
           \A h \in active_hashes : known'[h].undo = known[h].undo
    PROVE  Replayed(blocks, utxo)'
  <1>1. blocks \in Seq(Hash) /\ \A i \in 1..Len(blocks) : blocks[i] \in active_hashes
    BY DEF IInv, TypeOK, ActiveLinked, LinkedChain
  <1>2. \A i \in 1..Len(blocks) : known'[blocks[i]].undo = known[blocks[i]].undo
    BY <1>1
  <1>3. utxo = Below(blocks, Len(blocks)) /\ \A i \in 1..Len(blocks) : KeptBlock(blocks, i)'
    BY <1>1, <1>2, ReplayedSame
  <1> QED
    BY <1>3 DEF Replayed

\* The same of the chain a failing reorg goes back to.
LEMMA SnapshotReplayed ==
    ASSUME IInv, ReplayInv, pc = "reorg",
           \A h \in snapshot.active_hashes : known'[h].undo = known[h].undo
    PROVE  /\ snapshot.utxo = Below(snapshot.blocks, Len(snapshot.blocks))
           /\ \A i \in 1..Len(snapshot.blocks) :
                 \A cs : cs = snapshot.blocks => KeptBlock(cs, i)'
  <1>0. PICK bs : bs = snapshot.blocks
    OBVIOUS
  <1>1. bs \in Seq(Hash) /\ \A i \in 1..Len(bs) : bs[i] \in snapshot.active_hashes
    BY <1>0 DEF IInv, TypeOK, State, ReorgInProgress, LinkedChain
  <1>2. \A i \in 1..Len(bs) : known'[bs[i]].undo = known[bs[i]].undo
    BY <1>1
  <1>3. Replayed(bs, snapshot.utxo)
    BY <1>0 DEF ReplayInv
  <1>4. snapshot.utxo = Below(bs, Len(bs)) /\ \A i \in 1..Len(bs) : KeptBlock(bs, i)'
    BY <1>1, <1>2, <1>3, ReplayedSame
  <1> QED
    BY <1>0, <1>4

-----------------------------------------------------------------------------
(* The actions                                                              *)

LEMMA OfferReplayed ==
    ASSUME IInv, ReplayInv, pc # "reorg", NEW b \in Hash, NEW q \in Seq(Hash),
           \/ RefuseBlock(b) \/ PanicBlock(b) \/ AddOrphan(b)
           \/ ExtendTip(b, q) \/ StoreSideChain(b, q) \/ BeginReorg(b, q)
    PROVE  ReplayInv'
  <1>0. Replayed(blocks, utxo)
    BY DEF ReplayInv
  <1>1. CASE RefuseBlock(b) \/ PanicBlock(b) \/ AddOrphan(b)
    <2>1. UNCHANGED << known, blocks, utxo >> /\ pc' = "idle"
      BY <1>1 DEF RefuseBlock, PanicBlock, AddOrphan, Fail, Return, chainVars
    <2>2. Replayed(blocks, utxo)'
      BY <1>0, <2>1, ActiveStays
    <2> QED
      BY <2>1, <2>2 DEF ReplayInv
  <1>2. CASE ExtendTip(b, q)
    <2>1. /\ Len(blocks) \in Nat /\ known[Tip].height = Len(blocks) - 1 /\ Genesis \in DOMAIN known
      BY ActiveFacts DEF IInv
    <2>2. b \notin DOMAIN known /\ prev_blockhash[b] = Tip /\ pc' # "reorg"
      BY <1>2 DEF ExtendTip, Acceptable, Attachable, EnqueueReady
    <2>3. HeightOf(b) = Len(blocks)
      BY <2>1, <2>2 DEF HeightOf
    <2>4. PushTip(b, Len(blocks)) /\ ValidForParent(b, Len(blocks)) /\ b # Genesis
      BY <1>2, <2>1, <2>2, <2>3 DEF ExtendTip, Acceptable
    <2>5. Replayed(blocks, utxo)'
      BY <1>0, <2>2, <2>4, PushReplayed
    <2> QED
      BY <2>2, <2>5 DEF ReplayInv
  <1>3. CASE StoreSideChain(b, q)
    <2>1. /\ b \notin DOMAIN known /\ UNCHANGED << blocks, utxo >>
          /\ known' = KnownWith(b, HeightOf(b), CandidateWork(b), << >>)
          /\ EnqueueReady(q) \/ Return("SideChain")
      BY <1>3 DEF StoreSideChain, Acceptable, Attachable
    <2>2. \A h \in DOMAIN known : known'[h] = known[h]
      BY <2>1 DEF KnownWith
    <2>3. \A h \in active_hashes : known'[h].undo = known[h].undo
      BY <2>2, ActiveKnown
    <2>4. Replayed(blocks, utxo)'
      BY <1>0, <2>1, <2>3, ActiveStays
    <2>5. pc' # "reorg"
      BY <2>1 DEF EnqueueReady, Return
    <2> QED
      BY <2>4, <2>5 DEF ReplayInv
  <1>4. CASE BeginReorg(b, q)
    <2>1. /\ UNCHANGED << known, active_hashes, blocks, utxo >> /\ pc' = "reorg" /\ path' = << b >>
          /\ snapshot' = ActiveState /\ b \notin DOMAIN known
      BY <1>4 DEF BeginReorg, Acceptable, Attachable, chainVars
    <2>2. Replayed(blocks, utxo)'
      BY <1>0, <2>1, ActiveStays
    <2>3. /\ snapshot'.blocks = blocks' /\ snapshot'.utxo = utxo'
          /\ snapshot'.active_hashes = active_hashes'
      BY <2>1 DEF ActiveState
    <2>4. Replayed(snapshot.blocks, snapshot.utxo)'
      BY <2>2, <2>3 DEF Replayed
    <2>5. b \notin active_hashes'
      BY <2>1, ActiveKnown
    <2>6. \A i \in 1..Len(path') : path'[i] = b
      BY <2>1
    <2> QED
      BY <2>2, <2>3, <2>4, <2>5, <2>6 DEF ReplayInv
  <1> QED
    BY <1>1, <1>2, <1>3, <1>4

LEMMA CollectReplayed ==
    ASSUME IInv, ReplayInv, CollectForkPath
    PROVE  ReplayInv'
  <1>1. /\ UNCHANGED << known, active_hashes, blocks, utxo, snapshot >> /\ pc = "reorg"
        /\ prev_blockhash[Head(path)] \notin active_hashes
        /\ path' = << prev_blockhash[Head(path)] >> \o path
    BY DEF CollectForkPath, chainVars
  <1>2. active_hashes = snapshot.active_hashes /\ Replayed(blocks, utxo)
    BY <1>1 DEF ReplayInv
  <1>3. Replayed(blocks, utxo)'
    BY <1>1, <1>2, ActiveStays
  <1>4. Replayed(snapshot.blocks, snapshot.utxo)'
    BY <1>1, SnapshotReplayed DEF Replayed
  <1>5. prev_blockhash[Head(path)] \in Hash /\ path \in Seq(Hash)
    BY <1>1, PathFacts DEF IInv, TypeOK
  <1>6. \A i \in 1..Len(path') : path'[i] \notin snapshot.active_hashes
    <2>1. /\ Len(path') = Len(path) + 1 /\ path'[1] = prev_blockhash[Head(path)]
          /\ \A i \in 2..(Len(path) + 1) : path'[i] = path[i - 1]
      BY <1>1, <1>5
    <2>2. ASSUME NEW i \in 2..(Len(path) + 1)
          PROVE  path[i - 1] \notin snapshot.active_hashes
      <3>1. i - 1 \in 1..Len(path)
        BY <1>5
      <3> QED
        BY <1>1, <3>1 DEF ReplayInv
    <2>3. \A i \in 1..(Len(path) + 1) : i = 1 \/ i \in 2..(Len(path) + 1)
      BY <1>5
    <2> QED
      BY <1>1, <1>2, <2>1, <2>2, <2>3
  <1> QED
    BY <1>1, <1>2, <1>3, <1>4, <1>6 DEF ReplayInv

\* The undo data of the tip take the set back to the replay of the blocks below.
LEMMA DisconnectReplayed ==
    ASSUME NoOverwrite, IInv, ReplayInv, DisconnectTip
    PROVE  ReplayInv'
  <1>0. PICK n : n = Len(blocks) - 1
    OBVIOUS
  <1>1. /\ pc = "reorg" /\ prev_blockhash[Head(path)] \in active_hashes
        /\ prev_blockhash[Head(path)] # Tip
        /\ blocks' = Front(blocks) /\ active_hashes' = active_hashes \ {Tip}
        /\ utxo' = DisconnectUndo(utxo, known[Tip].undo)
        /\ UNCHANGED << known, pc, path, snapshot >>
    BY DEF DisconnectTip, callVars
  <1>2. Len(blocks) \in Nat /\ Len(blocks) >= 1 /\ Tip = blocks[Len(blocks)] /\ blocks \in Seq(Hash)
    BY ActiveFacts DEF IInv, TypeOK
  <1>3. n >= 1 /\ n \in Nat
    <2>1. PICK i \in 1..Len(blocks) : prev_blockhash[Head(path)] = blocks[i]
      BY <1>1 DEF IInv, ActiveLinked, LinkedChain
    <2> QED
      BY <1>0, <1>1, <1>2, <2>1
  <1>4. /\ blocks' \in Seq(Hash) /\ Len(blocks') = n
        /\ \A i \in 1..n : blocks'[i] = blocks[i]
    BY <1>0, <1>1, <1>2, <1>3 DEF Front
  <1> DEFINE U == Below(blocks, n)
             txs == transactions[Tip]
  <1>5. Tip = blocks[n + 1] /\ n + 1 = Len(blocks) /\ n + 1 \in 1..Len(blocks) /\ Tip \in Hash
    BY <1>0, <1>2, <1>3
  <1>6. txs \in Seq(Tx)
    BY <1>5, ChainAssumption
  <1>7. utxo = ApplyTransactions(U, txs) /\ known[Tip].undo = UndoOf(U, txs)
    <2>1. (n + 1) - 1 = n
      BY <1>3
    <2>2. KeptBlock(blocks, n + 1) /\ utxo = Below(blocks, n + 1)
      BY <1>5 DEF ReplayInv, Replayed
    <2>3. Below(blocks, n + 1) = ApplyTransactions(U, txs)
      BY <1>3, <1>5, <1>6, BelowStep
    <2> QED
      BY <1>5, <2>1, <2>2, <2>3 DEF KeptBlock
  <1>8. Below(blocks', n) = U
    BY <1>3, <1>4, BelowSame
  <1>9. \A j \in DOMAIN txs : outputs[txs[j]] \cap U = {}
    <2>1. Branch(blocks')
      <3>1. blocks'[1] = Genesis /\ blocks' # << >>
        BY <1>3, <1>4 DEF IInv, ActiveLinked, LinkedChain
      <3>2. ASSUME NEW i \in 2..n
            PROVE  prev_blockhash[blocks'[i]] = blocks'[i - 1]
        <4>1. i \in 1..n /\ i - 1 \in 1..n /\ i \in 1..Len(blocks) /\ i > 1
          BY <1>3, <1>5
        <4>2. prev_blockhash[blocks[i]] = blocks[i - 1]
          BY <4>1 DEF IInv, ActiveLinked, LinkedChain
        <4> QED
          BY <1>4, <4>1, <4>2
      <3> QED
        BY <1>4, <3>1, <3>2 DEF Branch
    <2>2. prev_blockhash[Tip] = blocks'[n]
      <3>1. n + 1 > 1 /\ n \in 1..n /\ (n + 1) - 1 = n
        BY <1>3
      <3>2. prev_blockhash[blocks[n + 1]] = blocks[(n + 1) - 1]
        BY <1>5, <3>1 DEF IInv, ActiveLinked, LinkedChain
      <3> QED
        BY <1>4, <1>5, <3>1, <3>2
    <2>3. \A j \in DOMAIN transactions[Tip] :
             outputs[transactions[Tip][j]] \cap Below(blocks', Len(blocks')) = {}
      BY <1>4, <1>5, <2>1, <2>2 DEF NoOverwrite
    <2> QED
      BY <1>4, <1>8, <2>3
  <1>10. utxo' = Below(blocks', n)
    <2>1. U \in SUBSET OutPoint
      BY DEF Below
    <2>2. DisconnectUndo(ApplyTransactions(U, txs), UndoOf(U, txs)) = U
      <3> HIDE DEF U, txs
      <3> QED
        BY <1>6, <1>9, <2>1, UndoReverts
    <2> QED
      BY <1>1, <1>7, <1>8, <2>2
  <1>11. ASSUME NEW i \in 1..n
         PROVE  KeptBlock(blocks, i)'
    <2>1. i \in Nat \ {0} /\ i \in 1..Len(blocks) /\ \A k \in 1..i : blocks'[k] = blocks[k]
      BY <1>3, <1>4, <1>5
    <2>2. KeptBlock(blocks, i)
      BY <2>1 DEF ReplayInv, Replayed
    <2> QED
      BY <1>1, <2>1, <2>2, KeptSame
  <1>12. Replayed(blocks, utxo)'
    BY <1>4, <1>10, <1>11 DEF Replayed
  <1>13. Replayed(snapshot.blocks, snapshot.utxo)'
    BY <1>1, SnapshotReplayed DEF Replayed
  <1> QED
    BY <1>1, <1>12, <1>13 DEF ReplayInv

\* A block of the new branch becomes the tip.
LEMMA ForkBlockReplayed ==
    ASSUME IInv, ReplayInv, ReadyToConnect, ValidForParent(Head(path), Len(blocks)),
           PushTip(Head(path), Len(blocks))
    PROVE  /\ Replayed(blocks, utxo)'
           /\ \A h \in snapshot.active_hashes : known'[h].undo = known[h].undo
  <1>1. /\ pc = "reorg" /\ prev_blockhash[Head(path)] = Tip
    BY DEF ReadyToConnect
  <1>2. Head(path) \in Hash /\ Head(path) # Genesis /\ Head(path) = path[1] /\ 1 \in 1..Len(path)
    BY <1>1, PathFacts
  <1>3. Replayed(blocks, utxo)
    BY DEF ReplayInv
  <1>4. Replayed(blocks, utxo)'
    BY <1>1, <1>2, <1>3, PushReplayed
  <1>5. Head(path) \notin snapshot.active_hashes
    BY <1>1, <1>2 DEF ReplayInv
  <1>6. snapshot.active_hashes \subseteq DOMAIN known
    BY <1>1, ActiveKnown DEF Settled
  <1>7. \A h \in DOMAIN known : h # Head(path) => known'[h] = known[h]
    BY DEF PushTip, KnownWith
  <1> QED
    BY <1>4, <1>5, <1>6, <1>7

LEMMA ReorgReplayed ==
    ASSUME NoOverwrite, IInv, ReplayInv,
           CollectForkPath \/ DisconnectTip \/ ConnectForkBlock \/ FinishReorg \/ FailReorg
    PROVE  ReplayInv'
  <1>1. CASE CollectForkPath
    BY <1>1, CollectReplayed
  <1>2. CASE DisconnectTip
    BY <1>2, DisconnectReplayed
  <1>3. CASE ConnectForkBlock
    <2>1. /\ ReadyToConnect /\ ValidForParent(Head(path), Len(blocks))
          /\ PushTip(Head(path), Len(blocks)) /\ path' = Tail(path) /\ Len(path) > 1
          /\ UNCHANGED << pc, snapshot >>
      BY <1>3 DEF ConnectForkBlock
    <2>2. /\ Replayed(blocks, utxo)'
          /\ \A h \in snapshot.active_hashes : known'[h].undo = known[h].undo
      BY <2>1, ForkBlockReplayed
    <2>3. pc = "reorg" /\ path \in Seq(Hash) /\ ReorgInProgress
      BY <2>1 DEF ReadyToConnect, IInv, TypeOK
    <2>4. Replayed(snapshot.blocks, snapshot.utxo)'
      BY <2>1, <2>2, <2>3, SnapshotReplayed DEF Replayed
    <2>5. /\ Len(path') = Len(path) - 1
          /\ \A i \in 1..(Len(path) - 1) : path'[i] = path[i + 1] /\ i + 1 \in 1..Len(path)
      BY <2>1, <2>3
    <2>6. \A i \in 1..Len(path') : path'[i] \notin snapshot'.active_hashes
      BY <2>1, <2>3, <2>5 DEF ReplayInv
    <2>7. prev_blockhash[Head(path')] \in active_hashes'
      <3>1. 2 \in 1..Len(path) /\ Head(path') = path[2] /\ Head(path) = path[1] /\ 2 > 1 /\ 2 - 1 = 1
        BY <2>1, <2>3, <2>5
      <3>2. prev_blockhash[path[2]] = path[2 - 1]
        BY <2>3, <3>1 DEF ReorgInProgress
      <3>3. Head(path) \in active_hashes'
        BY <2>1 DEF PushTip
      <3> QED
        BY <3>1, <3>2, <3>3
    <2> QED
      BY <2>2, <2>4, <2>6, <2>7 DEF ReplayInv
  <1>4. CASE FinishReorg
    <2>1. /\ ReadyToConnect /\ ValidForParent(Head(path), Len(blocks))
          /\ PushTip(Head(path), Len(blocks)) /\ EnqueueReady(queue)
      BY <1>4 DEF FinishReorg
    <2>2. Replayed(blocks, utxo)'
      BY <2>1, ForkBlockReplayed
    <2> QED
      BY <2>1, <2>2 DEF ReplayInv, EnqueueReady
  <1>5. CASE FailReorg
    <2>1. /\ pc = "reorg" /\ pc' = "idle" /\ known' = known
          /\ blocks' = snapshot.blocks /\ utxo' = snapshot.utxo
      BY <1>5 DEF FailReorg, ReadyToConnect, Fail, Return
    <2>2. /\ snapshot.utxo = Below(snapshot.blocks, Len(snapshot.blocks))
          /\ \A i \in 1..Len(snapshot.blocks) :
                \A cs : cs = snapshot.blocks => KeptBlock(cs, i)'
      BY <2>1, SnapshotReplayed
    <2>3. Replayed(blocks, utxo)'
      BY <2>1, <2>2 DEF Replayed
    <2> QED
      BY <2>1, <2>3 DEF ReplayInv
  <1> QED
    BY <1>1, <1>2, <1>3, <1>4, <1>5

LEMMA NextReplayed ==
    ASSUME NoOverwrite, IInv, ReplayInv, [Next]_vars
    PROVE  ReplayInv'
  <1>1. CASE (\E b \in Hash : ConnectBlock(b)) \/ ConnectOrphan
    BY <1>1, OfferedBlock, OfferReplayed
  <1>2. CASE CollectForkPath \/ DisconnectTip \/ ConnectForkBlock \/ FinishReorg \/ FailReorg
    BY <1>2, ReorgReplayed
  <1>3. CASE (\E t \in NetworkTime : SetNetworkTime(t)) \/ PoisonedCall \/ UNCHANGED vars
    <2>1. UNCHANGED << known, active_hashes, blocks, utxo, pc, path, snapshot >>
      BY <1>3 DEF SetNetworkTime, PoisonedCall, chainVars, callVars, vars
    <2>2. Replayed(blocks, utxo)'
      BY <2>1, ActiveStays DEF ReplayInv
    <2>3. pc = "reorg" => Replayed(snapshot.blocks, snapshot.utxo)'
      BY <2>1, SnapshotReplayed DEF Replayed
    <2> QED
      BY <2>1, <2>2, <2>3 DEF ReplayInv
  <1> QED
    BY <1>1, <1>2, <1>3 DEF Next, CallStep

LEMMA InitReplayed ==
    ASSUME Init
    PROVE  ReplayInv
  <1>1. /\ blocks = << Genesis >> /\ known[Genesis].undo = UndoOf({}, transactions[Genesis])
        /\ utxo = ApplyTransactions({}, transactions[Genesis]) /\ pc = "idle"
    BY DEF Init
  <1>2. Len(blocks) = 1 /\ blocks[1] = Genesis /\ transactions[Genesis] \in Seq(Tx)
    BY <1>1, ChainAssumption
  <1>3. Below(blocks, 0) = {}
    BY DEF Below
  <1>4. Below(blocks, 1) = utxo
    <2>1. 0 + 1 = 1 /\ 0 \in Nat
      OBVIOUS
    <2>2. Below(blocks, 0 + 1) = ApplyTransactions(Below(blocks, 0), transactions[blocks[0 + 1]])
      BY <1>2, <2>1, BelowStep
    <2> QED
      BY <1>1, <1>2, <1>3, <2>1, <2>2
  <1>5. KeptBlock(blocks, 1)
    <2>1. 1 - 1 = 0 /\ ~(1 > 1)
      OBVIOUS
    <2>2. known[blocks[1]].undo = UndoOf(Below(blocks, 1 - 1), transactions[blocks[1]])
      <3>1. Below(blocks, 1 - 1) = {}
        BY <1>3, <2>1
      <3> QED
        BY <1>1, <1>2, <3>1
    <2> QED
      BY <2>1, <2>2 DEF KeptBlock
  <1>6. \A i \in 1..Len(blocks) : i = 1
    BY <1>2
  <1> QED
    BY <1>1, <1>2, <1>4, <1>5, <1>6 DEF ReplayInv, Replayed

\* What ReplayInv says of the active chain.
LEMMA ReplayShows ==
    ASSUME IInv, ReplayInv
    PROVE  UtxoIsReplay /\ ActiveChainValid
  <1>1. blocks \in Seq(Hash) /\ Replayed(blocks, utxo)
    BY DEF IInv, TypeOK, ReplayInv
  <1>2. UtxoIsReplay
    BY <1>1, ReplayIsBelow DEF UtxoIsReplay, Replayed
  <1>3. ASSUME NEW i \in 2..Len(blocks)
        PROVE  ValidTransactions(Replay(SubSeq(blocks, 1, i - 1)), transactions[blocks[i]])
    <2> DEFINE bs == SubSeq(blocks, 1, i - 1)
    <2>1. /\ bs \in Seq(Hash) /\ Len(bs) = i - 1 /\ i - 1 \in Nat
          /\ \A k \in 1..(i - 1) : bs[k] = blocks[k]
      BY <1>1
    <2> HIDE DEF bs
    <2>2. Replay(bs) = Below(blocks, i - 1)
      BY <2>1, ReplayIsBelow, BelowSame
    <2>3. i \in 1..Len(blocks) /\ i > 1
      BY <1>1
    <2>4. ValidTransactions(Below(blocks, i - 1), transactions[blocks[i]])
      BY <1>1, <2>3 DEF Replayed, KeptBlock
    <2> QED
      BY <2>2, <2>4 DEF bs
  <1>4. ActiveChainValid
    BY <1>3 DEF ActiveChainValid
  <1> QED
    BY <1>2, <1>4

-----------------------------------------------------------------------------
(* The theorems, for trees without overwriting transactions                 *)

\* connect_block keeps the unspent set and the undo data of the active chain, and of
\* the chain a failing reorg returns to, equal to what replaying them gives.
THEOREM ReplayInvariant == ASSUME NoOverwrite PROVE Spec => []ReplayInv
  <1>1. Init => ReplayInv
    BY InitReplayed
  <1>2. IInv /\ ReplayInv /\ [Next]_vars => ReplayInv'
    BY NextReplayed
  <1> QED
    BY <1>1, <1>2, Invariance, PTL DEF Spec

\* The incremental apply_transactions, disconnect_undo and snapshot code of
\* connect_block never drifts from replaying the active chain from genesis.
THEOREM UtxoTheorem == ASSUME NoOverwrite PROVE Spec => []UtxoIsReplay
  BY ReplayInvariant, Invariance, ReplayShows, PTL

\* Every active block is valid on the chain below it, although connect_block_inner
\* first judges a side-chain block by the unspent set of another branch.
THEOREM ActiveValidTheorem == ASSUME NoOverwrite PROVE Spec => []ActiveChainValid
  BY ReplayInvariant, Invariance, ReplayShows, PTL

-----------------------------------------------------------------------------
(* The difficulty of the active blocks                                      *)

\* Block i of bs has the bits that the retarget rule gives on the blocks below it.
RuledBits(bs, i) ==
    LET height == i - 1
        span == time[bs[height]] - time[bs[height - Interval + 1]]
    IN  bits[bs[i]] = IF height % Interval # 0 THEN bits[bs[i - 1]]
                      ELSE AdjustBits(bits[bs[i - 1]], IF span > 0 THEN span ELSE 0)

RuledChain(bs) == \A i \in 2..Len(bs) : RuledBits(bs, i)

\* The active chain follows the rule, and so does the one a failing reorg goes back to.
BitsInv == RuledChain(blocks) /\ (pc = "reorg" => RuledChain(snapshot.blocks))

LEMMA WholeInterval ==
    ASSUME NEW h \in Nat \ {0}, h % Interval = 0
    PROVE  Interval <= h
  <1>1. Interval \in Nat \ {0}
    BY ChainAssumption
  <1>2. h < Interval => h % Interval = h
    BY <1>1
  <1> QED
    BY <1>1, <1>2

\* What is said of block i speaks of the first i blocks only.
LEMMA RuledSame ==
    ASSUME NEW bs, NEW cs, NEW i \in Nat, i > 1, \A k \in 1..i : cs[k] = bs[k], RuledBits(bs, i)
    PROVE  RuledBits(cs, i)
  <1>1. i - 1 \in Nat \ {0} /\ cs[i] = bs[i] /\ cs[i - 1] = bs[i - 1]
        /\ \A k \in 1..(i - 1) : cs[k] = bs[k]
    OBVIOUS
  <1>2. CASE (i - 1) % Interval # 0
    BY <1>1, <1>2 DEF RuledBits
  <1>3. CASE (i - 1) % Interval = 0
    <2>1. Interval <= i - 1 /\ Interval \in Nat \ {0}
      BY <1>1, <1>3, WholeInterval, ChainAssumption
    <2>2. i - 1 - Interval + 1 \in 1..(i - 1)
      BY <2>1
    <2>3. cs[i - 1 - Interval + 1] = bs[i - 1 - Interval + 1]
      BY <1>1, <2>2
    <2> QED
      BY <1>1, <1>3, <2>3 DEF RuledBits
  <1> QED
    BY <1>2, <1>3

\* The block the tip rule computes is the one of the branch.
LEMMA RuleAtTip ==
    ASSUME TypeOK, NEW b \in Hash, bits[b] = ExpectedBits(Len(blocks)), NEW cs,
           \A k \in 1..Len(blocks) : cs[k] = blocks[k], cs[Len(blocks) + 1] = b
    PROVE  RuledBits(cs, Len(blocks) + 1)
  <1> DEFINE n == Len(blocks)
  <1>1. n \in Nat \ {0} /\ blocks \in Seq(Hash) /\ Interval \in Nat \ {0}
    BY ChainAssumption DEF TypeOK
  <1>2. Tip = blocks[n] /\ cs[n] = blocks[n] /\ blocks[n] \in Hash
    BY <1>1 DEF Tip, Last
  <1>3. CASE n % Interval # 0
    <2>1. bits[b] = bits[blocks[n]]
      BY <1>2, <1>3 DEF ExpectedBits
    <2> QED
      BY <1>1, <1>2, <1>3, <2>1 DEF RuledBits
  <1>4. CASE n % Interval = 0
    <2>1. Interval <= n
      BY <1>1, <1>4, WholeInterval
    <2>2. n - Interval + 1 \in 1..n /\ ~(n - Interval >= n)
      BY <1>1, <2>1
    <2> DEFINE start == time[blocks[n - Interval + 1]]
               end == time[blocks[n]]
    <2>3. cs[n - Interval + 1] = blocks[n - Interval + 1] /\ start \in Nat /\ end \in Nat
      <3>1. blocks[n - Interval + 1] \in Hash /\ cs[n - Interval + 1] = blocks[n - Interval + 1]
        BY <1>1, <2>2
      <3>2. \A h \in Hash : time[h] \in Nat
        BY ChainAssumption
      <3> QED
        BY <1>2, <3>1, <3>2
    <2>4. bits[b] = AdjustBits(bits[blocks[n]], IF end > start THEN end - start ELSE 0)
      BY <1>4, <2>2 DEF ExpectedBits
    <2>5. (IF end > start THEN end - start ELSE 0) = (IF end - start > 0 THEN end - start ELSE 0)
      <3> HIDE DEF start, end
      <3> QED
        BY <2>3
    <2>6. (n + 1) - 1 = n
      BY <1>1
    <2>7. bits[b] = AdjustBits(bits[blocks[n]], IF end - start > 0 THEN end - start ELSE 0)
      BY <2>4, <2>5
    <2> QED
      BY <1>2, <1>4, <2>3, <2>6, <2>7 DEF RuledBits
  <1> QED
    BY <1>3, <1>4

LEMMA PushRuled ==
    ASSUME IInv, RuledChain(blocks), NEW b \in Hash, bits[b] = ExpectedBits(Len(blocks)),
           blocks' = Append(blocks, b)
    PROVE  RuledChain(blocks')
  <1>0. PICK n : n = Len(blocks)
    OBVIOUS
  <1>1. n \in Nat /\ blocks \in Seq(Hash)
    BY <1>0 DEF IInv, TypeOK
  <1>2. /\ Len(blocks') = n + 1 /\ blocks'[n + 1] = b
        /\ \A k \in 1..n : blocks'[k] = blocks[k]
    BY <1>0, <1>1
  <1>3. RuledBits(blocks', n + 1)
    BY <1>0, <1>2, RuleAtTip DEF IInv
  <1>4. ASSUME NEW i \in 2..n
        PROVE  RuledBits(blocks', i)
    <2>1. i \in Nat /\ i > 1 /\ \A k \in 1..i : blocks'[k] = blocks[k]
      BY <1>1, <1>2
    <2>2. RuledBits(blocks, i)
      BY <1>0 DEF RuledChain
    <2> QED
      BY <2>1, <2>2, RuledSame
  <1>5. \A i \in 2..(n + 1) : i \in 2..n \/ i = n + 1
    BY <1>1
  <1> QED
    BY <1>2, <1>3, <1>4, <1>5 DEF RuledChain

LEMMA NextBits ==
    ASSUME IInv, BitsInv, [Next]_vars
    PROVE  BitsInv'
  <1>0. RuledChain(blocks)
    BY DEF BitsInv
  <1>1. CASE (\E b \in Hash : ConnectBlock(b)) \/ ConnectOrphan
    <2>0. PICK b \in Hash, q \in Seq(Hash) :
             \/ RefuseBlock(b) \/ PanicBlock(b) \/ AddOrphan(b)
             \/ ExtendTip(b, q) \/ StoreSideChain(b, q) \/ BeginReorg(b, q)
      BY <1>1, OfferedBlock
    <2>1. CASE RefuseBlock(b) \/ PanicBlock(b) \/ AddOrphan(b) \/ StoreSideChain(b, q)
      <3>1. blocks' = blocks /\ pc' # "reorg"
        BY <2>1 DEF RefuseBlock, PanicBlock, AddOrphan, StoreSideChain, EnqueueReady, Fail,
                    Return, chainVars
      <3> QED
        BY <1>0, <3>1 DEF BitsInv
    <2>2. CASE ExtendTip(b, q)
      <3>1. /\ Len(blocks) \in Nat /\ known[Tip].height = Len(blocks) - 1
        BY ActiveFacts DEF IInv
      <3>2. HeightOf(b) = Len(blocks)
        BY <2>2, <3>1 DEF ExtendTip, HeightOf
      <3>3. blocks' = Append(blocks, b) /\ pc' # "reorg" /\ bits[b] = ExpectedBits(HeightOf(b))
        BY <2>2 DEF ExtendTip, PushTip, EnqueueReady, Acceptable, ValidForParent
      <3>4. RuledChain(blocks')
        BY <1>0, <3>2, <3>3, PushRuled
      <3> QED
        BY <3>3, <3>4 DEF BitsInv
    <2>3. CASE BeginReorg(b, q)
      <3>1. blocks' = blocks /\ snapshot'.blocks = blocks
        BY <2>3 DEF BeginReorg, ActiveState, chainVars
      <3> QED
        BY <1>0, <3>1 DEF BitsInv
    <2> QED
      BY <2>0, <2>1, <2>2, <2>3
  <1>2. CASE DisconnectTip
    <2>1. blocks' = Front(blocks) /\ UNCHANGED << pc, snapshot >>
      BY <1>2 DEF DisconnectTip, callVars
    <2>2. Len(blocks) \in Nat /\ Len(blocks) >= 2 /\ blocks \in Seq(Hash)
      <3>1. PICK i \in 1..Len(blocks) : prev_blockhash[Head(path)] = blocks[i]
        BY <1>2 DEF DisconnectTip, IInv, ActiveLinked, LinkedChain
      <3>2. Len(blocks) \in Nat /\ Tip = blocks[Len(blocks)] /\ blocks \in Seq(Hash)
        BY ActiveFacts DEF IInv, TypeOK
      <3> QED
        BY <1>2, <3>1, <3>2 DEF DisconnectTip
    <2>3. Len(blocks') = Len(blocks) - 1 /\ \A i \in 1..(Len(blocks) - 1) : blocks'[i] = blocks[i]
      BY <2>1, <2>2 DEF Front
    <2>4. ASSUME NEW i \in 2..Len(blocks')
          PROVE  RuledBits(blocks', i)
      <3>1. i \in Nat /\ i > 1 /\ i \in 2..Len(blocks) /\ \A k \in 1..i : blocks'[k] = blocks[k]
        BY <2>2, <2>3
      <3>2. RuledBits(blocks, i)
        BY <1>0, <3>1 DEF RuledChain
      <3> QED
        BY <3>1, <3>2, RuledSame
    <2> QED
      BY <2>1, <2>4 DEF BitsInv, RuledChain
  <1>3. CASE ConnectForkBlock \/ FinishReorg
    <2>1. /\ pc = "reorg" /\ blocks' = Append(blocks, Head(path))
          /\ bits[Head(path)] = ExpectedBits(Len(blocks))
          /\ pc' # "reorg" \/ snapshot' = snapshot
      BY <1>3 DEF ConnectForkBlock, FinishReorg, ReadyToConnect, PushTip, ValidForParent, EnqueueReady
    <2>2. Head(path) \in Hash
      BY <2>1, PathFacts
    <2>3. RuledChain(blocks')
      BY <1>0, <2>1, <2>2, PushRuled
    <2> QED
      BY <2>1, <2>3 DEF BitsInv
  <1>4. CASE FailReorg
    BY <1>4 DEF FailReorg, ReadyToConnect, Fail, Return, BitsInv
  <1>5. CASE CollectForkPath \/ (\E t \in NetworkTime : SetNetworkTime(t)) \/ PoisonedCall
             \/ UNCHANGED vars
    BY <1>5 DEF CollectForkPath, SetNetworkTime, PoisonedCall, chainVars, callVars, vars, BitsInv
  <1> QED
    BY <1>1, <1>2, <1>3, <1>4, <1>5 DEF Next, CallStep

\* Every active block carries the bits that the retarget rule gives on its own branch,
\* although expected_bits reads the active chain: a side-chain block judged by the
\* wrong branch is judged again before try_reorg_to_block connects it.
THEOREM ActiveBitsTheorem == Spec => []ActiveBitsFollowRule
  <1>1. Init => BitsInv
    BY DEF Init, BitsInv, RuledChain
  <1>2. IInv /\ BitsInv /\ [Next]_vars => BitsInv'
    BY NextBits
  <1>3. BitsInv => ActiveBitsFollowRule
    BY DEF BitsInv, RuledChain, RuledBits, ActiveBitsFollowRule
  <1> QED
    BY <1>1, <1>2, <1>3, Invariance, PTL DEF Spec
=============================================================================
