------------------------------- MODULE Chain -------------------------------
(***************************************************************************)
(* Block acceptance in bitrst-core: Chain::connect_block (chain.rs) behind  *)
(* the write lock of ChainHandle (chain_handle.rs).                         *)
(*                                                                          *)
(* A block is its hash; header fields and transactions are constants of     *)
(* the hash.  One call of connect_block runs to completion under the write  *)
(* lock.  Its loops (the walk to the fork point, the disconnects, the       *)
(* connects of the new branch, the orphan queue) are one action per         *)
(* iteration: while pc is not "idle" only the next iteration is enabled, so *)
(* no iteration is optional and no other call interleaves with it.          *)
(***************************************************************************)
EXTENDS UtxoSet, Integers, SequencesExt

CONSTANTS
    Hash,            \* the blocks that may ever be offered
    NoHash,          \* a hash outside Hash
    Genesis,
    prev_blockhash,  \* [Hash -> Hash \cup {NoHash}]
    time,            \* [Hash -> Nat]
    bits,            \* [Hash -> Nat], compact difficulty
    transactions,    \* [Hash -> Seq(Tx)]
    OverLimit,       \* blocks that fail validate_block_limits
    BadHeader,       \* blocks that fail proof of work, Merkle root or coinbase count
    BlockWork(_),    \* work of one block of the given bits
    AdjustBits(_, _),\* difficulty.rs adjust_bits(prev_bits, actual_timespan)
    Interval,        \* difficulty_adjustment_interval()
    MaxCompactBits,
    MedianWindow,    \* 11 in the code
    FutureDrift,     \* MAX_FUTURE_BLOCK_TIME
    NetworkTime,     \* values set_network_time is called with, all non-zero
    DebugAssertions, \* whether debug_assert_eq! is compiled in
    MaxOrphans,      \* MAX_ORPHAN_BLOCKS
    MaxReceiveSeq    \* bound: how many orphans are ever stored

ASSUME ChainAssumption ==
    /\ NoHash \notin Hash
    /\ Genesis \in Hash
    /\ prev_blockhash \in [Hash -> Hash \cup {NoHash}]
    /\ time \in [Hash -> Nat]
    /\ bits \in [Hash -> Nat]
    /\ transactions \in [Hash -> Seq(Tx)]
    /\ OverLimit \subseteq Hash
    /\ BadHeader \subseteq Hash
    /\ \A h \in Hash : BlockWork(bits[h]) \in Nat \ {0}
    /\ Interval \in Nat \ {0}
    /\ MedianWindow \in Nat \ {0}
    /\ FutureDrift \in Nat
    /\ NetworkTime \subseteq Nat \ {0}
    /\ NetworkTime # {}
    /\ DebugAssertions \in BOOLEAN
    /\ MaxOrphans \in Nat \ {0}
    /\ MaxReceiveSeq \in Nat

VARIABLES
    blocks,              \* active chain, genesis first
    active_hashes,
    known,               \* hash -> metadata of every block on the tree
    total_work,
    utxo,
    orphans,             \* hash -> received_at
    orphan_receive_seq,
    network_time,
    store,               \* hashes put into the MemoryBlockStore
    poisoned             \* a panic happened while the write lock was held

\* The call in progress.
VARIABLES
    pc,        \* "idle", "reorg" or "drain"
    path,      \* fork path of the reorg: collected, then consumed
    new_tip_work,
    snapshot,  \* the active state reorg_to_block saved
    queue,     \* orphans waiting in process_orphans
    draining,  \* the current block comes from process_orphans
    ret        \* outcome of the call in progress, or of the last one

\* Auxiliary: not state of the program, read by no guard.
VARIABLES
    before,     \* active state when the outermost call began
    replayed,   \* blocks a consumer of the event journal believes active
    rolledBack  \* some reorg has been rolled back

chainVars == << blocks, active_hashes, known, total_work, utxo, orphans,
                orphan_receive_seq, network_time, store, poisoned >>
callVars  == << pc, path, new_tip_work, snapshot, queue, draining, ret >>
auxVars   == << before, replayed, rolledBack >>
vars      == << chainVars, callVars, auxVars >>

Outcome == { "None", "Connected", "Orphaned", "SideChain", "Reorganized",
             "Limit", "AlreadyKnown", "Invalid", "OrphanInvalid",
             "Panicked", "LockPoisoned" }

-----------------------------------------------------------------------------
(* Reading the tree                                                         *)

Tip == Last(blocks)

\* The active state that reorg_to_block snapshots and restores.
ActiveState ==
    [ blocks |-> blocks, utxo |-> utxo,
      total_work |-> total_work, active_hashes |-> active_hashes ]

NoState ==
    [ blocks |-> << >>, utxo |-> {}, total_work |-> 0, active_hashes |-> {} ]

\* Mutant of CandidateWork: forgets the work of the block itself.
MutCandidateWork(b) == known[prev_blockhash[b]].work

CandidateWork(b) == known[prev_blockhash[b]].work + BlockWork(bits[b])

\* median_past_time_before(h): the median of the times of h and of its
\* ancestors, at most MedianWindow of them.
MedianPastTime(h) ==
    LET anc[i \in 0..(MedianWindow - 1)] ==
            IF i = 0 THEN h
            ELSE IF anc[i - 1] \in DOMAIN known
                 THEN prev_blockhash[anc[i - 1]] ELSE NoHash
        walk == { i \in DOMAIN anc : anc[i] \in DOMAIN known }
        Earlier(t) == Cardinality({ i \in walk : time[anc[i]] < t })
        UpTo(t)    == Cardinality({ i \in walk : time[anc[i]] <= t })
        middle == Cardinality(walk) \div 2
    IN  CHOOSE t \in { time[anc[i]] : i \in walk } :
            Earlier(t) <= middle /\ middle < UpTo(t)

\* expected_bits(height): both cases read the active chain, whatever branch
\* the block under validation belongs to.
ExpectedBits(height) ==
    IF height % Interval # 0 THEN bits[Tip]
    ELSE IF height - Interval >= Len(blocks) THEN MaxCompactBits
    ELSE LET start == time[blocks[height - Interval + 1]]
             end   == time[blocks[height]]
         IN  AdjustBits(bits[blocks[height]],
                        IF end > start THEN end - start ELSE 0)

\* expected_bits panics: by debug_assert_eq!, or by indexing past the end of
\* the active chain.
RetargetPanics(height) ==
    /\ height % Interval = 0
    /\ \/ DebugAssertions /\ Len(blocks) # height
       \/ height - Interval < Len(blocks) /\ height > Len(blocks)

\* The checks of validate_block_header_for_parent before expected_bits.
ValidUpToTime(b) ==
    /\ b \notin BadHeader
    /\ time[b] > MedianPastTime(prev_blockhash[b])
    /\ time[b] <= network_time + FutureDrift

\* Mutant of ValidForParent: the transactions are not checked.
MutNoTxCheck(b, height) == ValidUpToTime(b) /\ bits[b] = ExpectedBits(height)

\* Mutant of ValidForParent: the claimed difficulty is not checked.
MutNoBitsCheck(b, height) ==
    ValidUpToTime(b) /\ ValidTransactions(utxo, transactions[b])

\* validate_block_for_parent, as far as it does not panic.
ValidForParent(b, height) ==
    /\ ValidUpToTime(b)
    /\ bits[b] = ExpectedBits(height)
    /\ ValidTransactions(utxo, transactions[b])

-----------------------------------------------------------------------------
(* Updates shared by the actions                                            *)

\* Mutant of KnownWith: records the block's own work, not the cumulative work.
MutOwnWork(b, height, work, undo) ==
    [ h \in DOMAIN known \cup {b} |->
        IF h = b THEN [height |-> height, work |-> BlockWork(bits[b]), undo |-> undo]
        ELSE known[h] ]

\* Mutant of KnownWith: the undo data are not kept.
MutNoUndo(b, height, work, undo) ==
    [ h \in DOMAIN known \cup {b} |->
        IF h = b THEN [height |-> height, work |-> work, undo |-> << >>]
        ELSE known[h] ]

KnownWith(b, height, work, undo) ==
    [ h \in DOMAIN known \cup {b} |->
        IF h = b THEN [height |-> height, work |-> work, undo |-> undo]
        ELSE known[h] ]

\* Mutant of PushTip: no BlockConnected event.
MutSilentPush(b, height) ==
    /\ utxo' = ApplyTransactions(utxo, transactions[b])
    /\ store' = store \cup {b}
    /\ known' = KnownWith(b, height, CandidateWork(b),
                          UndoOf(utxo, transactions[b]))
    /\ blocks' = Append(blocks, b)
    /\ active_hashes' = active_hashes \cup {b}
    /\ replayed' = replayed

\* A block becomes the tip: the set, the tree, the store and the active chain
\* change together, and BlockConnected is pushed to the journal.
PushTip(b, height) ==
    /\ utxo' = ApplyTransactions(utxo, transactions[b])
    /\ store' = store \cup {b}
    /\ known' = KnownWith(b, height, CandidateWork(b),
                          UndoOf(utxo, transactions[b]))
    /\ blocks' = Append(blocks, b)
    /\ active_hashes' = active_hashes \cup {b}
    /\ replayed' = replayed \cup {b}

\* enqueue_ready_orphans after the tree has grown: every orphan whose parent is
\* known moves to the queue, in the hash map's order (any order).  The call
\* ends when the queue is empty.
EnqueueReady(q) ==
    LET ready == { o \in DOMAIN orphans : prev_blockhash[o] \in DOMAIN known' }
    IN  \E order \in SetToSeqs(ready) :
            /\ queue' = q \o order
            /\ orphans' = [ o \in DOMAIN orphans \ ready |-> orphans[o] ]
            /\ draining' = (q \o order # << >>)
            /\ pc' = IF q \o order = << >> THEN "idle" ELSE "drain"
            /\ path' = << >>
            /\ new_tip_work' = 0
            /\ snapshot' = NoState

\* The call returns.  The queue is local to process_orphans: what is still in
\* it is gone.
Return(outcome) ==
    /\ pc' = "idle"
    /\ path' = << >>
    /\ new_tip_work' = 0
    /\ snapshot' = NoState
    /\ queue' = << >>
    /\ draining' = FALSE
    /\ ret' = outcome

\* `?` on an error: inside process_orphans it becomes the error of the whole
\* call, although the block the caller offered has been connected.
Fail(outcome) == Return(IF draining THEN "OrphanInvalid" ELSE outcome)

\* The outcome the caller will see: an orphan that connects does not change it.
Succeed(outcome) == ret' = IF draining THEN ret ELSE outcome

\* Auxiliary: remember the active state for the length of the outermost call.
TrackCall ==
    before' = IF pc' = "idle" THEN NoState
              ELSE IF pc = "idle" THEN ActiveState ELSE before

-----------------------------------------------------------------------------
(* connect_block_inner(b): q is what process_orphans' queue holds besides b *)

Attachable(b) ==
    /\ b \notin OverLimit
    /\ b \notin DOMAIN known \cup DOMAIN orphans
    /\ prev_blockhash[b] \in DOMAIN known

HeightOf(b) == known[prev_blockhash[b]].height + 1

PanicsOn(b) ==
    /\ Attachable(b)
    /\ ValidUpToTime(b)
    /\ RetargetPanics(HeightOf(b))

Acceptable(b) ==
    /\ Attachable(b)
    /\ ~PanicsOn(b)
    /\ ValidForParent(b, HeightOf(b))

RefuseBlock(b) ==
    /\ \/ /\ b \in OverLimit
          /\ Fail("Limit")
       \/ /\ b \notin OverLimit
          /\ b \in DOMAIN known \cup DOMAIN orphans
          /\ Fail("AlreadyKnown")
       \/ /\ Attachable(b)
          /\ ~PanicsOn(b)
          /\ ~ValidForParent(b, HeightOf(b))
          /\ Fail("Invalid")
    /\ UNCHANGED << chainVars, replayed, rolledBack >>

\* The panic unwinds through the write guard, which poisons the lock.
PanicBlock(b) ==
    /\ PanicsOn(b)
    /\ poisoned' = TRUE
    /\ Return("Panicked")
    /\ UNCHANGED << blocks, active_hashes, known, total_work, utxo, orphans,
                    orphan_receive_seq, network_time, store, replayed, rolledBack >>

\* insert_orphan: no check of the header is made before the block is parked.
OldestOrphan ==
    CHOOSE o \in DOMAIN orphans :
        \A p \in DOMAIN orphans : orphans[o] <= orphans[p]

\* Mutant of AddOrphan: evicts one orphan too late.
MutLateEviction(b) ==
    /\ b \notin OverLimit
    /\ b \notin DOMAIN known \cup DOMAIN orphans
    /\ prev_blockhash[b] \notin DOMAIN known
    /\ orphan_receive_seq < MaxReceiveSeq
    /\ LET kept == IF Cardinality(DOMAIN orphans) > MaxOrphans
                   THEN DOMAIN orphans \ {OldestOrphan} ELSE DOMAIN orphans
       IN  orphans' = [ o \in kept \cup {b} |->
                          IF o = b THEN orphan_receive_seq + 1 ELSE orphans[o] ]
    /\ orphan_receive_seq' = orphan_receive_seq + 1
    /\ Return("Orphaned")
    /\ UNCHANGED << blocks, active_hashes, known, total_work, utxo,
                    network_time, store, poisoned, replayed, rolledBack >>

AddOrphan(b) ==
    /\ b \notin OverLimit
    /\ b \notin DOMAIN known \cup DOMAIN orphans
    /\ prev_blockhash[b] \notin DOMAIN known
    /\ orphan_receive_seq < MaxReceiveSeq
    /\ LET kept == IF Cardinality(DOMAIN orphans) >= MaxOrphans
                   THEN DOMAIN orphans \ {OldestOrphan} ELSE DOMAIN orphans
       IN  orphans' = [ o \in kept \cup {b} |->
                          IF o = b THEN orphan_receive_seq + 1 ELSE orphans[o] ]
    /\ orphan_receive_seq' = orphan_receive_seq + 1
    /\ Return("Orphaned")
    /\ UNCHANGED << blocks, active_hashes, known, total_work, utxo,
                    network_time, store, poisoned, replayed, rolledBack >>

ExtendTip(b, q) ==
    /\ Acceptable(b)
    /\ prev_blockhash[b] = Tip
    /\ PushTip(b, HeightOf(b))
    /\ total_work' = CandidateWork(b)
    /\ EnqueueReady(q)
    /\ Succeed("Connected")
    /\ UNCHANGED << orphan_receive_seq, network_time, poisoned, rolledBack >>

\* A block that does not beat the tip is remembered with no undo data.  Offered
\* by a caller, it does not wake the orphans that wait for it.
StoreSideChain(b, q) ==
    /\ Acceptable(b)
    /\ prev_blockhash[b] # Tip
    /\ CandidateWork(b) <= total_work
    /\ known' = KnownWith(b, HeightOf(b), CandidateWork(b), << >>)
    /\ IF draining THEN EnqueueReady(q) /\ UNCHANGED ret
       ELSE Return("SideChain") /\ UNCHANGED orphans
    /\ UNCHANGED << blocks, active_hashes, total_work, utxo, orphan_receive_seq,
                    network_time, store, poisoned, replayed, rolledBack >>

\* reorg_to_block: the fork path starts with the new block.
BeginReorg(b, q) ==
    /\ Acceptable(b)
    /\ prev_blockhash[b] # Tip
    /\ CandidateWork(b) > total_work
    /\ pc' = "reorg"
    /\ path' = << b >>
    /\ new_tip_work' = CandidateWork(b)
    /\ snapshot' = ActiveState
    /\ queue' = q
    /\ UNCHANGED << chainVars, draining, ret, replayed, rolledBack >>

-----------------------------------------------------------------------------
(* try_reorg_to_block                                                       *)

\* Mutant of CollectForkPath: the walk does not move to the parent.
MutStuckWalk ==
    /\ pc = "reorg"
    /\ prev_blockhash[Head(path)] \notin active_hashes
    /\ path' = path
    /\ UNCHANGED << chainVars, pc, new_tip_work, snapshot, queue, draining, ret,
                    auxVars >>

\* One iteration of collect_fork_path: the branch is followed down to the
\* first ancestor on the active chain, the fork point.
CollectForkPath ==
    /\ pc = "reorg"
    /\ prev_blockhash[Head(path)] \notin active_hashes
    /\ path' = << prev_blockhash[Head(path)] >> \o path
    /\ UNCHANGED << chainVars, pc, new_tip_work, snapshot, queue, draining, ret,
                    auxVars >>

\* One disconnect_tip_block; BlockDisconnected is pushed to the journal.
DisconnectTip ==
    /\ pc = "reorg"
    /\ prev_blockhash[Head(path)] \in active_hashes
    /\ prev_blockhash[Head(path)] # Tip
    /\ blocks' = Front(blocks)
    /\ active_hashes' = active_hashes \ {Tip}
    /\ utxo' = DisconnectUndo(utxo, known[Tip].undo)
    /\ total_work' = known[Last(Front(blocks))].work
    /\ replayed' = replayed \ {Tip}
    /\ UNCHANGED << known, orphans, orphan_receive_seq, network_time, store,
                    poisoned, callVars, before, rolledBack >>

ReadyToConnect ==
    /\ pc = "reorg"
    /\ prev_blockhash[Head(path)] = Tip
    /\ ~RetargetPanics(Len(blocks))

\* One block of the new branch, validated again on the branch itself.
ConnectForkBlock ==
    /\ ReadyToConnect
    /\ Len(path) > 1
    /\ ValidForParent(Head(path), Len(blocks))
    /\ PushTip(Head(path), Len(blocks))
    /\ path' = Tail(path)
    /\ UNCHANGED << total_work, orphans, orphan_receive_seq, network_time,
                    poisoned, pc, new_tip_work, snapshot, queue, draining, ret,
                    before, rolledBack >>

\* The last block of the branch: ChainReorg is pushed, then the orphans run.
FinishReorg ==
    /\ ReadyToConnect
    /\ Len(path) = 1
    /\ ValidForParent(Head(path), Len(blocks))
    /\ PushTip(Head(path), Len(blocks))
    /\ total_work' = new_tip_work
    /\ EnqueueReady(queue)
    /\ Succeed("Reorganized")
    /\ TrackCall
    /\ UNCHANGED << orphan_receive_seq, network_time, poisoned, rolledBack >>

\* Mutant of FailReorg: total_work is not restored.
MutForgetWork ==
    /\ ReadyToConnect
    /\ ~ValidForParent(Head(path), Len(blocks))
    /\ blocks' = snapshot.blocks
    /\ utxo' = snapshot.utxo
    /\ active_hashes' = snapshot.active_hashes
    /\ rolledBack' = TRUE
    /\ Fail("Invalid")
    /\ TrackCall
    /\ UNCHANGED << known, total_work, orphans, orphan_receive_seq, network_time,
                    store, poisoned, replayed >>

\* A block of the branch is invalid: the snapshot comes back.  The tree, the
\* store and the events already pushed stay as they are.
FailReorg ==
    /\ ReadyToConnect
    /\ ~ValidForParent(Head(path), Len(blocks))
    /\ blocks' = snapshot.blocks
    /\ utxo' = snapshot.utxo
    /\ total_work' = snapshot.total_work
    /\ active_hashes' = snapshot.active_hashes
    /\ rolledBack' = TRUE
    /\ Fail("Invalid")
    /\ TrackCall
    /\ UNCHANGED << known, orphans, orphan_receive_seq, network_time, store,
                    poisoned, replayed >>

-----------------------------------------------------------------------------
(* The calls                                                                *)

ConnectBlock(b) ==
    /\ pc = "idle"
    /\ ~poisoned
    /\ \/ RefuseBlock(b)
       \/ PanicBlock(b)
       \/ AddOrphan(b)
       \/ ExtendTip(b, << >>)
       \/ StoreSideChain(b, << >>)
       \/ BeginReorg(b, << >>)
    /\ TrackCall

\* One iteration of process_orphans.
ConnectOrphan ==
    /\ pc = "drain"
    /\ \/ RefuseBlock(Head(queue))
       \/ PanicBlock(Head(queue))
       \/ ExtendTip(Head(queue), Tail(queue))
       \/ StoreSideChain(Head(queue), Tail(queue))
       \/ BeginReorg(Head(queue), Tail(queue))
    /\ TrackCall

SetNetworkTime(t) ==
    /\ pc = "idle"
    /\ ~poisoned
    /\ network_time' = t
    /\ ret' = "None"
    /\ UNCHANGED << blocks, active_hashes, known, total_work, utxo, orphans,
                    orphan_receive_seq, store, poisoned, pc, path, new_tip_work,
                    snapshot, queue, draining, auxVars >>

\* Every call on a poisoned handle fails with LockPoisoned.
PoisonedCall ==
    /\ pc = "idle"
    /\ poisoned
    /\ ret' = "LockPoisoned"
    /\ UNCHANGED << chainVars, pc, path, new_tip_work, snapshot, queue, draining,
                    auxVars >>

\* Chain::new_genesis; the genesis BlockConnected is the journal's first event.
Init ==
    /\ blocks = << Genesis >>
    /\ active_hashes = {Genesis}
    /\ known = [ h \in {Genesis} |->
                    [ height |-> 0, work |-> BlockWork(bits[Genesis]),
                      undo |-> UndoOf({}, transactions[Genesis]) ] ]
    /\ total_work = BlockWork(bits[Genesis])
    /\ utxo = ApplyTransactions({}, transactions[Genesis])
    /\ orphans = [ h \in {} |-> 0 ]
    /\ orphan_receive_seq = 0
    /\ network_time \in NetworkTime
    /\ store = {Genesis}
    /\ poisoned = FALSE
    /\ pc = "idle"
    /\ path = << >>
    /\ new_tip_work = 0
    /\ snapshot = NoState
    /\ queue = << >>
    /\ draining = FALSE
    /\ ret = "None"
    /\ before = NoState
    /\ replayed = {Genesis}
    /\ rolledBack = FALSE

\* The steps a call in progress goes through by itself.
CallStep ==
    \/ CollectForkPath
    \/ DisconnectTip
    \/ ConnectForkBlock
    \/ FinishReorg
    \/ FailReorg
    \/ ConnectOrphan

Next ==
    \/ \E b \in Hash : ConnectBlock(b)
    \/ CallStep
    \/ \E t \in NetworkTime : SetNetworkTime(t)
    \/ PoisonedCall

Spec == Init /\ [][Next]_vars

\* A call is straight-line code on one thread: it keeps running.
FairSpec == Spec /\ WF_vars(CallStep)

-----------------------------------------------------------------------------
(* Correctness                                                              *)

Undo == [removed : SUBSET OutPoint, created : SUBSET OutPoint]
Meta == [height : Nat, work : Nat \ {0}, undo : Seq(Undo)]
State == [blocks : Seq(Hash), utxo : SUBSET OutPoint,
          total_work : Nat, active_hashes : SUBSET Hash]

\* Type invariant of the chain, of the call in progress and of the auxiliary state.
TypeOK ==
    /\ blocks \in Seq(Hash) /\ blocks # << >>
    /\ active_hashes \subseteq Hash
    /\ DOMAIN known \subseteq Hash /\ known \in [DOMAIN known -> Meta]
    /\ total_work \in Nat \ {0}
    /\ utxo \subseteq OutPoint
    /\ DOMAIN orphans \subseteq Hash /\ orphans \in [DOMAIN orphans -> Nat]
    /\ orphan_receive_seq \in 0..MaxReceiveSeq
    /\ network_time \in NetworkTime
    /\ store \subseteq Hash
    /\ poisoned \in BOOLEAN
    /\ pc \in {"idle", "reorg", "drain"}
    /\ path \in Seq(Hash)
    /\ new_tip_work \in Nat
    /\ snapshot \in State
    /\ queue \in Seq(Hash)
    /\ draining \in BOOLEAN
    /\ ret \in Outcome
    /\ before \in State
    /\ replayed \subseteq Hash
    /\ rolledBack \in BOOLEAN

\* The active chain is one branch of the block tree that starts at genesis:
\* each block's parent is the block below it, active_hashes holds exactly its
\* blocks, and the tree records each of them at its height.  It holds in the
\* middle of a reorg and after a rollback as well (connect_block_inner,
\* try_reorg_to_block, disconnect_tip_block, reorg_to_block).
LinkedChain(bs, hashes) ==
    /\ bs # << >>
    /\ bs[1] = Genesis
    /\ hashes = { bs[i] : i \in 1..Len(bs) }
    /\ \A i \in 1..Len(bs) :
          /\ bs[i] \in DOMAIN known
          /\ known[bs[i]].height = i - 1
          /\ i > 1 => prev_blockhash[bs[i]] = bs[i - 1]

ActiveLinked == LinkedChain(blocks, active_hashes)

\* Every block of the tree other than genesis hangs on a block of the tree, one
\* higher, with its parent's work plus its own: what a fork path recomputes
\* when it re-inserts a block agrees with what was recorded on arrival.
TreeConsistent ==
    \A h \in DOMAIN known \ {Genesis} :
        /\ prev_blockhash[h] \in DOMAIN known
        /\ known[h].height = known[prev_blockhash[h]].height + 1
        /\ known[h].work = CandidateWork(h)

\* The tree adds up and the active chain is a branch of it, in the middle of
\* a reorg, a rollback or a drain as well.
TreeSound == ActiveLinked /\ TreeConsistent

\* Between calls no block the node accepted has more cumulative work than the
\* tip, and total_work is the tip's work (ARCHITECTURE.md, data flow 4).
TipHasMostWork ==
    pc # "reorg" =>
        /\ total_work = known[Tip].work
        /\ \A h \in DOMAIN known : known[h].work <= total_work

\* The unspent set is what replaying the active chain from genesis gives: the
\* incremental apply, undo and snapshot code never drifts from it.
Replay(bs) ==
    { o \in OutPoint :
        \E i \in DOMAIN bs : \E j \in DOMAIN transactions[bs[i]] :
            /\ o \in outputs[transactions[bs[i]][j]]
            /\ \A k \in i..Len(bs) : \A m \in DOMAIN transactions[bs[k]] :
                  k > i \/ m > j => o \notin Spends(transactions[bs[k]][m]) }

UtxoIsReplay == utxo = Replay(blocks)

\* Every block of the active chain is valid on the chain below it, although a
\* side-chain block is first judged against the tip's unspent set.
ActiveChainValid ==
    \A i \in 2..Len(blocks) :
        ValidTransactions(Replay(SubSeq(blocks, 1, i - 1)), transactions[blocks[i]])

\* The orphan pool: within its cap, disjoint from the tree, and between calls
\* no orphan is left waiting for a block of the active chain.
OrphansWait ==
    /\ Cardinality(DOMAIN orphans) <= MaxOrphans
    /\ DOMAIN orphans \cap DOMAIN known = {}
    /\ pc = "idle" /\ ~poisoned =>
          \A o \in DOMAIN orphans : prev_blockhash[o] \notin active_hashes

\* A reorg never meets the metadata errors its code returns (MissingAncestor,
\* NoActiveTip) nor the retarget assertion: the path hangs together, its lower
\* end stays above a block of the active chain that is not yet disconnected,
\* and every block to disconnect has the undo data of its transactions.
ReorgWalkSafe ==
    pc = "reorg" =>
        /\ path # << >>
        /\ prev_blockhash[Head(path)] \in DOMAIN known
        /\ \A i \in 2..Len(path) : prev_blockhash[path[i]] = path[i - 1]
        /\ prev_blockhash[Head(path)] = Tip => ~RetargetPanics(Len(blocks))
        /\ \A i \in 1..Len(blocks) :
              Len(known[blocks[i]].undo) = Len(transactions[blocks[i]])

\* As long as no reorg has been rolled back, a consumer that replays the
\* journal's BlockConnected and BlockDisconnected events has the active chain.
EventsFollowChain == ~rolledBack => replayed = active_hashes

\* The active state at the start of the call that is ending.
AtStart == IF pc = "idle" THEN ActiveState ELSE before

\* A call that fails on the block it was given leaves the active chain, the
\* unspent set and the total work as the call found them.
FailedCallRestores ==
    [][ pc' = "idle" /\ ret' \in {"Limit", "AlreadyKnown", "Invalid"}
            => ActiveState' = AtStart ]_vars

\* From one call's end to the next the total work never goes down, and the tip
\* moves only to a block with strictly more work: a tie keeps the first seen.
WorkOnlyGrows ==
    [][ pc' = "idle" =>
          /\ total_work' >= AtStart.total_work
          /\ Last(blocks') # Last(AtStart.blocks) =>
                total_work' > AtStart.total_work ]_vars

\* A block once in the tree stays there with the same height and work.
TreeOnlyGrows ==
    [][ \A h \in DOMAIN known :
          /\ h \in DOMAIN known'
          /\ known'[h].height = known[h].height
          /\ known'[h].work = known[h].work ]_vars

\* Every call of connect_block returns: neither the fork walk nor the orphan
\* queue, which refills while it drains, runs forever.
CallReturns == pc # "idle" ~> pc = "idle"

\* The tree and the tip as seen between the steps of a reorg: connect_block
\* implements ForkChoice, so the tip depends on arrival order only through ties.
FC == INSTANCE ForkChoice WITH
        work <- [ h \in DOMAIN known |-> known[h].work ],
        tip  <- IF pc = "reorg" THEN Last(snapshot.blocks) ELSE Tip

ImplementsForkChoice == FC!Spec

\* Every active block carries the difficulty that the retarget rule gives on
\* the chain below it, although expected_bits judges a side-chain block by the
\* active chain.
ActiveBitsFollowRule ==
    \A i \in 2..Len(blocks) :
        LET height == i - 1
            span == time[blocks[height]] - time[blocks[height - Interval + 1]]
        IN  bits[blocks[i]] =
              IF height % Interval # 0 THEN bits[blocks[i - 1]]
              ELSE AdjustBits(bits[blocks[i - 1]], IF span > 0 THEN span ELSE 0)

\* No call panics while it holds the write lock.
NeverPoisoned == ~poisoned

=============================================================================
