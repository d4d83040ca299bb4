---------------------------- MODULE MempoolSync ----------------------------
(***************************************************************************)
(* The pool, the chain and the peers that keep them together (relay.rs).    *)
(*                                                                          *)
(* Each peer task handles one message at a time.  A block that moves the    *)
(* tip is followed by sync_mempool, which takes the chain's lock, releases  *)
(* it and takes it again; transactions and getdata go to the pool without a *)
(* sync.  All peers share one pool and each has its own event cursor.       *)
(*                                                                          *)
(* The chain is taken by what Chain and EventJournal establish: the tip     *)
(* moves to strictly more work, the unspent set is the replay of the active *)
(* branch, the event ring is the end of the history.  ChainReorg and orphan *)
(* events, which the pool ignores, are left out.                            *)
(***************************************************************************)
EXTENDS Mempool

CONSTANTS
    Hash,
    Genesis,
    branch,                \* [Hash -> Seq(Hash)]: genesis up to the block itself
    transactions,          \* [Hash -> Seq(Tx)], the coinbase first
    work,                  \* [Hash -> Nat], cumulative
    BadBlock,              \* blocks that fail when their branch is connected
    Peer,
    EventCapacity,
    DisconnectedCapacity,
    MaxEvents              \* bound: how long the history gets

ASSUME SyncAssumption ==
    /\ Genesis \in Hash
    /\ branch \in [Hash -> Seq(Hash)]
    /\ \A h \in Hash : branch[h] # << >> /\ Last(branch[h]) = h
    /\ transactions \in [Hash -> Seq(Tx)]
    /\ work \in [Hash -> Nat]
    /\ BadBlock \subseteq Hash
    /\ EventCapacity \in Nat \ {0}
    /\ DisconnectedCapacity \in Nat \ {0}
    /\ MaxEvents \in Nat

VARIABLES
    tip,
    log,       \* the history of events: [kind, hash]
    stage,     \* where a peer is: "ready", "sync", "held", "lagged" or "jumped"
    position,  \* its cursor
    since      \* its cursor before the events it holds, or before the lag

\* Auxiliary: not state of the program, read by no guard.
VARIABLES
    current,   \* the pool has been revalidated since the tip last moved
    gaveUp     \* some peer's recovery has failed, or it moved the tip with an error

peerVars == << stage, position, since >>
vars == << poolVars, workVars, auxVars, tip, log, peerVars, current, gaveUp >>

-----------------------------------------------------------------------------
(* The chain                                                                *)

\* The transactions of a list of blocks, in order.
TxsOf(bs) == FlattenSeq([ i \in DOMAIN bs |-> transactions[bs[i]] ])

\* The unspent set of a chain that ends with the given block, and the active one.
UtxoAt == [ h \in Hash |-> ApplyTransactions({}, TxsOf(branch[h])) ]
Utxo == UtxoAt[tip]

\* What active_block_at returns for all heights.
ActiveTxs == ToSet(TxsOf(branch[tip]))

\* How many blocks the branches of two blocks share.
Common(g, h) ==
    Cardinality({ i \in DOMAIN branch[g] \cap DOMAIN branch[h] :
                    branch[g][i] = branch[h][i] })

\* The events of a reorg from g towards h that connects up to height n of h's
\* branch: BlockDisconnected from the tip down, then BlockConnected upwards.
ReorgEvents(g, h, n) ==
    LET c == Common(g, h)
        down == SubSeq(branch[g], c + 1, Len(branch[g]))
        up   == SubSeq(branch[h], c + 1, n)
    IN  [ i \in DOMAIN down |-> [kind |-> "disconnected", hash |-> Reverse(down)[i]] ]
        \o [ i \in DOMAIN up |-> [kind |-> "connected", hash |-> up[i]] ]

\* The elements of s at the positions P, in order.
At(s, P) ==
    LET pick[n \in 0..Len(s)] ==
            IF n = 0 THEN << >>
            ELSE IF n \in P THEN Append(pick[n - 1], s[n]) ELSE pick[n - 1]
    IN  pick[Len(s)]

\* The hashes of the events with the numbers P, in order.
HashesAt(P) ==
    LET hit == At(log, P) IN [ i \in DOMAIN hit |-> hit[i].hash ]

\* The hashes of the events of one kind after s and up to n.
HashesIn(kind, s, n) == HashesAt({ k \in (s + 1)..n : log[k].kind = kind })

\* Non-coinbase transactions of disconnected blocks, to be restored.
Payments == [ h \in Hash |->
    At(transactions[h],
       { k \in 2..Len(transactions[h]) : transactions[h][k] \notin Coinbase }) ]
Candidates(bs) == FlattenSeq([ i \in DOMAIN bs |-> Payments[bs[i]] ])

\* The numbers of the disconnections the second ring retains.
Retained ==
    LET all == { n \in DOMAIN log : log[n].kind = "disconnected" }
    IN  { n \in all : Cardinality({ k \in all : k > n }) < DisconnectedCapacity }

Lags(s) == s < Len(log) - EventCapacity

RecoveryFails(s) == Retained # {} /\ s < Min(Retained) - 1

RecoveredBlocks(s) == HashesAt({ n \in Retained : n > s })

-----------------------------------------------------------------------------
(* A peer task                                                              *)

\* The connection closes; a new one starts with a cursor at the end.
Reconnect(p) ==
    /\ stage' = [stage EXCEPT ![p] = "ready"]
    /\ position' = [position EXCEPT ![p] = Len(log')]
    /\ since' = [since EXCEPT ![p] = 0]

\* handle_block: the tip moves and the call succeeds, or it moves and an orphan
\* behind it fails, in which case the error ends the task without a sync.
MoveTip(p, h) ==
    /\ pc = "idle"
    /\ stage[p] = "ready"
    /\ work[h] > work[tip]
    /\ ToSet(branch[h]) \cap BadBlock = {}
    /\ Len(log) + Len(ReorgEvents(tip, h, Len(branch[h]))) <= MaxEvents
    /\ tip' = h
    /\ log' = log \o ReorgEvents(tip, h, Len(branch[h]))
    /\ current' = FALSE
    /\ \/ /\ stage' = [stage EXCEPT ![p] = "sync"]
          /\ UNCHANGED << position, since, gaveUp >>
       \/ /\ Reconnect(p)
          /\ gaveUp' = TRUE
    /\ UNCHANGED << poolVars, workVars, auxVars >>

\* handle_block: a reorg meets an invalid block of the new branch and is rolled
\* back.  The events it has pushed by then stay.
FailReorg(p, h) ==
    /\ pc = "idle"
    /\ stage[p] = "ready"
    /\ work[h] > work[tip]
    /\ Common(tip, h) < Len(branch[tip])
    /\ ToSet(branch[h]) \cap BadBlock # {}
    /\ LET bad == Min({ i \in DOMAIN branch[h] : branch[h][i] \in BadBlock })
           pushed == ReorgEvents(tip, h, bad - 1)
       IN  /\ Len(log) + Len(pushed) <= MaxEvents
           /\ log' = log \o pushed
    /\ Reconnect(p)
    /\ UNCHANGED << poolVars, workVars, auxVars, tip, current, gaveUp >>

\* Mutant of CollectEvents: a lag is taken for "nothing new".
MutCollectEvents(p) ==
    /\ pc = "idle"
    /\ stage[p] = "sync"
    /\ since' = [since EXCEPT ![p] = position[p]]
    /\ stage' = [stage EXCEPT ![p] = IF Lags(position[p]) THEN "ready" ELSE "held"]
    /\ position' = [position EXCEPT ![p] = Len(log)]
    /\ UNCHANGED << poolVars, workVars, auxVars, tip, log, current, gaveUp >>

\* The first lock of sync_mempool.  There is something to collect: the tip has
\* moved since this peer's cursor did.
CollectEvents(p) ==
    /\ pc = "idle"
    /\ stage[p] = "sync"
    /\ since' = [since EXCEPT ![p] = position[p]]
    /\ IF Lags(position[p])
       THEN stage' = [stage EXCEPT ![p] = "lagged"] /\ UNCHANGED position
       ELSE /\ stage' = [stage EXCEPT ![p] = "held"]
            /\ position' = [position EXCEPT ![p] = Len(log)]
    /\ UNCHANGED << poolVars, workVars, auxVars, tip, log, current, gaveUp >>

\* The second lock: apply_chain_events, on the chain as it is by now.
ApplyEvents(p) ==
    /\ stage[p] = "held"
    /\ \E up \in { HashesIn("connected", since[p], position[p]) },
          down \in { HashesIn("disconnected", since[p], position[p]) } :
            Synchronize(Utxo, ToSet(TxsOf(up)), Candidates(down))
    /\ stage' = [stage EXCEPT ![p] = "ready"]
    /\ since' = [since EXCEPT ![p] = 0]
    /\ current' = TRUE
    /\ UNCHANGED << tip, log, position, gaveUp >>

\* After a lag: the cursor goes to the end.
JumpToTail(p) ==
    /\ pc = "idle"
    /\ stage[p] = "lagged"
    /\ stage' = [stage EXCEPT ![p] = "jumped"]
    /\ position' = [position EXCEPT ![p] = Len(log)]
    /\ UNCHANGED << poolVars, workVars, auxVars, tip, log, since, current, gaveUp >>

\* After a lag: resync_to_active_chain goes through every active block.
Resync(p) ==
    /\ stage[p] = "jumped"
    /\ ~RecoveryFails(since[p])
    /\ \E down \in { RecoveredBlocks(since[p]) } :
            Synchronize(Utxo, ActiveTxs, Candidates(down))
    /\ stage' = [stage EXCEPT ![p] = "ready"]
    /\ since' = [since EXCEPT ![p] = 0]
    /\ current' = TRUE
    /\ UNCHANGED << tip, log, position, gaveUp >>

FailResync(p) ==
    /\ pc = "idle"
    /\ stage[p] = "jumped"
    /\ RecoveryFails(since[p])
    /\ UNCHANGED << poolVars, workVars, auxVars, tip, log, current >>
    /\ Reconnect(p)
    /\ gaveUp' = TRUE

\* handle_tx and handle_getdata of any peer between two messages.
HandleTx(t) ==
    /\ \E p \in Peer : stage[p] = "ready"
    /\ AcceptTx(t, Utxo)
    /\ UNCHANGED << tip, log, peerVars, current, gaveUp >>

HandleGetdata(t) ==
    /\ \E p \in Peer : stage[p] = "ready"
    /\ ServeStale(t, Utxo)
    /\ UNCHANGED << tip, log, peerVars, current, gaveUp >>

\* An iteration of the pool operation in progress.
Work ==
    /\ PoolStep(Utxo)
    /\ UNCHANGED << tip, log, peerVars, current, gaveUp >>

SyncStep(p) ==
    \/ CollectEvents(p)
    \/ ApplyEvents(p)
    \/ JumpToTail(p)
    \/ Resync(p)
    \/ FailResync(p)

Init ==
    /\ PoolInit
    /\ tip = Genesis
    /\ log = << >>
    /\ stage = [p \in Peer |-> "ready"]
    /\ position = [p \in Peer |-> 0]
    /\ since = [p \in Peer |-> 0]
    /\ current = TRUE
    /\ gaveUp = FALSE

Next ==
    \/ \E p \in Peer, h \in Hash :
        \/ MoveTip(p, h)
        \/ FailReorg(p, h)
    \/ \E p \in Peer : SyncStep(p)
    \/ \E t \in Tx \ Coinbase : HandleTx(t) \/ HandleGetdata(t)
    \/ Work

Spec == Init /\ [][Next]_vars

\* A pool operation is straight-line code.  A task in the middle of sync_mempool
\* waits for nothing but the locks, and a waiting task gets its turn although
\* others keep taking them.
FairSpec == Spec /\ WF_vars(Work) /\ \A p \in Peer : SF_vars(SyncStep(p))

-----------------------------------------------------------------------------
(* Correctness                                                              *)

TypeOK ==
    /\ DOMAIN entries \subseteq Tx /\ entries \in [DOMAIN entries -> Nat]
    /\ DOMAIN spends \subseteq OutPoint /\ spends \in [DOMAIN spends -> Tx]
    /\ total_bytes \in Nat
    /\ next_seq \in Nat
    /\ pc \in {"idle", "room", "restore"}
    /\ candidate \in Tx \cup {NoTx}
    /\ restoring \in BOOLEAN
    /\ pending \in Seq(Tx)
    /\ remaining \in Seq(Tx)
    /\ progress \in BOOLEAN
    /\ lostParent \in BOOLEAN
    /\ evicted \in BOOLEAN
    /\ tip \in Hash
    /\ log \in Seq([kind : {"connected", "disconnected"}, hash : Hash])
    /\ stage \in [Peer -> {"ready", "sync", "held", "lagged", "jumped"}]
    /\ position \in [Peer -> Nat]
    /\ since \in [Peer -> Nat]
    /\ current \in BOOLEAN
    /\ gaveUp \in BOOLEAN

\* The index spends says exactly what the entries spend: each outpoint has one
\* owner, so no two entries conflict, whatever was admitted, evicted, confirmed
\* or restored before (check_mempool_conflicts and descendants_of rely on it).
SpendsExact ==
    /\ DOMAIN spends = UNION { Spends(t) : t \in DOMAIN entries }
    /\ \A t \in DOMAIN entries : \A o \in Spends(t) : spends[o] = t

\* make_room_for leaves no more entries than max_tx_count.
CountWithinLimit == Cardinality(DOMAIN entries) <= max_tx_count

\* Count and bytes stay within the limits, and total_bytes is the sum of the
\* entries' sizes and so never negative (make_room_for, insert_entry,
\* remove_entry).
WithinLimits ==
    /\ TypeOK
    /\ CountWithinLimit
    /\ total_bytes = Bytes(DOMAIN entries)
    /\ total_bytes <= max_bytes

\* After a synchronization and until the tip moves again, the pool in its order
\* of admission could be mined on the active chain, although other peers held
\* older events and admitted transactions in between.  The exception is a
\* transaction that went in after its own parent had been evicted for it.
PoolMineable ==
    current /\ ~lostParent => Kept(DOMAIN entries, DOMAIN entries, Utxo)

\* restore_candidates gives up only on transactions accept_tx would refuse again:
\* what is left is invalid, in conflict, present, or has no room and evicts
\* nothing.  The exception is a last pass that evicted entries for a candidate it
\* then refused: what it tried before may go in now and is not tried again.
RestoreComplete ==
    [][ pc = "restore" /\ pc' = "idle" /\ ~evicted =>
          \A t \in ToSet(remaining) : Admissible(t, Utxo) => NoRoomFor(t) ]_vars

\* Every operation on the pool returns (evictions and restore passes end), and a
\* peer that has moved the tip brings the pool up to date, unless a recovery
\* fails or the tip was moved by a call that returned an error.
TipMoveIsFollowed ==
    /\ pc # "idle" ~> pc = "idle"
    /\ (\E p \in Peer : stage[p] # "ready") ~> (current \/ gaveUp)

=============================================================================
