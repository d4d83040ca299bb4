# A TLA+ verification of bitrst

bitrst is a small Bitcoin node in Rust: a consensus core (`bitrst-core`), script,
crypto, wallet and miner crates, and a peer-to-peer layer (`bitrst-net`) that
shares one chain and one transaction pool between peer tasks. This directory
models its parts, from the running node down to the byte codecs, checks them with
TLC, and proves with TLAPS the main results about the consensus core, the file
store, the pool, the peer manager, the conversation of two nodes and the wallet.

## 1. Inventory

| Component | State | Operations | Talks to | What makes it correct |
|---|---|---|---|---|
| Chain (`chain.rs`, `chain_handle.rs`) | active blocks, block tree, total work, UTXO set, orphan pool, network time, journals | `connect_block` (extend, side chain, orphan, reorg, rollback, orphan queue), `set_network_time` | UTXO set, both journals, store; called by relay under a write lock | the tip has most work; active state restored on failure; UTXO equals replay; the call returns |
| UTXO set (`utxo.rs`) | outpoint -> value, script | validate, apply, undo | chain, mempool | undo reverts apply |
| Event journal (`chain_event_journal.rs`) | ring of numbered events, wallet high-water mark | `push`, `take_events`, `collect_events`, `event_cursor` | written by chain, read by relay and wallet | no gap, lag exactly on loss |
| Disconnected journal (`disconnected_block_journal.rs`) | ring of blocks | `record`, `blocks_since` | chain, mempool | covers the event window; recovery exact |
| Mempool (`mempool.rs`, `mempool_handle.rs`) | entries, spent-outpoint index, bytes, sequence | `accept_tx`, `synchronize_to_chain`, `resync_to_active_chain`, `serve_transaction` | chain's UTXO set and events; called by relay | index exact, limits, content valid on the chain |
| Relay (`relay.rs`) | per peer: event cursor, block and transaction requests | `handle_block/tx/inv/getdata`, `sync_mempool` | chain, mempool | pool follows the tip; requests expire and stay bounded |
| Peer task (`peer.rs`) | handshake state, bounded queues | `run_peer` select loop | relay, manager | no stuck queue; handshake deadline |
| Peer manager (`peers.rs`, `inbound_capacity.rs`, `seeds.rs`) | peer table, registration queue, inbound slots | accept, dial, poll, `relay_inventory`, shutdown | peer tasks | slots bounded and returned; events after registration |
| Handshake (`handshake.rs`) | version/verack flags | `on_message` | peer task | both sides become ready |
| Wallet (`wallet.rs`) | watched scripts, coins | `apply_events` | chain events and blocks | balance equals the active chain's |
| File store (`store/disk.rs`) | one file per block | `new` (sweep), `put_block`, `get_block` | file system | no torn block after a crash |
| Arithmetic (`difficulty.rs`, `pow.rs`, `uint256.rs`) | none | compact targets, retarget, work | chain | agrees with the reference definition |
| Codecs (`wire.rs`, `transaction.rs`, `block.rs`, `message.rs`, `framing.rs`) | a reader's buffer | encode, decode, sizes, `read_message` | everything | one encoding per value, sizes exact, reads survive cancellation |
| Script, sighash (`bitrst-script`, `sighash.rs`) | stack | `execute_script`, `sighash_all`, P2PKH templates | chain and pool validation, wallet | spent exactly by the key's signature |
| Merkle tree, miner | none | `merkle_root`, `mine` | chain, CLI | commits to the list; first nonce that meets the target |
| Crypto | none | hashes, ECDSA, Base58Check, keys | script, wallet | external primitives |
| CLI (`src/cli/`) | the node's poll loop | start, poll, shutdown, one-shot commands | manager | runs until told to stop |

Calls: the node polls the manager; the manager starts one task per connection and
talks to it through bounded queues; a task hands each message to relay; relay takes
the lock of the chain or of the pool, never both across an await; chain pushes
events that relay and the wallet read later.

Hard behaviours: a call of `connect_block` has loops that fail half-way; blocks arrive
in any order; events outlive the state they describe; readers fall behind bounded
rings; `sync_mempool` releases its lock between steps; several peers share one pool;
manager, acceptor and tasks meet in full queues and during shutdown; a store call
fails or the machine stops between any two system calls; integers are byte arrays
whose carries and borrows are done by hand. `PROJECT.json` lists them under "hazards"
with the lines where they bite.

## 2. Modules

| Module | Models |
|---|---|
| `UtxoSet` | constants of transactions; apply, undo and validation of a block's transactions as set operators |
| `Chain` | `connect_block` behind the write lock |
| `ForkChoice` | what `connect_block` promises about the tip |
| `EventJournal` | both rings, the wallet's drain, peer cursors and their recovery |
| `Mempool` | the pool's operations, for an unspent set given by the caller |
| `MempoolSync` | the pool, a moving chain and several peers composed |
| `PeerManager` | the running node: manager, acceptor, inbound slots, one task per connection, their queues |
| `Conversation` | two nodes over one connection: handshake, relay, request trackers, writer queue |
| `Wallet` | `apply_events` behind a chain that keeps moving |
| `FileStore` | `FileBlockStore` on a file system with errors and crashes |
| `AtomicStore` | what the `BlockStore` trait promises |
| `Arithmetic` | `uint256.rs`, compact targets, work, retargeting, the nonce search |
| `Codec` | `WireReader` and the encodings, Merkle root, `sighash_all` |
| `Script` | the interpreter and the P2PKH templates |
| `Algorithms` | calls of the three modules above, and `FramedReader` as a process |
| `ChainProofs`, `EventJournalProofs`, `MempoolProofs`, `FileStoreProofs`, `PeerManagerProofs`, `ConversationProofs`, `WalletProofs` | theorems |
| `ReplayProofs` | further theorems about `Chain`: orphans, undo data, the unspent set |
| `MC...` | small instances for TLC |

Definitions whose name starts with `Mut` are deliberately wrong variants. None is
part of a specification; each shows that some property notices its error.

### Chain

A block is its hash; its header fields and transactions are constants. Checks
with the same verdict in every state (proof of work, Merkle root, coinbase count,
size limits, scripts, value conservation) are the constant sets `BadHeader`,
`OverLimit` and `BadTx`; checks that depend on the state (median past time,
network time, expected bits, inputs present) are modelled. One call runs under
the write lock. `ConnectBlock` is its first step; each loop iteration is an
action (`CollectForkPath`, `DisconnectTip`, `ConnectForkBlock`, `FinishReorg`,
`FailReorg`, `ConnectOrphan`), and while `pc` is not `"idle"` only the next
iteration is enabled. `EnqueueReady` takes the ready orphans in every order,
since the code iterates a hash map. An index past the end or the debug assertion
in `expected_bits` is `PanicBlock`: the lock is poisoned and every later call is
`PoisonedCall`. Errors the code returns for broken metadata (`MissingAncestor`,
`NoActiveTip`) have no action; `ReorgWalkSafe` shows that a reorg never meets
them. `replayed` stands for a consumer of the event journal; `before` and
`rolledBack` only record history. `Genesis` is assumed to have passed
`new_genesis`. `set_network_time(0)` is refused by the code and left out.
`ChainWork` is an unbounded natural: 256 bits do not overflow on real chains.

### EventJournal

Events are opaque except whether they disconnect a block. `DetectLag`,
`JumpToTail` and `Recover` are the three locks of `sync_mempool`'s recovery. A
peer whose recovery fails is closed and comes back with a cursor at the tail
(`Attach`). The wallet's lag error changes nothing and is no action.

### Mempool and MempoolSync

The fee rate, size and validity of a transaction are constants, because the
outpoints it names determine the values it spends. Loops with state in between
are actions: `EvictOne`, `RefuseAtCapacity` and `InsertEntry` for
`make_room_for`, `RestoreNext` and `RestorePass` for `restore_candidates`. The
fixed points of `remove_for_block` and `descendants_of` are least closed sets,
and `Kept` characterizes what `revalidate_pool` keeps; if no such set existed the
synchronization would be stuck, and `TipMoveIsFollowed` would fail. `evicted`, read
by no guard, notes that the current pass of `restore_candidates` has evicted. In
`MempoolSync` the chain is abstract: it moves to a branch of more work
(`MoveTip`, also with an error after the move), or fails to reorg and leaves
events behind (`FailReorg`). This uses what `Chain` establishes: more work, UTXO
equals replay. A task ended by a relay error is a new connection with a cursor at
the tail (`Reconnect`).

### PeerManager

`pc` is the place of the one thread that runs `run_node`: connecting seeds, in
`poll`, draining events, in the fan-out of `relay_inventory`, and the stages of
`shutdown`. `peers` and `outbound_count` are the manager's table. `registrations`,
`events` and `commands` are the three kinds of channel, each with its capacity.
`task[c]` is the await at which the task of connection `c` stands (see the
module's header). The acceptor is a process of its own: `TryAcquire` reads the
slot counter, `CompareExchange` takes the slot or sees that it changed, `Register`
awaits room in the registration queue. What a remote node does is in
`Environment`, and so is the end of a write and of a closing writer:
`MessageWriter::send` has no timeout, so a write lasts until the remote node reads or
its connection ends. `TaskStep` is what a task does by itself. An `Emit` into the
queue of a dropped manager fails and ends the task, as the code's `send` does.
`HandleEvent` ignores an event of an address without an entry, as `handle_event`
does; `overtook`, read by no guard, keeps the last one ignored, because the entry
registered afterwards is never corrected. `EntryFollowsTask` names this exception and
says that it is the only one. `MaxReads` bounds the messages each connection brings.

### Conversation

`phase[e]` is the `HandshakeState` of an end and `why[e]` the error its task
ended with. `replies[e]` are the messages the handler wants sent; while there is
one the task awaits `MessageWriter::send` and reads nothing, which is what makes
`MutualWait` possible. `pending[e][i]` is the entry of a request tracker: `Lapse`
lets its time to live pass, `Expire` drops it on the next request of its kind.
`Learn` is an item that comes from another peer of the node and is announced
here through the manager, `DropTx` an eviction. `skipped` records, for
`OfferedIsHeld`, what an end was offered and chose not to ask for. `ConnectBlock`
is what `Chain` does seen from relay, all blocks having the same work.

### Wallet

`TakeEvents` and the application of a batch are two locks; the chain moves between
them. `apply_events` holds its lock for the whole batch: `ApplyConnected`,
`ApplyDisconnected` and `MissingBlock` are one event each, and while `applying` the
chain cannot move. A connect event names a height, and `ApplyConnected` reads the
block that is active at that height when it is applied. `trouble` records which of
six things has happened that make a wallet wrong in the code as it is: a
rolled-back reorg left its events ("rollback"), an address was watched after blocks
had been applied ("late watch"), the block at the height is not the one the event
was pushed for ("other block"), the height is no longer on the chain ("missing
block"), a block was applied twice and its undo changed ("undo overwritten"), a coin
created and spent by one block came back on undo ("own coin back"). `WalletExact`
says there is no seventh, as long as no branch creates a coin twice (`CoinsOnce`,
which is BIP 30 again). The third is the subtle one: a block read too early is taken
back when its own disconnect comes, possibly after the disconnect of the block below
it, and then restores a coin of a block that is gone although every block was
applied and every event seen. `trouble` is read by no guard.

`RollbackTakesBlocks` says what the first trouble does. A rolled-back reorg leaves the
disconnect events of blocks that are active again, and connect events of its branch,
for which the wallet reads the block now active at that height (trouble "other block")
or none ("missing block"). Without these two, active blocks may be missing from the
wallet: what they created is not counted, and what they spent is counted again
although it is spent. Nothing else goes wrong: undo data is of active blocks only, and
the coins are exactly what the blocks the wallet still has created and do not spend
(`Kept`, with coins created once, `CoinsOnce`, and spent once on a branch,
`SpentOnce`).

### FileStore

Each system call of `put_block` is an action: create the temp file, write, sync,
rename, sync the directory; `PutFails` may happen at each. `cache` is what the
process sees, `disk` what is surely on the medium. `Exit` ends the process and loses
nothing; `Crash` keeps for every name one or the other, and a file that was never
synced may come back torn. `root` is the directory itself: `create_dir_all` makes
it and nothing in the code syncs its name in its parent, so a `"new"` root, with every
block in it, may go in the next crash (`CrashLosesRoot`) or be `"kept"` from then on.
`lost` records what went this way, and `BlocksSurvive` excepts it.

`Open` is `create_dir_all` and the `read_dir` of the sweep; `entries` are the files it
has yet to remove: temp files, strays (other UTF-8 names) and names that are not
UTF-8. Names of 64 hex digits in upper case pass `is_valid_block_filename` and stay.
`OpenFails` is any error that ends `new`. The failure to remove a name that is not
UTF-8 does not: `SkipResidue` goes on, and `new` may return with the file left.
`ResidueAccounted` names these files and the temp files of puts that failed since
(`failed`) as the only residue of an open store. At first there is no directory, or one
that is durable and may hold such files. `ImplementsAtomicStore` maps the block files
that exist to `stored` and, in a kept root, the ones that exist on the medium too to
`durable`.

### Arithmetic, Codec, Script, Algorithms

The code's functions, over small bytes: the base of a 256-bit integer, of the wire
and of a script is a constant, and so are the number of digits and the limits.
Everything is computed as in the code, digit by digit with carries and borrows,
and compared with definitions over integers and sequences that do not share that
structure. `Build` distinguishes a debug build, in which an overflowing addition
panics, from a release build, in which it wraps. Hashes are injective symbols: the
hash of a value is the value with a tag, cut where the code cuts bytes.
`Algorithms` makes one call at a time (`call` is the call and its result).
`FramedReader` takes several steps: `Receive` gives it any number of bytes,
`Cancel` is the `select!` that drops the future in the middle.

## 3. Runs

| Run | Shows |
|---|---|
| `chain` | ten blocks on three branches in every order; ten properties, refinement of `ForkChoice` and termination of calls included |
| `retarget` | debug build, adjustment every 2 blocks: every active block follows the retarget rule |
| `journal` | rings of 2, five events, two peers and the wallet: no gap, lag exactly on loss, exact recovery |
| `mempool` | two peers, five transactions, pool of two: index, limits, validity, restoration; pool operations end and the pool follows a tip move |
| `node` | slots, entries and counts stay true to the tasks; a stopping node stops, unless manager and task await each other or a remote node that does not read holds a task in a write |
| `conversation` | no handshake violation, no duplicate request, offered items arrive except for named gaps, the exchange comes to rest |
| `filestore` | no torn block is visible, an acknowledged one is never lost except with a new root that nothing synced, residue is accounted for; refinement of `AtomicStore` |
| `wallet` | the wallet's coins are those of the active chain unless one of six named things happened; its undo data are those of the active blocks even after misreads; the events of rolled-back reorgs take whole blocks from it and do nothing else |
| `algorithms` | arithmetic, codecs, Merkle root, scripts, nonce search and message reader against reference definitions |
| `retarget_panic` | finding: `expected_bits` indexes past the active chain |
| `node_runs` | finding: a peer that disconnects during a fan-out ends the node |
| `work` | finding: a lost borrow gives a block too much work |

**Bounds.** `MCChain`: two branches that beat the first tip, a block that passes the
side-chain checks and fails on its branch, one bad header, one oversized block, an
orphan cap of 2 with up to 4 orphans stored (`MaxReceiveSeq`), so that evictions,
orphan queues longer than one, reorgs started by orphans and rollbacks inside a drain
all happen. `MCRetarget` has a slow, two fast and an easy branch so that reorgs across
an adjustment succeed and fail. `MCEventJournal` pushes five events through rings of
two, enough for both rings to wrap (`MaxSeq`). `MCMempool` fills a pool of two with
five transactions of different fee rates and sizes, lets a reorg return a child before
its parent, and has a branch that confirms a conflicting transaction and fails; one of
the five is so large that restoring it evicts an entry and still finds no room, after
which a smaller transaction tried before it would go in (the exception of
`RestoreComplete`); rings of three and five events (`MaxEvents`) let a peer lag, three
admissions (`MaxAdmissions`) let the pool overflow. `MCPeerManager` has one seed and
two inbound connections and queues of one place: with one place every wait and every
overtaking that a longer queue allows happens within few steps; the seed brings two
messages and one inbound peer one (`MaxReads`, per connection): two announcements are
the number a circular wait needs, and a command queue fills while its task writes.
`MCConversation` has one wire of one message in each direction, a fork of three blocks
that takes two walks to a parent, equal and different nonces, and one expired request
(`MaxLapses`). `MCFileStore` has two blocks and one other file of each kind (stray,
not UTF-8, upper-case hex); puts, errors, kills and crashes are unbounded. `MCWallet`
lets the chain move five times (`MaxMoves`): there and back across four branches of
different length, among them the path on which a block read too early is taken back
too late. `MCAlgorithms`: two-bit bytes and four-digit integers (all 256 numbers are
divided), 448 compact values, radix-8 wire bytes so that all four forms of CompactSize
occur in short messages, radix-16 script bytes with direct pushes up to 2, unlocking
scripts of up to five bytes, every cut and cancellation of three streams, whole,
truncated or with one byte changed.

The names in parentheses are bounds of the model, not of the code. Deadlock is not
checked where the system rests when the bounds are reached or may legitimately
stop: `mempool`, `node`, `conversation`, `wallet`.
`EventJournal`'s peers are interchangeable, and its run uses symmetry.

**Fairness.** `Chain`: `WF(CallStep)`, a call in progress is straight-line code
on one thread. `MempoolSync`: `WF(Work)` for the same reason and `SF(SyncStep(p))`:
a task in the middle of `sync_mempool` waits only for the locks, which other
tasks take and release again and again; a waiting task is assumed to get its
turn. `PeerManager`: weak fairness of the manager, of the acceptor and of
every task, each as one disjunction: the runtime polls what can go on. That a
handshake ends is granted by its deadline. That a remote node says anything, reads
what is written to it or closes is not assumed, and so neither is that a write ends:
`StopsUnlessStuck` has the two waits without a timeout as its exceptions, `CircularWait`
and a `WriterBlocks` that lasts for ever; tasks that are writing or closing when the
manager is gone are left where they are. `Conversation`: weak fairness of a task that
can send or read, strong fairness of taking a command, because `select!` picks
among ready branches at random. No fairness is assumed of arrivals, timers or
the operator.

## 4. Proofs

All theorems hold for every value of the constants that satisfies the named
assumptions: every tree of blocks, every capacity, every number of peers. TLC
evaluates the assumptions in the passing runs.

**ChainProofs.** `Spec => []` of `TypeOK`, `TreeSound` (`ActiveLinked` and
`TreeConsistent`), `TipHasMostWork`, `EventsFollowChain`; the action properties
`TreeOnlyGrows`, `FailedCallRestores`, `WorkOnlyGrows`; and `ImplementsForkChoice`.
None of these is inductive alone: in the middle of a reorg the chain has lost its tip,
and what makes the end come out right is in the call's local variables. `IInv` adds
`CallShape` (the queue and the outcome of a drain), `ReorgInProgress` (the snapshot is
a linked chain with the most work; the path hangs on the tree, known except for its
last block, which has more work than the snapshot), and `CallProgress` (how the
snapshot relates to the state at the start of the call). There is one lemma per
action. `InsertBlock` and `PushTipStep` carry the weight: re-inserting a known block
records the same height and work, because the tree is consistent. The refinement maps
the tip during a reorg to the snapshot's tip, so all steps stutter except the ones
that add a new block.

**ReplayProofs, orphans.** `OrphansWait` and `ReorgWalkSafe`, on top of `IInv`. `WaitInv`
speaks of the chain the call would leave if it failed now (`Settled`: the snapshot
during a reorg, the active chain otherwise): no orphan waits for one of its blocks,
and each of them, like each active block, has one undo entry per transaction. The
eviction of the oldest orphan needs that a finite pool has one (`Smallest`, from the
well-foundedness of the naturals). `OrphansWait` alone is not inductive, since a
rollback brings blocks back that were not active a step before.

**ReplayProofs, the unspent set.** `UtxoIsReplay` and `ActiveChainValid` under the
hypothesis `NoOverwrite`, and `ActiveBitsFollowRule` without it. `NoOverwrite` says
that no block creates an outpoint that is still unspent on its own branch (the rule of
BIP 30). The code does not check it: `Transaction::coinbase` puts the height into the
script, which keeps honest coinbases apart, but a block that repeats an unspent
coinbase is accepted, and undoing it loses the older output. The tree of `MCChain`
satisfies the hypothesis. `Below` is the unspent set after the first n blocks, so one
more block is one application (`BelowStep`), and `UndoReverts` shows that
`disconnect_undo` takes an application back, an output created and spent in one block
included. No induction over the chain is needed: `ReplayInv` says of every active
block, and of every block of a reorg's snapshot, that its undo entry is the one its
own branch gives and that it is valid there. A reorg overwrites undo entries; it never
touches the snapshot's, since the path leaves the active chain before anything is
disconnected. `BitsInv` carries the difficulty rule in the same way.

**EventJournalProofs.** `TypeOK`, `WindowIsSuffix`, `BlocksCoverEvents` and the four
properties of the run. `IInv` adds what the
second ring looks like (`RingOfDisconnections`, increasing numbers, complete
after its first element, and full if it has lost anything) and, for each stage of
a recovery, what the peer has already been given (`SyncProgress`).
`BlocksCoverEvents` needs `EventCapacity <= DisconnectedCapacity`, which the code
grants by using one constant for both.

**MempoolProofs.** `Spec => []` of `SpendsExact`, `PoolMineable` and
`WithinLimits`, and the action property `RestoreComplete`, for every number of peers,
every chain and every limit. `PInv` adds to the two properties the numbering of
the entries (`EntriesNumbered`: the next entry comes after all others) and what
`accept_tx` has established about the candidate while `make_room_for` works
(`RoomForValid`: it conflicts with nothing and, unless a parent was evicted, is
valid on the entries). Eviction keeps the pool mineable because the victim leaves
with a set closed under spending (`DescendantsClosed`, `RemoveClosedStep`), which
needs the exact index; `serve_transaction` cannot find a stale entry in a
mineable pool (`NothingStale`); a synchronization establishes the property anew
through `Kept`.

`WithinLimits` rests on `LInv`: the types of the pool, of the work in hand and of
the chain, and `BytesExact`, that the running total is the sum of the sizes. `Bytes`
is a fold over a set; that it adds and removes one size at a time, and that removing
a set removes its sum, is proved of the smallest set for which it could fail.
`RestoreComplete` rests on `RInv`: during a pass that has inserted and evicted
nothing, every candidate already tried is one that `accept_tx` would refuse again
(`Hopeless`), because nothing it looks at has changed. The proof attempt showed that
the property needs its exception: a pass that ends without an insertion may still
have evicted, and then an earlier candidate may fit.

**FileStoreProofs.** `TypeOK`, `BlocksSurvive`, `ResidueAccounted` and
`ImplementsAtomicStore`, and `KeptRootTheorem`: on a root that was durable before the
first open, an acknowledged block is found in every later state. `StoreInv` adds what
the order of the four steps establishes: a block file is missing or whole, in the cache
and on the medium (`BlockFilesWhole`); what the medium has is visible, since nothing
removes a block file but the loss of the root (`DiskIsVisible`); an acknowledged block
that is not lost is on the medium (`AckedOnDisk`); the temp file is whole and synced
when it is renamed, and gone afterwards (`TempReady`). A store is open only on a root
that exists (`RootHoldsBlocks`). For the residue it says that the sweep visits no block
file (`EntriesAreResidue`) and that during the sweep every
leftover is still to be visited or was passed over (`SweepGoesOn`). The refinement maps
`Rename` to the abstract `Put`, `SyncDir` and `CommitAll` to `Commit` in a kept root and
to a stutter in a new one, `Crash` to `Crash`, and every other step to a stutter; it
needs the invariant because a rename of a torn file would not be a put.

**PeerManagerProofs.** `TypeOK`, `CountersExact` and `EntryFollowsTask`, for any
number of connections, any limits and any queue capacities. `NodeInv` says where a
connection can be (the acceptor holds it, it is registered, its task runs), that the
slot counter is the cardinality of the set of inbound tasks that run (`SlotsCounted`)
and, until shutdown, `outbound_count` that of the set of outbound entries
(`EntriesCounted`). `FollowInv` is about an address that only one connection has
(`Sole`): a Disconnected is the last event a task emits and a Ready the first, an
entry that shows a running task is followed by a queued event when the task has ended
(`EndNoticed`), and one that is not yet ready by a queued Ready (`ReadyNoticed`),
unless `overtook` says that this very event was handled before the registration. That
no later registration brings a corrected entry back needs that a connection is
registered once (`RegisteredOnce`). `AddressAssumption` is what keeps inbound and
outbound counts apart: a remote node dials from a port other than the one it listens
on, so no connection of one kind has an address of the other. Two connections of the
same kind may share an address; that is why `EntryFollowsTask` is about the others.

**ConversationProofs.** `TypeOK` and `HandshakeAgreement`, for every pair of nonces
and every capacity of the connection. `HandshakeInv` says what the unread messages
of an end are, given the phases of both: while the peer awaits a version, nothing
or a version and what follows it; while it awaits a verack, nothing or a verack
followed by relay messages; once it is established, relay messages only
(`OwesVersion`, `OwesVerack`, `OwesRelay`). An end that closes in the middle may
leave a version without its verack (`CutShort`). A violation would be a message
that is not owed.

`NoDuplicateRequest` rests on `RequestInv`: as long as no request has lapsed, the
request for an item or its answer is in one place only, of the queues and wires
between the two ends, and the tracker has a live entry for it (`Alone`); the live
entries of each kind stay within the cap (`Caps`), lapsed or not. `OfferedIsHeld`
rests on `OfferInv`: an end announces, sends and is asked for what it has
(`Vouched`), and what it was offered lies in a set each of whose members is here,
declined or on its way, or is an orphan whose parent is in the set too
(`Accounted`). The set stands for the walks from orphan to parent; it can be as
large as an unfinished walk needs, and at rest nothing is on its way, so a walk can
only end in a declined block or at an orphan whose parent is known. That a walk ends
and that branches are well formed is proved of the lowest block for which it
could fail. `ConversationAssumption` asks that heights count the steps to the
genesis block and that what a node starts with is closed under parents, which
`Chain` establishes.

**WalletProofs.** `UndoComplete` (with `TypeOK`), `WalletExact` and
`RollbackTakesBlocks`, for every tree, every set of coins and every number of moves.
`UndoInv` looks at the events still to be applied, the batch followed by the journal:
a block that has left the chain while the wallet has its undo data will be
disconnected (`WillLeave`); an active block is in the wallet to stay, or an event at
its height is still to come and nothing takes it back after that (`WillStay`). This
does not say which block an event was pushed for, and so holds whatever the wallet
reads. `WalletExact` needs more: `ExactInv` says that there is a sequence of chains,
one after each waiting event, that leads from the chain the wallet has followed to the
active one (`Path`), each by one block; that every coin the wallet holds or would get
back was given to it by a block of its own chain, not above the one that spends it
(`Backed`); and, with `CoinsOnce` and no trouble at all, that coins and undo data are
exactly those of its chain (`Exact`). A reorg appends a path (`MovePath`, `PathJoin`),
an event removes its first step. `CoinsOnce` is a premise of the property, and the
tree of `MCWallet` satisfies it.

A rolled-back reorg leaves events that go to a branch and not back, so from then on
the waiting events no longer lead from chain to chain: the wallet may hold blocks of
two branches, be told to connect a block it has, or to disconnect one it has not.
`RollInv`, for `RollbackTakesBlocks`, therefore speaks of single blocks and of the
order of the events about them and their ancestors. `EventsFit` says of the events
and of the set of blocks the wallet has undo data for:

- a held block that is not active has an event to come (`NoneForgotten`);
- no block is taken back from under a live one, and what comes while a block is live
  comes above it (`TipFirst`, `OnlyAbove`);
- before a block that is taken back comes again, another branch comes and the blocks
  below it have gone too (`MakesWay`, `BelowGoes`);
- what is below a held block is held with it unless another branch has come between
  (`BelowHeld`), and a block moves between the loss of one below it and the arrival of
  one above it (`NoGap`).

A live block is held until it is taken back, or for good; a block whose own connect
event comes a second time (`Again`) is not live: it is about to be noted again.
`CoinsFit` says of the coins and undo data: every coin was created by a held block
(`CoinsHeld`); what a held block took was created by a held ancestor (`Sourced`), for
blocks that come again only as far as it matters (`SourcedBelow`, `ReturnedGoes`).
With an empty queue, `NoneForgotten` and `CoinsHeld` give that no block or coin is
left that should not be. That the coins are `Kept` is `CoinsKept`: the held blocks lie
on one line of the tree, what they created and do not spend is there, what one of them
spent of another's is in its undo data, and nothing a held block spends is a coin, but
for blocks that come again. On one line coins are created and spent once
(`OnceOnBranch`), so connecting and disconnecting a block change the coins by exactly
that block (`ConnectKept`, `DisconnectKept`). Both are stated of arbitrary sets and
sequences, so the proof splits into what a push does (`Pushed`, the `Push...` lemmas)
and what applying one event does (`Popped`, the `Pop...` lemmas); `MoveGrows` shows
that every move and every rolled-back reorg is a push. `Fine` is where the four other
troubles enter: they are noted when an event is applied, and the invariant is claimed
only as long as every block of a batch being applied is active. The proof attempt
showed that `WalletAssumption` lacked something: that work grows along a branch.
Without it the chain could move back to a block of its own branch, which the code
cannot do (`chain.rs` adds the block's work, at least 1, to its parent's), and with
such constants the property is false.

**Only model-checked.** Liveness (`CallReturns`, `TipMoveIsFollowed`,
`StopsUnlessStuck`, `Settles`): the prover handles neither fairness nor
`ENABLED`. Everything in `Algorithms`: its functions fold over
digits, bytes and bits, and the library's induction theorems take an operator as a
parameter, which the installed provers cannot instantiate. Its integers are sums of
powers of the radix as well, and no installed prover knows a law of exponentiation,
not even `a^(n+1) = a * a^n`. Every other safety invariant and action property that
a passing run checks is proved. Where a proof above needs
an induction over numbers, sets or branches, it argues by the smallest counterexample
instead (`Smallest`, from the well-foundedness of the naturals); this suits one fact
about one fold, not the composed codecs. No module declares a RECURSIVE operator,
since the prover loses its SMT backend on one; recursion is written as recursive
functions, folds or closed sets.

## 5. Findings

Three runs show the code disagreeing with a sentence of the repository, quoted in
`PROJECT.json`.

- `retarget_panic`: a block of another branch is judged by the active chain, and
  at an adjustment height above the tip `expected_bits` indexes past its end and
  panics under the write lock.
- `node_runs`: `relay_inventory` fails at a Ready peer whose task has ended and
  whose Disconnected event still waits in the queue; the error leaves `poll` and
  the node shuts down without a signal.
- `work`: `sub_u256_le` adds the borrow to a byte in `u8`. At `0xff` a release
  build wraps to 0 and loses the borrow: bits `0x1e25ffff` give work 453438
  where the definition gives 441505. A debug build panics. `WorkExact` shows that
  this is the only cause of an inexact quotient.

The models reproduce the following too; the properties name them as exceptions
or state what holds beside them.

- Chain: an orphan's error hides a successful connect, so the caller sees an error
  with the tip moved, and the orphans already taken from the pool into the queue of
  `process_orphans` are dropped with it; the events of a rolled-back reorg stay in the
  journal; a branch is first judged by the active tip's UTXO set, so a valid side block
  may be refused; undo of a repeated coinbase loses an output; a parent stored on a side
  chain does not wake its orphans (`Stranded` in `Conversation`).
- Journals: `blocks_since` refuses a recovery when the oldest retained
  disconnection is newer than the position although none was evicted.
- Pool: an incoming transaction evicts one of equal fee rate, while `mempool.rs:8-9`
  says "Incoming transactions with fee rate less than or equal to the lowest-priority
  resident are rejected with `MempoolError::AtCapacity`"; a transaction may evict its
  own parent (`lostParent`); `remove_for_block` also removes valid children of a
  confirmed transaction; the last pass of `restore_candidates` may evict entries for a
  candidate it then refuses and does not retry the others (`evicted`).
- Network: manager and task may await each other's full queues (`CircularWait`),
  two tasks each other's sockets (`MutualWait`); writes and the manager's sends have no
  timeout, so a remote node that does not read can hold a fan-out or a shutdown
  (`WriterBlocks`); an inbound peer whose Ready or Disconnected is handled before its
  registration leaves an entry that is never corrected (`overtook`); a request dropped
  at the tracker's cap is never repeated; orphans that become active are not announced;
  each connection draws its own nonce, so a dial to oneself is only noticed if the two
  nonces agree; a version below 60002 loses its relay flag; `verify_der_signature`
  ignores the hash type.
- Store: the name of a root that `new` makes is never synced in its parent, so a crash
  may take it with acknowledged blocks (`CrashLosesRoot`); opening deletes every file
  whose name is not a block's, keeps names of 64 hex digits in upper case, which no
  `get_block` reads, and ignores it when a name that is not UTF-8 cannot be removed.
- Wallet: the six troubles above; after a rolled-back reorg a coin spent on the active
  chain may count again.

## 6. Plan

Done: every module above. Left, in this order:

1. `Conversation` with three nodes, so that an announcement travels through one.
2. `Wallet` against the journal's window, with the lag error in the same model.

## 7. Not modelled

Hash functions, the curve, Base58Check, keys and addresses: no model checker
reaches into them, and they are used as injective symbols. Argument parsing,
printing, logging and the one-shot CLI commands: input and output. The unbuffered
`read_message` and `drive_until` serve tests. FilteredBlock inventory is
ignored by the code. Two stores on one directory, tampering and bit rot of
files: the code makes no promise. Overflow of 256-bit chain work and of event
numbers in 64 bits: out of reach of any execution.
