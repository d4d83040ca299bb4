---------------------------- MODULE EventJournal ----------------------------
(***************************************************************************)
(* The bounded journals of bitrst-core and the way their readers use them:  *)
(* ChainEventJournal (chain_event_journal.rs), DisconnectedBlockJournal     *)
(* (disconnected_block_journal.rs), the wallet's destructive-looking drain  *)
(* take_events, and the relay's per-peer cursor with its recovery from lag  *)
(* (sync_mempool, relay.rs).                                                *)
(*                                                                          *)
(* Events are opaque.  A BlockDisconnected event is also recorded, with its *)
(* block, in the disconnected journal (disconnect_tip_block, chain.rs); the *)
(* block is identified with the sequence number of its event.  The list of  *)
(* events a reader gets is modelled by the set of its entries: sequence     *)
(* numbers order it.                                                        *)
(***************************************************************************)
EXTENDS Integers, Sequences, FiniteSets

CONSTANTS
    Event,
    Disconnection,          \* the BlockDisconnected events
    EventCapacity,          \* retention of the event journal
    DisconnectedCapacity,   \* retention of the disconnected-block journal
    Peer,                   \* readers with a ChainEventCursor
    Wallet,                 \* the reader of take_events
    MaxSeq                  \* bound: how many events are ever pushed

ASSUME JournalAssumption ==
    /\ Disconnection \subseteq Event
    /\ EventCapacity \in Nat \ {0}
    /\ DisconnectedCapacity \in Nat \ {0}
    /\ EventCapacity <= DisconnectedCapacity
    /\ Wallet \notin Peer
    /\ MaxSeq \in Nat

Reader == Peer \cup {Wallet}

VARIABLES
    next_seq,
    entries,       \* retained events, oldest first
    disconnected,  \* event sequence numbers of the retained disconnected blocks
    position,      \* cursor.last_seq of a peer, wallet_high_water of the wallet
    stage,         \* where a peer is in sync_mempool: "ready", "lagged",
                   \* "jumped", or "failed" once recovery has returned an error
    since          \* since_seq of a peer that recovers

\* Auxiliary: not state of the program.
VARIABLES
    log,        \* every event ever pushed
    base,       \* position from which a reader has read without interruption
    delivered,  \* the entries a reader has been given since base
    recovered   \* disconnections a peer was given by collecting or by recovery

vars == << next_seq, entries, disconnected, position, stage, since,
           log, base, delivered, recovered >>

Entry == [seq : Nat, event : Event]

-----------------------------------------------------------------------------
(* The journals                                                             *)

LatestSeq == IF entries = << >> THEN 0 ELSE entries[Len(entries)].seq

\* Mutant of Lags: reports a lag to a reader that has lost nothing.
MutLags(pos) ==
    /\ entries # << >>
    /\ pos < entries[1].seq

\* The reader's position has fallen behind the retained window.
Lags(pos) ==
    /\ entries # << >>
    /\ pos < entries[1].seq - 1

\* Mutant of EventsAfter: gives the event at the position again.
MutEventsAfter(pos) ==
    { entries[i] : i \in { k \in 1..Len(entries) : entries[k].seq >= pos } }

EventsAfter(pos) ==
    { entries[i] : i \in { k \in 1..Len(entries) : entries[k].seq > pos } }

\* blocks_since(s) returns an error.
RecoveryFails(s) ==
    /\ disconnected # << >>
    /\ s < disconnected[1] - 1

\* Mutant of BlocksSince: gives the block at s again.
MutBlocksSince(s) ==
    { disconnected[i] : i \in { k \in 1..Len(disconnected) : disconnected[k] >= s } }

BlocksSince(s) ==
    { disconnected[i] : i \in { k \in 1..Len(disconnected) : disconnected[k] > s } }

\* push_back on a ring of the given capacity: the oldest goes first.
PushBack(ring, capacity, x) ==
    Append(IF Len(ring) >= capacity THEN Tail(ring) ELSE ring, x)

-----------------------------------------------------------------------------
(* The writer: Chain, under the write lock                                  *)

Push(e) ==
    /\ next_seq <= MaxSeq
    /\ next_seq' = next_seq + 1
    /\ entries' = PushBack(entries, EventCapacity, [seq |-> next_seq, event |-> e])
    /\ disconnected' = IF e \in Disconnection
                       THEN PushBack(disconnected, DisconnectedCapacity, next_seq)
                       ELSE disconnected
    /\ log' = Append(log, e)
    /\ UNCHANGED << position, stage, since, base, delivered, recovered >>

-----------------------------------------------------------------------------
(* The readers.  A lag error changes nothing for the wallet.                *)

\* What a successful read of everything after the position does.
Read(r) ==
    /\ ~Lags(position[r])
    /\ position[r] < LatestSeq
    /\ position' = [position EXCEPT ![r] = LatestSeq]
    /\ delivered' = [delivered EXCEPT ![r] = @ \cup EventsAfter(position[r])]

TakeEvents ==
    /\ Read(Wallet)
    /\ UNCHANGED << next_seq, entries, disconnected, stage, since, log, base,
                    recovered >>

\* The first lock of sync_mempool: collect_events succeeds.
CollectEvents(p) ==
    /\ stage[p] = "ready"
    /\ Read(p)
    /\ recovered' = [recovered EXCEPT ![p] =
          @ \cup { x.seq : x \in { y \in EventsAfter(position[p]) :
                                     y.event \in Disconnection } }]
    /\ UNCHANGED << next_seq, entries, disconnected, stage, since, log, base >>

\* Mutant of DetectLag: the old position is read after the cursor has moved.
MutDetectLag(p) ==
    /\ stage[p] = "ready"
    /\ Lags(position[p])
    /\ stage' = [stage EXCEPT ![p] = "lagged"]
    /\ since' = [since EXCEPT ![p] = LatestSeq]
    /\ UNCHANGED << next_seq, entries, disconnected, position, log, base,
                    delivered, recovered >>

\* The first lock of sync_mempool: collect_events reports lag.
DetectLag(p) ==
    /\ stage[p] = "ready"
    /\ Lags(position[p])
    /\ stage' = [stage EXCEPT ![p] = "lagged"]
    /\ since' = [since EXCEPT ![p] = position[p]]
    /\ UNCHANGED << next_seq, entries, disconnected, position, log, base,
                    delivered, recovered >>

\* The second lock: the cursor is moved to the tail.
JumpToTail(p) ==
    /\ stage[p] = "lagged"
    /\ stage' = [stage EXCEPT ![p] = "jumped"]
    /\ position' = [position EXCEPT ![p] = LatestSeq]
    /\ base' = [base EXCEPT ![p] = LatestSeq]
    /\ delivered' = [delivered EXCEPT ![p] = {}]
    /\ UNCHANGED << next_seq, entries, disconnected, since, log, recovered >>

\* The third lock: resync_to_active_chain reads the disconnected journal.
Recover(p) ==
    /\ stage[p] = "jumped"
    /\ IF RecoveryFails(since[p])
       THEN /\ stage' = [stage EXCEPT ![p] = "failed"]
            /\ UNCHANGED recovered
       ELSE /\ stage' = [stage EXCEPT ![p] = "ready"]
            /\ recovered' = [recovered EXCEPT ![p] = @ \cup BlocksSince(since[p])]
    /\ since' = [since EXCEPT ![p] = 0]
    /\ UNCHANGED << next_seq, entries, disconnected, position, log, base, delivered >>

\* PeerRelayState::with_event_cursor: a new connection starts at the tail.
Attach(p) ==
    /\ stage[p] \in {"ready", "failed"}
    /\ position' = [position EXCEPT ![p] = LatestSeq]
    /\ base' = [base EXCEPT ![p] = LatestSeq]
    /\ delivered' = [delivered EXCEPT ![p] = {}]
    /\ recovered' = [recovered EXCEPT ![p] = 1..LatestSeq]
    /\ stage' = [stage EXCEPT ![p] = "ready"]
    /\ since' = [since EXCEPT ![p] = 0]
    /\ UNCHANGED << next_seq, entries, disconnected, log >>

Init ==
    /\ next_seq = 1
    /\ entries = << >>
    /\ disconnected = << >>
    /\ position = [r \in Reader |-> 0]
    /\ stage = [p \in Peer |-> "ready"]
    /\ since = [p \in Peer |-> 0]
    /\ log = << >>
    /\ base = [r \in Reader |-> 0]
    /\ delivered = [r \in Reader |-> {}]
    /\ recovered = [p \in Peer |-> {}]

Next ==
    \/ \E e \in Event : Push(e)
    \/ TakeEvents
    \/ \E p \in Peer :
        \/ CollectEvents(p)
        \/ DetectLag(p)
        \/ JumpToTail(p)
        \/ Recover(p)
        \/ Attach(p)

Spec == Init /\ [][Next]_vars

-----------------------------------------------------------------------------
(* Correctness                                                              *)

TypeOK ==
    /\ next_seq \in Nat \ {0}
    /\ entries \in Seq(Entry)
    /\ disconnected \in Seq(Nat)
    /\ position \in [Reader -> Nat]
    /\ stage \in [Peer -> {"ready", "lagged", "jumped", "failed"}]
    /\ since \in [Peer -> Nat]
    /\ log \in Seq(Event)
    /\ base \in [Reader -> Nat]
    /\ delivered \in [Reader -> SUBSET Entry]
    /\ recovered \in [Peer -> SUBSET Nat]

\* The event ring is the end of the history, as long as its capacity allows and
\* with no number missing: pushes and evictions never tear it.
WindowIsSuffix ==
    /\ next_seq = Len(log) + 1
    /\ Len(entries) = IF Len(log) < EventCapacity THEN Len(log) ELSE EventCapacity
    /\ \A i \in 1..Len(entries) :
          LET n == Len(log) - Len(entries) + i
          IN  entries[i] = [seq |-> n, event |-> log[n]]

\* A reader has been given every event between its starting point and its
\* position, each with its own number: no gap, no duplicate, nothing foreign,
\* however pushes, evictions and reads interleave.
ExactDelivery ==
    \A r \in Reader :
        /\ position[r] <= Len(log)
        /\ delivered[r] = { [seq |-> n, event |-> log[n]] :
                              n \in (base[r] + 1)..position[r] }

\* A reader is told that it lags exactly when an event it has not read is gone
\* (chain_event_journal.rs: an error "instead of silently skipping evicted
\* history", and no error without loss).
LagMeansLoss ==
    \A r \in Reader :
        Lags(position[r]) <=>
            \E n \in (position[r] + 1)..Len(log) :
                \A i \in 1..Len(entries) : entries[i].seq # n

\* Recovery that succeeds is exact: it gives every block disconnected after s.
RecoveryIsExact ==
    \A s \in 0..Len(log) :
        ~RecoveryFails(s) =>
            BlocksSince(s) = { n \in (s + 1)..Len(log) : log[n] \in Disconnection }

\* Whatever disconnection the event journal still names, the disconnected
\* journal still holds its block (docs/CONSENSUS_STANDARDS.md: it "must cover
\* the event journal window"), although the two rings evict at different paces.
BlocksCoverEvents ==
    \A i \in 1..Len(entries) :
        entries[i].event \in Disconnection =>
            \E k \in 1..Len(disconnected) : disconnected[k] = entries[i].seq

\* A peer whose sync succeeds has seen every disconnection up to its position,
\* by collecting or by recovery, although recovery takes three separate locks
\* and blocks may be disconnected between them.
NoDisconnectMissed ==
    \A p \in Peer :
        stage[p] = "ready" =>
            \A n \in 1..position[p] :
                log[n] \in Disconnection => n \in recovered[p]

=============================================================================
