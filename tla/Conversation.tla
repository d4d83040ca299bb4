---------------------------- MODULE Conversation ----------------------------
(***************************************************************************)
(* Two correct nodes over one connection: the handshake (handshake.rs), the *)
(* task that runs it and then relays (peer.rs), the relay handlers and      *)
(* their request trackers (relay.rs), and the bounded queue to the writer   *)
(* (framing.rs).                                                            *)
(*                                                                          *)
(* wire[e] is what end e has sent and the other has not read: the writer    *)
(* queue and the socket's buffers together.  A task that has a message to   *)
(* send reads nothing until there is room for it.  A message carries one    *)
(* item, as every announcement and every request for a parent does.         *)
(*                                                                          *)
(* All blocks have the same work, so a block becomes the tip when it is     *)
(* higher than every known one (TipHasMostWork of Chain).                   *)
(***************************************************************************)
EXTENDS Integers, Sequences, FiniteSets, SequencesExt

CONSTANTS
    Block,
    prev_blockhash,
    height,          \* of a block; genesis has height 0 and is not in Block
    Tx,
    Nonces,          \* the pairs of nonces the two ends may draw
    FirstKnown,      \* end -> blocks of its chain when the connection opens
    Feeds,           \* what the other peers of the two ends may bring them
    MAX_PENDING_BLOCK_REQUESTS,
    WireCapacity,    \* messages that fit in writer queue and socket
    MaxLapses        \* bound: how many requests outlive BLOCK_REQUEST_TTL

End == {"dialer", "listener"}
Other(e) == IF e = "dialer" THEN "listener" ELSE "dialer"
Item == Block \cup Tx

ASSUME ConversationAssumption ==
    /\ Block \cap Tx = {} /\ "genesis" \notin Item
    /\ prev_blockhash \in [Block -> Block \cup {"genesis"}]
    /\ height \in [Block -> Nat \ {0}]
    /\ \A b \in Block :
          height[b] = IF prev_blockhash[b] = "genesis" THEN 1
                      ELSE height[prev_blockhash[b]] + 1
    /\ Nonces \subseteq [End -> Nat]
    /\ FirstKnown \in [End -> SUBSET Block]
    /\ \A e \in End : \A b \in FirstKnown[e] :
          prev_blockhash[b] \in FirstKnown[e] \cup {"genesis"}
    /\ Feeds \subseteq [End -> SUBSET Item]
    /\ WireCapacity \in Nat \ {0}
    /\ MAX_PENDING_BLOCK_REQUESTS \in Nat /\ MaxLapses \in Nat

VARIABLES
    phase,     \* end -> HandshakePhase of its task, or "closed"
    why,       \* end -> what closed it
    nonce,     \* end -> local_nonce
    replies,   \* end -> messages its task is sending one after the other
    wire,      \* end -> messages sent and not yet read
    commands,  \* end -> items the manager has told the task to announce
    known,     \* end -> blocks of its tree
    orphans,   \* end -> its orphan pool
    pool,      \* end -> its mempool
    pending,   \* end -> item -> "none", "fresh", or "old": past its TTL
    feed,      \* end -> items its other peers have still to bring
    offered,   \* end -> items the other has announced to it
    skipped,   \* end -> items it did not ask for, refused, or dropped
    lapses     \* bounds Lapse

vars == << phase, why, nonce, replies, wire, commands, known, orphans, pool,
           pending, feed, offered, skipped, lapses >>
data == << known, orphans, pool, pending, offered, skipped >>

Phase == {"AwaitingVersion", "AwaitingPeerVersion", "AwaitingVerack", "Established", "closed"}

Msg(k, i) == [kind |-> k, item |-> i]
Message ==
    [kind : {"version"}, item : Nat] \cup {Msg("verack", "none")}
        \cup [kind : {"inv", "getdata", "data"}, item : Item]

\* Neither end has closed.  What a node learns later is another connection's.
Open == \A e \in End : phase[e] # "closed"

\* The peer's task awaits framed.read_message.
Reading(e) == phase[e] # "closed" /\ replies[e] = << >>
Incoming(e) == wire[Other(e)]

-----------------------------------------------------------------------------
(* The chain and the pool, as far as relay sees them                        *)

HasBlock(e, b) == b \in known[e] \cup orphans[e] \cup {"genesis"}
Holds(e, i) == IF i \in Tx THEN i \in pool[e] ELSE HasBlock(e, i)

TipHeight(bs) == IF bs = {} THEN 0 ELSE CHOOSE h \in {height[b] : b \in bs} :
                                           \A b \in bs : height[b] <= h

\* b and the blocks below it.
Branch(b) ==
    LET up[n \in 0..height[b]] == IF n = 0 THEN b
                                  ELSE IF up[n - 1] = "genesis" THEN "genesis"
                                       ELSE prev_blockhash[up[n - 1]]
    IN  {up[n] : n \in 0..height[b]} \ {"genesis"}

\* process_orphans: the orphans whose whole branch is now there.
Ready(os, ks) == {o \in os : Branch(o) \subseteq os \cup ks}

ParentKnown(e, b) == prev_blockhash[b] \in known[e] \cup {"genesis"}
ConnectResult(e, b) ==
    IF HasBlock(e, b) THEN "AlreadyKnown"
    ELSE IF ~ParentKnown(e, b) THEN "Orphaned"
    ELSE IF height[b] > TipHeight(known[e]) THEN "Connected"   \* or Reorganized
    ELSE "SideChain"

\* Mutant of ConnectBlock: an orphan is not kept.
MutConnectBlock(e, b) ==
    LET now == known[e] \cup {b}
        ready == Ready(orphans[e], now)
    IN  CASE ConnectResult(e, b) = "Connected" ->
                 /\ known' = [known EXCEPT ![e] = now \cup ready]
                 /\ orphans' = [orphans EXCEPT ![e] = @ \ ready]
          [] ConnectResult(e, b) = "SideChain" ->
                 known' = [known EXCEPT ![e] = now] /\ UNCHANGED orphans
          [] OTHER -> UNCHANGED << known, orphans >>

\* connect_block.  A side-chain block wakes no orphan.
ConnectBlock(e, b) ==
    LET now == known[e] \cup {b}
        ready == Ready(orphans[e], now)
    IN  CASE ConnectResult(e, b) = "Connected" ->
                 /\ known' = [known EXCEPT ![e] = now \cup ready]
                 /\ orphans' = [orphans EXCEPT ![e] = @ \ ready]
          [] ConnectResult(e, b) = "SideChain" ->
                 known' = [known EXCEPT ![e] = now] /\ UNCHANGED orphans
          [] ConnectResult(e, b) = "Orphaned" ->
                 orphans' = [orphans EXCEPT ![e] = @ \cup {b}] /\ UNCHANGED known
          [] OTHER -> UNCHANGED << known, orphans >>

-----------------------------------------------------------------------------
(* BlockRequestTracker and TxRequestTracker                                 *)

Tracker(i) == IF i \in Tx THEN Tx ELSE Block
Live(e, i) == {j \in Tracker(i) : pending[e][j] = "fresh"}

\* A getdata for i or its answer is on the way.
InFlight(e, i) ==
    \/ Msg("getdata", i) \in Range(replies[e]) \cup Range(wire[e])
    \/ Msg("data", i) \in Range(replies[Other(e)]) \cup Range(Incoming(e))

\* Mutant of MarkRequested: one more than the cap.
MutMarkRequested(e, i) ==
    /\ i \notin Live(e, i)
    /\ Cardinality(Live(e, i)) <= MAX_PENDING_BLOCK_REQUESTS

\* Whether mark_requested returns true.
MarkRequested(e, i) ==
    /\ i \notin Live(e, i)
    /\ Cardinality(Live(e, i)) < MAX_PENDING_BLOCK_REQUESTS

\* expire_before, then the insert.
Expire(e, i) == [j \in Item |-> IF j \in Tracker(i) /\ pending[e][j] = "old"
                                THEN "none" ELSE pending[e][j]]

\* Ask the peer for i unless it is held, asked for already, or the tracker is
\* full.
Request(e, i) ==
    /\ IF ~Holds(e, i) /\ MarkRequested(e, i)
       THEN /\ pending' = [pending EXCEPT ![e] = [Expire(e, i) EXCEPT ![i] = "fresh"]]
            /\ replies' = [replies EXCEPT ![e] = << Msg("getdata", i) >>]
       ELSE /\ pending' = IF Holds(e, i) THEN pending
                          ELSE [pending EXCEPT ![e] = Expire(e, i)]
            /\ UNCHANGED replies
    /\ skipped' = [skipped EXCEPT ![e] =
                      IF \/ i \in Live(e, i) /\ ~InFlight(e, i)
                         \/ Cardinality(Live(e, i)) >= MAX_PENDING_BLOCK_REQUESTS
                         \/ i \in orphans[e]
                      THEN @ \cup {i} ELSE @ \ ({i} \cap Block)]

-----------------------------------------------------------------------------
(* The task: sending, closing, reading                                      *)

Close(e, reason) ==
    /\ phase' = [phase EXCEPT ![e] = "closed"]
    /\ why' = [why EXCEPT ![e] = reason]
    /\ replies' = [replies EXCEPT ![e] = << >>]
    /\ commands' = [commands EXCEPT ![e] = << >>]

\* MessageWriter::send; the writer task passes messages on in order.
Send(e) ==
    /\ replies[e] # << >>
    /\ Len(wire[e]) < WireCapacity
    /\ wire' = [wire EXCEPT ![e] = Append(@, Head(replies[e]))]
    /\ replies' = [replies EXCEPT ![e] = Tail(@)]
    /\ UNCHANGED << phase, why, nonce, commands, data, feed, lapses >>

\* The writer task has met an error: the other side is gone.
SendFails(e) ==
    /\ replies[e] # << >> /\ phase[Other(e)] = "closed"
    /\ Close(e, "OutboundQueueFull")
    /\ UNCHANGED << nonce, wire, data, feed, lapses >>

ReadFails(e) ==
    /\ Reading(e) /\ phase[Other(e)] = "closed" /\ Incoming(e) = << >>
    /\ Close(e, "ConnectionClosed")
    /\ UNCHANGED << nonce, wire, data, feed, lapses >>

\* timeout_at around read_message.
HandshakeTimeout(e) ==
    /\ Reading(e) /\ phase[e] # "Established"
    /\ Close(e, "HandshakeTimeout")
    /\ UNCHANGED << nonce, wire, data, feed, lapses >>

\* PeerCommand::Shutdown.
Shutdown(e) ==
    /\ Reading(e) /\ phase[e] = "Established"
    /\ Close(e, "stopped")
    /\ UNCHANGED << nonce, wire, data, feed, lapses >>

Take(e) == /\ Incoming(e) # << >>
           /\ wire' = [wire EXCEPT ![Other(e)] = Tail(@)]

\* Mutant of OnMessage: the verack goes out before the version.
MutOnMessage(e, m) ==
    CASE phase[e] \in {"AwaitingVersion", "AwaitingPeerVersion"} /\ m.kind = "version" ->
             [phase |-> "AwaitingVerack",
              out |-> IF phase[e] = "AwaitingVersion"
                      THEN << Msg("verack", "none"), Msg("version", nonce[e]) >>
                      ELSE << Msg("verack", "none") >>]
      [] phase[e] = "AwaitingVerack" /\ m.kind = "verack" ->
             [phase |-> "Established", out |-> << >>]
      [] OTHER -> [phase |-> "closed", out |-> << >>]

\* Mutant of OnMessage: an inbound end answers with its version only.
MutNoVerack(e, m) ==
    CASE phase[e] = "AwaitingVersion" /\ m.kind = "version" ->
             [phase |-> "AwaitingVerack", out |-> << Msg("version", nonce[e]) >>]
      [] phase[e] = "AwaitingPeerVersion" /\ m.kind = "version" ->
             [phase |-> "AwaitingVerack", out |-> << Msg("verack", "none") >>]
      [] phase[e] = "AwaitingVerack" /\ m.kind = "verack" ->
             [phase |-> "Established", out |-> << >>]
      [] OTHER -> [phase |-> "closed", out |-> << >>]

\* HandshakeState::on_message: the next phase and the replies.
OnMessage(e, m) ==
    CASE phase[e] \in {"AwaitingVersion", "AwaitingPeerVersion"} /\ m.kind = "version" ->
             [phase |-> "AwaitingVerack",
              out |-> IF phase[e] = "AwaitingVersion"
                      THEN << Msg("version", nonce[e]), Msg("verack", "none") >>
                      ELSE << Msg("verack", "none") >>]
      [] phase[e] = "AwaitingVerack" /\ m.kind = "verack" ->
             [phase |-> "Established", out |-> << >>]
      [] OTHER -> [phase |-> "closed", out |-> << >>]

\* validate_peer_version
SelfConnection(e, m) == m = Msg("version", nonce[e])

\* One round of the handshake loop; after it, version and verack are violations.
ReadHandshake(e) ==
    /\ Reading(e) /\ Take(e)
    /\ phase[e] = "Established" => Head(Incoming(e)).kind \in {"version", "verack"}
    /\ LET m == Head(Incoming(e))
           next == OnMessage(e, m)
       IN  IF next.phase = "closed" THEN Close(e, "HandshakeViolation")
           ELSE IF SelfConnection(e, m) THEN Close(e, "SelfConnection")
           ELSE /\ phase' = [phase EXCEPT ![e] = next.phase]
                /\ replies' = [replies EXCEPT ![e] = next.out]
                /\ UNCHANGED << why, commands >>
    /\ UNCHANGED << nonce, data, feed, lapses >>

ReadItem(e, kind, i) ==
    /\ Reading(e) /\ phase[e] = "Established" /\ Take(e)
    /\ Head(Incoming(e)) = Msg(kind, i)
    /\ UNCHANGED << phase, why, nonce, commands, feed, lapses >>

\* handle_inv
ReadInv(e, i) ==
    /\ ReadItem(e, "inv", i)
    /\ Request(e, i)
    /\ offered' = [offered EXCEPT ![e] = @ \cup {i}]
    /\ UNCHANGED << known, orphans, pool >>

\* handle_getdata: an orphan is served like any other block; a transaction that
\* is no longer in the pool gets no answer.
ReadGetData(e, i) ==
    /\ ReadItem(e, "getdata", i)
    /\ replies' = [replies EXCEPT ![e] = IF Holds(e, i) THEN << Msg("data", i) >> ELSE << >>]
    /\ UNCHANGED data

\* handle_tx: the pool takes the transaction or its admission rules refuse it.
ReadTx(e, t) ==
    /\ ReadItem(e, "data", t)
    /\ pending' = [pending EXCEPT ![e][t] = "none"]
    /\ \/ pool' = [pool EXCEPT ![e] = @ \cup {t}] /\ UNCHANGED skipped
       \/ skipped' = [skipped EXCEPT ![e] = @ \cup {t}] /\ UNCHANGED pool
    /\ UNCHANGED << replies, known, orphans, offered >>

\* handle_block: the request is cleared only when the block becomes the tip; an
\* orphan makes the task ask for its parent.
ReadBlock(e, b) ==
    /\ ReadItem(e, "data", b)
    /\ ConnectBlock(e, b)
    /\ CASE ConnectResult(e, b) = "Connected" ->
                /\ pending' = [pending EXCEPT ![e][b] = "none"]
                /\ UNCHANGED << skipped, replies >>
         [] ConnectResult(e, b) = "Orphaned" -> Request(e, prev_blockhash[b])
         [] OTHER ->
                /\ skipped' = [skipped EXCEPT ![e] = @ \cup ({b} \cap orphans[e])]
                /\ UNCHANGED << pending, replies >>
    /\ UNCHANGED << pool, offered >>

-----------------------------------------------------------------------------
(* The rest of the node                                                     *)

\* Another peer brings item i.  What becomes the tip or enters the pool is
\* announced to this peer when it is ready.
Learn(e, i) ==
    /\ i \in feed[e] /\ Open
    /\ feed' = [feed EXCEPT ![e] = @ \ {i}]
    /\ IF i \in Tx
       THEN pool' = [pool EXCEPT ![e] = @ \cup {i}] /\ UNCHANGED << known, orphans >>
       ELSE ConnectBlock(e, i) /\ UNCHANGED pool
    /\ commands' = IF /\ phase[e] = "Established"
                      /\ IF i \in Tx THEN i \notin pool[e]
                         ELSE ConnectResult(e, i) = "Connected"
                   THEN [commands EXCEPT ![e] = Append(@, i)] ELSE commands
    /\ UNCHANGED << phase, why, nonce, replies, wire, pending, offered, skipped, lapses >>

\* The select loop takes PeerCommand::Send(inv).
TakeCommand(e) ==
    /\ Reading(e) /\ phase[e] = "Established" /\ commands[e] # << >>
    /\ replies' = [replies EXCEPT ![e] = << Msg("inv", Head(commands[e])) >>]
    /\ commands' = [commands EXCEPT ![e] = Tail(@)]
    /\ UNCHANGED << phase, why, nonce, wire, data, feed, lapses >>

\* The pool loses a transaction: mined, or evicted.
DropTx(e, t) ==
    /\ t \in pool[e] /\ Open
    /\ pool' = [pool EXCEPT ![e] = @ \ {t}]
    /\ skipped' = [skipped EXCEPT ![e] = @ \cup {t}]
    /\ UNCHANGED << phase, why, nonce, replies, wire, commands, known, orphans,
                    pending, feed, offered, lapses >>

\* BLOCK_REQUEST_TTL passes for a request; the answer may still come.
Lapse(e, i) ==
    /\ lapses < MaxLapses
    /\ pending[e][i] = "fresh" /\ Open
    /\ pending' = [pending EXCEPT ![e][i] = "old"]
    /\ lapses' = lapses + 1
    /\ UNCHANGED << phase, why, nonce, replies, wire, commands, known, orphans,
                    pool, feed, offered, skipped >>

-----------------------------------------------------------------------------
Init ==
    /\ phase = [dialer |-> "AwaitingPeerVersion", listener |-> "AwaitingVersion"]
    /\ why = [e \in End |-> "none"]
    /\ nonce \in Nonces
    /\ replies = [dialer |-> << Msg("version", nonce["dialer"]) >>, listener |-> << >>]
    /\ wire = [e \in End |-> << >>]
    /\ commands = [e \in End |-> << >>]
    /\ known = FirstKnown
    /\ orphans = [e \in End |-> {}]
    /\ pool = [e \in End |-> {}]
    /\ pending = [e \in End |-> [i \in Item |-> "none"]]
    /\ feed \in Feeds
    /\ offered = [e \in End |-> {}]
    /\ skipped = [e \in End |-> {}]
    /\ lapses = 0

\* Steps a running task takes when it can.
TaskStep(e) ==
    \/ Send(e) \/ SendFails(e) \/ ReadFails(e)
    \/ ReadHandshake(e)
    \/ \E i \in Item : ReadInv(e, i) \/ ReadGetData(e, i)
    \/ \E t \in Tx : ReadTx(e, t)
    \/ \E b \in Block : ReadBlock(e, b)

Next ==
    \E e \in End :
        \/ TaskStep(e)
        \/ TakeCommand(e)
        \/ HandshakeTimeout(e) \/ Shutdown(e)
        \/ \E i \in Item : Learn(e, i) \/ Lapse(e, i)
        \/ \E t \in Tx : DropTx(e, t)

Spec == Init /\ [][Next]_vars

\* A task that can send or read does, and select! picks among its ready
\* branches at random: it does not pass over a command forever.
FairSpec ==
    /\ Spec
    /\ \A e \in End : WF_vars(TaskStep(e)) /\ SF_vars(TakeCommand(e))

-----------------------------------------------------------------------------
(* Properties                                                               *)

TypeOK ==
    /\ phase \in [End -> Phase] /\ nonce \in Nonces
    /\ why \in [End -> {"none", "OutboundQueueFull", "ConnectionClosed", "stopped",
                        "HandshakeTimeout", "HandshakeViolation", "SelfConnection"}]
    /\ replies \in [End -> Seq(Message)] /\ wire \in [End -> Seq(Message)]
    /\ commands \in [End -> Seq(Item)]
    /\ pending \in [End -> [Item -> {"none", "fresh", "old"}]]
    /\ \A e \in End : /\ Len(replies[e]) <= 2 /\ Len(wire[e]) <= WireCapacity
                     /\ known[e] \cap orphans[e] = {}
    /\ known \in [End -> SUBSET Block] /\ orphans \in [End -> SUBSET Block]
    /\ pool \in [End -> SUBSET Tx] /\ lapses \in 0..MaxLapses
    /\ feed \in [End -> SUBSET Item] /\ skipped \in [End -> SUBSET Item]
    /\ offered \in [End -> SUBSET Item]

\* Two nodes that follow the code never accuse each other: a handshake violation
\* does not happen however sends, reads, time-outs and announcements interleave,
\* an end is Established only when the other has accepted its version, and a
\* connection is refused as one to itself exactly when the nonces coincide.
HandshakeAgreement ==
    /\ \A e \in End : why[e] # "HandshakeViolation"
    /\ \A e \in End : phase[e] = "Established" =>
          phase[Other(e)] \in {"AwaitingVerack", "Established", "closed"}
    /\ (\E e \in End : why[e] = "SelfConnection") => nonce["dialer"] = nonce["listener"]
    /\ (\E e \in End : phase[e] = "Established") => nonce["dialer"] # nonce["listener"]

\* The trackers suppress loops and duplicates: within the time to live of a
\* request no second one for the same item is on the way, and a tracker never
\* holds more live requests than its cap.
NoDuplicateRequest ==
    /\ \A e \in End, i \in Item :
          Cardinality(Live(e, i)) <= MAX_PENDING_BLOCK_REQUESTS
    /\ lapses = 0 => \A e \in End, i \in Item :
          LET sent == replies[e] \o wire[e]
          IN  \A j, k \in DOMAIN sent :
                 sent[j] = Msg("getdata", i) /\ sent[k] = Msg("getdata", i) => j = k

\* Both tasks await room for a message while the other, which would have to read
\* to make room, does the same.
MutualWait == \A e \in End : replies[e] # << >> /\ Len(wire[e]) = WireCapacity

\* Both ends are done with the handshake and with everything they were told.
Quiet == \A e \in End : /\ phase[e] = "Established"
                         /\ replies[e] = << >> /\ wire[e] = << >> /\ commands[e] = << >>

\* Two open ends come to rest: the handshake ends, and the walk from orphan to
\* parent and the exchange of announcements, requests and answers do not go on
\* forever, unless both writers are stuck.
Settles == Open ~> (~Open \/ MutualWait \/ Quiet)

\* An orphan whose parent is known and not active stays parked: connect_block
\* wakes orphans only when the tip moves.
Stranded(e) == \E o \in orphans[e] : ParentKnown(e, o)

\* No announcement is lost: at rest an end has what it was offered, a block with
\* its whole branch, or it declined to ask for it or for a block below it (its
\* tracker was full, a request nobody answers was still within its time to live, it
\* had the block as an orphan of another peer), or its branch is stranded, or the peer no
\* longer has the transaction.
OfferedIsHeld ==
    Quiet => \A e \in End : \A i \in offered[e] :
        IF i \in Tx
        THEN i \in pool[e] \cup skipped[e] \cup skipped[Other(e)]
        ELSE i \in known[e] \/ Branch(i) \cap skipped[e] # {} \/ Stranded(e)
=============================================================================
