---------------------------- MODULE PeerManager ----------------------------
(***************************************************************************)
(* The running node (src/cli/node.rs): the PeerManager and its poll loop    *)
(* (peers.rs), the acceptor task, one task per connection (peer.rs) and the *)
(* inbound slots they share (inbound_capacity.rs).  The processes meet only *)
(* in bounded queues: registrations (acceptor to manager), events (tasks to *)
(* manager) and one command queue per task (manager to task).               *)
(*                                                                          *)
(* A task is in one place of run_peer:                                      *)
(*   handshake    reads until the handshake ends; takes no command          *)
(*   emit_ready   awaits room in the event queue for Ready                  *)
(*   loop         selects between its commands and the connection           *)
(*   writing      awaits MessageWriter::send                                *)
(*   emit_announce, emit_disconnected   await room for that event           *)
(*   closing      has left the loop and awaits its writer                   *)
(* What a peer says is abstracted to what it makes the task do (peer.rs,    *)
(* Conversation.tla).  No task panics, so shutdown never meets the error    *)
(* of a join.                                                               *)
(***************************************************************************)
EXTENDS Integers, Sequences, FiniteSets, SequencesExt

CONSTANTS
    Seeds,           \* the outbound connections, in the order of the seed list
    Inbound,         \* the connections remote nodes may open
    Addr,
    addr,            \* the remote address of a connection
    max_inbound,
    max_outbound,
    MaxEvents,       \* MAX_PEER_EVENTS
    MaxRegistrations,\* MAX_PEER_REGISTRATIONS
    MaxCommands,     \* capacity of a command queue, 32 in spawn_peer
    MaxReads         \* bound: how many messages each connection brings after
                     \* its handshake

Outbound == Range(Seeds)
Conn == Inbound \cup Outbound

ASSUME PeerManagerAssumption ==
    /\ Seeds \in Seq(Conn) /\ IsInjective(Seeds)
    /\ Inbound \cap Outbound = {}
    /\ addr \in [Conn -> Addr]
    /\ max_inbound \in Nat /\ max_outbound \in Nat /\ MaxReads \in [Conn -> Nat]
    /\ {MaxEvents, MaxRegistrations, MaxCommands} \subseteq Nat \ {0}

\* A remote node listens on a port and dials from another, so no connection comes in
\* from an address this node dials.
ASSUME AddressAssumption ==
    /\ \A c \in Inbound, d \in Outbound : addr[c] # addr[d]
    /\ "none" \notin Conn

VARIABLES
    pc,             \* where the manager is, from connect_seeds to its drop
    todo,           \* connections the manager's current loop has still to visit
    peer_tasks,     \* connections whose tasks shutdown has taken over
    next_seed,
    signalled,      \* the shutdown future of run_poll_loop has completed
    peers,          \* address -> [conn, state], or NoEntry
    outbound_count,
    registrations,
    events,
    commands,       \* connection -> its queued commands
    task,           \* connection -> place of its task
    active,         \* inbound slots taken
    acceptor,       \* [at, conn, seen]: the accept loop and what it holds
    reads,          \* connection -> the messages it may still bring
    overtook        \* history: address -> the last Ready or Disconnected that
                    \* handle_event ignored because the address had no entry yet

vars == << pc, todo, peer_tasks, next_seed, signalled, peers, outbound_count, registrations,
           events, commands, task, active, acceptor, reads, overtook >>

queues == << registrations, events, commands >>
book == << peers, outbound_count, overtook >>
manager == << pc, todo, peer_tasks, next_seed, signalled, book >>

NoEntry == [conn |-> "none", state |-> "none"]

\* The run_peer future exists: it holds the command receiver and the slot.
Running == {"handshake", "emit_ready", "loop", "writing", "emit_announce", "closing"}

Event(k, c) == [kind |-> k, addr |-> addr[c]]

\* Where a task awaits room for an event.
EmitPlace == [ready |-> "emit_ready", announce |-> "emit_announce",
              disconnected |-> "emit_disconnected"]

\* The manager has been dropped, and with it the receivers of its queues.
Closed == pc = "dropped"

\* Some sender of the command queue is left: in an entry, in a registration on
\* its way, or in shutdown's list.
HasSender(c) ==
    \/ peers[addr[c]].conn = c
    \/ c \in Range(registrations) \/ acceptor.conn = c
    \/ c \in peer_tasks

\* shutdown_tx has been set.
Stopping == pc \in {"join_acceptor", "signal_peers", "join_peers", "dropped"}

\* The top of the accept loop.
NextAccept ==
    [at |-> IF Stopping THEN "done" ELSE "accept", conn |-> "none", seen |-> 0]

-----------------------------------------------------------------------------
(* InboundCapacity and the acceptor                                         *)

\* Dropping the InboundGuard of c.
Release(c) == IF c \in Inbound THEN active - 1 ELSE active

\* The load of try_acquire, and what follows when no slot is left: the stream of c
\* is dropped.
TryAcquire(c) ==
    IF active >= max_inbound
    THEN /\ acceptor' = NextAccept
         /\ task' = [task EXCEPT ![c] = "done"]
    ELSE /\ acceptor' = [at |-> "exchange", conn |-> c, seen |-> active]
         /\ UNCHANGED task

\* listener.accept() returns a connection.  An address is free again once the
\* task of its previous connection has seen it end.
Accept(c) ==
    /\ acceptor.at = "accept"
    /\ task[c] = "none"
    /\ \A d \in Conn : d # c /\ addr[d] = addr[c] => task[d] \notin Running
    /\ TryAcquire(c)
    /\ UNCHANGED << manager, queues, active, reads >>

\* Mutant of CompareExchange: a plain store instead of compare-and-swap.
MutCompareExchange ==
    /\ acceptor.at = "exchange"
    /\ active' = acceptor.seen + 1
    /\ acceptor' = [acceptor EXCEPT !.at = "register"]
    /\ task' = [task EXCEPT ![acceptor.conn] = "handshake"]
    /\ UNCHANGED << manager, queues, reads >>

\* try_acquire: the compare-and-swap, retried when the counter has moved; with
\* the slot taken the task is spawned.
CompareExchange ==
    /\ acceptor.at = "exchange"
    /\ IF active = acceptor.seen
       THEN /\ active' = acceptor.seen + 1
            /\ acceptor' = [acceptor EXCEPT !.at = "register"]
            /\ task' = [task EXCEPT ![acceptor.conn] = "handshake"]
       ELSE TryAcquire(acceptor.conn) /\ UNCHANGED active
    /\ UNCHANGED << manager, queues, reads >>

\* register_tx.send(registration).await
Register ==
    /\ acceptor.at = "register"
    /\ Len(registrations) < MaxRegistrations
    /\ registrations' = Append(registrations, acceptor.conn)
    /\ acceptor' = NextAccept
    /\ UNCHANGED << manager, events, commands, task, active, reads >>

\* The accept loop sees the shutdown flag.
AcceptorStops ==
    /\ acceptor.at = "accept" /\ Stopping
    /\ acceptor' = NextAccept
    /\ UNCHANGED << manager, queues, task, active, reads >>

-----------------------------------------------------------------------------
(* The task of a connection                                                 *)

\* Task c moves to place s and run_peer goes on.
Go(c, s) ==
    /\ task' = [task EXCEPT ![c] = s]
    /\ UNCHANGED << manager, registrations, active, acceptor >>

\* run_peer of c returns: the slot is released and the command receiver dropped,
\* before spawn_peer reports the error if there is one.
Leave(c, s) ==
    /\ task' = [task EXCEPT ![c] = s]
    /\ active' = Release(c)
    /\ commands' = [commands EXCEPT ![c] = << >>]
    /\ reads' = [reads EXCEPT ![c] = 0]
    /\ UNCHANGED << manager, registrations, events, acceptor >>

HandshakeCompletes(c) ==
    /\ task[c] = "handshake"
    /\ Go(c, "emit_ready")
    /\ UNCHANGED << events, commands, reads >>

\* The handshake is violated or its deadline passes.
HandshakeFails(c) ==
    /\ task[c] = "handshake"
    /\ Leave(c, "emit_disconnected")

\* The connection ends or brings something the task returns an error for.
ReadFails(c) ==
    /\ task[c] = "loop"
    /\ Leave(c, "emit_disconnected")

WriteFails(c) ==
    /\ task[c] = "writing"
    /\ Leave(c, "emit_disconnected")

WriteDone(c) ==
    /\ task[c] = "writing"
    /\ Go(c, "loop")
    /\ UNCHANGED << events, commands, reads >>

\* Mutant of Emit: the event is dropped when the queue is full.
MutEmit(c) ==
    /\ ~Closed
    /\ \E k \in {"ready", "announce", "disconnected"} :
        /\ task[c] = EmitPlace[k]
        /\ events' = IF Len(events) < MaxEvents THEN Append(events, Event(k, c)) ELSE events
        /\ Go(c, IF k = "disconnected" THEN "done" ELSE "loop")
    /\ UNCHANGED << commands, reads >>

\* emit_event: nobody notifies the shutdown handle of a task that waits here, so
\* only room in the queue lets it go on.
Emit(c) ==
    /\ ~Closed /\ Len(events) < MaxEvents
    /\ \E k \in {"ready", "announce", "disconnected"} :
        /\ task[c] = EmitPlace[k]
        /\ events' = Append(events, Event(k, c))
        /\ Go(c, IF k = "disconnected" THEN "done" ELSE "loop")
    /\ UNCHANGED << commands, reads >>

\* emit_event fails once the manager is gone.
EmitFails(c) ==
    /\ Closed
    /\ \/ task[c] \in {"emit_ready", "emit_announce"} /\ Leave(c, "emit_disconnected")
       \/ task[c] = "emit_disconnected" /\ Go(c, "done") /\ UNCHANGED << events, commands, reads >>

\* A message arrives that is answered, or that is announced to the others.
ReadMessage(c) ==
    /\ task[c] = "loop" /\ reads[c] > 0
    /\ reads' = [reads EXCEPT ![c] = @ - 1]
    /\ \E s \in {"writing", "emit_announce"} : Go(c, s)
    /\ UNCHANGED << events, commands >>

TakeCommand(c) ==
    /\ task[c] = "loop" /\ commands[c] # << >>
    /\ commands' = [commands EXCEPT ![c] = Tail(@)]
    /\ Go(c, IF Head(commands[c]) = "send" THEN "writing" ELSE "closing")
    /\ UNCHANGED << events, reads >>

\* commands.recv() returns None.
SendersGone(c) ==
    /\ task[c] = "loop" /\ commands[c] = << >> /\ ~HasSender(c)
    /\ Go(c, "closing")
    /\ UNCHANGED << events, commands, reads >>

CloseConnection(c) ==
    /\ task[c] = "closing"
    /\ Leave(c, "done")

-----------------------------------------------------------------------------
(* The manager                                                              *)

tasks == << commands, task, active >>

\* connect_seed, as connect_seeds_report calls it: the first seed that connects
\* is the last one tried.
ConnectSeed ==
    /\ pc = "seeding" /\ next_seed <= Len(Seeds)
    /\ outbound_count < max_outbound
    /\ LET c == Seeds[next_seed]
       IN  IF peers[addr[c]] # NoEntry
           THEN UNCHANGED << peers, outbound_count, task >>
           ELSE /\ task' = [task EXCEPT ![c] = "handshake"]
                /\ peers' = [peers EXCEPT ![addr[c]] = [conn |-> c, state |-> "handshaking"]]
                /\ outbound_count' = outbound_count + 1
    /\ pc' = "polling"
    /\ UNCHANGED << todo, peer_tasks, next_seed, signalled, queues, active, acceptor, reads,
                    overtook >>

\* The connection fails or the limit is reached: the next seed is tried.
SeedFails ==
    /\ pc = "seeding" /\ next_seed <= Len(Seeds)
    /\ next_seed' = next_seed + 1
    /\ UNCHANGED << pc, todo, peer_tasks, signalled, book, queues, tasks, acceptor, reads >>

\* run_with_chain returns SeedsExhausted and drops the manager, which aborts the
\* acceptor.
SeedsExhausted ==
    /\ pc = "seeding" /\ next_seed > Len(Seeds)
    /\ acceptor.at \in {"accept", "register", "done"}
    /\ pc' = "dropped"
    /\ acceptor' = [at |-> "done", conn |-> "none", seen |-> 0]
    /\ registrations' = << >> /\ events' = << >>
    /\ UNCHANGED << todo, peer_tasks, next_seed, signalled, book, tasks, reads >>

\* poll begins with process_registrations, which takes what it finds until its
\* queue is empty, before any event is taken.
Poll ==
    /\ pc = "polling"
    /\ pc' = "registering"
    /\ UNCHANGED << todo, peer_tasks, next_seed, signalled, book, queues, tasks, acceptor, reads >>

TakeRegistration ==
    /\ pc = "registering" /\ registrations # << >>
    /\ LET c == Head(registrations)
       IN  peers' = [peers EXCEPT ![addr[c]] = [conn |-> c, state |-> "handshaking"]]
    /\ registrations' = Tail(registrations)
    /\ UNCHANGED << pc, todo, peer_tasks, next_seed, signalled, outbound_count, events,
                    tasks, acceptor, reads, overtook >>

NoMoreRegistrations ==
    /\ pc = "registering" /\ registrations = << >>
    /\ pc' = "draining"
    /\ UNCHANGED << todo, peer_tasks, next_seed, signalled, book, queues, tasks, acceptor, reads >>

\* outbound_count once the entry of a is removed.
Uncounted(a) ==
    IF peers[a].conn \in Outbound THEN outbound_count - 1 ELSE outbound_count

\* What an event does to the entry of its address, or sets off.
HandleKind(e) ==
    \/ /\ e.kind = "ready"
       /\ peers' = IF peers[e.addr] = NoEntry THEN peers
                   ELSE [peers EXCEPT ![e.addr].state = "ready"]
       /\ UNCHANGED << pc, todo, outbound_count >>
    \/ /\ e.kind = "disconnected"
       /\ peers' = [peers EXCEPT ![e.addr] = NoEntry]
       /\ outbound_count' = Uncounted(e.addr)
       /\ UNCHANGED << pc, todo >>
    \/ /\ e.kind = "announce"
       /\ todo' = { peers[a].conn : a \in { b \in Addr \ {e.addr} : peers[b].state = "ready" } }
       /\ pc' = IF todo' = {} THEN "draining" ELSE "relay"
       /\ UNCHANGED << peers, outbound_count >>

\* handle_event.  Events name an address, not a connection; those of an address
\* without an entry have no effect.
HandleEvent ==
    /\ pc = "draining" /\ events # << >>
    /\ events' = Tail(events)
    /\ LET e == Head(events)
       IN  /\ HandleKind(e)
           /\ overtook' = [overtook EXCEPT ![e.addr] =
                              IF e.kind = "announce" \/ peers'[e.addr] # NoEntry THEN @
                              ELSE IF peers[e.addr] = NoEntry THEN e.kind ELSE "none"]
    /\ UNCHANGED << peer_tasks, next_seed, signalled, registrations, tasks, acceptor, reads >>

PollReturns ==
    /\ pc = "draining" /\ events = << >>
    /\ pc' = "polling"
    /\ UNCHANGED << todo, peer_tasks, next_seed, signalled, book, queues, task, active,
                    acceptor, reads >>

\* relay_inventory awaits room in each queue in turn.
RelayTo(c) ==
    /\ pc = "relay" /\ c \in todo
    /\ task[c] \in Running /\ Len(commands[c]) < MaxCommands
    /\ commands' = [commands EXCEPT ![c] = Append(@, "send")]
    /\ todo' = todo \ {c}
    /\ pc' = IF todo' = {} THEN "draining" ELSE pc
    /\ UNCHANGED << peer_tasks, next_seed, signalled, book, registrations, events,
                    task, active, acceptor, reads >>

\* The receiver is gone: poll returns ConnectionClosed, run_poll_loop returns it
\* and the node goes on to shutdown.
RelayFails(c) ==
    /\ pc = "relay" /\ c \in todo
    /\ task[c] \notin Running
    /\ pc' = "join_acceptor"
    /\ todo' = {}
    /\ UNCHANGED << peer_tasks, next_seed, signalled, book, queues, task, active,
                    acceptor, reads >>

\* The select of run_poll_loop sees the operator's signal, between two polls only.
StopPolling ==
    /\ pc = "polling"
    /\ signalled' = TRUE
    /\ pc' = "join_acceptor"
    /\ UNCHANGED << todo, peer_tasks, next_seed, book, queues, task, active,
                    acceptor, reads >>

\* shutdown: the acceptor has ended, or is aborted at its await when it does not
\* end in time; then the entries are drained.
JoinAcceptor ==
    /\ pc = "join_acceptor"
    /\ acceptor.at \in {"accept", "register", "done"}
    /\ acceptor' = [at |-> "done", conn |-> "none", seen |-> 0]
    /\ peer_tasks' = { peers[a].conn : a \in { b \in Addr : peers[b] # NoEntry } }
    /\ todo' = peer_tasks'
    /\ peers' = [a \in Addr |-> NoEntry]
    /\ pc' = IF todo' = {} THEN "join_peers" ELSE "signal_peers"
    /\ overtook' = [a \in Addr |-> "none"]
    /\ UNCHANGED << next_seed, signalled, outbound_count, queues, task, active, reads >>

\* shutdown awaits room for Shutdown in each queue, without a timeout.
SignalPeer(c) ==
    /\ pc = "signal_peers" /\ c \in todo
    /\ task[c] \in Running => Len(commands[c]) < MaxCommands
    /\ commands' = IF task[c] \in Running
                   THEN [commands EXCEPT ![c] = Append(@, "shutdown")] ELSE commands
    /\ todo' = todo \ {c}
    /\ pc' = IF todo' = {} THEN "join_peers" ELSE pc
    /\ UNCHANGED << peer_tasks, next_seed, signalled, book, registrations, events,
                    task, active, acceptor, reads >>

\* Mutant of JoinPeer: the join has no timeout.
MutJoinPeer(c) ==
    /\ pc = "join_peers" /\ c \in peer_tasks
    /\ task[c] = "done"
    /\ peer_tasks' = peer_tasks \ {c}
    /\ UNCHANGED << pc, todo, next_seed, signalled, book, queues, task, active,
                    acceptor, reads >>

\* A task that does not end in time is aborted, wherever it awaits.
JoinPeer(c) ==
    /\ pc = "join_peers" /\ c \in peer_tasks
    /\ peer_tasks' = peer_tasks \ {c}
    /\ task' = [task EXCEPT ![c] = "done"]
    /\ active' = IF task[c] \in Running THEN Release(c) ELSE active
    /\ commands' = [commands EXCEPT ![c] = << >>]
    /\ UNCHANGED << pc, todo, next_seed, signalled, book, registrations, events,
                    acceptor, reads >>

\* shutdown returns, and with run_with_chain the manager is dropped.
ShutdownReturns ==
    /\ pc = "join_peers" /\ peer_tasks = {}
    /\ outbound_count' = 0
    /\ pc' = "dropped"
    /\ registrations' = << >> /\ events' = << >>
    /\ UNCHANGED << todo, peer_tasks, next_seed, signalled, peers, tasks, acceptor, reads,
                    overtook >>

-----------------------------------------------------------------------------
(* The node                                                                 *)

\* connect_seeds is an option of the node.
Init ==
    /\ pc \in {"seeding", "polling"}
    /\ todo = {} /\ peer_tasks = {} /\ next_seed = 1 /\ signalled = FALSE
    /\ peers = [a \in Addr |-> NoEntry] /\ outbound_count = 0
    /\ registrations = << >> /\ events = << >>
    /\ commands = [c \in Conn |-> << >>]
    /\ task = [c \in Conn |-> "none"]
    /\ active = 0
    /\ acceptor = [at |-> "accept", conn |-> "none", seen |-> 0]
    /\ reads = MaxReads
    /\ overtook = [a \in Addr |-> "none"]

ManagerStep ==
    \/ ConnectSeed \/ SeedFails \/ SeedsExhausted
    \/ Poll \/ TakeRegistration \/ NoMoreRegistrations \/ HandleEvent \/ PollReturns
    \/ JoinAcceptor \/ ShutdownReturns
    \/ \E c \in Conn : RelayTo(c) \/ RelayFails(c) \/ SignalPeer(c) \/ JoinPeer(c)

AcceptorStep == CompareExchange \/ Register \/ AcceptorStops

\* What a task does by itself, given that its handshake deadline passes.
TaskStep(c) ==
    \/ HandshakeCompletes(c) \/ HandshakeFails(c)
    \/ Emit(c) \/ EmitFails(c)
    \/ TakeCommand(c) \/ SendersGone(c)

\* What the remote nodes and the operator do.  A write has no deadline: it lasts
\* until the remote node reads or its connection ends.
Environment ==
    \/ StopPolling
    \/ \E c \in Inbound : Accept(c)
    \/ \E c \in Conn : \/ ReadMessage(c) \/ ReadFails(c)
                      \/ WriteDone(c) \/ WriteFails(c) \/ CloseConnection(c)

Next ==
    \/ ManagerStep \/ AcceptorStep \/ Environment
    \/ \E c \in Conn : TaskStep(c)

Spec == Init /\ [][Next]_vars

\* The runtime runs every task that can go on without its remote node.
FairSpec ==
    /\ Spec
    /\ WF_vars(ManagerStep) /\ WF_vars(AcceptorStep)
    /\ \A c \in Conn : WF_vars(TaskStep(c))

-----------------------------------------------------------------------------
(* Correctness                                                              *)

TypeOK ==
    /\ pc \in {"seeding", "polling", "registering", "draining", "relay"} \/ Stopping
    /\ todo \subseteq Conn /\ peer_tasks \subseteq Conn
    /\ next_seed \in 1..(Len(Seeds) + 1) /\ signalled \in BOOLEAN
    /\ peers \in [Addr -> [conn : Conn, state : {"handshaking", "ready"}] \cup {NoEntry}]
    /\ outbound_count \in 0..max_outbound
    /\ registrations \in Seq(Inbound) /\ Len(registrations) <= MaxRegistrations
    /\ events \in Seq([kind : {"ready", "announce", "disconnected"}, addr : Addr])
    /\ Len(events) <= MaxEvents
    /\ commands \in [Conn -> Seq({"send", "shutdown"})]
    /\ \A c \in Conn : Len(commands[c]) <= MaxCommands
    /\ task \in [Conn -> Running \cup {"none", "emit_disconnected", "done"}]
    /\ active \in Nat /\ reads \in [Conn -> Nat]
    /\ acceptor \in [at : {"accept", "exchange", "register", "done"},
                     conn : Inbound \cup {"none"}, seen : Nat]
    /\ overtook \in [Addr -> {"none", "ready", "disconnected"}]

\* The slot counter is the number of inbound tasks whose run_peer still runs, and
\* never exceeds its limit, although the acceptor's load and compare-and-swap
\* interleave with the drops of guards on other threads, errors and aborts
\* included (inbound_capacity.rs: "Race-free inbound connection slot reservation").
SlotsMatchTasks ==
    /\ active = Cardinality({ c \in Inbound : task[c] \in Running })
    /\ active <= max_inbound

\* An address pending in the event queue.
Pending(k, a) == \E i \in 1..Len(events) : events[i] = [kind |-> k, addr |-> a]

\* The manager's view falls behind its peers in one way only, when an inbound
\* connection's event overtakes its registration.  Otherwise an entry names a task
\* that lives or whose Disconnected is still to be handled, and an entry whose task
\* has finished its handshake is Ready or its Ready is still to be handled.  An
\* entry that is Ready is never left behind by its peer's end.  (Two connections
\* from one address are not told apart by events: such addresses are left out.)
EntryFollowsTask ==
    \A a \in { b \in Addr : /\ \E d \in Conn : { c \in Conn : addr[c] = b } = {d}
                           /\ peers[b] # NoEntry } :
        LET c == peers[a].conn
        IN  /\ /\ task[c] = "done"
               /\ peers[a].state = "ready" \/ c \in Outbound \/ overtook[a] # "disconnected"
               => Pending("disconnected", a)
            /\ /\ task[c] \in {"loop", "writing", "emit_announce"}
               /\ c \in Outbound \/ overtook[a] # "ready"
               => peers[a].state = "ready" \/ Pending("ready", a)

\* outbound_count, which decides whether another seed may be tried, counts the
\* outbound entries until shutdown drains them.
OutboundCounted ==
    ~Stopping => outbound_count = Cardinality({ a \in Addr : peers[a].conn \in Outbound })

\* The two counters that decide whether another connection is taken are exact.
CountersExact == SlotsMatchTasks /\ OutboundCounted

\* The manager awaits the full command queue of a task that itself awaits room in
\* the full event queue, which only the manager empties.
CircularWait ==
    /\ pc \in {"relay", "signal_peers"} /\ Len(events) = MaxEvents
    /\ \E c \in todo : Len(commands[c]) = MaxCommands
                       /\ task[c] \in {"emit_ready", "emit_announce"}

\* The manager awaits the full command queue of a task that is in a write, which
\* lasts as long as its remote node does not read.
WriterBlocks ==
    /\ pc \in {"relay", "signal_peers"}
    /\ \E c \in todo : Len(commands[c]) = MaxCommands /\ task[c] = "writing"

\* The poll loop always comes back to where it sees the signal; and once the node
\* stops, shutdown ends and every task ends that does not await its remote node,
\* with the slot it holds and also when it was never registered.  Two things alone
\* can hold the manager: a task that waits for it in turn, and for as long as it
\* does not read, a remote node to which a task is writing with its queue full,
\* because neither relay_inventory nor shutdown's send has a timeout.
StopsUnlessStuck ==
    /\ pc \in {"registering", "draining", "relay"} ~>
           pc = "polling" \/ Stopping \/ CircularWait \/ []WriterBlocks
    /\ Stopping ~>
           \/ /\ pc = "dropped"
              /\ \A c \in Conn : task[c] \in {"none", "done", "writing", "closing"}
           \/ CircularWait \/ []WriterBlocks

\* The node runs until it is told to stop (src/cli/node.rs:93: "Runs the node until
\* `shutdown` completes").
NodeRunsUntilShutdown ==
    pc \in {"join_acceptor", "signal_peers", "join_peers"} => signalled

=============================================================================
