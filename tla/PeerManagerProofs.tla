-------------------------- MODULE PeerManagerProofs --------------------------
(***************************************************************************)
(* Theorems about PeerManager, for every list of seeds, every set of        *)
(* connections and addresses, every limit and every capacity of the queues. *)
(***************************************************************************)
EXTENDS PeerManager, FiniteSetTheorems, TLAPS

Place == Running \cup {"none", "emit_disconnected", "done"}

\* Inbound tasks that hold a slot, and addresses with an outbound entry.
SlotHolders == {c \in Inbound : task[c] \in Running}
OutboundEntries == {a \in Addr : peers[a].conn \in Outbound}

\* Between its load and its compare-and-swap the acceptor holds a connection that
\* has no task yet, and saw a free slot.
AcceptorHolds ==
    /\ acceptor.at \in {"exchange", "register"} => acceptor.conn \in Inbound
    /\ acceptor.at = "exchange" => task[acceptor.conn] = "none" /\ acceptor.seen < max_inbound

\* An entry is kept under its connection's address.
EntriesAtHome == \A a \in Addr : peers[a] # NoEntry => addr[peers[a].conn] = a

\* shutdown takes over tasks only after the acceptor has ended.
AcceptorEnds == pc \in {"signal_peers", "join_peers", "dropped"} => acceptor.at = "done"

SlotsCounted ==
    /\ IsFiniteSet(SlotHolders)
    /\ active = Cardinality(SlotHolders)
    /\ active <= max_inbound

EntriesCounted ==
    /\ IsFiniteSet(OutboundEntries)
    /\ ~Stopping => outbound_count = Cardinality(OutboundEntries)

NodeInv ==
    /\ TypeOK
    /\ AcceptorHolds
    /\ EntriesAtHome
    /\ AcceptorEnds
    /\ SlotsCounted
    /\ EntriesCounted

-----------------------------------------------------------------------------
(* Constants and counting                                                   *)

LEMMA Constants ==
    /\ Outbound \subseteq Conn /\ Inbound \subseteq Conn
    /\ Inbound \cap Outbound = {} /\ "none" \notin Conn
    /\ addr \in [Conn -> Addr]
    /\ max_inbound \in Nat /\ max_outbound \in Nat /\ MaxReads \in [Conn -> Nat]
    /\ MaxEvents \in Nat \ {0} /\ MaxRegistrations \in Nat \ {0} /\ MaxCommands \in Nat \ {0}
    /\ Len(Seeds) \in Nat /\ \A i \in 1..Len(Seeds) : Seeds[i] \in Outbound
  <1>1. Seeds \in Seq(Conn)
    BY PeerManagerAssumption
  <1>2. \A i \in 1..Len(Seeds) : Seeds[i] \in Outbound
    BY <1>1 DEF Outbound, Range
  <1>3. QED
    BY <1>1, <1>2, PeerManagerAssumption, AddressAssumption DEF Conn, Outbound, Range

\* Taking the first element of a queue.
LEMMA QueueHead ==
    ASSUME NEW S, NEW q \in Seq(S), q # << >>
    PROVE  /\ Head(q) \in S /\ Tail(q) \in Seq(S)
           /\ Len(q) \in Nat /\ Len(Tail(q)) \in Nat /\ Len(Tail(q)) <= Len(q)
  OBVIOUS

LEMMA AppendIndex ==
    ASSUME NEW S, NEW q \in Seq(S), NEW x
    PROVE  /\ Len(q) \in Nat /\ Len(Append(q, x)) = Len(q) + 1
           /\ \A i \in 1..Len(q) : Append(q, x)[i] = q[i]
           /\ Append(q, x)[Len(q) + 1] = x
  OBVIOUS

LEMMA TailIndex ==
    ASSUME NEW S, NEW q \in Seq(S), q # << >>
    PROVE  /\ Len(q) \in Nat \ {0} /\ Len(Tail(q)) = Len(q) - 1
           /\ \A i \in 1..Len(Tail(q)) : Tail(q)[i] = q[i + 1]
           /\ Head(q) = q[1]
  OBVIOUS

\* A task moves within run_peer, or outside it.
LEMMA SlotKept ==
    ASSUME NodeInv, NEW c \in Conn, NEW s \in Place,
           task[c] \in Running <=> s \in Running,
           task' = [task EXCEPT ![c] = s], active' = active
    PROVE  SlotsCounted'
  <1>1. SlotHolders' = SlotHolders
    BY DEF NodeInv, TypeOK, SlotHolders, Place
  <1> QED
    BY <1>1 DEF NodeInv, SlotsCounted

LEMMA SlotTaken ==
    ASSUME NodeInv, NEW c \in Inbound, task[c] \notin Running, active < max_inbound,
           task' = [task EXCEPT ![c] = "handshake"], active' = active + 1
    PROVE  SlotsCounted'
  <1>1. c \in Conn
    BY Constants
  <1>2. SlotHolders' = SlotHolders \cup {c} /\ c \notin SlotHolders
    BY <1>1 DEF NodeInv, TypeOK, SlotHolders, Running
  <1>3. IsFiniteSet(SlotHolders)
    BY DEF NodeInv, SlotsCounted
  <1>4. IsFiniteSet(SlotHolders') /\ Cardinality(SlotHolders') = Cardinality(SlotHolders) + 1
    BY <1>2, <1>3, FS_AddElement
  <1> QED
    BY <1>4, Constants DEF NodeInv, SlotsCounted, TypeOK

\* A task leaves run_peer and drops its guard.
LEMMA SlotFreed ==
    ASSUME NodeInv, NEW c \in Conn, task[c] \in Running, NEW s \in Place, s \notin Running,
           task' = [task EXCEPT ![c] = s], active' = Release(c)
    PROVE  SlotsCounted' /\ active' \in Nat
  <1>1. CASE c \notin Inbound
    <2>1. SlotHolders' = SlotHolders
      BY <1>1 DEF NodeInv, TypeOK, SlotHolders, Place
    <2> QED
      BY <1>1, <2>1 DEF NodeInv, SlotsCounted, Release, TypeOK
  <1>2. CASE c \in Inbound
    <2>1. SlotHolders' = SlotHolders \ {c} /\ c \in SlotHolders
      BY <1>2 DEF NodeInv, TypeOK, SlotHolders, Place
    <2>2. IsFiniteSet(SlotHolders) /\ active = Cardinality(SlotHolders) /\ active <= max_inbound
      BY DEF NodeInv, SlotsCounted
    <2>3. IsFiniteSet(SlotHolders') /\ Cardinality(SlotHolders') = Cardinality(SlotHolders) - 1
      BY <2>1, <2>2, FS_RemoveElement
    <2>4. Cardinality(SlotHolders') \in Nat
      BY <2>3, FS_CardinalityType
    <2> QED
      BY <1>2, <2>2, <2>3, <2>4, Constants DEF SlotsCounted, Release, NodeInv, TypeOK
  <1> QED
    BY <1>1, <1>2

\* The book and the acceptor are untouched, and no task appears or loses its place
\* before its connection is accepted.
LEMMA BookKept ==
    ASSUME NodeInv, UNCHANGED << pc, peers, outbound_count, acceptor >>,
           \A c \in Conn : task[c] = "none" => task'[c] = "none"
    PROVE  AcceptorHolds' /\ EntriesAtHome' /\ AcceptorEnds' /\ EntriesCounted'
  BY Constants DEF NodeInv, AcceptorHolds, EntriesAtHome, AcceptorEnds, EntriesCounted,
                   OutboundEntries, Stopping
-----------------------------------------------------------------------------
(* The tasks                                                                *)

LEMMA GoStep ==
    ASSUME NodeInv, NEW c \in Conn, NEW s \in Place, s # "none",
           task[c] # "none", task[c] \in Running <=> s \in Running, Go(c, s),
           events' \in Seq([kind : {"ready", "announce", "disconnected"}, addr : Addr]),
           Len(events') <= MaxEvents,
           commands' \in [Conn -> Seq({"send", "shutdown"})],
           \A d \in Conn : Len(commands'[d]) <= MaxCommands,
           reads' \in [Conn -> Nat]
    PROVE  NodeInv'
  <1>1. TypeOK'
    BY DEF NodeInv, TypeOK, Go, manager, book, Place, Stopping
  <1>2. SlotsCounted'
    BY SlotKept DEF Go
  <1>3. AcceptorHolds' /\ EntriesAtHome' /\ AcceptorEnds' /\ EntriesCounted'
    <2>1. \A d \in Conn : task[d] = "none" => task'[d] = "none"
      BY DEF Go, NodeInv, TypeOK
    <2> QED
      BY <2>1, BookKept DEF Go, manager, book
  <1> QED
    BY <1>1, <1>2, <1>3 DEF NodeInv

LEMMA LeaveStep ==
    ASSUME NodeInv, NEW c \in Conn, NEW s \in {"emit_disconnected", "done"},
           task[c] \in Running, Leave(c, s)
    PROVE  NodeInv'
  <1>1. SlotsCounted' /\ active' \in Nat
    BY SlotFreed DEF Leave, Place, Running
  <1>2. TypeOK'
    <2>1. /\ commands' \in [Conn -> Seq({"send", "shutdown"})]
          /\ \A d \in Conn : Len(commands'[d]) <= MaxCommands
      BY Constants DEF NodeInv, TypeOK, Leave
    <2>2. reads' \in [Conn -> Nat] /\ task' \in [Conn -> Place]
      BY DEF NodeInv, TypeOK, Leave, Place
    <2> QED
      BY <1>1, <2>1, <2>2 DEF NodeInv, TypeOK, Leave, manager, book, Stopping, Place
  <1>3. AcceptorHolds' /\ EntriesAtHome' /\ AcceptorEnds' /\ EntriesCounted'
    <2>1. \A d \in Conn : task[d] = "none" => task'[d] = "none"
      BY DEF Leave, NodeInv, TypeOK, Running
    <2> QED
      BY <2>1, BookKept DEF Leave, manager, book
  <1> QED
    BY <1>1, <1>2, <1>3 DEF NodeInv

LEMMA EmitStep ==
    ASSUME NodeInv, NEW c \in Conn, Emit(c)
    PROVE  NodeInv'
  <1>1. PICK k \in {"ready", "announce", "disconnected"} :
            /\ task[c] = EmitPlace[k]
            /\ events' = Append(events, Event(k, c))
            /\ Go(c, IF k = "disconnected" THEN "done" ELSE "loop")
    BY DEF Emit
  <1>2. Event(k, c) \in [kind : {"ready", "announce", "disconnected"}, addr : Addr]
    BY Constants DEF Event
  <1>3. /\ events' \in Seq([kind : {"ready", "announce", "disconnected"}, addr : Addr])
        /\ Len(events') <= MaxEvents
    BY <1>1, <1>2, Constants DEF Emit, NodeInv, TypeOK
  <1>4. UNCHANGED << commands, reads >>
    BY DEF Emit
  <1>5. CASE k = "disconnected"
    BY <1>1, <1>3, <1>4, <1>5, GoStep DEF EmitPlace, Place, Running, NodeInv, TypeOK
  <1>6. CASE k # "disconnected"
    <2>1. task[c] \in {"emit_ready", "emit_announce"} /\ Go(c, "loop")
      BY <1>1, <1>6 DEF EmitPlace
    <2> QED
      BY <2>1, <1>3, <1>4, GoStep DEF Place, Running, NodeInv, TypeOK
  <1> QED
    BY <1>5, <1>6

LEMMA EmitFailsStep ==
    ASSUME NodeInv, NEW c \in Conn, EmitFails(c)
    PROVE  NodeInv'
  <1>1. CASE task[c] \in {"emit_ready", "emit_announce"} /\ Leave(c, "emit_disconnected")
    BY <1>1, LeaveStep DEF EmitFails, Running
  <1>2. CASE task[c] = "emit_disconnected" /\ Go(c, "done") /\ UNCHANGED << events, commands, reads >>
    BY <1>2, GoStep DEF EmitFails, Running, Place, NodeInv, TypeOK
  <1> QED
    BY <1>1, <1>2 DEF EmitFails

LEMMA TakeCommandStep ==
    ASSUME NodeInv, NEW c \in Conn, TakeCommand(c)
    PROVE  NodeInv'
  <1>1. commands[c] \in Seq({"send", "shutdown"}) /\ commands[c] # << >>
        /\ Len(commands[c]) <= MaxCommands
    BY DEF TakeCommand, NodeInv, TypeOK
  <1>2. Tail(commands[c]) \in Seq({"send", "shutdown"}) /\ Len(Tail(commands[c])) <= MaxCommands
    BY <1>1, Constants
  <1>3. commands' = [commands EXCEPT ![c] = Tail(commands[c])]
    BY DEF TakeCommand
  <1>4. /\ commands' \in [Conn -> Seq({"send", "shutdown"})]
        /\ \A d \in Conn : Len(commands'[d]) <= MaxCommands
    BY <1>2, <1>3 DEF NodeInv, TypeOK
  <1>5. task[c] = "loop" /\ UNCHANGED << events, reads >>
    BY DEF TakeCommand
  <1>6. Go(c, "writing") \/ Go(c, "closing")
    BY DEF TakeCommand
  <1> QED
    BY <1>4, <1>5, <1>6, GoStep DEF Place, Running, NodeInv, TypeOK

LEMMA TaskSteps ==
    ASSUME NodeInv, NEW c \in Conn,
           TaskStep(c) \/ ReadMessage(c) \/ ReadFails(c) \/ WriteDone(c) \/ WriteFails(c)
               \/ CloseConnection(c)
    PROVE  NodeInv'
  <1> USE DEF Place, Running
  <1>1. CASE HandshakeCompletes(c)
    BY <1>1, GoStep DEF HandshakeCompletes, NodeInv, TypeOK
  <1>2. CASE WriteDone(c)
    BY <1>2, GoStep DEF WriteDone, NodeInv, TypeOK
  <1>3. CASE HandshakeFails(c)
    BY <1>3, LeaveStep DEF HandshakeFails
  <1>4. CASE WriteFails(c)
    BY <1>4, LeaveStep DEF WriteFails
  <1>5. CASE ReadFails(c)
    BY <1>5, LeaveStep DEF ReadFails
  <1>6. CASE CloseConnection(c)
    BY <1>6, LeaveStep DEF CloseConnection
  <1>7. CASE SendersGone(c)
    BY <1>7, GoStep DEF SendersGone, NodeInv, TypeOK
  <1>8. CASE ReadMessage(c)
    <2>1. reads' \in [Conn -> Nat]
      BY <1>8 DEF ReadMessage, NodeInv, TypeOK
    <2>2. Go(c, "writing") \/ Go(c, "emit_announce")
      BY <1>8 DEF ReadMessage
    <2> QED
      BY <1>8, <2>1, <2>2, GoStep DEF ReadMessage, NodeInv, TypeOK
  <1> QED
    BY <1>1, <1>2, <1>3, <1>4, <1>5, <1>6, <1>7, <1>8, EmitStep, EmitFailsStep, TakeCommandStep
       DEF TaskStep
-----------------------------------------------------------------------------
(* The acceptor                                                             *)

LEMMA NextAcceptHolds ==
    ASSUME acceptor' = NextAccept, pc' = pc
    PROVE  /\ acceptor' \in [at : {"accept", "exchange", "register", "done"},
                             conn : Inbound \cup {"none"}, seen : Nat]
           /\ AcceptorHolds' /\ AcceptorEnds'
  BY DEF NextAccept, Stopping, AcceptorHolds, AcceptorEnds

LEMMA TryAcquireStep ==
    ASSUME NodeInv, NEW c \in Inbound, task[c] = "none", TryAcquire(c), active' = active,
           UNCHANGED << manager, queues, reads >>,
           acceptor.at # "done"
    PROVE  NodeInv'
  <1>1. CASE active >= max_inbound
    <2>1. acceptor' = NextAccept /\ task' = [task EXCEPT ![c] = "done"] /\ c \in Conn
      BY <1>1, Constants DEF TryAcquire
    <2>2. SlotsCounted'
      BY <2>1, SlotKept DEF Place, Running
    <2>3. TypeOK'
      BY <2>1, NextAcceptHolds DEF NodeInv, TypeOK, manager, book, queues, Stopping
    <2> QED
      BY <2>1, <2>2, <2>3, NextAcceptHolds
         DEF NodeInv, manager, book, EntriesAtHome, EntriesCounted, OutboundEntries, Stopping
  <1>2. CASE ~(active >= max_inbound)
    <2>1. acceptor' = [at |-> "exchange", conn |-> c, seen |-> active] /\ task' = task
      BY <1>2 DEF TryAcquire
    <2>2. active < max_inbound
      BY <1>2, Constants DEF NodeInv, TypeOK
    <2>3. TypeOK'
      BY <2>1 DEF NodeInv, TypeOK, manager, book, queues, Stopping
    <2>4. SlotsCounted'
      BY <2>1 DEF NodeInv, SlotsCounted, SlotHolders
    <2>5. AcceptorHolds' /\ AcceptorEnds'
      BY <2>1, <2>2 DEF NodeInv, AcceptorHolds, AcceptorEnds, manager, book
    <2> QED
      BY <2>3, <2>4, <2>5
         DEF NodeInv, manager, book, EntriesAtHome, EntriesCounted, OutboundEntries, Stopping
  <1> QED
    BY <1>1, <1>2

LEMMA CompareExchangeStep ==
    ASSUME NodeInv, CompareExchange
    PROVE  NodeInv'
  <1>1. acceptor.conn \in Inbound /\ task[acceptor.conn] = "none" /\ acceptor.seen < max_inbound
        /\ acceptor.at = "exchange"
    BY DEF CompareExchange, NodeInv, AcceptorHolds
  <1>2. UNCHANGED << manager, queues, reads >>
    BY DEF CompareExchange
  <1>3. CASE active = acceptor.seen
    <2>1. /\ active' = active + 1 /\ active < max_inbound
          /\ acceptor' = [acceptor EXCEPT !.at = "register"]
          /\ task' = [task EXCEPT ![acceptor.conn] = "handshake"]
      BY <1>1, <1>3 DEF CompareExchange
    <2>2. SlotsCounted'
      BY <1>1, <2>1, SlotTaken DEF Running
    <2>3. TypeOK'
      <3>1. task' \in [Conn -> Place]
        BY <1>1, <2>1, Constants DEF NodeInv, TypeOK, Place, Running
      <3>2. /\ active' \in Nat
            /\ acceptor' \in [at : {"accept", "exchange", "register", "done"},
                              conn : Inbound \cup {"none"}, seen : Nat]
        <4>1. active \in Nat /\ acceptor \in [at : {"accept", "exchange", "register", "done"},
                                              conn : Inbound \cup {"none"}, seen : Nat]
          BY DEF NodeInv, TypeOK
        <4> QED
          BY <2>1, <4>1
      <3> QED
        BY <1>2, <3>1, <3>2 DEF NodeInv, TypeOK, manager, book, queues, Stopping, Place
    <2>4. AcceptorHolds' /\ AcceptorEnds'
      BY <1>1, <1>2, <2>1 DEF NodeInv, TypeOK, AcceptorHolds, AcceptorEnds, manager, book
    <2> QED
      BY <1>2, <2>2, <2>3, <2>4
         DEF NodeInv, manager, book, EntriesAtHome, EntriesCounted, OutboundEntries, Stopping
  <1>4. CASE active # acceptor.seen
    BY <1>1, <1>2, <1>4, TryAcquireStep DEF CompareExchange
  <1> QED
    BY <1>3, <1>4

LEMMA AcceptorSteps ==
    ASSUME NodeInv, AcceptorStep \/ \E c \in Inbound : Accept(c)
    PROVE  NodeInv'
  <1>1. ASSUME NEW c \in Inbound, Accept(c) PROVE NodeInv'
    BY <1>1, TryAcquireStep DEF Accept
  <1>2. CASE Register
    <2>1. acceptor.conn \in Inbound
      BY <1>2 DEF Register, NodeInv, AcceptorHolds
    <2>2. registrations' \in Seq(Inbound) /\ Len(registrations') <= MaxRegistrations
      BY <1>2, <2>1, Constants DEF Register, NodeInv, TypeOK
    <2>3. acceptor' = NextAccept /\ pc' = pc
      BY <1>2 DEF Register, manager, book
    <2>4. TypeOK'
      BY <1>2, <2>2, <2>3, NextAcceptHolds DEF Register, NodeInv, TypeOK, manager, book, Stopping
    <2> QED
      BY <1>2, <2>3, <2>4, NextAcceptHolds
         DEF Register, NodeInv, manager, book, SlotsCounted, SlotHolders, EntriesAtHome, EntriesCounted,
             OutboundEntries, Stopping
  <1>3. CASE AcceptorStops
    <2>1. acceptor' = NextAccept /\ pc' = pc
      BY <1>3 DEF AcceptorStops, manager, book
    <2>2. TypeOK'
      BY <1>3, <2>1, NextAcceptHolds DEF AcceptorStops, NodeInv, TypeOK, manager, book, queues, Stopping
    <2> QED
      BY <1>3, <2>1, <2>2, NextAcceptHolds
         DEF AcceptorStops, NodeInv, manager, book, SlotsCounted, SlotHolders, EntriesAtHome,
             EntriesCounted, OutboundEntries, Stopping
  <1> QED
    BY <1>1, <1>2, <1>3, CompareExchangeStep DEF AcceptorStep
-----------------------------------------------------------------------------
(* The manager                                                              *)

\* A step of the manager alone, before shutdown takes over the tasks.
LEMMA ManagerKeeps ==
    ASSUME NodeInv, UNCHANGED << task, active, acceptor >>,
           pc' \notin {"signal_peers", "join_peers", "dropped"}
    PROVE  AcceptorHolds' /\ AcceptorEnds' /\ SlotsCounted'
  BY DEF NodeInv, AcceptorHolds, AcceptorEnds, SlotsCounted, SlotHolders

\* Nor does it touch the book.
LEMMA BookUnchanged ==
    ASSUME NodeInv, UNCHANGED << peers, outbound_count >>, ~Stopping
    PROVE  EntriesAtHome' /\ EntriesCounted'
  BY DEF NodeInv, EntriesAtHome, EntriesCounted, OutboundEntries

LEMMA ConnectSeedStep ==
    ASSUME NodeInv, ConnectSeed
    PROVE  NodeInv'
  <1> DEFINE c == Seeds[next_seed]
  <1>1. c \in Outbound /\ c \in Conn /\ c \notin Inbound /\ addr[c] \in Addr
    BY Constants DEF ConnectSeed, NodeInv, TypeOK
  <1>2. ~Stopping /\ pc' = "polling" /\ ~Stopping'
    BY DEF ConnectSeed, Stopping
  <1>3. CASE peers[addr[c]] # NoEntry
    <2>1. UNCHANGED << peers, outbound_count, task >>
      BY <1>3 DEF ConnectSeed
    <2>2. TypeOK'
      BY <1>2, <2>1 DEF ConnectSeed, NodeInv, TypeOK, queues
    <2> QED
      BY <1>2, <2>1, <2>2, ManagerKeeps, BookUnchanged DEF ConnectSeed, NodeInv
  <1>4. CASE peers[addr[c]] = NoEntry
    <2>1. /\ task' = [task EXCEPT ![c] = "handshake"]
          /\ peers' = [peers EXCEPT ![addr[c]] = [conn |-> c, state |-> "handshaking"]]
          /\ outbound_count' = outbound_count + 1
          /\ UNCHANGED << todo, peer_tasks, next_seed, signalled, queues, active, acceptor, reads,
                          overtook >>
      BY <1>4 DEF ConnectSeed
    <2>2. SlotsCounted'
      <3>1. SlotHolders' = SlotHolders
        BY <1>1, <2>1 DEF NodeInv, TypeOK, SlotHolders
      <3> QED
        BY <2>1, <3>1 DEF NodeInv, SlotsCounted
    <2>3. TypeOK'
      <3>1. outbound_count' \in 0..max_outbound
        BY <2>1, Constants DEF ConnectSeed, NodeInv, TypeOK
      <3>2. peers' \in [Addr -> [conn : Conn, state : {"handshaking", "ready"}] \cup {NoEntry}]
        BY <1>1, <2>1 DEF NodeInv, TypeOK
      <3>3. task' \in [Conn -> Place]
        BY <1>1, <2>1 DEF NodeInv, TypeOK, Place, Running
      <3> QED
        BY <1>2, <2>1, <3>1, <3>2, <3>3 DEF NodeInv, TypeOK, queues, Place
    <2>4. AcceptorHolds' /\ AcceptorEnds'
      BY <1>1, <1>2, <2>1 DEF NodeInv, TypeOK, AcceptorHolds, AcceptorEnds
    <2>5. EntriesAtHome'
      BY <1>1, <2>1 DEF NodeInv, TypeOK, EntriesAtHome
    <2>6. EntriesCounted'
      <3>1. OutboundEntries' = OutboundEntries \cup {addr[c]} /\ addr[c] \notin OutboundEntries
        BY <1>1, <1>4, <2>1, Constants DEF NodeInv, TypeOK, OutboundEntries, NoEntry
      <3>2. IsFiniteSet(OutboundEntries) /\ outbound_count = Cardinality(OutboundEntries)
        BY <1>2 DEF NodeInv, EntriesCounted
      <3> QED
        BY <2>1, <3>1, <3>2, FS_AddElement DEF EntriesCounted
    <2> QED
      BY <2>2, <2>3, <2>4, <2>5, <2>6 DEF NodeInv
  <1> QED
    BY <1>3, <1>4

LEMMA SeedsExhaustedStep ==
    ASSUME NodeInv, SeedsExhausted
    PROVE  NodeInv'
  <1>1. TypeOK'
    BY Constants DEF SeedsExhausted, NodeInv, TypeOK, Stopping, book, tasks
  <1>2. SlotsCounted'
    BY DEF SeedsExhausted, NodeInv, SlotsCounted, SlotHolders, tasks
  <1>3. EntriesAtHome' /\ EntriesCounted'
    BY DEF SeedsExhausted, NodeInv, EntriesAtHome, EntriesCounted, OutboundEntries, Stopping, book
  <1>4. AcceptorHolds' /\ AcceptorEnds'
    BY DEF SeedsExhausted, AcceptorHolds, AcceptorEnds
  <1> QED
    BY <1>1, <1>2, <1>3, <1>4 DEF NodeInv

LEMMA TakeRegistrationStep ==
    ASSUME NodeInv, TakeRegistration
    PROVE  NodeInv'
  <1> DEFINE c == Head(registrations)
  <1>1. c \in Inbound /\ c \in Conn /\ c \notin Outbound /\ addr[c] \in Addr
        /\ Tail(registrations) \in Seq(Inbound) /\ Len(Tail(registrations)) <= MaxRegistrations
    BY Constants DEF TakeRegistration, NodeInv, TypeOK
  <1>2. /\ peers' = [peers EXCEPT ![addr[c]] = [conn |-> c, state |-> "handshaking"]]
        /\ registrations' = Tail(registrations)
        /\ UNCHANGED << pc, todo, peer_tasks, next_seed, signalled, outbound_count, events,
                        commands, task, active, acceptor, reads, overtook >>
        /\ pc = "registering"
    BY DEF TakeRegistration, tasks
  <1>3. TypeOK'
    <2>1. peers' \in [Addr -> [conn : Conn, state : {"handshaking", "ready"}] \cup {NoEntry}]
      BY <1>1, <1>2 DEF NodeInv, TypeOK
    <2> QED
      BY <1>1, <1>2, <2>1 DEF NodeInv, TypeOK, Stopping
  <1>4. EntriesAtHome'
    BY <1>1, <1>2 DEF NodeInv, TypeOK, EntriesAtHome
  <1>5. EntriesCounted'
    <2>1. addr[c] \notin OutboundEntries
      <3> SUFFICES ASSUME peers[addr[c]].conn \in Outbound PROVE FALSE
        BY DEF OutboundEntries
      <3>1. addr[peers[addr[c]].conn] = addr[c]
        BY <1>1, Constants DEF NodeInv, TypeOK, EntriesAtHome, NoEntry
      <3> QED
        BY <1>1, <3>1, AddressAssumption
    <2>2. OutboundEntries' = OutboundEntries
      BY <1>1, <1>2, <2>1 DEF NodeInv, TypeOK, OutboundEntries
    <2> QED
      BY <1>2, <2>2 DEF NodeInv, EntriesCounted, Stopping
  <1> QED
    BY <1>2, <1>3, <1>4, <1>5, ManagerKeeps DEF NodeInv

LEMMA HandleEventStep ==
    ASSUME NodeInv, HandleEvent
    PROVE  NodeInv'
  <1> DEFINE e == Head(events)
             EventType == [kind : {"ready", "announce", "disconnected"}, addr : Addr]
             PeersType == [Addr -> [conn : Conn, state : {"handshaking", "ready"}] \cup {NoEntry}]
  <1>1. e \in EventType /\ e.addr \in Addr
        /\ events' \in Seq(EventType) /\ Len(events') <= MaxEvents
    <2>1. events \in Seq(EventType) /\ events # << >> /\ events' = Tail(events)
          /\ Len(events) <= MaxEvents
      BY DEF HandleEvent, NodeInv, TypeOK
    <2>2. e \in EventType /\ events' \in Seq(EventType)
          /\ Len(events) \in Nat /\ Len(events') \in Nat /\ Len(events') <= Len(events)
      <3> HIDE DEF EventType
      <3> QED
        BY <2>1, QueueHead
    <2> QED
      BY <2>1, <2>2, Constants
  <1>2. /\ pc = "draining" /\ ~Stopping
        /\ UNCHANGED << peer_tasks, next_seed, signalled, registrations, commands, task, active,
                        acceptor, reads >>
        /\ HandleKind(e)
    BY DEF HandleEvent, tasks, Stopping
  <1>6. overtook' \in [Addr -> {"none", "ready", "disconnected"}]
    <2> DEFINE v == IF e.kind = "announce" \/ peers'[e.addr] # NoEntry THEN overtook[e.addr]
                    ELSE IF peers[e.addr] = NoEntry THEN e.kind ELSE "none"
    <2>1. overtook' = [overtook EXCEPT ![e.addr] = v]
      BY DEF HandleEvent
    <2>2. overtook \in [Addr -> {"none", "ready", "disconnected"}]
      BY DEF NodeInv, TypeOK
    <2>3. v \in {"none", "ready", "disconnected"}
      BY <1>1, <2>2
    <2> HIDE DEF v
    <2> QED
      BY <2>1, <2>2, <2>3
  <1>3. CASE e.kind = "ready"
    <2>1. /\ peers' = IF peers[e.addr] = NoEntry THEN peers
                      ELSE [peers EXCEPT ![e.addr].state = "ready"]
          /\ UNCHANGED << pc, todo, outbound_count >>
      BY <1>2, <1>3 DEF HandleKind
    <2>2. /\ peers' \in PeersType
          /\ \A a \in Addr : peers'[a].conn = peers[a].conn
          /\ \A a \in Addr : peers'[a] # NoEntry => peers[a] # NoEntry
      BY <1>1, <2>1 DEF NodeInv, TypeOK, NoEntry
    <2>3. TypeOK'
      BY <1>1, <1>2, <1>6, <2>1, <2>2 DEF NodeInv, TypeOK
    <2>4. EntriesAtHome' /\ EntriesCounted'
      <3>1. OutboundEntries' = OutboundEntries
        BY <2>2 DEF OutboundEntries
      <3> QED
        BY <1>2, <2>1, <2>2, <3>1 DEF NodeInv, EntriesAtHome, EntriesCounted
    <2> QED
      BY <1>2, <2>1, <2>3, <2>4, ManagerKeeps DEF NodeInv
  <1>4. CASE e.kind = "disconnected"
    <2>1. /\ peers' = [peers EXCEPT ![e.addr] = NoEntry]
          /\ outbound_count' = Uncounted(e.addr)
          /\ UNCHANGED << pc, todo >>
      BY <1>2, <1>4 DEF HandleKind
    <2>2. peers' \in PeersType
      BY <1>1, <2>1 DEF NodeInv, TypeOK
    <2>3. IsFiniteSet(OutboundEntries) /\ outbound_count = Cardinality(OutboundEntries)
      BY <1>2 DEF NodeInv, EntriesCounted
    <2>4. OutboundEntries' = OutboundEntries \ {e.addr}
      BY <1>1, <2>1, Constants DEF NodeInv, TypeOK, OutboundEntries, NoEntry
    <2>5. /\ IsFiniteSet(OutboundEntries')
          /\ outbound_count' = Cardinality(OutboundEntries')
          /\ outbound_count' \in 0..max_outbound
      <3>1. CASE e.addr \in OutboundEntries
        <4>1. IsFiniteSet(OutboundEntries') /\ Cardinality(OutboundEntries') = outbound_count - 1
          BY <2>3, <2>4, <3>1, FS_RemoveElement
        <4>2. Cardinality(OutboundEntries') \in Nat
          BY <4>1, FS_CardinalityType
        <4>3. outbound_count' = outbound_count - 1
          BY <2>1, <3>1 DEF OutboundEntries, Uncounted
        <4> QED
          BY <4>1, <4>2, <4>3, Constants DEF NodeInv, TypeOK
      <3>2. CASE e.addr \notin OutboundEntries
        <4>1. OutboundEntries' = OutboundEntries
          BY <2>4, <3>2
        <4>2. outbound_count' = outbound_count
          BY <1>1, <2>1, <3>2 DEF OutboundEntries, Uncounted
        <4> QED
          BY <2>3, <4>1, <4>2 DEF NodeInv, TypeOK
      <3> QED
        BY <3>1, <3>2
    <2>6. TypeOK'
      BY <1>1, <1>2, <1>6, <2>1, <2>2, <2>5 DEF NodeInv, TypeOK
    <2>7. EntriesAtHome'
      BY <1>1, <2>1 DEF NodeInv, TypeOK, EntriesAtHome
    <2> QED
      BY <1>2, <2>1, <2>5, <2>6, <2>7, ManagerKeeps DEF NodeInv, EntriesCounted
  <1>5. CASE e.kind = "announce"
    <2>1. /\ todo' = { peers[a].conn : a \in { b \in Addr \ {e.addr} : peers[b].state = "ready" } }
          /\ pc' \in {"draining", "relay"} /\ UNCHANGED << peers, outbound_count >>
      BY <1>2, <1>5 DEF HandleKind
    <2>2. todo' \subseteq Conn
      BY <2>1 DEF NodeInv, TypeOK, NoEntry
    <2>3. TypeOK'
      BY <1>1, <1>2, <1>6, <2>1, <2>2 DEF NodeInv, TypeOK
    <2> QED
      BY <1>2, <2>1, <2>3, ManagerKeeps, BookUnchanged DEF NodeInv
  <1> QED
    BY <1>1, <1>3, <1>4, <1>5

\* The manager awaits room in a command queue and puts m there.
LEMMA CommandStep ==
    ASSUME NodeInv, NEW c \in Conn, NEW m \in {"send", "shutdown"},
           Len(commands[c]) < MaxCommands,
           commands' = [commands EXCEPT ![c] = Append(@, m)]
    PROVE  /\ commands' \in [Conn -> Seq({"send", "shutdown"})]
           /\ \A d \in Conn : Len(commands'[d]) <= MaxCommands
  <1>1. commands[c] \in Seq({"send", "shutdown"}) /\ commands \in [Conn -> Seq({"send", "shutdown"})]
        /\ \A d \in Conn : Len(commands[d]) <= MaxCommands
    BY DEF NodeInv, TypeOK
  <1>2. /\ Append(commands[c], m) \in Seq({"send", "shutdown"})
        /\ Len(Append(commands[c], m)) <= MaxCommands
    BY <1>1, Constants
  <1> QED
    BY <1>1, <1>2

LEMMA JoinAcceptorStep ==
    ASSUME NodeInv, JoinAcceptor
    PROVE  NodeInv'
  <1>1. /\ pc' \in {"signal_peers", "join_peers"} /\ Stopping'
        /\ acceptor' = [at |-> "done", conn |-> "none", seen |-> 0]
        /\ peers' = [a \in Addr |-> NoEntry]
        /\ todo' = peer_tasks'
        /\ peer_tasks' = { peers[a].conn : a \in { b \in Addr : peers[b] # NoEntry } }
        /\ overtook' = [a \in Addr |-> "none"]
        /\ UNCHANGED << next_seed, signalled, outbound_count, registrations, events, commands,
                        task, active, reads >>
    BY DEF JoinAcceptor, queues, Stopping
  <1>2. peer_tasks' \subseteq Conn
    BY <1>1 DEF NodeInv, TypeOK
  <1>3. TypeOK'
    BY <1>1, <1>2 DEF NodeInv, TypeOK
  <1>4. SlotsCounted' /\ AcceptorHolds' /\ AcceptorEnds' /\ EntriesAtHome'
    BY <1>1 DEF NodeInv, SlotsCounted, SlotHolders, AcceptorHolds, AcceptorEnds, EntriesAtHome
  <1>5. OutboundEntries' = {}
    BY <1>1, Constants DEF OutboundEntries, NoEntry
  <1>6. EntriesCounted'
    BY <1>1, <1>5, FS_EmptySet DEF EntriesCounted
  <1> QED
    BY <1>3, <1>4, <1>6 DEF NodeInv

LEMMA JoinPeerStep ==
    ASSUME NodeInv, NEW c \in Conn, JoinPeer(c)
    PROVE  NodeInv'
  <1>1. /\ pc = "join_peers" /\ acceptor.at = "done" /\ Stopping
        /\ task' = [task EXCEPT ![c] = "done"]
        /\ active' = IF task[c] \in Running THEN Release(c) ELSE active
        /\ commands' = [commands EXCEPT ![c] = << >>]
        /\ peer_tasks' = peer_tasks \ {c}
        /\ UNCHANGED << pc, todo, next_seed, signalled, peers, outbound_count, registrations,
                        events, acceptor, reads, overtook >>
    BY DEF JoinPeer, NodeInv, AcceptorEnds, Stopping, book
  <1>2. SlotsCounted' /\ active' \in Nat
    <2>1. CASE task[c] \in Running
      BY <1>1, <2>1, SlotFreed DEF Place, Running
    <2>2. CASE task[c] \notin Running
      BY <1>1, <2>2, SlotKept DEF Place, Running, NodeInv, TypeOK
    <2> QED
      BY <2>1, <2>2
  <1>3. TypeOK'
    <2>1. /\ commands' \in [Conn -> Seq({"send", "shutdown"})]
          /\ \A d \in Conn : Len(commands'[d]) <= MaxCommands
      BY <1>1, Constants DEF NodeInv, TypeOK
    <2>2. task' \in [Conn -> Place] /\ peer_tasks' \subseteq Conn
      BY <1>1 DEF NodeInv, TypeOK, Place
    <2> QED
      BY <1>1, <1>2, <2>1, <2>2 DEF NodeInv, TypeOK, Stopping, Place
  <1>4. AcceptorHolds' /\ AcceptorEnds' /\ EntriesAtHome' /\ EntriesCounted'
    BY <1>1 DEF NodeInv, AcceptorHolds, AcceptorEnds, EntriesAtHome, EntriesCounted,
                OutboundEntries, Stopping
  <1> QED
    BY <1>2, <1>3, <1>4 DEF NodeInv

LEMMA ManagerSteps ==
    ASSUME NodeInv, ManagerStep \/ StopPolling
    PROVE  NodeInv'
  <1>1. CASE SeedFails
    <2>1. ~Stopping /\ TypeOK'
      BY <1>1, Constants DEF SeedFails, NodeInv, TypeOK, Stopping, book, queues, tasks
    <2> QED
      BY <1>1, <2>1, ManagerKeeps, BookUnchanged DEF SeedFails, NodeInv, tasks, book
  <1>2. CASE Poll \/ NoMoreRegistrations \/ PollReturns \/ StopPolling
    <2>1. ~Stopping /\ TypeOK'
      BY <1>2 DEF Poll, NoMoreRegistrations, PollReturns, StopPolling, NodeInv, TypeOK, Stopping,
                  book, queues, tasks
    <2> QED
      BY <1>2, <2>1, ManagerKeeps, BookUnchanged
         DEF Poll, NoMoreRegistrations, PollReturns, StopPolling, NodeInv, tasks, book
  <1>3. ASSUME NEW c \in Conn, RelayTo(c) PROVE NodeInv'
    <2>1. /\ commands' \in [Conn -> Seq({"send", "shutdown"})]
          /\ \A d \in Conn : Len(commands'[d]) <= MaxCommands
      BY <1>3, CommandStep DEF RelayTo
    <2>2. ~Stopping /\ TypeOK' /\ pc' \in {"draining", "relay"}
      BY <1>3, <2>1 DEF RelayTo, NodeInv, TypeOK, Stopping, book
    <2> QED
      BY <1>3, <2>2, ManagerKeeps, BookUnchanged DEF RelayTo, NodeInv, book
  <1>4. ASSUME NEW c \in Conn, RelayFails(c) PROVE NodeInv'
    <2>1. ~Stopping /\ TypeOK' /\ pc' = "join_acceptor"
      BY <1>4 DEF RelayFails, NodeInv, TypeOK, Stopping, book, queues
    <2> QED
      BY <1>4, <2>1, ManagerKeeps, BookUnchanged DEF RelayFails, NodeInv, book
  <1>5. ASSUME NEW c \in Conn, SignalPeer(c) PROVE NodeInv'
    <2>1. /\ commands' \in [Conn -> Seq({"send", "shutdown"})]
          /\ \A d \in Conn : Len(commands'[d]) <= MaxCommands
      <3>1. CASE task[c] \in Running
        BY <1>5, <3>1, CommandStep DEF SignalPeer
      <3>2. CASE task[c] \notin Running
        BY <1>5, <3>2 DEF SignalPeer, NodeInv, TypeOK
      <3> QED
        BY <3>1, <3>2
    <2>2. /\ pc = "signal_peers" /\ pc' \in {"signal_peers", "join_peers"} /\ Stopping /\ Stopping'
          /\ todo' \subseteq todo
          /\ UNCHANGED << peer_tasks, next_seed, signalled, peers, outbound_count, registrations,
                          events, task, active, acceptor, reads, overtook >>
      BY <1>5 DEF SignalPeer, Stopping, book
    <2>3. TypeOK'
      BY <2>1, <2>2 DEF NodeInv, TypeOK
    <2> QED
      BY <2>2, <2>3 DEF NodeInv, AcceptorHolds, AcceptorEnds, EntriesAtHome, EntriesCounted,
                        OutboundEntries, SlotsCounted, SlotHolders
  <1>6. CASE ShutdownReturns
    <2>1. /\ pc = "join_peers" /\ pc' = "dropped" /\ Stopping' /\ outbound_count' = 0
          /\ registrations' = << >> /\ events' = << >>
          /\ UNCHANGED << todo, peer_tasks, next_seed, signalled, peers, commands, task, active,
                          acceptor, reads, overtook >>
      BY <1>6 DEF ShutdownReturns, Stopping, tasks
    <2>2. TypeOK'
      BY <2>1, Constants DEF NodeInv, TypeOK
    <2> QED
      BY <2>1, <2>2 DEF NodeInv, AcceptorHolds, AcceptorEnds, EntriesAtHome, EntriesCounted,
                        OutboundEntries, SlotsCounted, SlotHolders
  <1> QED
    BY <1>1, <1>2, <1>3, <1>4, <1>5, <1>6, ConnectSeedStep, SeedsExhaustedStep,
       TakeRegistrationStep, HandleEventStep, JoinAcceptorStep, JoinPeerStep DEF ManagerStep
-----------------------------------------------------------------------------
(* Theorems                                                                 *)

LEMMA InitNode ==
    ASSUME Init
    PROVE  NodeInv
  <1>1. TypeOK
    <2>1. /\ peers \in [Addr -> [conn : Conn, state : {"handshaking", "ready"}] \cup {NoEntry}]
          /\ task \in [Conn -> Place] /\ commands \in [Conn -> Seq({"send", "shutdown"})]
          /\ \A c \in Conn : Len(commands[c]) <= MaxCommands
      BY Constants DEF Init, Place
    <2> signalled \in BOOLEAN
      BY Zenon DEF Init
    <2>2. /\ pc \in {"seeding", "polling"} /\ todo \subseteq Conn /\ peer_tasks \subseteq Conn
          /\ next_seed \in 1..(Len(Seeds) + 1)
          /\ outbound_count \in 0..max_outbound /\ active \in Nat /\ reads \in [Conn -> Nat]
          /\ overtook \in [Addr -> {"none", "ready", "disconnected"}]
      BY Constants DEF Init
    <2>3. /\ registrations \in Seq(Inbound) /\ Len(registrations) <= MaxRegistrations
          /\ events \in Seq([kind : {"ready", "announce", "disconnected"}, addr : Addr])
          /\ Len(events) <= MaxEvents
          /\ acceptor \in [at : {"accept", "exchange", "register", "done"},
                           conn : Inbound \cup {"none"}, seen : Nat]
      BY Constants DEF Init
    <2> QED
      BY <2>1, <2>2, <2>3 DEF TypeOK, Place
  <1>2. SlotHolders = {} /\ OutboundEntries = {}
    BY Constants DEF Init, SlotHolders, OutboundEntries, NoEntry, Running
  <1>3. SlotsCounted /\ EntriesCounted
    BY <1>2, FS_EmptySet, Constants DEF Init, SlotsCounted, EntriesCounted
  <1>4. AcceptorHolds /\ EntriesAtHome /\ AcceptorEnds
    BY DEF Init, AcceptorHolds, EntriesAtHome, AcceptorEnds
  <1> QED
    BY <1>1, <1>3, <1>4 DEF NodeInv

LEMMA NextNode ==
    ASSUME NodeInv, [Next]_vars
    PROVE  NodeInv'
  <1>1. CASE UNCHANGED vars
    BY <1>1 DEF vars, NodeInv, TypeOK, AcceptorHolds, EntriesAtHome, AcceptorEnds, SlotsCounted,
                SlotHolders, EntriesCounted, OutboundEntries, Stopping
  <1> QED
    BY <1>1, ManagerSteps, AcceptorSteps, TaskSteps DEF Next, Environment

\* Every state of the node is typed and its two counters agree with tasks and
\* entries (peers.rs, inbound_capacity.rs).
THEOREM NodeInvariant == Spec => []NodeInv
  BY InitNode, NextNode, PTL DEF Spec

\* The node's variables keep their types; the queues and outbound_count keep their
\* bounds.
THEOREM TypeCorrect == Spec => []TypeOK
  <1>1. NodeInv => TypeOK
    BY DEF NodeInv
  <1> QED
    BY <1>1, NodeInvariant, PTL

\* Slots and outbound_count are exact under every interleaving of acceptor, manager
\* and tasks (InboundCapacity, PeerManager::handle_event).
THEOREM CountersTheorem == Spec => []CountersExact
  <1>1. NodeInv => CountersExact
    BY DEF NodeInv, SlotsCounted, EntriesCounted, SlotHolders, OutboundEntries, CountersExact,
           SlotsMatchTasks, OutboundCounted
  <1> QED
    BY <1>1, NodeInvariant, PTL

-----------------------------------------------------------------------------
(* What the manager is told of its peers                                    *)

\* Connections that share their address with no other: events name an address.
Sole == {c \in Conn : \A d \in Conn : addr[d] = addr[c] => d = c}

\* shutdown has emptied the book.
Late == pc \in {"signal_peers", "join_peers", "dropped"}

Entry(c) == peers[addr[c]].conn = c
Coming(c) == c \in Range(registrations) \/ acceptor.conn = c

\* Nothing is known of a connection that has no task yet.
Fresh(c) ==
    task[c] = "none" =>
        /\ \A i \in 1..Len(events) : events[i].addr # addr[c]
        /\ ~Entry(c) /\ c \notin Range(registrations)
        /\ ~(acceptor.at = "register" /\ acceptor.conn = c)

\* Disconnected is the last event of a connection.
DisconnectedLast(c) == Pending("disconnected", addr[c]) => task[c] = "done"

\* A Ready that may still be noted of a task that has ended is followed by its
\* Disconnected.
ReadyFirst(c) ==
    ~Late /\ task[c] = "done" /\ (Entry(c) \/ Coming(c)) =>
        \A i \in 1..Len(events) : events[i] = Event("ready", c) =>
            \E j \in (i + 1)..Len(events) : events[j] = Event("disconnected", c)

\* A task leaves its loop without a word only when nobody holds its sender.
LeavesUnheld(c) == ~Late /\ task[c] = "closing" => ~Entry(c) /\ ~Coming(c)

\* The end of a task that is registered, or about to be, is still to be handled, or
\* was handled before its registration.
EndNoticed(c) ==
    ~Late /\ task[c] = "done" /\ (Entry(c) \/ Coming(c)) =>
        \/ Pending("disconnected", addr[c])
        \/ /\ overtook[addr[c]] = "disconnected" /\ c \notin Outbound
           /\ Entry(c) => peers[addr[c]].state # "ready"

\* The same of the end of its handshake.
ReadyNoticed(c) ==
    ~Late /\ task[c] \in {"loop", "writing", "emit_announce"} /\ (Entry(c) \/ Coming(c)) =>
        \/ Entry(c) /\ peers[addr[c]].state = "ready"
        \/ Pending("ready", addr[c])
        \/ overtook[addr[c]] = "ready" /\ c \notin Outbound

Followed(c) ==
    /\ Fresh(c) /\ DisconnectedLast(c) /\ ReadyFirst(c)
    /\ LeavesUnheld(c) /\ EndNoticed(c) /\ ReadyNoticed(c)

\* Before the first seed connects and after shutdown has drained it the book is
\* empty; Shutdown is only sent then.
BookEmpty ==
    /\ Late \/ pc = "seeding" => \A a \in Addr : peers[a] = NoEntry
    /\ pc = "seeding" => \A c \in Outbound : task[c] = "none"
    /\ \A c \in Conn : \A i \in 1..Len(commands[c]) : commands[c][i] = "shutdown" => Late

FollowInv == BookEmpty /\ \A c \in Sole : Followed(c)

\* A connection is registered once: its registration is made after its task has
\* started, and is gone when its entry is there.
RegisteredOnce ==
    /\ \A c \in Conn :
        /\ task[c] = "none" =>
            /\ ~Entry(c) /\ c \notin Range(registrations)
            /\ ~(acceptor.at = "register" /\ acceptor.conn = c)
        /\ Entry(c) => ~Coming(c)
    /\ acceptor.conn \notin Range(registrations)
    /\ \A i, j \in 1..Len(registrations) : registrations[i] = registrations[j] => i = j

\* A step that registers nobody.
LEMMA SameRegistrations ==
    ASSUME NodeInv, RegisteredOnce,
           registrations' = registrations \/ registrations' = << >>,
           \A c \in Conn : task'[c] = "none" => task[c] = "none",
           \A c \in Conn : Entry(c)' => Entry(c),
           acceptor' = acceptor \/ (acceptor'.conn = "none" /\ acceptor'.at # "register")
    PROVE  RegisteredOnce'
  <1>1. Range(registrations') \subseteq Range(registrations)
        /\ Range(registrations) \subseteq Inbound
    BY DEF Range, NodeInv, TypeOK
  <1>2. acceptor'.conn \notin Range(registrations')
    BY <1>1, Constants DEF RegisteredOnce
  <1>3. \A c \in Conn : Coming(c)' => Coming(c)
    BY <1>1, Constants DEF Coming
  <1>4. \A i, j \in 1..Len(registrations') : registrations'[i] = registrations'[j] => i = j
    BY DEF RegisteredOnce
  <1> QED
    BY <1>1, <1>2, <1>3, <1>4, Constants DEF RegisteredOnce

\* The acceptor takes up connection c, or turns it away.
LEMMA TryAcquireOnce ==
    ASSUME NodeInv, RegisteredOnce, NEW c \in Inbound, task[c] = "none", TryAcquire(c),
           UNCHANGED << manager, queues >>
    PROVE  RegisteredOnce'
  <1>1. UNCHANGED << peers, registrations >> /\ c \in Conn
    BY Constants DEF manager, book, queues
  <1>2. \A d \in Conn : (task'[d] = "none" => task[d] = "none") /\ Entry(d)' = Entry(d)
    BY <1>1 DEF TryAcquire, NodeInv, TypeOK, Entry
  <1>3. CASE acceptor' = NextAccept
    <2>1. acceptor'.conn = "none" /\ acceptor'.at # "register"
      BY <1>3 DEF NextAccept
    <2> QED
      BY <1>1, <1>2, <2>1, SameRegistrations
  <1>4. CASE acceptor' = [at |-> "exchange", conn |-> c, seen |-> active]
    <2>1. acceptor'.conn = c /\ acceptor'.at = "exchange"
      BY <1>4
    <2>2. ~Entry(c) /\ c \notin Range(registrations)
      BY <1>1 DEF RegisteredOnce
    <2> QED
      BY <1>1, <1>2, <2>1, <2>2 DEF RegisteredOnce, Coming
  <1> QED
    BY <1>3, <1>4 DEF TryAcquire

LEMMA AcceptorOnce ==
    ASSUME NodeInv, RegisteredOnce, AcceptorStep \/ \E c \in Inbound : Accept(c)
    PROVE  RegisteredOnce'
  <1>1. ASSUME NEW c \in Inbound, Accept(c) PROVE RegisteredOnce'
    BY <1>1, TryAcquireOnce DEF Accept
  <1>2. CASE CompareExchange
    <2>1. acceptor.conn \in Inbound /\ task[acceptor.conn] = "none" /\ acceptor.conn \in Conn
      BY <1>2, Constants DEF CompareExchange, NodeInv, AcceptorHolds
    <2>2. CASE active # acceptor.seen
      BY <1>2, <2>1, <2>2, TryAcquireOnce DEF CompareExchange
    <2>3. CASE active = acceptor.seen
      <3>1. /\ task' = [task EXCEPT ![acceptor.conn] = "handshake"]
            /\ acceptor' = [acceptor EXCEPT !.at = "register"]
            /\ UNCHANGED << peers, registrations >>
        BY <1>2, <2>3 DEF CompareExchange, manager, book, queues
      <3>2. acceptor'.conn = acceptor.conn /\ task'[acceptor.conn] = "handshake"
        BY <2>1, <3>1 DEF NodeInv, TypeOK
      <3>3. \A d \in Conn : /\ task'[d] = "none" => task[d] = "none" /\ d # acceptor.conn
                            /\ Entry(d)' = Entry(d) /\ Coming(d)' = Coming(d)
        BY <2>1, <3>1, <3>2 DEF NodeInv, TypeOK, Entry, Coming
      <3> QED
        BY <3>1, <3>2, <3>3 DEF RegisteredOnce
    <2> QED
      BY <2>2, <2>3
  <1>3. CASE Register
    <2>1. /\ registrations' = Append(registrations, acceptor.conn) /\ acceptor'.conn = "none"
          /\ acceptor'.at # "register" /\ acceptor.at = "register"
          /\ UNCHANGED << peers, task >>
      BY <1>3 DEF Register, NextAccept, manager, book
    <2>2. registrations \in Seq(Inbound) /\ acceptor.conn \in Inbound
      BY <2>1 DEF NodeInv, TypeOK, AcceptorHolds
    <2>3. /\ Len(registrations) \in Nat /\ Len(registrations') = Len(registrations) + 1
          /\ \A i \in 1..Len(registrations) : registrations'[i] = registrations[i]
          /\ registrations'[Len(registrations) + 1] = acceptor.conn
          /\ DOMAIN registrations = 1..Len(registrations)
          /\ DOMAIN registrations' = 1..Len(registrations')
      BY <2>1, <2>2, AppendIndex
    <2>4. Range(registrations') = Range(registrations) \cup {acceptor.conn}
      BY <2>3 DEF Range
    <2>5. \A i, j \in 1..Len(registrations') : registrations'[i] = registrations'[j] => i = j
      <3>1. \A i \in 1..Len(registrations) : registrations[i] # acceptor.conn
        BY <2>3 DEF RegisteredOnce, Range
      <3> QED
        BY <2>3, <3>1 DEF RegisteredOnce
    <2>6. acceptor'.conn \notin Range(registrations')
      <3>1. Range(registrations) \subseteq Inbound
        BY <2>2 DEF Range
      <3> QED
        BY <2>1, <2>2, <2>4, <3>1, Constants
    <2>7. \A d \in Conn : Entry(d)' = Entry(d) /\ (Coming(d)' <=> Coming(d))
      BY <2>1, <2>4, Constants DEF Entry, Coming
    <2> QED
      BY <2>1, <2>4, <2>5, <2>6, <2>7 DEF RegisteredOnce
  <1>4. CASE AcceptorStops
    <2>1. /\ acceptor'.conn = "none" /\ acceptor'.at # "register"
          /\ UNCHANGED << peers, registrations, task >>
      BY <1>4 DEF AcceptorStops, NextAccept, manager, book, queues
    <2> QED
      BY <2>1, SameRegistrations DEF Entry
  <1> QED
    BY <1>1, <1>2, <1>3, <1>4 DEF AcceptorStep

LEMMA TasksOnce ==
    ASSUME NodeInv, RegisteredOnce, NEW c \in Conn,
           TaskStep(c) \/ ReadMessage(c) \/ ReadFails(c) \/ WriteDone(c) \/ WriteFails(c)
               \/ CloseConnection(c)
    PROVE  RegisteredOnce'
  <1>1. /\ UNCHANGED << peers, registrations, acceptor >>
        /\ \E s \in Place \ {"none"} : task' = [task EXCEPT ![c] = s]
    BY DEF TaskStep, HandshakeCompletes, HandshakeFails, Emit, EmitFails, TakeCommand, SendersGone,
           ReadMessage, ReadFails, WriteDone, WriteFails, CloseConnection, Go, Leave, manager, book,
           Place, Running
  <1>2. \A d \in Conn : task'[d] = "none" => task[d] = "none"
    BY <1>1 DEF NodeInv, TypeOK
  <1> QED
    BY <1>1, <1>2, SameRegistrations DEF Entry

LEMMA ManagerOnce ==
    ASSUME NodeInv, RegisteredOnce, ManagerStep \/ StopPolling
    PROVE  RegisteredOnce'
  <1>1. CASE SeedFails \/ Poll \/ NoMoreRegistrations \/ PollReturns \/ StopPolling
             \/ \E c \in Conn : RelayTo(c) \/ RelayFails(c) \/ SignalPeer(c)
    <2>1. UNCHANGED << peers, registrations, acceptor, task >>
      BY <1>1 DEF SeedFails, Poll, NoMoreRegistrations, PollReturns, StopPolling, RelayTo, RelayFails,
                  SignalPeer, book, queues, tasks
    <2> QED
      BY <2>1, SameRegistrations DEF Entry
  <1>2. CASE SeedsExhausted \/ JoinAcceptor \/ ShutdownReturns \/ \E c \in Conn : JoinPeer(c)
    <2>1. /\ registrations' = registrations \/ registrations' = << >>
          /\ acceptor' = acceptor \/ (acceptor'.conn = "none" /\ acceptor'.at # "register")
      BY <1>2 DEF SeedsExhausted, JoinAcceptor, ShutdownReturns, JoinPeer, queues
    <2>2. peers' = peers \/ peers' = [a \in Addr |-> NoEntry]
      BY <1>2 DEF SeedsExhausted, JoinAcceptor, ShutdownReturns, JoinPeer, book
    <2>3. \A d \in Conn : task'[d] = "none" => task[d] = "none"
      BY <1>2 DEF SeedsExhausted, JoinAcceptor, ShutdownReturns, JoinPeer, tasks, NodeInv, TypeOK
    <2>4. \A d \in Conn : Entry(d)' => Entry(d)
      BY <2>2, Constants DEF Entry, NoEntry
    <2> QED
      BY <2>1, <2>3, <2>4, SameRegistrations
  <1>3. CASE ConnectSeed
    <2> DEFINE c == Seeds[next_seed]
    <2>1. c \in Outbound /\ c \in Conn /\ c \notin Inbound /\ addr[c] \in Addr
          /\ UNCHANGED << registrations, acceptor >>
      BY <1>3, Constants DEF ConnectSeed, NodeInv, TypeOK, queues
    <2>2. CASE peers[addr[c]] # NoEntry
      <3>1. UNCHANGED << peers, task >>
        BY <1>3, <2>2 DEF ConnectSeed
      <3> QED
        BY <2>1, <3>1, SameRegistrations DEF Entry
    <2>3. CASE peers[addr[c]] = NoEntry
      <3>1. /\ task' = [task EXCEPT ![c] = "handshake"]
            /\ peers' = [peers EXCEPT ![addr[c]] = [conn |-> c, state |-> "handshaking"]]
        BY <1>3, <2>3 DEF ConnectSeed
      <3>2. ~Coming(c)
        <4>1. acceptor.conn \in Inbound \cup {"none"} /\ registrations \in Seq(Inbound)
          BY DEF NodeInv, TypeOK
        <4>2. Range(registrations) \subseteq Inbound
          BY <4>1 DEF Range
        <4> QED
          BY <2>1, <4>1, <4>2, Constants DEF Coming
      <3>3. \A d \in Conn : /\ Coming(d)' = Coming(d) /\ (Entry(d)' => Entry(d) \/ d = c)
                            /\ task'[d] = "none" => task[d] = "none" /\ d # c
        BY <2>1, <3>1 DEF Entry, Coming, NodeInv, TypeOK
      <3> QED
        BY <2>1, <3>2, <3>3 DEF RegisteredOnce
    <2> QED
      BY <2>2, <2>3
  <1>4. CASE TakeRegistration
    <2> DEFINE c == Head(registrations)
    <2>1. registrations \in Seq(Inbound) /\ registrations # << >>
          /\ registrations' = Tail(registrations) /\ UNCHANGED << task, acceptor >>
          /\ peers' = [peers EXCEPT ![addr[c]] = [conn |-> c, state |-> "handshaking"]]
      BY <1>4 DEF TakeRegistration, NodeInv, TypeOK, tasks
    <2>2. /\ Len(registrations) \in Nat \ {0} /\ Len(registrations') = Len(registrations) - 1
          /\ \A i \in 1..Len(registrations') : registrations'[i] = registrations[i + 1]
          /\ c = registrations[1]
          /\ DOMAIN registrations = 1..Len(registrations)
          /\ DOMAIN registrations' = 1..Len(registrations')
      BY <2>1, TailIndex
    <2>3. /\ c \in Range(registrations) /\ c \in Inbound /\ c \in Conn
          /\ Range(registrations') \subseteq Range(registrations)
      BY <2>1, <2>2, Constants DEF Range
    <2>4. c \notin Range(registrations')
      BY <2>2 DEF RegisteredOnce, Range
    <2>5. \A i, j \in 1..Len(registrations') : registrations'[i] = registrations'[j] => i = j
      BY <2>2 DEF RegisteredOnce
    <2>6. \A d \in Conn : /\ Entry(d)' => Entry(d) \/ d = c
                          /\ Coming(d)' => Coming(d) /\ d # c
      <3>1. acceptor.conn # c
        BY <2>3 DEF RegisteredOnce
      <3> QED
        BY <2>1, <2>3, <2>4, <3>1 DEF Entry, Coming, NodeInv, TypeOK
    <2>7. task[c] # "none"
      BY <2>3 DEF RegisteredOnce
    <2> QED
      BY <2>1, <2>3, <2>5, <2>6, <2>7 DEF RegisteredOnce
  <1>5. CASE HandleEvent
    <2> DEFINE e == Head(events)
          EventType == [kind : {"ready", "announce", "disconnected"}, addr : Addr]
    <2>1. UNCHANGED << registrations, acceptor, task >> /\ HandleKind(e)
      BY <1>5 DEF HandleEvent, tasks
    <2>3. e.addr \in Addr
      <3>1. events \in Seq(EventType) /\ events # << >>
        BY <1>5 DEF HandleEvent, NodeInv, TypeOK
      <3>2. e \in EventType
        <4> HIDE DEF EventType
        <4> QED
          BY <3>1, QueueHead
      <3> QED
        BY <3>2
    <2> HIDE DEF e
    <2>2. \A d \in Conn : Entry(d)' => Entry(d)
      <3>1. CASE e.kind = "ready"
        <4>2. peers' = IF peers[e.addr] = NoEntry THEN peers
                       ELSE [peers EXCEPT ![e.addr].state = "ready"]
          BY <2>1, <3>1 DEF HandleKind
        <4>1. \A a \in Addr : peers'[a].conn = peers[a].conn
          BY <2>3, <4>2 DEF NodeInv, TypeOK, NoEntry
        <4> QED
          BY <4>1, Constants DEF Entry
      <3>2. CASE e.kind = "disconnected"
        <4>1. peers' = [peers EXCEPT ![e.addr] = NoEntry]
          BY <2>1, <3>2 DEF HandleKind
        <4> QED
          BY <2>3, <4>1, Constants DEF NodeInv, TypeOK, NoEntry, Entry
      <3>3. CASE e.kind = "announce"
        BY <2>1, <3>3 DEF HandleKind, Entry
      <3> QED
        BY <2>1, <3>1, <3>2, <3>3 DEF HandleKind
    <2> QED
      BY <2>1, <2>2, SameRegistrations
  <1> QED
    BY <1>1, <1>2, <1>3, <1>4, <1>5 DEF ManagerStep

LEMMA RegisteredTheorem == Spec => []RegisteredOnce
  <1>1. Init => RegisteredOnce
    BY Constants DEF Init, RegisteredOnce, Entry, Coming, NoEntry, Range
  <1>2. NodeInv /\ RegisteredOnce /\ [Next]_vars => RegisteredOnce'
    <2> SUFFICES ASSUME NodeInv, RegisteredOnce, [Next]_vars PROVE RegisteredOnce'
      OBVIOUS
    <2>1. CASE UNCHANGED vars
      BY <2>1, SameRegistrations DEF vars, Entry
    <2> QED
      BY <2>1, ManagerOnce, AcceptorOnce, TasksOnce DEF Next, Environment
  <1> QED
    BY <1>1, <1>2, NodeInvariant, PTL DEF Spec

LEMMA SoleFacts ==
    ASSUME NodeInv, NEW c \in Sole
    PROVE  /\ c \in Conn /\ addr[c] \in Addr /\ c # "none"
           /\ Entry(c) <=> peers[addr[c]] # NoEntry
  <1>1. c \in Conn /\ addr[c] \in Addr /\ c # "none"
    BY Constants DEF Sole
  <1>2. peers[addr[c]] # NoEntry => peers[addr[c]].conn \in Conn /\ addr[peers[addr[c]].conn] = addr[c]
    BY <1>1 DEF NodeInv, TypeOK, EntriesAtHome
  <1>3. peers[addr[c]] # NoEntry => Entry(c)
    BY <1>2 DEF Sole, Entry
  <1> QED
    BY <1>1, <1>3 DEF Entry, NoEntry

\* A step that brings no event of c, no change of its task and no news of its entry.
LEMMA Steady ==
    ASSUME NEW c \in Conn, Followed(c), events' = events, task'[c] = task[c], Late => Late',
           Coming(c)' => Coming(c), peers'[addr[c]] = peers[addr[c]],
           overtook'[addr[c]] = overtook[addr[c]],
           Fresh(c)'
    PROVE  Followed(c)'
  <1>0. Entry(c)' = Entry(c)
    BY DEF Entry
  <1>1. DisconnectedLast(c)'
    BY DEF Followed, DisconnectedLast, Pending
  <1>2. ReadyFirst(c)'
    BY <1>0 DEF Followed, ReadyFirst, Event
  <1>3. LeavesUnheld(c)'
    BY <1>0 DEF Followed, LeavesUnheld
  <1>4. EndNoticed(c)' /\ ReadyNoticed(c)'
    BY <1>0 DEF Followed, EndNoticed, ReadyNoticed, Pending
  <1> QED
    BY <1>1, <1>2, <1>3, <1>4 DEF Followed

\* A step that leaves tasks, events, entries and registrations alone.
LEMMA Untouched ==
    ASSUME NodeInv, FollowInv, UNCHANGED << peers, registrations, acceptor, task, events, overtook >>,
           Late => Late'
    PROVE  \A c \in Sole : Followed(c)'
  <1> SUFFICES ASSUME NEW c \in Sole PROVE Followed(c)'
    OBVIOUS
  <1>1. c \in Conn /\ Followed(c)
    BY DEF FollowInv, Sole
  <1>2. Fresh(c)'
    BY <1>1 DEF Followed, Fresh, Entry
  <1>3. Entry(c)' = Entry(c) /\ Coming(c)' = Coming(c)
    BY DEF Entry, Coming
  <1> QED
    BY <1>1, <1>2, <1>3, Steady

\* Once the book is empty for good only the first two parts say anything.
LEMMA EmptyFollowed ==
    ASSUME Late', \A a \in Addr : peers'[a] = NoEntry,
           NEW c \in Sole, Fresh(c)', DisconnectedLast(c)'
    PROVE  Followed(c)'
  <1>1. ~Entry(c)'
    BY Constants DEF Entry, NoEntry, Sole
  <1> QED
    BY <1>1 DEF Followed, ReadyFirst, LeavesUnheld, EndNoticed, ReadyNoticed
-----------------------------------------------------------------------------
(* The tasks again                                                          *)

\* Task c moves from one place to another and says nothing.
LEMMA MoveFollows ==
    ASSUME NodeInv, FollowInv, NEW c \in Conn, NEW s \in Place, s # "none",
           task[c] \notin {"none", "done"},
           task' = [task EXCEPT ![c] = s],
           UNCHANGED << pc, peers, registrations, acceptor, events, overtook >>,
           \A d \in Conn : \A i \in 1..Len(commands'[d]) : commands'[d][i] = "shutdown" => Late,
           s = "closing" => Late \/ ~HasSender(c),
           s = "done" => Late \/ task[c] = "closing",
           s \in {"loop", "writing", "emit_announce"} =>
               task[c] \in {"loop", "writing", "emit_announce"}
    PROVE  FollowInv'
  <1>1. Late' <=> Late
    BY DEF Late
  <1>2. BookEmpty'
    BY <1>1, Constants DEF FollowInv, BookEmpty, NodeInv, TypeOK
  <1>3. ASSUME NEW d \in Sole PROVE Followed(d)'
    <2>1. d \in Conn /\ Followed(d)
      BY DEF FollowInv, Sole
    <2>2. Entry(d)' = Entry(d) /\ Coming(d)' = Coming(d)
      BY DEF Entry, Coming
    <2>3. CASE d # c
      <3>1. task'[d] = task[d]
        BY <2>1, <2>3 DEF NodeInv, TypeOK
      <3>2. Fresh(d)'
        BY <2>1, <2>2, <3>1 DEF Followed, Fresh
      <3> QED
        BY <1>1, <2>1, <2>2, <3>1, <3>2, Steady
    <2>4. CASE d = c
      <3>1. task'[d] = s
        BY <2>1, <2>4 DEF NodeInv, TypeOK
      <3>2. ~Pending("disconnected", addr[d])
        BY <2>1, <2>4 DEF Followed, DisconnectedLast
      <3>3. s \in {"closing", "done"} => Late \/ (~Entry(d) /\ ~Coming(d))
        BY <2>1, <2>4 DEF Followed, LeavesUnheld, HasSender, Entry, Coming
      <3>5. Fresh(d)' /\ DisconnectedLast(d)'
        BY <3>1, <3>2 DEF Fresh, DisconnectedLast, Pending
      <3>6. ReadyFirst(d)' /\ LeavesUnheld(d)' /\ EndNoticed(d)'
        BY <1>1, <2>2, <3>1, <3>3 DEF ReadyFirst, LeavesUnheld, EndNoticed
      <3>7. ReadyNoticed(d)'
        BY <1>1, <2>1, <2>2, <2>4, <3>1 DEF Followed, ReadyNoticed, Pending
      <3> QED
        BY <3>5, <3>6, <3>7 DEF Followed
    <2> QED
      BY <2>3, <2>4
  <1> QED
    BY <1>2, <1>3 DEF FollowInv

\* Task c appends an event and goes on.
LEMMA EmitFollows ==
    ASSUME NodeInv, FollowInv, NEW c \in Conn, Emit(c)
    PROVE  FollowInv'
  <1>1. PICK k \in {"ready", "announce", "disconnected"} :
            /\ task[c] = EmitPlace[k]
            /\ events' = Append(events, Event(k, c))
            /\ Go(c, IF k = "disconnected" THEN "done" ELSE "loop")
    BY DEF Emit
  <1>2. UNCHANGED << pc, peers, registrations, acceptor, commands, overtook >>
    BY <1>1 DEF Emit, Go, manager, book
  <1>3. task' = [task EXCEPT ![c] = IF k = "disconnected" THEN "done" ELSE "loop"]
    BY <1>1 DEF Go
  <1>4. task[c] \in {"emit_ready", "emit_announce", "emit_disconnected"}
        /\ (k = "ready" <=> task[c] = "emit_ready")
    BY <1>1 DEF EmitPlace
  <1>5. Late' <=> Late
    BY <1>2 DEF Late
  <1>6. BookEmpty'
    BY <1>2, <1>3, <1>4, <1>5, Constants DEF FollowInv, BookEmpty, NodeInv, TypeOK
  <1>7. /\ Len(events') = Len(events) + 1 /\ Len(events) \in Nat
        /\ \A i \in 1..Len(events) : events'[i] = events[i]
        /\ events'[Len(events) + 1] = Event(k, c)
    <2>1. events \in Seq([kind : {"ready", "announce", "disconnected"}, addr : Addr])
      BY DEF NodeInv, TypeOK
    <2> QED
      BY <1>1, <2>1, AppendIndex
  <1>8. ASSUME NEW d \in Sole PROVE Followed(d)'
    <2>1. d \in Conn /\ Followed(d)
      BY DEF FollowInv, Sole
    <2>2. Entry(d)' = Entry(d) /\ Coming(d)' = Coming(d)
      BY <1>2 DEF Entry, Coming
    <2>3. CASE d # c
      <3>1. task'[d] = task[d]
        BY <1>3, <2>1, <2>3 DEF NodeInv, TypeOK
      <3>2. Event(k, c).addr # addr[d]
        BY <2>1, <2>3 DEF Event, Sole
      <3>3. \A q \in {"ready", "disconnected"} : Event(q, d).addr = addr[d]
        BY DEF Event
      <3>4. Fresh(d)'
        BY <1>2, <1>7, <2>1, <2>2, <3>1, <3>2 DEF Followed, Fresh
      <3>5. \A q \in {"ready", "disconnected"} : Pending(q, addr[d])' <=> Pending(q, addr[d])
        BY <1>7, <3>2 DEF Pending
      <3>6. ReadyFirst(d)'
        BY <1>5, <1>7, <2>1, <2>2, <3>1, <3>2, <3>3 DEF Followed, ReadyFirst, Event
      <3>7. LeavesUnheld(d)'
        BY <1>5, <2>1, <2>2, <3>1 DEF Followed, LeavesUnheld
      <3>8. DisconnectedLast(d)' /\ EndNoticed(d)' /\ ReadyNoticed(d)'
        BY <1>2, <1>5, <2>1, <2>2, <3>1, <3>5 DEF Followed, DisconnectedLast, EndNoticed, ReadyNoticed
      <3> QED
        BY <3>4, <3>6, <3>7, <3>8 DEF Followed
    <2>4. CASE d = c
      <3>1. task'[d] = IF k = "disconnected" THEN "done" ELSE "loop"
        BY <1>3, <2>1, <2>4 DEF NodeInv, TypeOK
      <3>2. ~Pending("disconnected", addr[d])
        BY <1>4, <2>1, <2>4 DEF Followed, DisconnectedLast
      <3>3. Pending(k, addr[d])'
        BY <1>7, <2>4 DEF Pending, Event
      <3>4. Fresh(d)' /\ LeavesUnheld(d)'
        BY <3>1 DEF Fresh, LeavesUnheld
      <3>5. DisconnectedLast(d)'
        <4>1. k # "disconnected" => ~Pending("disconnected", addr[d])'
          BY <1>7, <3>2 DEF Pending, Event
        <4> QED
          BY <3>1, <4>1 DEF DisconnectedLast
      <3>6. ReadyFirst(d)'
        <4>1. CASE k = "disconnected"
          <5>1. events'[Len(events')] = Event("disconnected", d)
            BY <1>7, <2>4, <4>1
          <5>2. \A i \in 1..Len(events') : events'[i] = Event("ready", d) => i # Len(events')
            BY <5>1 DEF Event
          <5>3. \A i \in 1..Len(events') : events'[i] = Event("ready", d) =>
                    Len(events') \in (i + 1)..Len(events')
            BY <1>7, <5>2
          <5> QED
            BY <5>1, <5>3 DEF ReadyFirst, Event
        <4>2. CASE k # "disconnected"
          BY <3>1, <4>2 DEF ReadyFirst
        <4> QED
          BY <4>1, <4>2
      <3>7. EndNoticed(d)'
        BY <3>1, <3>3 DEF EndNoticed
      <3>8. ReadyNoticed(d)'
        <4>1. CASE k = "ready"
          BY <3>3, <4>1 DEF ReadyNoticed
        <4>2. CASE k = "disconnected"
          BY <3>1, <4>2 DEF ReadyNoticed
        <4>3. CASE k = "announce"
          <5>1. task[d] = "emit_announce"
            BY <1>1, <2>4, <4>3 DEF EmitPlace
          <5>2. Pending("ready", addr[d]) => Pending("ready", addr[d])'
            BY <1>7 DEF Pending
          <5> QED
            BY <1>2, <1>5, <2>1, <2>2, <5>1, <5>2 DEF Followed, ReadyNoticed
        <4> QED
          BY <4>1, <4>2, <4>3
      <3> QED
        BY <3>4, <3>5, <3>6, <3>7, <3>8 DEF Followed
    <2> QED
      BY <2>3, <2>4
  <1> QED
    BY <1>6, <1>8 DEF FollowInv

LEMMA TasksFollow ==
    ASSUME NodeInv, FollowInv, NEW c \in Conn,
           TaskStep(c) \/ ReadMessage(c) \/ ReadFails(c) \/ WriteDone(c) \/ WriteFails(c)
               \/ CloseConnection(c)
    PROVE  FollowInv'
  <1> USE DEF Place, Running
  <1>1. \A d \in Conn : \A i \in 1..Len(commands[d]) : commands[d][i] = "shutdown" => Late
    BY DEF FollowInv, BookEmpty
  <1>2. ASSUME Leave(c, "emit_disconnected") \/ Leave(c, "done")
        PROVE  \A d \in Conn : \A i \in 1..Len(commands'[d]) : commands'[d][i] = "shutdown" => Late
    <2>1. commands' = [commands EXCEPT ![c] = << >>]
      BY <1>2 DEF Leave
    <2> QED
      BY <1>1, <2>1 DEF NodeInv, TypeOK
  <1>3. CASE HandshakeCompletes(c)
    BY <1>1, <1>3, MoveFollows DEF HandshakeCompletes, Go, manager, book
  <1>4. CASE WriteDone(c)
    BY <1>1, <1>4, MoveFollows DEF WriteDone, Go, manager, book
  <1>5. CASE HandshakeFails(c) \/ WriteFails(c) \/ ReadFails(c)
    <2>1. Leave(c, "emit_disconnected") /\ task[c] \in {"handshake", "writing", "loop"}
      BY <1>5 DEF HandshakeFails, WriteFails, ReadFails
    <2> QED
      BY <1>2, <2>1, MoveFollows DEF Leave, manager, book
  <1>6. CASE CloseConnection(c)
    BY <1>2, <1>6, MoveFollows DEF CloseConnection, Leave, manager, book
  <1>7. CASE SendersGone(c)
    BY <1>1, <1>7, MoveFollows DEF SendersGone, Go, manager, book
  <1>8. CASE ReadMessage(c)
    <2>1. PICK s \in {"writing", "emit_announce"} : Go(c, s)
      BY <1>8 DEF ReadMessage
    <2>2. /\ task[c] = "loop" /\ task' = [task EXCEPT ![c] = s]
          /\ UNCHANGED << pc, peers, registrations, acceptor, events, commands, overtook >>
      BY <1>8, <2>1 DEF ReadMessage, Go, manager, book
    <2> QED
      BY <1>1, <2>2, MoveFollows
  <1>9. CASE TakeCommand(c)
    <2>1. commands[c] \in Seq({"send", "shutdown"}) /\ commands[c] # << >>
          /\ commands' = [commands EXCEPT ![c] = Tail(commands[c])] /\ task[c] = "loop"
          /\ events' = events
      BY <1>9 DEF TakeCommand, NodeInv, TypeOK
    <2>2. Head(commands[c]) = commands[c][1] /\ Len(commands[c]) \in Nat \ {0}
          /\ Len(Tail(commands[c])) = Len(commands[c]) - 1
          /\ \A i \in 1..Len(Tail(commands[c])) : Tail(commands[c])[i] = commands[c][i + 1]
      BY <2>1, TailIndex
    <2>3. \A d \in Conn : \A i \in 1..Len(commands'[d]) : commands'[d][i] = "shutdown" => Late
      BY <1>1, <2>1, <2>2 DEF NodeInv, TypeOK
    <2>4. Head(commands[c]) \in {"send", "shutdown"} /\ (Head(commands[c]) = "shutdown" => Late)
      BY <1>1, <2>1, <2>2
    <2>5. CASE Head(commands[c]) = "send"
      BY <1>9, <2>1, <2>3, <2>5, MoveFollows DEF TakeCommand, Go, manager, book
    <2>6. CASE Head(commands[c]) = "shutdown"
      <3>1. Go(c, "closing")
        BY <1>9, <2>6 DEF TakeCommand
      <3> QED
        BY <2>1, <2>3, <2>4, <2>6, <3>1, MoveFollows DEF Go, manager, book
    <2> QED
      BY <2>4, <2>5, <2>6
  <1>10. CASE EmitFails(c)
    <2>1. Late
      BY <1>10 DEF EmitFails, Closed, Late
    <2>2. CASE task[c] \in {"emit_ready", "emit_announce"} /\ Leave(c, "emit_disconnected")
      BY <1>2, <2>2, MoveFollows DEF Leave, manager, book
    <2>3. CASE task[c] = "emit_disconnected" /\ Go(c, "done") /\ UNCHANGED << events, commands, reads >>
      BY <1>1, <2>1, <2>3, MoveFollows DEF Go, manager, book
    <2> QED
      BY <1>10, <2>2, <2>3 DEF EmitFails
  <1> QED
    BY <1>3, <1>4, <1>5, <1>6, <1>7, <1>8, <1>9, <1>10, EmitFollows DEF TaskStep
-----------------------------------------------------------------------------
(* The acceptor and the manager again                                       *)

\* The acceptor takes up connection c, which has no task, or turns it away.
LEMMA TryAcquireFollows ==
    ASSUME NodeInv, FollowInv, NEW c \in Inbound, task[c] = "none", TryAcquire(c),
           UNCHANGED << manager, queues >>
    PROVE  FollowInv'
  <1>1. UNCHANGED << pc, peers, registrations, events, commands, overtook >> /\ (Late' <=> Late)
    BY DEF manager, book, queues, Late
  <1>2. \/ task' = [task EXCEPT ![c] = "done"] /\ acceptor'.conn = "none" /\ acceptor'.at # "register"
        \/ task' = task /\ acceptor'.conn = c /\ acceptor'.at = "exchange"
    BY DEF TryAcquire, NextAccept
  <1>3. BookEmpty'
    BY <1>1, <1>2, Constants DEF FollowInv, BookEmpty, NodeInv, TypeOK
  <1>4. ASSUME NEW d \in Sole PROVE Followed(d)'
    <2>1. d \in Conn /\ d # "none" /\ Followed(d) /\ Entry(d)' = Entry(d)
      BY <1>1, SoleFacts DEF FollowInv, Entry
    <2>2. CASE d # c
      <3>1. task'[d] = task[d] /\ acceptor'.conn # d
        BY <1>2, <2>1, <2>2 DEF NodeInv, TypeOK
      <3>2. Fresh(d)' /\ (Coming(d)' => Coming(d))
        BY <1>1, <2>1, <3>1 DEF Followed, Fresh, Coming
      <3> QED
        BY <1>1, <2>1, <3>1, <3>2, Steady
    <2>3. CASE d = c
      <3>1. /\ \A i \in 1..Len(events) : events[i].addr # addr[d]
            /\ ~Entry(d) /\ d \notin Range(registrations)
        BY <2>1, <2>3 DEF Followed, Fresh
      <3>2. task'[d] \in {"none", "done"} /\ ~(acceptor'.at = "register" /\ acceptor'.conn = d)
        BY <1>2, <2>1, <2>3 DEF NodeInv, TypeOK
      <3>3. Fresh(d)'
        BY <1>1, <2>1, <3>1, <3>2 DEF Fresh
      <3>4. ReadyFirst(d)' /\ DisconnectedLast(d)'
        BY <1>1, <3>1 DEF ReadyFirst, DisconnectedLast, Pending, Event
      <3>5. LeavesUnheld(d)' /\ EndNoticed(d)' /\ ReadyNoticed(d)'
        <4>1. task'[d] = "done" => ~Coming(d)'
          BY <1>1, <1>2, <2>1, <2>3, <3>1 DEF Coming, NodeInv, TypeOK
        <4> QED
          BY <2>1, <3>2, <3>1, <4>1 DEF LeavesUnheld, EndNoticed, ReadyNoticed
      <3> QED
        BY <3>3, <3>4, <3>5 DEF Followed
    <2> QED
      BY <2>2, <2>3
  <1> QED
    BY <1>3, <1>4 DEF FollowInv

LEMMA AcceptorFollows ==
    ASSUME NodeInv, FollowInv, AcceptorStep \/ \E c \in Inbound : Accept(c)
    PROVE  FollowInv'
  <1>1. ASSUME NEW c \in Inbound, Accept(c) PROVE FollowInv'
    BY <1>1, TryAcquireFollows DEF Accept
  <1>2. CASE CompareExchange
    <2>1. acceptor.conn \in Inbound /\ task[acceptor.conn] = "none" /\ acceptor.conn \in Conn
      BY <1>2, Constants DEF CompareExchange, NodeInv, AcceptorHolds
    <2>2. CASE active # acceptor.seen
      BY <1>2, <2>1, <2>2, TryAcquireFollows DEF CompareExchange
    <2>3. CASE active = acceptor.seen
      <3>1. /\ task' = [task EXCEPT ![acceptor.conn] = "handshake"]
            /\ acceptor' = [acceptor EXCEPT !.at = "register"]
            /\ UNCHANGED << pc, peers, registrations, events, commands, overtook >>
            /\ (Late' <=> Late)
        BY <1>2, <2>3 DEF CompareExchange, manager, book, queues, Late
      <3>2. acceptor'.conn = acceptor.conn
        BY <3>1 DEF NodeInv, TypeOK
      <3>3. BookEmpty'
        <4>1. \A d \in Outbound : d \in Conn /\ task'[d] = task[d]
          BY <2>1, <3>1, Constants DEF NodeInv, TypeOK
        <4> QED
          BY <3>1, <4>1 DEF FollowInv, BookEmpty
      <3>4. ASSUME NEW d \in Sole PROVE Followed(d)'
        <4>1. d \in Conn /\ Followed(d) /\ Entry(d)' = Entry(d) /\ Coming(d)' = Coming(d)
          BY <3>1, <3>2 DEF FollowInv, Sole, Entry, Coming
        <4>2. CASE d # acceptor.conn
          <5>1. task'[d] = task[d] /\ acceptor'.conn # d
            BY <3>1, <3>2, <4>1, <4>2 DEF NodeInv, TypeOK
          <5>2. Fresh(d)'
            BY <3>1, <4>1, <5>1 DEF Followed, Fresh
          <5> QED
            BY <3>1, <4>1, <5>1, <5>2, Steady
        <4>3. CASE d = acceptor.conn
          <5>1. task'[d] = "handshake"
            BY <3>1, <4>1, <4>3 DEF NodeInv, TypeOK
          <5>2. \A i \in 1..Len(events) : events[i].addr # addr[d]
            BY <2>1, <4>1, <4>3 DEF Followed, Fresh
          <5>3. ~Pending("disconnected", addr[d])'
            BY <3>1, <5>2 DEF Pending
          <5> QED
            BY <5>1, <5>3 DEF Followed, Fresh, DisconnectedLast, ReadyFirst, LeavesUnheld,
                              EndNoticed, ReadyNoticed
        <4> QED
          BY <4>2, <4>3
      <3> QED
        BY <3>3, <3>4 DEF FollowInv
    <2> QED
      BY <2>2, <2>3
  <1>3. CASE Register
    <2>1. /\ registrations' = Append(registrations, acceptor.conn) /\ acceptor'.conn = "none"
          /\ acceptor'.at # "register" /\ acceptor.at = "register"
          /\ UNCHANGED << pc, peers, events, commands, task, overtook >> /\ (Late' <=> Late)
      BY <1>3 DEF Register, NextAccept, manager, book, Late
    <2>2. \A d : d \in Range(registrations') => d \in Range(registrations) \/ d = acceptor.conn
      <3>1. registrations \in Seq(Inbound)
        BY DEF NodeInv, TypeOK
      <3> QED
        BY <2>1, <3>1 DEF Range
    <2>3. BookEmpty'
      BY <2>1 DEF FollowInv, BookEmpty
    <2>4. ASSUME NEW d \in Sole PROVE Followed(d)'
      <3>1. d \in Conn /\ d # "none" /\ Followed(d) /\ Entry(d)' = Entry(d)
        BY <2>1, SoleFacts DEF FollowInv, Entry
      <3>2. Coming(d)' => Coming(d)
        BY <2>1, <2>2, <3>1 DEF Coming
      <3>3. Fresh(d)'
        BY <2>1, <2>2, <3>1 DEF Followed, Fresh
      <3> QED
        BY <2>1, <3>1, <3>2, <3>3, Steady
    <2> QED
      BY <2>3, <2>4 DEF FollowInv
  <1>4. CASE AcceptorStops
    <2>1. /\ acceptor'.conn = "none" /\ acceptor'.at # "register"
          /\ UNCHANGED << pc, peers, registrations, events, commands, task, overtook >>
          /\ (Late' <=> Late)
      BY <1>4 DEF AcceptorStops, NextAccept, manager, book, queues, Late
    <2>2. BookEmpty'
      BY <2>1 DEF FollowInv, BookEmpty
    <2>3. ASSUME NEW d \in Sole PROVE Followed(d)'
      <3>1. d \in Conn /\ d # "none" /\ Followed(d) /\ Entry(d)' = Entry(d)
        BY <2>1, SoleFacts DEF FollowInv, Entry
      <3>2. (Coming(d)' => Coming(d)) /\ Fresh(d)'
        BY <2>1, <3>1 DEF Coming, Followed, Fresh
      <3> QED
        BY <2>1, <3>1, <3>2, Steady
    <2> QED
      BY <2>2, <2>3 DEF FollowInv
  <1> QED
    BY <1>1, <1>2, <1>3, <1>4 DEF AcceptorStep

LEMMA ConnectSeedFollows ==
    ASSUME NodeInv, FollowInv, ConnectSeed
    PROVE  FollowInv'
  <1> DEFINE c == Seeds[next_seed]
  <1>1. c \in Outbound /\ c \in Conn /\ c \notin Inbound /\ addr[c] \in Addr
    BY Constants DEF ConnectSeed, NodeInv, TypeOK
  <1>2. task[c] = "none" /\ \A a \in Addr : peers[a] = NoEntry
    BY <1>1 DEF ConnectSeed, FollowInv, BookEmpty
  <1>3. /\ task' = [task EXCEPT ![c] = "handshake"]
        /\ peers' = [peers EXCEPT ![addr[c]] = [conn |-> c, state |-> "handshaking"]]
        /\ ~Late /\ ~Late' /\ pc' = "polling"
        /\ UNCHANGED << registrations, events, commands, acceptor, overtook >>
    BY <1>1, <1>2 DEF ConnectSeed, queues, Late
  <1>4. BookEmpty'
    BY <1>3 DEF FollowInv, BookEmpty, Late
  <1>5. ASSUME NEW d \in Sole PROVE Followed(d)'
    <2>1. d \in Conn /\ Followed(d) /\ addr[d] \in Addr /\ Coming(d)' = Coming(d)
      BY <1>3, SoleFacts DEF FollowInv, Coming
    <2>2. CASE d # c
      <3>1. addr[d] # addr[c]
        BY <1>1, <2>2 DEF Sole
      <3>2. task'[d] = task[d] /\ peers'[addr[d]] = peers[addr[d]]
        BY <1>1, <1>3, <2>1, <2>2, <3>1 DEF NodeInv, TypeOK
      <3>3. Entry(d)' = Entry(d)
        BY <3>2 DEF Entry
      <3>4. Fresh(d)'
        BY <1>3, <2>1, <3>2, <3>3 DEF Followed, Fresh
      <3> QED
        BY <1>3, <2>1, <3>2, <3>3, <3>4, Steady
    <2>3. CASE d = c
      <3>1. task'[d] = "handshake"
        BY <1>3, <2>1, <2>3 DEF NodeInv, TypeOK
      <3>2. ~Pending("disconnected", addr[d])'
        BY <1>2, <1>3, <2>1, <2>3 DEF Followed, Fresh, Pending
      <3> QED
        BY <3>1, <3>2 DEF Followed, Fresh, DisconnectedLast, ReadyFirst, LeavesUnheld,
                          EndNoticed, ReadyNoticed
    <2> QED
      BY <2>2, <2>3
  <1> QED
    BY <1>4, <1>5 DEF FollowInv

LEMMA TakeRegistrationFollows ==
    ASSUME NodeInv, RegisteredOnce, FollowInv, TakeRegistration
    PROVE  FollowInv'
  <1> DEFINE c == Head(registrations)
  <1>1. c \in Inbound /\ c \in Conn /\ c \notin Outbound /\ addr[c] \in Addr
        /\ c \in Range(registrations)
    <2>1. registrations \in Seq(Inbound) /\ registrations # << >>
      BY DEF TakeRegistration, NodeInv, TypeOK
    <2>2. c \in Inbound /\ c = registrations[1] /\ 1 \in DOMAIN registrations
      BY <2>1
    <2> QED
      BY <2>2, Constants DEF Range
  <1>2. \A d : d \in Range(registrations') => d \in Range(registrations)
    <2>1. registrations \in Seq(Inbound) /\ registrations # << >> /\ registrations' = Tail(registrations)
      BY DEF TakeRegistration, NodeInv, TypeOK
    <2>2. /\ Len(registrations) \in Nat \ {0} /\ Len(registrations') = Len(registrations) - 1
          /\ \A i \in 1..Len(registrations') : registrations'[i] = registrations[i + 1]
      BY <2>1, TailIndex
    <2>3. DOMAIN registrations = 1..Len(registrations) /\ DOMAIN registrations' = 1..Len(registrations')
      BY <2>1
    <2> QED
      BY <2>2, <2>3 DEF Range
  <1>3. /\ peers' = [peers EXCEPT ![addr[c]] = [conn |-> c, state |-> "handshaking"]]
        /\ pc = "registering" /\ ~Late /\ ~Late'
        /\ UNCHANGED << pc, task, events, commands, acceptor, overtook >>
    BY DEF TakeRegistration, tasks, Late
  <1>4. BookEmpty'
    BY <1>3 DEF FollowInv, BookEmpty, Late
  <1>5. ASSUME NEW d \in Sole PROVE Followed(d)'
    <2>1. d \in Conn /\ Followed(d) /\ addr[d] \in Addr /\ (Coming(d)' => Coming(d))
      BY <1>2, <1>3, SoleFacts DEF FollowInv, Coming
    <2>2. CASE d # c
      <3>1. addr[d] # addr[c]
        BY <1>1, <2>2 DEF Sole
      <3>2. peers'[addr[d]] = peers[addr[d]]
        BY <1>1, <1>3, <2>1, <3>1 DEF NodeInv, TypeOK
      <3>3. Entry(d)' = Entry(d)
        BY <3>2 DEF Entry
      <3>4. Fresh(d)'
        BY <1>2, <1>3, <2>1, <3>3 DEF Followed, Fresh
      <3> QED
        BY <1>3, <2>1, <3>2, <3>3, <3>4, Steady
    <2>3. CASE d = c
      <3>1. task[d] # "none" /\ d \notin Outbound /\ Coming(d) /\ ~Entry(d)
        BY <1>1, <2>1, <2>3 DEF Followed, Fresh, Coming, RegisteredOnce
      <3>2. peers'[addr[d]].state = "handshaking"
        BY <1>1, <1>3, <2>3 DEF NodeInv, TypeOK
      <3>3. Fresh(d)' /\ EndNoticed(d)' /\ ReadyNoticed(d)'
        BY <1>3, <2>1, <3>1, <3>2 DEF Followed, Fresh, EndNoticed, ReadyNoticed, Pending
      <3>4. DisconnectedLast(d)'
        BY <1>3, <2>1 DEF Followed, DisconnectedLast, Pending
      <3>5. ReadyFirst(d)'
        BY <1>3, <2>1, <3>1 DEF Followed, ReadyFirst, Event
      <3>6. LeavesUnheld(d)'
        BY <1>3, <2>1, <3>1 DEF Followed, LeavesUnheld
      <3> QED
        BY <3>3, <3>4, <3>5, <3>6 DEF Followed
    <2> QED
      BY <2>2, <2>3
  <1> QED
    BY <1>4, <1>5 DEF FollowInv

LEMMA HandleEventFollows ==
    ASSUME NodeInv, RegisteredOnce, FollowInv, HandleEvent
    PROVE  FollowInv'
  <1> DEFINE e == Head(events)
  <1>1. /\ Len(events) \in Nat \ {0} /\ Len(events') = Len(events) - 1
        /\ \A i \in 1..Len(events') : events'[i] = events[i + 1]
        /\ e = events[1]
        /\ e \in [kind : {"ready", "announce", "disconnected"}, addr : Addr]
    <2> DEFINE EventType == [kind : {"ready", "announce", "disconnected"}, addr : Addr]
    <2>1. events \in Seq(EventType) /\ events # << >> /\ events' = Tail(events)
      BY DEF HandleEvent, NodeInv, TypeOK
    <2>2. e \in EventType
      <3> HIDE DEF EventType
      <3> QED
        BY <2>1, QueueHead
    <2> QED
      BY <2>1, <2>2, TailIndex
  <1>2. /\ pc = "draining" /\ ~Late /\ ~Late' /\ pc' # "seeding"
        /\ UNCHANGED << registrations, commands, task, acceptor >>
    BY DEF HandleEvent, HandleKind, tasks, Late
  <1>3. /\ e.kind = "ready" =>
               peers' = IF peers[e.addr] = NoEntry THEN peers
                        ELSE [peers EXCEPT ![e.addr].state = "ready"]
        /\ e.kind = "disconnected" => peers' = [peers EXCEPT ![e.addr] = NoEntry]
        /\ e.kind = "announce" => peers' = peers
        /\ overtook' = [overtook EXCEPT ![e.addr] =
                           IF e.kind = "announce" \/ peers'[e.addr] # NoEntry THEN overtook[e.addr]
                           ELSE IF peers[e.addr] = NoEntry THEN e.kind ELSE "none"]
    BY DEF HandleEvent, HandleKind
  <1>4. BookEmpty'
    BY <1>2 DEF FollowInv, BookEmpty, Late
  <1>5. ASSUME NEW d \in Sole PROVE Followed(d)'
    <2>1. d \in Conn /\ d # "none" /\ Followed(d) /\ addr[d] \in Addr /\ Coming(d)' = Coming(d)
      BY <1>2, SoleFacts DEF FollowInv, Coming
    <2>2. e = [kind |-> e.kind, addr |-> e.addr] /\ e.addr \in Addr
          /\ e.kind \in {"ready", "announce", "disconnected"}
      BY <1>1
    \* The entry of d: gone, as it was, or Ready now.
    <2>3. /\ Entry(d)' => Entry(d)
          /\ Entry(d)' => \/ peers'[addr[d]].state = peers[addr[d]].state
                          \/ peers'[addr[d]].state = "ready" /\ e = Event("ready", d)
          /\ Entry(d)' /\ e = Event("ready", d) => peers'[addr[d]].state = "ready"
          /\ e = Event("disconnected", d) => ~Entry(d)'
          /\ Entry(d) /\ e # Event("disconnected", d) => Entry(d)'
      <3>1. CASE e.addr # addr[d]
        <4>1. peers'[addr[d]] = peers[addr[d]]
          BY <1>3, <2>1, <2>2, <3>1 DEF NodeInv, TypeOK
        <4>2. e # Event("ready", d) /\ e # Event("disconnected", d)
          BY <2>2, <3>1 DEF Event
        <4> QED
          BY <4>1, <4>2 DEF Entry
      <3>2. CASE e.addr = addr[d] /\ e.kind = "announce"
        <4>1. e # Event("ready", d) /\ e # Event("disconnected", d)
          BY <2>2, <3>2 DEF Event
        <4> QED
          BY <1>3, <3>2, <4>1 DEF Entry
      <3>3. CASE e.addr = addr[d] /\ e.kind = "disconnected"
        <4>1. peers'[addr[d]] = NoEntry
          BY <1>3, <2>1, <3>3 DEF NodeInv, TypeOK
        <4>2. e = Event("disconnected", d)
          BY <2>2, <3>3 DEF Event
        <4> QED
          BY <2>1, <4>1, <4>2 DEF Entry, NoEntry, Event
      <3>4. CASE e.addr = addr[d] /\ e.kind = "ready"
        <4>1. e = Event("ready", d) /\ e # Event("disconnected", d)
          BY <2>2, <3>4 DEF Event
        <4>2. CASE peers[addr[d]] = NoEntry
          BY <1>3, <2>1, <3>4, <4>2 DEF Entry, NoEntry
        <4>3. CASE peers[addr[d]] # NoEntry
          <5>1. peers' = [peers EXCEPT ![addr[d]].state = "ready"]
            BY <1>3, <3>4, <4>3
          <5>2. /\ peers \in [Addr -> [conn : Conn, state : {"handshaking", "ready"}] \cup {NoEntry}]
                /\ peers[addr[d]] \in [conn : Conn, state : {"handshaking", "ready"}]
            BY <2>1, <4>3 DEF NodeInv, TypeOK
          <5>3. peers'[addr[d]] = [peers[addr[d]] EXCEPT !.state = "ready"]
            BY <2>1, <5>1, <5>2
          <5>4. peers'[addr[d]].conn = peers[addr[d]].conn /\ peers'[addr[d]].state = "ready"
            BY <5>2, <5>3
          <5> QED
            BY <4>1, <5>4 DEF Entry
        <4> QED
          BY <4>2, <4>3
      <3> QED
        BY <2>2, <3>1, <3>2, <3>3, <3>4
    \* An event of d still pending was pending, and all but the first still are.
    <2>4. ASSUME NEW k \in {"ready", "disconnected"}
          PROVE  /\ Pending(k, addr[d])' => Pending(k, addr[d])
                 /\ Pending(k, addr[d]) => Pending(k, addr[d])' \/ e = Event(k, d)
      <3>1. Pending(k, addr[d])' => Pending(k, addr[d])
        <4> SUFFICES ASSUME NEW i \in 1..Len(events'), events'[i] = [kind |-> k, addr |-> addr[d]]
                     PROVE  Pending(k, addr[d])
          BY DEF Pending
        <4>1. i + 1 \in 1..Len(events) /\ events[i + 1] = [kind |-> k, addr |-> addr[d]]
          BY <1>1
        <4> QED
          BY <4>1 DEF Pending
      <3>2. Pending(k, addr[d]) => Pending(k, addr[d])' \/ e = Event(k, d)
        <4> SUFFICES ASSUME NEW i \in 1..Len(events), events[i] = [kind |-> k, addr |-> addr[d]],
                            i # 1
                     PROVE  Pending(k, addr[d])'
          BY <1>1 DEF Pending, Event
        <4>1. i - 1 \in 1..Len(events') /\ events'[i - 1] = events[i]
          BY <1>1
        <4> QED
          BY <4>1 DEF Pending
      <3> QED
        BY <3>1, <3>2
    <2>5. Fresh(d)'
      <3> SUFFICES ASSUME task'[d] = "none" PROVE Fresh(d)'
        BY DEF Fresh
      <3>1. \A i \in 1..Len(events') : events'[i].addr # addr[d]
        BY <1>1, <1>2, <2>1 DEF Followed, Fresh
      <3> QED
        BY <1>2, <2>1, <2>3, <3>1 DEF Followed, Fresh
    <2>6. DisconnectedLast(d)'
      BY <1>2, <2>1, <2>4 DEF Followed, DisconnectedLast
    <2>7. ReadyFirst(d)'
      <3> SUFFICES ASSUME task'[d] = "done", Entry(d)' \/ Coming(d)',
                          NEW i \in 1..Len(events'), events'[i] = Event("ready", d)
                   PROVE  \E j \in (i + 1)..Len(events') : events'[j] = Event("disconnected", d)
        BY DEF ReadyFirst, Event
      <3>1. i + 1 \in 1..Len(events) /\ events[i + 1] = Event("ready", d)
        BY <1>1
      <3>2. PICK j \in (i + 1 + 1)..Len(events) : events[j] = Event("disconnected", d)
        BY <1>2, <2>1, <2>3, <3>1 DEF Followed, ReadyFirst
      <3>3. j - 1 \in (i + 1)..Len(events') /\ events'[j - 1] = events[j]
        BY <1>1, <3>2
      <3> QED
        BY <3>2, <3>3
    <2>8. LeavesUnheld(d)'
      BY <1>2, <2>1, <2>3 DEF Followed, LeavesUnheld
    \* What is noted of d beside its entry.
    <2>9. /\ Entry(d)' \/ (e # Event("ready", d) /\ e # Event("disconnected", d)) =>
                overtook'[addr[d]] = overtook[addr[d]]
          /\ \A k \in {"ready", "disconnected"} : e = Event(k, d) /\ ~Entry(d) =>
                overtook'[addr[d]] = k
      <3>1. /\ overtook \in [Addr -> {"none", "ready", "disconnected"}]
            /\ peers[addr[d]] = NoEntry <=> ~Entry(d)
        BY SoleFacts DEF NodeInv, TypeOK
      <3>2. CASE e.addr # addr[d]
        <4>1. overtook'[addr[d]] = overtook[addr[d]]
          BY <1>3, <2>1, <2>2, <3>1, <3>2
        <4>2. \A k \in {"ready", "disconnected"} : e # Event(k, d)
          BY <3>2 DEF Event
        <4> QED
          BY <4>1, <4>2
      <3>3. CASE e.addr = addr[d]
        <4>1. overtook'[addr[d]] = IF e.kind = "announce" \/ peers'[addr[d]] # NoEntry
                                   THEN overtook[addr[d]]
                                   ELSE IF peers[addr[d]] = NoEntry THEN e.kind ELSE "none"
          BY <1>3, <2>1, <3>1, <3>3
        <4>2. Entry(d)' => peers'[addr[d]] # NoEntry
          BY <2>1 DEF Entry, NoEntry
        <4>3. e # Event("ready", d) /\ e # Event("disconnected", d) => e.kind = "announce"
          BY <2>2, <3>3 DEF Event
        <4>4. ASSUME NEW k \in {"ready", "disconnected"}, e = Event(k, d), ~Entry(d)
              PROVE  overtook'[addr[d]] = k
          <5>1. e.kind = k /\ peers[addr[d]] = NoEntry
            BY <3>1, <4>4 DEF Event
          <5>2. peers'[addr[d]] = NoEntry
            BY <1>3, <2>1, <3>3, <4>4, <5>1 DEF NodeInv, TypeOK
          <5> QED
            BY <4>1, <4>4, <5>1, <5>2
        <4> QED
          BY <4>1, <4>2, <4>3, <4>4
      <3> QED
        BY <3>2, <3>3
    <2>10. /\ Coming(d) => d \notin Outbound /\ ~Entry(d)
           /\ Entry(d)' \/ Coming(d)' => Entry(d) \/ Coming(d)
           /\ Entry(d)' => (peers'[addr[d]].state = "ready" <=>
                  peers[addr[d]].state = "ready" \/ e = Event("ready", d))
      <3>1. Coming(d) => d \in Inbound
        BY <2>1 DEF Coming, NodeInv, TypeOK, Range
      <3> QED
        BY <2>1, <2>3, <3>1, Constants DEF RegisteredOnce
    <2>11. EndNoticed(d)'
      <3> SUFFICES ASSUME task'[d] = "done", Entry(d)' \/ Coming(d)'
                   PROVE  \/ Pending("disconnected", addr[d])'
                          \/ /\ overtook'[addr[d]] = "disconnected" /\ d \notin Outbound
                             /\ Entry(d)' => peers'[addr[d]].state # "ready"
        BY DEF EndNoticed
      <3>1. CASE e = Event("ready", d)
        <4>1. 1 \in 1..Len(events) /\ events[1] = Event("ready", d)
          BY <1>1, <3>1
        <4>2. PICK j \in (1 + 1)..Len(events) : events[j] = Event("disconnected", d)
          BY <1>2, <2>1, <2>10, <4>1 DEF Followed, ReadyFirst
        <4>3. j - 1 \in 1..Len(events') /\ events'[j - 1] = events[j]
          BY <1>1, <4>2
        <4> QED
          BY <4>2, <4>3 DEF Pending, Event
      <3>2. CASE e = Event("disconnected", d)
        <4>1. ~Entry(d)' /\ Coming(d) /\ d \notin Outbound /\ ~Entry(d)
          BY <2>1, <2>3, <2>10, <3>2
        <4>2. overtook'[addr[d]] = "disconnected"
          BY <2>9, <3>2, <4>1
        <4> QED
          BY <4>1, <4>2
      <3>3. CASE e # Event("ready", d) /\ e # Event("disconnected", d)
        <4>1. \/ Pending("disconnected", addr[d])
              \/ /\ overtook[addr[d]] = "disconnected" /\ d \notin Outbound
                 /\ Entry(d) => peers[addr[d]].state # "ready"
          BY <1>2, <2>1, <2>10 DEF Followed, EndNoticed
        <4> QED
          BY <2>3, <2>4, <2>9, <2>10, <3>3, <4>1
      <3> QED
        BY <3>1, <3>2, <3>3
    <2>12. ReadyNoticed(d)'
      <3> SUFFICES ASSUME task'[d] \in {"loop", "writing", "emit_announce"},
                          Entry(d)' \/ Coming(d)'
                   PROVE  \/ Entry(d)' /\ peers'[addr[d]].state = "ready"
                          \/ Pending("ready", addr[d])'
                          \/ overtook'[addr[d]] = "ready" /\ d \notin Outbound
        BY DEF ReadyNoticed
      <3>1. e # Event("disconnected", d)
        <4> SUFFICES ASSUME e = Event("disconnected", d) PROVE FALSE
          OBVIOUS
        <4>1. 1 \in 1..Len(events) /\ events[1] = Event("disconnected", d)
          BY <1>1
        <4>2. Pending("disconnected", addr[d])
          BY <4>1 DEF Pending, Event
        <4> QED
          BY <1>2, <2>1, <4>2 DEF Followed, DisconnectedLast
      <3>2. CASE e = Event("ready", d)
        <4>1. CASE Entry(d)
          BY <2>3, <3>1, <3>2, <4>1
        <4>2. CASE ~Entry(d)
          <5>1. overtook'[addr[d]] = "ready"
            BY <2>9, <3>2, <4>2
          <5> QED
            BY <2>10, <4>2, <5>1
        <4> QED
          BY <4>1, <4>2
      <3>3. CASE e # Event("ready", d)
        <4>1. \/ Entry(d) /\ peers[addr[d]].state = "ready"
              \/ Pending("ready", addr[d])
              \/ overtook[addr[d]] = "ready" /\ d \notin Outbound
          BY <1>2, <2>1, <2>10 DEF Followed, ReadyNoticed
        <4> QED
          BY <2>3, <2>4, <2>9, <2>10, <3>1, <3>3, <4>1
      <3> QED
        BY <3>2, <3>3
    <2> QED
      BY <2>5, <2>6, <2>7, <2>8, <2>11, <2>12 DEF Followed
  <1> QED
    BY <1>4, <1>5 DEF FollowInv

\* The steps of shutdown, and the end of a node without seeds.
LEMMA ShutdownFollows ==
    ASSUME NodeInv, FollowInv,
           SeedsExhausted \/ JoinAcceptor \/ ShutdownReturns
               \/ \E c \in Conn : SignalPeer(c) \/ JoinPeer(c)
    PROVE  FollowInv'
  <1>1. Late' /\ \A a \in Addr : peers'[a] = NoEntry
    BY DEF SeedsExhausted, JoinAcceptor, ShutdownReturns, SignalPeer, JoinPeer, book, Late,
           FollowInv, BookEmpty
  <1>2. acceptor'.at # "register"
    BY DEF SeedsExhausted, JoinAcceptor, ShutdownReturns, SignalPeer, JoinPeer,
           NodeInv, AcceptorEnds
  <1>3. (registrations' = registrations \/ registrations' = << >>)
        /\ (events' = events \/ events' = << >>)
    BY DEF SeedsExhausted, JoinAcceptor, ShutdownReturns, SignalPeer, JoinPeer, queues
  <1>4. \A d \in Conn : task'[d] = task[d] \/ task'[d] = "done"
    BY DEF SeedsExhausted, JoinAcceptor, ShutdownReturns, SignalPeer, JoinPeer, tasks,
           NodeInv, TypeOK
  <1>5. BookEmpty'
    BY <1>1 DEF BookEmpty, Late
  <1>6. ASSUME NEW d \in Sole PROVE Followed(d)'
    <2>1. d \in Conn /\ Followed(d) /\ addr[d] \in Addr /\ d # "none"
      BY SoleFacts DEF FollowInv
    <2>2. ~Entry(d)'
      BY <1>1, <2>1 DEF Entry, NoEntry
    <2>3. d \in Range(registrations') => d \in Range(registrations)
      BY <1>3 DEF Range
    <2>4. Fresh(d)'
      <3> SUFFICES ASSUME task'[d] = "none" PROVE Fresh(d)'
        BY DEF Fresh
      <3>1. task[d] = "none"
        BY <1>4, <2>1
      <3>2. \A i \in 1..Len(events') : events'[i].addr # addr[d]
        BY <1>3, <2>1, <3>1 DEF Followed, Fresh
      <3> QED
        BY <1>2, <2>1, <2>2, <2>3, <3>1, <3>2 DEF Followed, Fresh
    <2>5. DisconnectedLast(d)'
      BY <1>3, <1>4, <2>1 DEF Followed, DisconnectedLast, Pending
    <2> QED
      BY <1>1, <2>4, <2>5, EmptyFollowed
  <1> QED
    BY <1>5, <1>6 DEF FollowInv

LEMMA ManagerFollows ==
    ASSUME NodeInv, RegisteredOnce, FollowInv, ManagerStep \/ StopPolling
    PROVE  FollowInv'
  <1>1. CASE SeedFails \/ Poll \/ NoMoreRegistrations \/ PollReturns \/ StopPolling
             \/ \E c \in Conn : RelayFails(c)
    <2>1. UNCHANGED << peers, registrations, acceptor, task, events, commands, overtook >>
          /\ ~Late /\ ~Late' /\ (pc' = "seeding" => pc = "seeding")
      BY <1>1 DEF SeedFails, Poll, NoMoreRegistrations, PollReturns, StopPolling, RelayFails,
                  book, queues, tasks, Late
    <2>2. BookEmpty'
      BY <2>1 DEF FollowInv, BookEmpty
    <2> QED
      BY <2>1, <2>2, Untouched DEF FollowInv
  <1>2. ASSUME NEW c \in Conn, RelayTo(c) PROVE FollowInv'
    <2>1. /\ UNCHANGED << peers, registrations, acceptor, task, events, overtook >> /\ ~Late /\ ~Late'
          /\ pc' # "seeding"
          /\ commands' = [commands EXCEPT ![c] = Append(commands[c], "send")]
      BY <1>2 DEF RelayTo, book, Late
    <2>2. commands[c] \in Seq({"send", "shutdown"})
      BY DEF NodeInv, TypeOK
    <2>3. /\ Len(commands[c]) \in Nat
          /\ Len(Append(commands[c], "send")) = Len(commands[c]) + 1
          /\ \A i \in 1..Len(commands[c]) : Append(commands[c], "send")[i] = commands[c][i]
          /\ Append(commands[c], "send")[Len(commands[c]) + 1] = "send"
      BY <2>2, AppendIndex
    <2>4. \A d \in Conn : \A i \in 1..Len(commands'[d]) : commands'[d][i] # "shutdown"
      <3> SUFFICES ASSUME NEW d \in Conn, NEW i \in 1..Len(commands'[d])
                   PROVE  commands'[d][i] # "shutdown"
        OBVIOUS
      <3>1. CASE d # c
        BY <2>1, <3>1 DEF FollowInv, BookEmpty, NodeInv, TypeOK
      <3>2. CASE d = c
        <4>1. commands'[d] = Append(commands[c], "send")
          BY <2>1, <3>2 DEF NodeInv, TypeOK
        <4>2. i \in 1..Len(commands[c]) \/ i = Len(commands[c]) + 1
          BY <2>3, <4>1
        <4> QED
          BY <2>1, <2>3, <4>1, <4>2 DEF FollowInv, BookEmpty
      <3> QED
        BY <3>1, <3>2
    <2>5. BookEmpty'
      BY <2>1, <2>4 DEF BookEmpty
    <2> QED
      BY <2>1, <2>5, Untouched DEF FollowInv
  <1> QED
    BY <1>1, <1>2, ConnectSeedFollows, TakeRegistrationFollows, HandleEventFollows,
       ShutdownFollows DEF ManagerStep

LEMMA InitFollows ==
    ASSUME Init
    PROVE  FollowInv
  <1>1. BookEmpty
    BY Constants DEF Init, BookEmpty, Late
  <1>2. ASSUME NEW c \in Sole PROVE Followed(c)
    <2>1. c \in Conn /\ addr[c] \in Addr /\ c # "none" /\ task[c] = "none" /\ events = << >>
          /\ Len(events) = 0 /\ registrations = << >> /\ acceptor.at = "accept"
          /\ peers[addr[c]] = NoEntry
      BY Constants DEF Init, Sole
    <2>2. ~Entry(c) /\ c \notin Range(registrations)
      BY <2>1 DEF Entry, NoEntry, Range
    <2> QED
      BY <2>1, <2>2 DEF Followed, Fresh, DisconnectedLast, ReadyFirst, LeavesUnheld, EndNoticed,
                        ReadyNoticed, Pending
  <1> QED
    BY <1>1, <1>2 DEF FollowInv

LEMMA NextFollows ==
    ASSUME NodeInv, RegisteredOnce, FollowInv, [Next]_vars
    PROVE  FollowInv'
  <1>1. CASE UNCHANGED vars
    <2>1. UNCHANGED << pc, peers, registrations, acceptor, task, events, commands, overtook >>
      BY <1>1 DEF vars
    <2>2. BookEmpty' /\ (Late' <=> Late)
      BY <2>1 DEF FollowInv, BookEmpty, Late
    <2> QED
      BY <2>1, <2>2, Untouched DEF FollowInv
  <1> QED
    BY <1>1, ManagerFollows, AcceptorFollows, TasksFollow DEF Next, Environment

\* What the manager believes of a peer is true, or the event that corrects it is on
\* its way; only a registration that comes after an event of its connection leaves a
\* belief that nothing corrects, and then an entry that is not Ready
\* (PeerManager::handle_event, process_registrations, run_peer's emit_event).
THEOREM EntryTheorem == Spec => []EntryFollowsTask
  <1>1. NodeInv /\ FollowInv => EntryFollowsTask
    <2> SUFFICES ASSUME NodeInv, FollowInv, NEW a \in Addr, peers[a] # NoEntry,
                        NEW d \in Conn, {c \in Conn : addr[c] = a} = {d}
                 PROVE  LET c == peers[a].conn
                        IN  /\ /\ task[c] = "done"
                               /\ peers[a].state = "ready" \/ c \in Outbound
                                      \/ overtook[a] # "disconnected"
                               => Pending("disconnected", a)
                            /\ /\ task[c] \in {"loop", "writing", "emit_announce"}
                               /\ c \in Outbound \/ overtook[a] # "ready"
                               => peers[a].state = "ready" \/ Pending("ready", a)
      BY DEF EntryFollowsTask
    <2>1. d \in Sole /\ addr[d] = a
      BY DEF Sole
    <2>2. Entry(d) /\ peers[a].conn = d
      BY <2>1, SoleFacts DEF Entry
    <2>3. EndNoticed(d) /\ ReadyNoticed(d) /\ ~Late
      BY <2>1 DEF FollowInv, Followed, BookEmpty
    <2> QED
      BY <2>1, <2>2, <2>3 DEF EndNoticed, ReadyNoticed
  <1>2. Init => FollowInv
    BY InitFollows
  <1>3. NodeInv /\ RegisteredOnce /\ FollowInv /\ [Next]_vars => FollowInv'
    BY NextFollows
  <1> QED
    BY <1>1, <1>2, <1>3, NodeInvariant, RegisteredTheorem, PTL DEF Spec
=============================================================================
