------------------------- MODULE ConversationProofs -------------------------
(***************************************************************************)
(* Theorems about Conversation, for every tree of blocks, every set of      *)
(* transactions, every nonce and every capacity of the connection.          *)
(***************************************************************************)
EXTENDS Conversation, SequenceTheorems, FiniteSetTheorems, TLAPS

Statuses == {"none", "fresh", "old"}
Reasons == {"none", "OutboundQueueFull", "ConnectionClosed", "stopped",
            "HandshakeTimeout", "HandshakeViolation", "SelfConnection"}

-----------------------------------------------------------------------------
(* Types                                                                    *)

LEMMA OtherEnd ==
    ASSUME NEW e \in End
    PROVE  Other(e) \in End /\ Other(e) # e /\ Other(Other(e)) = e
           /\ \A d \in End : d = e \/ d = Other(e)
  BY DEF End, Other

LEMMA MessageTypes ==
    /\ Msg("verack", "none") \in Message
    /\ \A i \in Item, k \in {"inv", "getdata", "data"} : Msg(k, i) \in Message
    /\ \A n \in Nat : Msg("version", n) \in Message
  BY DEF Message, Msg

LEMMA ShortSequences ==
    ASSUME NEW S, NEW x \in S, NEW y \in S
    PROVE  /\ << >> \in Seq(S) /\ << x >> \in Seq(S) /\ << x, y >> \in Seq(S)
           /\ Len(<< >>) = 0 /\ Len(<< x >>) = 1 /\ Len(<< x, y >>) = 2
           /\ << x >>[1] = x /\ << x, y >>[1] = x /\ << x, y >>[2] = y
  OBVIOUS

LEMMA CloseTypes ==
    ASSUME TypeOK, NEW e \in End, NEW r \in Reasons, Close(e, r),
           UNCHANGED << nonce, data, feed, lapses >>,
           wire' \in [End -> Seq(Message)], \A d \in End : Len(wire'[d]) <= WireCapacity
    PROVE  TypeOK'
  <1>1. /\ phase' = [phase EXCEPT ![e] = "closed"] /\ why' = [why EXCEPT ![e] = r]
        /\ replies' = [replies EXCEPT ![e] = << >>] /\ commands' = [commands EXCEPT ![e] = << >>]
    BY DEF Close
  <1>2. phase' \in [End -> Phase] /\ why' \in [End -> Reasons]
    BY <1>1 DEF TypeOK, Phase, Reasons
  <1>3. replies' \in [End -> Seq(Message)] /\ \A d \in End : Len(replies'[d]) <= 2
    BY <1>1 DEF TypeOK
  <1>4. commands' \in [End -> Seq(Item)]
    BY <1>1 DEF TypeOK
  <1> QED
    BY <1>2, <1>3, <1>4 DEF TypeOK, data, Reasons

LEMMA TakeTypes ==
    ASSUME TypeOK, NEW e \in End, Take(e)
    PROVE  /\ Head(Incoming(e)) \in Message
           /\ wire' \in [End -> Seq(Message)]
           /\ \A d \in End : Len(wire'[d]) <= WireCapacity
  <1> DEFINE o == Other(e)
  <1>1. o \in End
    BY OtherEnd
  <1>2. wire[o] \in Seq(Message) /\ wire[o] # << >> /\ wire' = [wire EXCEPT ![o] = Tail(wire[o])]
        /\ Incoming(e) = wire[o] /\ Len(wire[o]) <= WireCapacity
    BY <1>1 DEF Take, Incoming, TypeOK
  <1>3. Head(wire[o]) \in Message /\ Tail(wire[o]) \in Seq(Message)
        /\ Len(Tail(wire[o])) <= Len(wire[o]) /\ Len(wire[o]) \in Nat /\ Len(Tail(wire[o])) \in Nat
    <2> HIDE DEF o
    <2> QED
      BY <1>2
  <1>4. Len(Tail(wire[o])) <= WireCapacity
    BY <1>2, <1>3, ConversationAssumption
  <1> QED
    BY <1>1, <1>2, <1>3, <1>4 DEF TypeOK

LEMMA SendTypes ==
    ASSUME TypeOK, NEW e \in End, Send(e)
    PROVE  TypeOK'
  <1>1. replies[e] \in Seq(Message) /\ replies[e] # << >> /\ Len(replies[e]) <= 2
        /\ wire[e] \in Seq(Message) /\ Len(wire[e]) < WireCapacity
    BY DEF Send, TypeOK
  <1>2. /\ Head(replies[e]) \in Message /\ Tail(replies[e]) \in Seq(Message)
        /\ Len(Tail(replies[e])) <= 2
    BY <1>1
  <1>3. /\ Append(wire[e], Head(replies[e])) \in Seq(Message)
        /\ Len(Append(wire[e], Head(replies[e]))) <= WireCapacity
    BY <1>1, <1>2, ConversationAssumption
  <1>4. /\ wire' = [wire EXCEPT ![e] = Append(wire[e], Head(replies[e]))]
        /\ replies' = [replies EXCEPT ![e] = Tail(replies[e])]
        /\ UNCHANGED << phase, why, nonce, commands, data, feed, lapses >>
    BY DEF Send
  <1> QED
    BY <1>2, <1>3, <1>4 DEF TypeOK, data

LEMMA ConnectTypes ==
    ASSUME TypeOK, NEW e \in End, NEW b \in Block, ConnectBlock(e, b)
    PROVE  /\ known' \in [End -> SUBSET Block] /\ orphans' \in [End -> SUBSET Block]
           /\ \A d \in End : known'[d] \cap orphans'[d] = {}
  <1> DEFINE now == known[e] \cup {b}
             ready == Ready(orphans[e], now)
  <1>1. ready \subseteq orphans[e] /\ orphans[e] \subseteq Block /\ known[e] \subseteq Block
    BY DEF Ready, TypeOK
  <1>2. CASE ConnectResult(e, b) = "Connected"
    <2>1. /\ known' = [known EXCEPT ![e] = now \cup ready]
          /\ orphans' = [orphans EXCEPT ![e] = orphans[e] \ ready]
      BY <1>2 DEF ConnectBlock
    <2>2. b \notin orphans[e]
      BY <1>2 DEF ConnectResult, HasBlock
    <2> HIDE DEF ready
    <2> QED
      BY <1>1, <2>1, <2>2 DEF TypeOK
  <1>3. CASE ConnectResult(e, b) = "SideChain"
    <2>1. known' = [known EXCEPT ![e] = now] /\ orphans' = orphans
      BY <1>3 DEF ConnectBlock
    <2>2. b \notin orphans[e]
      BY <1>3 DEF ConnectResult, HasBlock
    <2> QED
      BY <2>1, <2>2 DEF TypeOK
  <1>4. CASE ConnectResult(e, b) = "Orphaned"
    <2>1. orphans' = [orphans EXCEPT ![e] = orphans[e] \cup {b}] /\ known' = known
      BY <1>4 DEF ConnectBlock
    <2>2. b \notin known[e]
      BY <1>4 DEF ConnectResult, HasBlock
    <2> QED
      BY <2>1, <2>2 DEF TypeOK
  <1>5. CASE ConnectResult(e, b) = "AlreadyKnown"
    <2>1. orphans' = orphans /\ known' = known
      BY <1>5 DEF ConnectBlock
    <2> QED
      BY <2>1 DEF TypeOK
  <1> QED
    BY <1>2, <1>3, <1>4, <1>5 DEF ConnectResult

\* A request is a single getdata, or nothing is sent.
LEMMA RequestTypes ==
    ASSUME TypeOK, NEW e \in End, NEW i \in Item, Request(e, i)
    PROVE  /\ pending' \in [End -> [Item -> Statuses]]
           /\ skipped' \in [End -> SUBSET Item]
           /\ replies' = replies \/ replies' = [replies EXCEPT ![e] = << Msg("getdata", i) >>]
  <1>1. Expire(e, i) \in [Item -> Statuses]
    BY DEF Expire, TypeOK, Statuses
  <1>2. [Expire(e, i) EXCEPT ![i] = "fresh"] \in [Item -> Statuses]
    BY <1>1 DEF Statuses
  <1>3. pending' \in [End -> [Item -> Statuses]]
    <2>1. \/ pending' = pending
          \/ pending' = [pending EXCEPT ![e] = Expire(e, i)]
          \/ pending' = [pending EXCEPT ![e] = [Expire(e, i) EXCEPT ![i] = "fresh"]]
      BY DEF Request
    <2> QED
      BY <1>1, <1>2, <2>1 DEF TypeOK, Statuses
  <1>4. skipped' \in [End -> SUBSET Item]
    <2> DEFINE declined == \/ i \in Live(e, i) /\ ~InFlight(e, i)
                           \/ Cardinality(Live(e, i)) >= MAX_PENDING_BLOCK_REQUESTS
                           \/ i \in orphans[e]
    <2>1. skipped' = [skipped EXCEPT ![e] = IF declined THEN skipped[e] \cup {i}
                                            ELSE skipped[e] \ ({i} \cap Block)]
      BY DEF Request
    <2> HIDE DEF declined
    <2> QED
      BY <2>1 DEF TypeOK
  <1>5. replies' = replies \/ replies' = [replies EXCEPT ![e] = << Msg("getdata", i) >>]
    BY DEF Request
  <1> QED
    BY <1>3, <1>4, <1>5

\* A task that reads sends nothing, one relay message, or two replies of the
\* handshake.
LEMMA ReplyTypes ==
    ASSUME TypeOK, NEW e \in End, NEW q \in Seq(Message), Len(q) <= 2,
           replies' = replies \/ replies' = [replies EXCEPT ![e] = q]
    PROVE  replies' \in [End -> Seq(Message)] /\ \A d \in End : Len(replies'[d]) <= 2
  BY DEF TypeOK

LEMMA OneMessage ==
    ASSUME NEW k \in {"inv", "getdata", "data"}, NEW i \in Item
    PROVE  << Msg(k, i) >> \in Seq(Message) /\ Len(<< Msg(k, i) >>) <= 2
  BY MessageTypes, ShortSequences

LEMMA ReadHandshakeTypes ==
    ASSUME TypeOK, NEW e \in End, ReadHandshake(e)
    PROVE  TypeOK'
  <1> DEFINE m == Head(Incoming(e))
             next == OnMessage(e, m)
  <1>1. /\ wire' \in [End -> Seq(Message)] /\ \A d \in End : Len(wire'[d]) <= WireCapacity
    BY TakeTypes DEF ReadHandshake
  <1>2. UNCHANGED << nonce, data, feed, lapses >>
    BY DEF ReadHandshake
  <1>3. nonce[e] \in Nat
    BY ConversationAssumption DEF TypeOK
  <1>4. next.phase \in Phase /\ next.out \in Seq(Message) /\ Len(next.out) <= 2
    <2>1. << >> \in Seq(Message) /\ << Msg("verack", "none") >> \in Seq(Message)
          /\ << Msg("version", nonce[e]), Msg("verack", "none") >> \in Seq(Message)
          /\ Len(<< >>) = 0 /\ Len(<< Msg("verack", "none") >>) = 1
          /\ Len(<< Msg("version", nonce[e]), Msg("verack", "none") >>) = 2
      BY <1>3, MessageTypes, ShortSequences
    <2> QED
      BY <2>1 DEF OnMessage, Phase
  <1>5. CASE Close(e, "HandshakeViolation") \/ Close(e, "SelfConnection")
    BY <1>1, <1>2, <1>5, CloseTypes DEF Reasons
  <1>6. CASE /\ phase' = [phase EXCEPT ![e] = next.phase]
             /\ replies' = [replies EXCEPT ![e] = next.out]
             /\ UNCHANGED << why, commands >>
    <2>1. replies' \in [End -> Seq(Message)] /\ \A d \in End : Len(replies'[d]) <= 2
      BY <1>4, <1>6, ReplyTypes
    <2>2. phase' \in [End -> Phase]
      BY <1>4, <1>6 DEF TypeOK
    <2> QED
      BY <1>1, <1>2, <1>6, <2>1, <2>2 DEF TypeOK, data
  <1> QED
    BY <1>5, <1>6 DEF ReadHandshake

LEMMA ReadItemTypes ==
    ASSUME TypeOK, NEW e \in End, NEW i \in Item,
           ReadInv(e, i) \/ ReadGetData(e, i) \/ (i \in Tx /\ ReadTx(e, i)) \/ (i \in Block /\ ReadBlock(e, i))
    PROVE  TypeOK'
  <1>1. Take(e) /\ UNCHANGED << phase, why, nonce, commands, feed, lapses >>
    BY DEF ReadInv, ReadGetData, ReadTx, ReadBlock, ReadItem
  <1>2. wire' \in [End -> Seq(Message)] /\ \A d \in End : Len(wire'[d]) <= WireCapacity
    BY <1>1, TakeTypes
  <1>3. CASE ReadInv(e, i)
    <2>1. /\ pending' \in [End -> [Item -> Statuses]] /\ skipped' \in [End -> SUBSET Item]
          /\ replies' = replies \/ replies' = [replies EXCEPT ![e] = << Msg("getdata", i) >>]
      BY <1>3, RequestTypes DEF ReadInv
    <2>2. replies' \in [End -> Seq(Message)] /\ \A d \in End : Len(replies'[d]) <= 2
      BY <2>1, OneMessage, ReplyTypes
    <2>3. offered' \in [End -> SUBSET Item] /\ UNCHANGED << known, orphans, pool >>
      BY <1>3 DEF ReadInv, TypeOK
    <2> QED
      BY <1>1, <1>2, <2>1, <2>2, <2>3 DEF TypeOK, Statuses
  <1>4. CASE ReadGetData(e, i)
    <2>1. \/ replies' = [replies EXCEPT ![e] = << Msg("data", i) >>]
          \/ replies' = [replies EXCEPT ![e] = << >>]
      BY <1>4 DEF ReadGetData
    <2>2. << >> \in Seq(Message) /\ Len(<< >>) <= 2
      OBVIOUS
    <2>3. replies' \in [End -> Seq(Message)] /\ \A d \in End : Len(replies'[d]) <= 2
      BY <2>1, <2>2, OneMessage, ReplyTypes
    <2> QED
      BY <1>1, <1>2, <1>4, <2>3 DEF TypeOK, ReadGetData, data
  <1>5. CASE i \in Tx /\ ReadTx(e, i)
    <2>1. pending' = [pending EXCEPT ![e] = [pending[e] EXCEPT ![i] = "none"]]
      BY <1>5 DEF ReadTx
    <2>2. pending' \in [End -> [Item -> Statuses]]
      BY <2>1 DEF TypeOK, Statuses
    <2>3. pool' \in [End -> SUBSET Tx] /\ skipped' \in [End -> SUBSET Item]
      <3>1. CASE pool' = [pool EXCEPT ![e] = pool[e] \cup {i}] /\ skipped' = skipped
        BY <1>5, <3>1 DEF TypeOK
      <3>2. CASE skipped' = [skipped EXCEPT ![e] = skipped[e] \cup {i}] /\ pool' = pool
        BY <3>2 DEF TypeOK
      <3> QED
        BY <1>5, <3>1, <3>2 DEF ReadTx
    <2> QED
      BY <1>1, <1>2, <1>5, <2>2, <2>3 DEF TypeOK, ReadTx, Statuses
  <1>6. CASE i \in Block /\ ReadBlock(e, i)
    <2>1. /\ known' \in [End -> SUBSET Block] /\ orphans' \in [End -> SUBSET Block]
          /\ \A d \in End : known'[d] \cap orphans'[d] = {}
      BY <1>6, ConnectTypes DEF ReadBlock
    <2>2. UNCHANGED << pool, offered >>
      BY <1>6 DEF ReadBlock
    <2>3. /\ pending' \in [End -> [Item -> Statuses]] /\ skipped' \in [End -> SUBSET Item]
          /\ replies' \in [End -> Seq(Message)] /\ \A d \in End : Len(replies'[d]) <= 2
      <3>1. CASE ConnectResult(e, i) = "Connected"
        <4>1. /\ pending' = [pending EXCEPT ![e] = [pending[e] EXCEPT ![i] = "none"]]
              /\ UNCHANGED << skipped, replies >>
          BY <1>6, <3>1 DEF ReadBlock
        <4> QED
          BY <4>1 DEF TypeOK, Statuses
      <3>2. CASE ConnectResult(e, i) = "Orphaned"
        <4>1. Request(e, prev_blockhash[i])
          BY <1>6, <3>2 DEF ReadBlock
        <4>2. prev_blockhash[i] \in Item
          BY <1>6, <3>2, ConversationAssumption DEF ConnectResult, ParentKnown, Item
        <4>3. /\ pending' \in [End -> [Item -> Statuses]] /\ skipped' \in [End -> SUBSET Item]
              /\ \/ replies' = replies
                 \/ replies' = [replies EXCEPT ![e] = << Msg("getdata", prev_blockhash[i]) >>]
          BY <4>1, <4>2, RequestTypes
        <4> QED
          BY <4>2, <4>3, OneMessage, ReplyTypes
      <3>3. CASE ConnectResult(e, i) \notin {"Connected", "Orphaned"}
        <4>1. /\ skipped' = [skipped EXCEPT ![e] = skipped[e] \cup ({i} \cap orphans[e])]
              /\ UNCHANGED << pending, replies >>
          BY <1>6, <3>3 DEF ReadBlock
        <4> QED
          BY <4>1 DEF TypeOK, Statuses
      <3> QED
        BY <3>1, <3>2, <3>3
    <2> QED
      BY <1>1, <1>2, <2>1, <2>2, <2>3 DEF TypeOK, Statuses
  <1> QED
    BY <1>3, <1>4, <1>5, <1>6

LEMMA CommandTypes ==
    ASSUME TypeOK, NEW e \in End, TakeCommand(e)
    PROVE  TypeOK'
  <1>1. commands[e] \in Seq(Item) /\ commands[e] # << >>
    BY DEF TakeCommand, TypeOK
  <1>2. Head(commands[e]) \in Item /\ Tail(commands[e]) \in Seq(Item)
    BY <1>1
  <1>3. /\ replies' = [replies EXCEPT ![e] = << Msg("inv", Head(commands[e])) >>]
        /\ commands' = [commands EXCEPT ![e] = Tail(commands[e])]
        /\ UNCHANGED << phase, why, nonce, wire, data, feed, lapses >>
    BY DEF TakeCommand
  <1>4. replies' \in [End -> Seq(Message)] /\ \A d \in End : Len(replies'[d]) <= 2
    BY <1>2, <1>3, OneMessage, ReplyTypes
  <1>5. commands' \in [End -> Seq(Item)]
    BY <1>2, <1>3 DEF TypeOK
  <1> QED
    BY <1>3, <1>4, <1>5 DEF TypeOK, data

LEMMA LearnTypes ==
    ASSUME TypeOK, NEW e \in End, NEW i \in Item, Learn(e, i)
    PROVE  TypeOK'
  <1>1. /\ known' \in [End -> SUBSET Block] /\ orphans' \in [End -> SUBSET Block]
        /\ \A d \in End : known'[d] \cap orphans'[d] = {}
        /\ pool' \in [End -> SUBSET Tx]
    <2>1. CASE i \in Tx
      <3>1. pool' = [pool EXCEPT ![e] = pool[e] \cup {i}] /\ UNCHANGED << known, orphans >>
        BY <2>1 DEF Learn
      <3> QED
        BY <2>1, <3>1 DEF TypeOK
    <2>2. CASE i \notin Tx
      <3>1. i \in Block /\ ConnectBlock(e, i) /\ pool' = pool
        BY <2>2 DEF Learn, Item
      <3> QED
        BY <3>1, ConnectTypes DEF TypeOK
    <2> QED
      BY <2>1, <2>2
  <1>2. commands' \in [End -> Seq(Item)]
    <2>1. commands' = commands \/ commands' = [commands EXCEPT ![e] = Append(commands[e], i)]
      BY DEF Learn
    <2>2. Append(commands[e], i) \in Seq(Item)
      BY DEF TypeOK
    <2> QED
      BY <2>1, <2>2 DEF TypeOK
  <1>3. feed' \in [End -> SUBSET Item]
    BY DEF Learn, TypeOK
  <1> QED
    BY <1>1, <1>2, <1>3 DEF Learn, TypeOK

LEMMA NextTypes ==
    ASSUME TypeOK, [Next]_vars
    PROVE  TypeOK'
  <1>1. CASE UNCHANGED vars
    BY <1>1 DEF vars, TypeOK
  <1>2. ASSUME NEW e \in End,
               SendFails(e) \/ ReadFails(e) \/ HandshakeTimeout(e) \/ Shutdown(e)
        PROVE  TypeOK'
    <2>1. PICK r \in Reasons : Close(e, r)
      BY <1>2 DEF SendFails, ReadFails, HandshakeTimeout, Shutdown, Reasons
    <2>2. UNCHANGED << nonce, wire, data, feed, lapses >>
      BY <1>2 DEF SendFails, ReadFails, HandshakeTimeout, Shutdown
    <2> QED
      BY <2>1, <2>2, CloseTypes DEF TypeOK
  <1>3. ASSUME NEW e \in End, NEW i \in Item, Lapse(e, i)
        PROVE  TypeOK'
    <2>1. pending' = [pending EXCEPT ![e] = [pending[e] EXCEPT ![i] = "old"]]
          /\ lapses' \in 0..MaxLapses
      BY <1>3, ConversationAssumption DEF Lapse, TypeOK
    <2>2. pending' \in [End -> [Item -> Statuses]]
      BY <2>1 DEF TypeOK, Statuses
    <2> QED
      BY <1>3, <2>1, <2>2 DEF Lapse, TypeOK, Statuses
  <1>4. ASSUME NEW e \in End, NEW t \in Tx, DropTx(e, t)
        PROVE  TypeOK'
    <2>1. pool' \in [End -> SUBSET Tx] /\ skipped' \in [End -> SUBSET Item]
      BY <1>4 DEF DropTx, TypeOK, Item
    <2> QED
      BY <1>4, <2>1 DEF DropTx, TypeOK
  <1>5. Tx \subseteq Item /\ Block \subseteq Item
    BY DEF Item
  <1> QED
    BY <1>1, <1>2, <1>3, <1>4, <1>5, SendTypes, ReadHandshakeTypes, ReadItemTypes, CommandTypes,
       LearnTypes DEF Next, TaskStep

LEMMA InitTypes ==
    ASSUME Init
    PROVE  TypeOK
  <1>1. nonce \in [End -> Nat] /\ nonce \in Nonces /\ feed \in [End -> SUBSET Item]
        /\ "dialer" \in End /\ "listener" \in End
    BY ConversationAssumption DEF Init, End
  <1>2. << >> \in Seq(Message) /\ Len(<< >>) = 0
        /\ << Msg("version", nonce["dialer"]) >> \in Seq(Message)
        /\ Len(<< Msg("version", nonce["dialer"]) >>) = 1
    BY <1>1, MessageTypes, ShortSequences
  <1>3. phase \in [End -> Phase] /\ why \in [End -> Reasons]
    BY DEF Init, Phase, Reasons, End
  <1>4. replies \in [End -> Seq(Message)] /\ \A e \in End : Len(replies[e]) <= 2
    <2>1. replies["dialer"] = << Msg("version", nonce["dialer"]) >> /\ replies["listener"] = << >>
          /\ DOMAIN replies = End
      BY DEF Init, End
    <2>2. \A e \in End : replies[e] \in Seq(Message) /\ Len(replies[e]) <= 2
      <3>1. replies["dialer"] \in Seq(Message) /\ Len(replies["dialer"]) <= 2
        BY <1>2, <2>1
      <3>2. replies["listener"] \in Seq(Message) /\ Len(replies["listener"]) <= 2
        BY <1>2, <2>1
      <3> QED
        BY <3>1, <3>2 DEF End
    <2>3. replies = [e \in End |-> replies[e]]
      BY DEF Init, End
    <2> QED
      BY <2>2, <2>3
  <1>5. wire \in [End -> Seq(Message)] /\ commands \in [End -> Seq(Item)]
        /\ \A e \in End : Len(wire[e]) <= WireCapacity
    BY <1>2, ConversationAssumption DEF Init
  <1>6. known \in [End -> SUBSET Block] /\ orphans \in [End -> SUBSET Block]
        /\ pool \in [End -> SUBSET Tx] /\ \A e \in End : known[e] \cap orphans[e] = {}
        /\ pending \in [End -> [Item -> Statuses]] /\ lapses \in 0..MaxLapses
        /\ offered \in [End -> SUBSET Item] /\ skipped \in [End -> SUBSET Item]
    BY ConversationAssumption DEF Init, Statuses
  <1> QED
    BY <1>1, <1>3, <1>4, <1>5, <1>6 DEF TypeOK, Statuses, Reasons

\* Every message, tracker entry and queue keeps its type; a task never has more than
\* two replies to send and the connection keeps its capacity (run_peer,
\* MessageWriter).
THEOREM TypeCorrect == Spec => []TypeOK
  BY InitTypes, NextTypes, PTL DEF Spec

-----------------------------------------------------------------------------
(* The handshake                                                            *)

Version(e) == Msg("version", nonce[e])
Verack == Msg("verack", "none")
RelayMessage == [kind : {"inv", "getdata", "data"}, item : Item]

\* What end e has sent and the other has not read, with what it is sending: nothing;
\* its version and what follows it; its verack and what follows it; relay messages.
Nothing(e) == wire[e] = << >> /\ replies[e] = << >>

VersionFirst(e) ==
    \/ /\ e = "dialer"
       /\ \/ wire[e] = << >> /\ replies[e] = << Version(e) >>
          \/ wire[e] = << Version(e) >> /\ replies[e] = << >>
    \/ /\ e = "listener"
       /\ \/ wire[e] = << >> /\ replies[e] = << Version(e), Verack >>
          \/ wire[e] = << Version(e) >> /\ replies[e] = << Verack >>
          \/ wire[e] = << Version(e), Verack >> /\ replies[e] = << >>

VerackFirst(e) ==
    \/ wire[e] = << >> /\ replies[e] = << Verack >>
    \/ /\ wire[e] # << >> /\ wire[e][1] = Verack
       /\ \A i \in 2..Len(wire[e]) : wire[e][i] \in RelayMessage
       /\ \A i \in 1..Len(replies[e]) : replies[e][i] \in RelayMessage

Relayed(e) ==
    /\ \A i \in 1..Len(wire[e]) : wire[e][i] \in RelayMessage
    /\ \A i \in 1..Len(replies[e]) : replies[e][i] \in RelayMessage

\* A closed end may have left only the start of it on the wire.
CutShort(e) == phase[e] = "closed" /\ replies[e] = << >> /\ wire[e] \in {<< >>, << Version(e) >>}

\* What an end owes the other follows from the phases of the two.
OwesVersion(e) ==
    phase[Other(e)] \in {"AwaitingVersion", "AwaitingPeerVersion"} =>
        \/ e = "listener" /\ phase[e] = "AwaitingVersion" /\ Nothing(e)
        \/ e = "dialer" /\ phase[e] \in {"AwaitingPeerVersion", "closed"} /\ VersionFirst(e)
        \/ e = "listener" /\ phase[e] \in {"AwaitingVerack", "closed"} /\ VersionFirst(e)
        \/ CutShort(e)

OwesVerack(e) ==
    phase[Other(e)] = "AwaitingVerack" =>
        \/ e = "dialer" /\ phase[e] = "AwaitingPeerVersion" /\ Nothing(e)
        \/ phase[e] \in {"AwaitingVerack", "Established", "closed"} /\ VerackFirst(e)
        \/ phase[e] = "closed" /\ Nothing(e)

OwesRelay(e) ==
    phase[Other(e)] = "Established" =>
        phase[e] \in {"AwaitingVerack", "Established", "closed"} /\ Relayed(e)

HandshakeInv ==
    /\ phase["dialer"] # "AwaitingVersion" /\ phase["listener"] # "AwaitingPeerVersion"
    /\ \A e \in End :
          /\ why[e] # "HandshakeViolation"
          /\ why[e] = "SelfConnection" => nonce["dialer"] = nonce["listener"]
          /\ phase[e] \in {"AwaitingVerack", "Established"} => nonce["dialer"] # nonce["listener"]
          /\ phase[e] = "closed" => replies[e] = << >>
          /\ OwesVersion(e) /\ OwesVerack(e) /\ OwesRelay(e)

\* The first message of a queue and the others, and a queue with one more.
LEMMA RelayTail ==
    ASSUME NEW q \in Seq(Message), q # << >>
    PROVE  /\ Head(q) = q[1] /\ Len(q) \in Nat \ {0} /\ Len(Tail(q)) = Len(q) - 1
           /\ \A i \in 1..Len(Tail(q)) : Tail(q)[i] = q[i + 1]
  OBVIOUS

LEMMA RelayAppend ==
    ASSUME NEW q \in Seq(Message), NEW m \in Message
    PROVE  /\ Len(q) \in Nat /\ Len(Append(q, m)) = Len(q) + 1 /\ Append(q, m) # << >>
           /\ Append(q, m) \in Seq(Message)
           /\ \A i \in 1..Len(q) : Append(q, m)[i] = q[i]
           /\ Append(q, m)[Len(q) + 1] = m
  OBVIOUS

\* What the operators on sequences do to short ones.
LEMMA AppendToOne ==
    ASSUME NEW x \in Message, NEW y \in Message
    PROVE  Append(<< x >>, y) = << x, y >>
  <1>1. ASSUME NEW q \in Seq(Message), NEW r \in Seq(Message), Len(q) = 1, Len(r) = 2,
               q[1] = x, r[1] = x, r[2] = y
        PROVE  Append(q, y) = r
    <2> DEFINE a == Append(q, y)
    <2>1. /\ Len(a) = Len(q) + 1 /\ a \in Seq(Message) /\ a[Len(q) + 1] = y
          /\ \A i \in 1..Len(q) : a[i] = q[i]
      BY RelayAppend
    <2> HIDE DEF a
    <2>2. Len(a) = 2 /\ a[1] = x /\ a[2] = y
      BY <1>1, <2>1
    <2>3. \A i \in 1..2 : a[i] = r[i]
      BY <1>1, <2>2
    <2> QED
      BY <1>1, <2>1, <2>2, <2>3, SeqEqual DEF a
  <1>2. /\ << x >> \in Seq(Message) /\ << x, y >> \in Seq(Message)
        /\ Len(<< x >>) = 1 /\ Len(<< x, y >>) = 2
    OBVIOUS
  <1>3. << x >>[1] = x /\ << x, y >>[1] = x /\ << x, y >>[2] = y
    OBVIOUS
  <1> QED
    BY <1>1, <1>2, <1>3

LEMMA ShortOperations ==
    ASSUME NEW x \in Message, NEW y \in Message
    PROVE  /\ Append(<< >>, x) = << x >> /\ Append(<< x >>, y) = << x, y >>
           /\ Head(<< x >>) = x /\ Tail(<< x >>) = << >> /\ << x >> # << >>
           /\ Head(<< x, y >>) = x /\ Tail(<< x, y >>) = << y >> /\ << x, y >> # << >>
           /\ Len(<< x >>) = 1 /\ << x >>[1] = x /\ Len(<< >>) = 0
  <1>1. Append(<< >>, x) = << x >>
    OBVIOUS
  <1>2. Head(<< x >>) = x /\ Tail(<< x >>) = << >> /\ << x >> # << >>
    OBVIOUS
  <1>3. Head(<< x, y >>) = x /\ << x, y >> # << >>
    OBVIOUS
  <1>4. Tail(<< x, y >>) = << y >>
    OBVIOUS
  <1>5. Len(<< x >>) = 1 /\ << x >>[1] = x /\ Len(<< >>) = 0
    OBVIOUS
  <1> QED
    BY <1>1, <1>2, <1>3, <1>4, <1>5, AppendToOne

LEMMA Greetings ==
    ASSUME TypeOK
    PROVE  Verack \in Message /\ \A e \in End : Version(e) \in Message
  BY MessageTypes, ConversationAssumption DEF TypeOK, Version, Verack

LEMMA Kinds ==
    /\ \A e \in End : Version(e).kind = "version"
    /\ Verack.kind = "verack" /\ Verack \notin RelayMessage
    /\ \A m \in RelayMessage : m.kind \notin {"version", "verack"}
    /\ \A i \in Item, k \in {"inv", "getdata", "data"} : Msg(k, i) \in RelayMessage
  BY DEF Version, Verack, RelayMessage, Msg

LEMMA HandshakeKept ==
    ASSUME HandshakeInv, UNCHANGED << phase, why, nonce, replies, wire >>
    PROVE  HandshakeInv'
  BY DEF HandshakeInv, OwesVersion, OwesVerack, OwesRelay, Nothing, VersionFirst, VerackFirst,
         Relayed, CutShort, Version

\* What the other end owes does not change when it does nothing.
LEMMA OtherOwesSame ==
    ASSUME HandshakeInv, NEW e \in End, nonce' = nonce, wire'[e] = wire[e],
           replies'[e] = replies[e], phase'[e] = phase[e],
           phase'[Other(e)] = phase[Other(e)]
    PROVE  OwesVersion(e)' /\ OwesVerack(e)' /\ OwesRelay(e)'
  BY DEF HandshakeInv, OwesVersion, OwesVerack, OwesRelay, Nothing, VersionFirst, VerackFirst,
         Relayed, CutShort, Version

LEMMA SendKeeps ==
    ASSUME TypeOK, HandshakeInv, NEW e \in End, Send(e)
    PROVE  HandshakeInv'
  <1> DEFINE o == Other(e)
             w == wire[e]
             r == replies[e]
  <1>1. o \in End /\ o # e /\ \A d \in End : d = e \/ d = o
    BY OtherEnd
  <1>2. /\ w \in Seq(Message) /\ r \in Seq(Message) /\ r # << >>
        /\ wire'[e] = Append(w, Head(r)) /\ replies'[e] = Tail(r)
        /\ wire'[o] = wire[o] /\ replies'[o] = replies[o]
        /\ UNCHANGED << phase, why, nonce >>
    BY <1>1 DEF Send, TypeOK
  <1>3. VersionFirst(e) => VersionFirst(e)'
    <2>1. Version(e)' = Version(e)
      BY <1>2 DEF Version
    <2>2. CASE e = "dialer" /\ w = << >> /\ r = << Version(e) >>
      BY <1>2, <2>1, <2>2, ShortOperations, Greetings DEF VersionFirst
    <2>3. CASE e = "listener" /\ w = << >> /\ r = << Version(e), Verack >>
      BY <1>2, <2>1, <2>3, ShortOperations, Greetings DEF VersionFirst
    <2>4. CASE e = "listener" /\ w = << Version(e) >> /\ r = << Verack >>
      BY <1>2, <2>1, <2>4, ShortOperations, Greetings DEF VersionFirst
    <2> QED
      BY <1>2, <2>2, <2>3, <2>4 DEF VersionFirst
  <1>4. Head(r) \in Message /\ Head(r) = r[1] /\ Len(r) \in Nat \ {0} /\ Len(Tail(r)) = Len(r) - 1
        /\ \A i \in 1..Len(Tail(r)) : Tail(r)[i] = r[i + 1]
    <2> HIDE DEF r
    <2> QED
      BY <1>2, RelayTail
  <1>5. /\ Len(w) \in Nat /\ Len(wire'[e]) = Len(w) + 1 /\ wire'[e] # << >>
        /\ \A i \in 1..Len(w) : wire'[e][i] = w[i]
        /\ wire'[e][Len(w) + 1] = Head(r)
    BY <1>2, <1>4, RelayAppend
  <1>6. Relayed(e) => Relayed(e)'
    BY <1>2, <1>4, <1>5 DEF Relayed
  <1>7. VerackFirst(e) => VerackFirst(e)'
    <2>1. CASE w = << >> /\ r = << Verack >>
      <3>1. wire'[e] = << Verack >> /\ replies'[e] = << >>
        BY <1>2, <2>1, ShortOperations, Greetings
      <3> QED
        BY <3>1, ShortOperations, Greetings DEF VerackFirst
    <2>2. CASE /\ w # << >> /\ w[1] = Verack
               /\ \A i \in 2..Len(w) : w[i] \in RelayMessage
               /\ \A i \in 1..Len(r) : r[i] \in RelayMessage
      <3>1. Len(w) >= 1
        BY <1>2, <2>2
      <3>2. wire'[e][1] = Verack /\ \A i \in 2..Len(wire'[e]) : wire'[e][i] \in RelayMessage
        <4>1. r[1] \in RelayMessage
          BY <1>4, <2>2
        <4>2. \A i \in 2..(Len(w) + 1) : i \in 2..Len(w) \/ i = Len(w) + 1
          BY <1>5
        <4>3. \A i \in 2..Len(w) : wire'[e][i] = w[i]
          BY <1>5
        <4>4. 1 \in 1..Len(w)
          BY <1>5, <3>1
        <4> QED
          BY <1>4, <1>5, <2>2, <4>1, <4>2, <4>3, <4>4
      <3>3. \A i \in 1..Len(replies'[e]) : replies'[e][i] \in RelayMessage
        BY <1>2, <1>4, <2>2
      <3> QED
        BY <1>5, <3>2, <3>3 DEF VerackFirst
    <2> QED
      BY <2>1, <2>2 DEF VerackFirst
  <1>8. ~Nothing(e) /\ ~CutShort(e) /\ phase[e] # "closed"
    BY <1>2 DEF Nothing, CutShort, HandshakeInv
  <1>9. OwesVersion(e)' /\ OwesVerack(e)' /\ OwesRelay(e)'
    BY <1>1, <1>2, <1>3, <1>6, <1>7, <1>8 DEF HandshakeInv, OwesVersion, OwesVerack, OwesRelay
  <1>10. OwesVersion(o)' /\ OwesVerack(o)' /\ OwesRelay(o)'
    BY <1>1, <1>2, OtherOwesSame
  <1> QED
    BY <1>1, <1>2, <1>8, <1>9, <1>10 DEF HandshakeInv

\* What an end owes when it closes.
LEMMA CloseOwes ==
    ASSUME TypeOK, HandshakeInv, NEW e \in End, nonce' = nonce, wire'[e] = wire[e],
           replies'[e] = << >>, phase'[e] = "closed", phase'[Other(e)] = phase[Other(e)]
    PROVE  OwesVersion(e)' /\ OwesVerack(e)' /\ OwesRelay(e)'
  <1>1. Version(e)' = Version(e) /\ Len(<< >>) = 0
    BY ShortOperations, Greetings DEF Version
  <1>2. OwesVersion(e)'
    <2>1. Nothing(e) \/ VersionFirst(e) \/ CutShort(e) => VersionFirst(e)' \/ CutShort(e)'
      BY <1>1 DEF Nothing, VersionFirst, CutShort
    <2>2. VersionFirst(e)' => e \in {"dialer", "listener"}
      BY DEF VersionFirst
    <2> QED
      BY <2>1, <2>2 DEF HandshakeInv, OwesVersion
  <1>3. OwesVerack(e)'
    <2>1. Nothing(e) \/ VerackFirst(e) => VerackFirst(e)' \/ Nothing(e)'
      BY <1>1 DEF Nothing, VerackFirst
    <2> QED
      BY <2>1 DEF HandshakeInv, OwesVerack
  <1>4. OwesRelay(e)'
    <2>1. \A i \in 1..Len(replies'[e]) : replies'[e][i] \in RelayMessage
      BY <1>1
    <2>2. Relayed(e) => Relayed(e)'
      BY <2>1 DEF Relayed
    <2> QED
      BY <2>2 DEF HandshakeInv, OwesRelay
  <1> QED
    BY <1>2, <1>3, <1>4

LEMMA CloseKeeps ==
    ASSUME TypeOK, HandshakeInv, NEW e \in End, NEW r \in Reasons, Close(e, r), nonce' = nonce,
           wire'[e] = wire[e], r # "HandshakeViolation",
           r = "SelfConnection" => nonce["dialer"] = nonce["listener"]
    PROVE  HandshakeInv'
  <1> DEFINE o == Other(e)
  <1>1. o \in End /\ o # e /\ Other(o) = e /\ \A d \in End : d = e \/ d = o
    BY OtherEnd
  <1>2. /\ phase'[e] = "closed" /\ phase'[o] = phase[o] /\ why'[e] = r /\ why'[o] = why[o]
        /\ replies'[e] = << >> /\ replies'[o] = replies[o]
    BY <1>1 DEF Close, TypeOK
  <1>3. OwesVersion(e)' /\ OwesVerack(e)' /\ OwesRelay(e)'
    BY <1>2, CloseOwes
  <1>4. OwesVersion(o)' /\ OwesVerack(o)' /\ OwesRelay(o)'
    BY <1>1, <1>2 DEF OwesVersion, OwesVerack, OwesRelay
  <1>5. phase'["dialer"] # "AwaitingVersion" /\ phase'["listener"] # "AwaitingPeerVersion"
    BY <1>1, <1>2 DEF HandshakeInv, End
  <1> QED
    BY <1>1, <1>2, <1>3, <1>4, <1>5 DEF HandshakeInv

\* An established end reads or takes a command, and sends relay messages.
LEMMA RelayKeeps ==
    ASSUME TypeOK, HandshakeInv, NEW e \in End, phase[e] = "Established", replies[e] = << >>,
           UNCHANGED << phase, why, nonce >>, wire' = wire \/ Take(e),
           NEW q, \A i \in 1..Len(q) : q[i] \in RelayMessage,
           replies' = replies \/ replies' = [replies EXCEPT ![e] = q]
    PROVE  HandshakeInv'
  <1> DEFINE o == Other(e)
  <1>1. o \in End /\ o # e /\ Other(o) = e /\ \A d \in End : d = e \/ d = o
    BY OtherEnd
  <1>2. /\ wire'[e] = wire[e] /\ wire[o] \in Seq(Message)
        /\ wire'[o] = wire[o] \/ (wire[o] # << >> /\ wire'[o] = Tail(wire[o]))
        /\ replies'[o] = replies[o]
        /\ \A i \in 1..Len(replies'[e]) : replies'[e][i] \in RelayMessage
    <2>1. wire[o] \in Seq(Message) /\ wire \in [End -> Seq(Message)]
          /\ replies \in [End -> Seq(Message)]
      BY <1>1 DEF TypeOK
    <2>2. \/ wire' = wire
          \/ wire[o] # << >> /\ wire' = [wire EXCEPT ![o] = Tail(wire[o])]
      BY DEF Take, Incoming
    <2>3. /\ wire'[e] = wire[e]
          /\ wire'[o] = wire[o] \/ (wire[o] # << >> /\ wire'[o] = Tail(wire[o]))
      BY <1>1, <2>1, <2>2
    <2>4. Len(<< >>) = 0
      BY Greetings, ShortOperations
    <2>5. replies'[e] = << >> \/ replies'[e] = q
      BY <2>1
    <2>6. replies'[o] = replies[o]
      BY <1>1, <2>1
    <2>7. \A i \in 1..Len(replies'[e]) : replies'[e][i] \in RelayMessage
      <3>1. CASE replies'[e] = << >>
        BY <2>4, <3>1
      <3>2. CASE replies'[e] = q
        BY <3>2
      <3> QED
        BY <2>5, <3>1, <3>2
    <2> QED
      BY <2>1, <2>3, <2>6, <2>7
  <1>3. phase[o] \in {"AwaitingVerack", "Established", "closed"} /\ Relayed(o)
    BY <1>1 DEF HandshakeInv, OwesRelay
  <1>4. Relayed(o)'
    <2>1. CASE wire'[o] = wire[o]
      BY <1>2, <1>3, <2>1 DEF Relayed
    <2>2. CASE wire[o] # << >> /\ wire'[o] = Tail(wire[o])
      <3>1. /\ Len(wire[o]) \in Nat \ {0} /\ Len(wire'[o]) = Len(wire[o]) - 1
            /\ \A i \in 1..Len(wire'[o]) : wire'[o][i] = wire[o][i + 1]
        BY <1>2, <2>2, RelayTail
      <3>2. \A i \in 1..Len(wire'[o]) : i + 1 \in 1..Len(wire[o])
        BY <3>1
      <3> QED
        BY <1>2, <1>3, <3>1, <3>2 DEF Relayed
    <2> QED
      BY <1>2, <2>1, <2>2
  <1>5. VerackFirst(e) => VerackFirst(e)'
    BY <1>2, ShortOperations, Greetings DEF VerackFirst
  <1>6. Relayed(e) => Relayed(e)'
    BY <1>2 DEF Relayed
  <1>7. OwesVersion(e)' /\ OwesVerack(e)' /\ OwesRelay(e)'
    BY <1>1, <1>3, <1>5, <1>6 DEF HandshakeInv, OwesVersion, OwesVerack, OwesRelay
  <1>8. OwesVersion(o)' /\ OwesVerack(o)' /\ OwesRelay(o)'
    BY <1>1, <1>3, <1>4 DEF OwesVersion, OwesVerack, OwesRelay
  <1> QED
    BY <1>1, <1>2, <1>7, <1>8 DEF HandshakeInv

\* What an end reads before the version of its peer is that version, and then the
\* peer owes its verack.
LEMMA VersionComes ==
    ASSUME TypeOK, HandshakeInv, NEW e \in End, NEW o \in End, o = Other(e), Other(o) = e, o # e,
           wire[o] # << >>, wire'[o] = Tail(wire[o]), replies'[o] = replies[o],
           phase[e] \in {"AwaitingVersion", "AwaitingPeerVersion"}
    PROVE  /\ Head(wire[o]) = Version(o)
           /\ \/ o = "dialer" /\ phase[o] = "AwaitingPeerVersion" /\ Nothing(o)'
              \/ phase[o] = "closed" /\ Nothing(o)'
              \/ o = "listener" /\ phase[o] \in {"AwaitingVerack", "closed"} /\ VerackFirst(o)'
  <1> DEFINE v == Version(o)
  <1>1. v \in Message /\ Verack \in Message
    BY Greetings
  <1>2. /\ Head(<< v >>) = v /\ Tail(<< v >>) = << >> /\ << v >> # << >>
        /\ Head(<< v, Verack >>) = v /\ Tail(<< v, Verack >>) = << Verack >>
    <2> HIDE DEF v
    <2> QED
      BY <1>1, ShortOperations
  <1>3. \/ o = "dialer" /\ phase[o] \in {"AwaitingPeerVersion", "closed"} /\ VersionFirst(o)
        \/ o = "listener" /\ phase[o] \in {"AwaitingVerack", "closed"} /\ VersionFirst(o)
        \/ CutShort(o)
    BY DEF HandshakeInv, OwesVersion, Nothing
  <1>4. CASE wire[o] = << v >> /\ replies[o] = << >>
    <2>1. Nothing(o)' /\ Head(wire[o]) = v
      BY <1>2, <1>4 DEF Nothing
    <2>2. phase[o] = "closed" \/ (o = "dialer" /\ phase[o] = "AwaitingPeerVersion")
      <3>1. << >> # << Verack >>
        BY <1>1, ShortOperations
      <3>2. << v >> # << v, Verack >>
        <4> HIDE DEF v
        <4>1. Len(<< v >>) = 1 /\ Len(<< v, Verack >>) = 2
          OBVIOUS
        <4> QED
          BY <4>1
      <3>3. o = "listener" => ~VersionFirst(o)
        BY <1>2, <1>4, <3>1, <3>2 DEF VersionFirst
      <3> QED
        BY <1>3, <3>3 DEF CutShort
    <2> QED
      BY <2>1, <2>2
  <1>5. CASE o = "listener" /\ wire[o] = << v >> /\ replies[o] = << Verack >>
    <2>1. VerackFirst(o)' /\ Head(wire[o]) = v
      BY <1>2, <1>5 DEF VerackFirst
    <2>2. << >> # << Verack >>
      BY <1>1, ShortOperations
    <2>3. phase[o] \in {"AwaitingVerack", "closed"}
      BY <1>3, <1>5, <2>2 DEF CutShort
    <2> QED
      BY <1>5, <2>1, <2>3
  <1>6. CASE o = "listener" /\ wire[o] = << v, Verack >> /\ replies[o] = << >>
    <2>1. wire'[o] = << Verack >> /\ Head(wire[o]) = v /\ replies'[o] = << >>
      BY <1>2, <1>6
    <2>2. << Verack >> # << >> /\ Len(<< Verack >>) = 1 /\ << Verack >>[1] = Verack
          /\ Len(<< >>) = 0
      BY <1>1, ShortOperations
    <2>3. VerackFirst(o)'
      <3>1. /\ wire'[o] # << >> /\ wire'[o][1] = Verack /\ Len(wire'[o]) = 1
            /\ Len(replies'[o]) = 0
        BY <2>1, <2>2
      <3>2. /\ \A i \in 2..Len(wire'[o]) : wire'[o][i] \in RelayMessage
            /\ \A i \in 1..Len(replies'[o]) : replies'[o][i] \in RelayMessage
        BY <3>1
      <3> QED
        BY <3>1, <3>2 DEF VerackFirst
    <2>4. phase[o] \in {"AwaitingVerack", "closed"}
      BY <1>3, <1>6 DEF CutShort
    <2> QED
      BY <1>6, <2>1, <2>3, <2>4
  <1>7. \/ wire[o] = << v >> /\ replies[o] = << >>
        \/ o = "listener" /\ wire[o] = << v >> /\ replies[o] = << Verack >>
        \/ o = "listener" /\ wire[o] = << v, Verack >> /\ replies[o] = << >>
    BY <1>3 DEF VersionFirst, CutShort
  <1> QED
    BY <1>4, <1>5, <1>6, <1>7

\* What an end reads after the version is the verack, and then relay messages.
LEMMA VerackComes ==
    ASSUME TypeOK, HandshakeInv, NEW e \in End, NEW o \in End, Other(o) = e,
           wire[o] # << >>, wire'[o] = Tail(wire[o]), replies'[o] = replies[o],
           phase[e] = "AwaitingVerack"
    PROVE  /\ Head(wire[o]) = Verack
           /\ phase[o] \in {"AwaitingVerack", "Established", "closed"} /\ Relayed(o)'
  <1>1. phase[o] \in {"AwaitingVerack", "Established", "closed"} /\ VerackFirst(o)
    BY DEF HandshakeInv, OwesVerack, Nothing
  <1>2. /\ wire[o][1] = Verack
        /\ \A i \in 2..Len(wire[o]) : wire[o][i] \in RelayMessage
        /\ \A i \in 1..Len(replies[o]) : replies[o][i] \in RelayMessage
    BY <1>1 DEF VerackFirst
  <1>3. /\ Head(wire[o]) = wire[o][1] /\ Len(wire[o]) \in Nat \ {0}
        /\ Len(wire'[o]) = Len(wire[o]) - 1
        /\ \A i \in 1..Len(wire'[o]) : wire'[o][i] = wire[o][i + 1]
    BY RelayTail DEF TypeOK
  <1>4. \A i \in 1..Len(wire'[o]) : i + 1 \in 2..Len(wire[o])
    BY <1>3
  <1>5. Relayed(o)'
    BY <1>2, <1>3, <1>4 DEF Relayed
  <1> QED
    BY <1>1, <1>2, <1>3, <1>5

LEMMA ReadHandshakeKeeps ==
    ASSUME TypeOK, HandshakeInv, NEW e \in End, ReadHandshake(e)
    PROVE  HandshakeInv'
  <1> DEFINE o == Other(e)
             m == Head(wire[o])
             next == OnMessage(e, m)
  <1>1. o \in End /\ o # e /\ Other(o) = e /\ \A d \in End : d = e \/ d = o
    BY OtherEnd
  <1>2. /\ wire[o] # << >> /\ wire'[o] = Tail(wire[o]) /\ wire'[e] = wire[e]
        /\ nonce' = nonce /\ phase[e] # "closed" /\ replies[e] = << >>
        /\ wire[o] \in Seq(Message)
    BY <1>1 DEF ReadHandshake, Reading, Take, Incoming, TypeOK
  <1>3. \/ next.phase = "closed" /\ Close(e, "HandshakeViolation")
        \/ next.phase # "closed" /\ SelfConnection(e, m) /\ Close(e, "SelfConnection")
        \/ /\ ~SelfConnection(e, m)
           /\ phase' = [phase EXCEPT ![e] = next.phase]
           /\ replies' = [replies EXCEPT ![e] = next.out]
           /\ why' = why
    BY DEF ReadHandshake, Incoming
  <1>4. replies'[o] = replies[o] /\ phase'[o] = phase[o]
    BY <1>1, <1>3 DEF Close, TypeOK
  <1>5. Version(e)' = Version(e) /\ Version(o)' = Version(o)
    BY <1>2 DEF Version
  <1>6. CASE phase[e] \in {"AwaitingVersion", "AwaitingPeerVersion"}
    <2>1. /\ m = Version(o)
          /\ \/ o = "dialer" /\ phase[o] = "AwaitingPeerVersion" /\ Nothing(o)'
             \/ phase[o] = "closed" /\ Nothing(o)'
             \/ o = "listener" /\ phase[o] \in {"AwaitingVerack", "closed"} /\ VerackFirst(o)'
      BY <1>1, <1>2, <1>4, <1>6, VersionComes
    <2>2. m.kind = "version" /\ m = Msg("version", nonce[o])
      BY <1>1, <2>1, Kinds DEF Version
    <2>3. /\ next.phase = "AwaitingVerack"
          /\ next.out = IF phase[e] = "AwaitingVersion" THEN << Version(e), Verack >>
                        ELSE << Verack >>
      BY <1>6, <2>2 DEF OnMessage, Version, Verack
    <2>4. CASE SelfConnection(e, m) /\ Close(e, "SelfConnection")
      <3>1. nonce[o] = nonce[e]
        BY <2>2, <2>4 DEF SelfConnection, Msg
      <3>2. nonce["dialer"] = nonce["listener"]
        BY <3>1 DEF Other, End
      <3> QED
        BY <1>2, <2>4, <3>2, CloseKeeps DEF Reasons
    <2>5. CASE ~SelfConnection(e, m) /\ phase' = [phase EXCEPT ![e] = next.phase]
               /\ replies' = [replies EXCEPT ![e] = next.out] /\ why' = why
      <3>1. nonce["dialer"] # nonce["listener"]
        <4>1. nonce[o] # nonce[e]
          BY <2>2, <2>5 DEF SelfConnection
        <4> QED
          BY <4>1 DEF Other, End
      <3>2. phase'[e] = "AwaitingVerack" /\ replies'[e] = next.out
        BY <2>3, <2>5 DEF TypeOK
      <3>3. \/ e = "listener" /\ phase[e] = "AwaitingVersion"
            \/ e = "dialer" /\ phase[e] = "AwaitingPeerVersion"
        BY <1>6 DEF HandshakeInv, End
      <3>4. OwesVersion(o)' /\ OwesVerack(o)' /\ OwesRelay(o)'
        BY <1>1, <1>4, <2>1, <3>2 DEF OwesVersion, OwesVerack, OwesRelay
      <3>5. OwesVersion(e)' /\ OwesRelay(e)'
        <4>1. CASE phase[o] \in {"AwaitingVersion", "AwaitingPeerVersion"}
          <5>1. e = "listener" /\ phase[e] = "AwaitingVersion"
            BY <1>1, <2>1, <3>3, <4>1 DEF Other
          <5>2. Nothing(e)
            BY <4>1, <5>1 DEF HandshakeInv, OwesVersion, CutShort
          <5>3. VersionFirst(e)'
            BY <1>2, <1>5, <2>3, <3>2, <5>1, <5>2 DEF VersionFirst, Nothing
          <5> QED
            BY <1>4, <3>2, <4>1, <5>1, <5>3 DEF OwesVersion, OwesRelay
        <4>2. CASE phase[o] \notin {"AwaitingVersion", "AwaitingPeerVersion"}
          BY <1>4, <2>1, <4>2 DEF OwesVersion, OwesRelay
        <4> QED
          BY <4>1, <4>2
      <3>6. OwesVerack(e)'
        <4>1. CASE phase[o] = "AwaitingVerack"
          <5>1. e = "dialer" /\ phase[e] = "AwaitingPeerVersion"
            BY <1>1, <2>1, <3>3, <4>1
          <5>2. Nothing(e)
            BY <4>1, <5>1 DEF HandshakeInv, OwesVerack
          <5>3. VerackFirst(e)'
            BY <1>2, <2>3, <3>2, <5>1, <5>2 DEF VerackFirst, Nothing
          <5> QED
            BY <3>2, <5>3 DEF OwesVerack
        <4>2. CASE phase[o] # "AwaitingVerack"
          BY <1>4, <4>2 DEF OwesVerack
        <4> QED
          BY <4>1, <4>2
      <3>7. phase'["dialer"] # "AwaitingVersion" /\ phase'["listener"] # "AwaitingPeerVersion"
        BY <1>1, <1>4, <3>2 DEF HandshakeInv, End
      <3> QED
        BY <1>1, <1>2, <1>4, <2>5, <3>1, <3>2, <3>4, <3>5, <3>6, <3>7 DEF HandshakeInv
    <2> QED
      BY <1>3, <2>3, <2>4, <2>5
  <1>7. CASE phase[e] = "AwaitingVerack"
    <2>1. m = Verack /\ phase[o] \in {"AwaitingVerack", "Established", "closed"} /\ Relayed(o)'
      BY <1>1, <1>2, <1>4, <1>7, VerackComes
    <2>2. m.kind = "verack"
      BY <2>1, Kinds
    <2>3. next.phase = "Established" /\ next.out = << >>
      BY <1>7, <2>2 DEF OnMessage
    <2>4. ~SelfConnection(e, m)
      BY <2>2 DEF SelfConnection, Msg
    <2>5. phase' = [phase EXCEPT ![e] = "Established"] /\ replies' = [replies EXCEPT ![e] = << >>]
          /\ why' = why
      BY <1>3, <2>3, <2>4
    <2>6. phase'[e] = "Established" /\ replies'[e] = replies[e]
      BY <1>2, <2>5 DEF TypeOK
    <2>7. OwesVersion(o)' /\ OwesVerack(o)' /\ OwesRelay(o)'
      BY <1>1, <1>4, <2>1, <2>6 DEF OwesVersion, OwesVerack, OwesRelay
    <2>8. (VerackFirst(e) => VerackFirst(e)') /\ (Relayed(e) => Relayed(e)')
      BY <1>2, <2>6 DEF VerackFirst, Relayed
    <2>9. OwesVersion(e)' /\ OwesVerack(e)' /\ OwesRelay(e)'
      BY <1>4, <1>7, <2>1, <2>6, <2>8 DEF HandshakeInv, OwesVersion, OwesVerack, OwesRelay
    <2>10. phase'["dialer"] # "AwaitingVersion" /\ phase'["listener"] # "AwaitingPeerVersion"
      BY <1>1, <1>4, <2>6 DEF HandshakeInv, End
    <2> QED
      BY <1>1, <1>2, <1>4, <1>7, <2>5, <2>6, <2>7, <2>9, <2>10 DEF HandshakeInv
  <1>8. CASE phase[e] = "Established"
    <2>1. m.kind \in {"version", "verack"}
      BY <1>8 DEF ReadHandshake, Incoming
    <2>2. m = wire[o][1] /\ Len(wire[o]) \in Nat \ {0}
      <3> HIDE DEF o
      <3> QED
        BY <1>2, RelayTail
    <2>3. m \in RelayMessage
      BY <1>1, <1>8, <2>2 DEF HandshakeInv, OwesRelay, Relayed
    <2> QED
      BY <2>1, <2>3, Kinds
  <1> QED
    BY <1>2, <1>6, <1>7, <1>8 DEF TypeOK, Phase

LEMMA NextHandshake ==
    ASSUME TypeOK, HandshakeInv, [Next]_vars
    PROVE  HandshakeInv'
  <1>1. CASE UNCHANGED vars
    BY <1>1, HandshakeKept DEF vars
  <1>2. ASSUME NEW e \in End, SendFails(e) \/ ReadFails(e) \/ HandshakeTimeout(e) \/ Shutdown(e)
        PROVE  HandshakeInv'
    <2>1. /\ nonce' = nonce /\ wire' = wire
          /\ \E r \in Reasons \ {"HandshakeViolation", "SelfConnection"} : Close(e, r)
      BY <1>2 DEF SendFails, ReadFails, HandshakeTimeout, Shutdown, Reasons
    <2> QED
      BY <2>1, CloseKeeps
  <1>3. ASSUME NEW e \in End, NEW i \in Item,
               \/ ReadInv(e, i) \/ ReadGetData(e, i)
               \/ i \in Tx /\ ReadTx(e, i)
               \/ i \in Block /\ ReadBlock(e, i)
        PROVE  HandshakeInv'
    <2>1. /\ phase[e] = "Established" /\ replies[e] = << >> /\ Take(e)
          /\ UNCHANGED << phase, why, nonce >>
      BY <1>3 DEF ReadInv, ReadGetData, ReadTx, ReadBlock, ReadItem, Reading
    <2>2. \/ replies' = replies
          \/ replies' = [replies EXCEPT ![e] = << >>]
          \/ \E j \in Item, k \in {"inv", "getdata", "data"} :
                replies' = [replies EXCEPT ![e] = << Msg(k, j) >>]
      <3>1. CASE i \in Block /\ ReadBlock(e, i) /\ ConnectResult(e, i) = "Orphaned"
        <4>1. Request(e, prev_blockhash[i])
          BY <3>1 DEF ReadBlock
        <4>2. prev_blockhash[i] \in Item
          BY <3>1, ConversationAssumption DEF ConnectResult, ParentKnown, Item
        <4> QED
          BY <4>1, <4>2 DEF Request
      <3>2. CASE i \in Block /\ ReadBlock(e, i) /\ ConnectResult(e, i) # "Orphaned"
        BY <3>2 DEF ReadBlock
      <3> QED
        BY <1>3, <3>1, <3>2 DEF ReadInv, ReadGetData, ReadTx, Request
    <2>3. \A j \in 1..Len(<< >>) : << >>[j] \in RelayMessage
      OBVIOUS
    <2>4. ASSUME NEW x \in RelayMessage
          PROVE  \A j \in 1..Len(<< x >>) : << x >>[j] \in RelayMessage
      BY <2>4
    <2> QED
      BY <2>1, <2>2, <2>3, <2>4, RelayKeeps, Kinds
  <1>4. ASSUME NEW e \in End, TakeCommand(e)
        PROVE  HandshakeInv'
    <2>1. commands[e] \in Seq(Item) /\ commands[e] # << >>
      BY <1>4 DEF TakeCommand, TypeOK
    <2>2. Head(commands[e]) \in Item
      BY <2>1
    <2> DEFINE x == Msg("inv", Head(commands[e]))
    <2>3. x \in RelayMessage
      BY <2>2, Kinds
    <2>4. /\ phase[e] = "Established" /\ replies[e] = << >> /\ wire' = wire
          /\ UNCHANGED << phase, why, nonce >> /\ replies' = [replies EXCEPT ![e] = << x >>]
      BY <1>4 DEF TakeCommand, Reading
    <2>5. \A j \in 1..Len(<< x >>) : << x >>[j] \in RelayMessage
      <3> HIDE DEF x
      <3> QED
        BY <2>3
    <2> QED
      BY <2>4, <2>5, RelayKeeps
  <1>5. ASSUME NEW e \in End, NEW i \in Item, Learn(e, i) \/ Lapse(e, i) \/ DropTx(e, i)
        PROVE  HandshakeInv'
    BY <1>5, HandshakeKept DEF Learn, Lapse, DropTx
  <1>6. ASSUME NEW e \in End, TaskStep(e)
        PROVE  HandshakeInv'
    <2>1. Tx \subseteq Item /\ Block \subseteq Item
      BY DEF Item
    <2> QED
      <3>1. CASE Send(e) \/ SendFails(e) \/ ReadFails(e) \/ ReadHandshake(e)
        BY <1>2, <3>1, SendKeeps, ReadHandshakeKeeps
      <3>2. CASE \E i \in Item : ReadInv(e, i) \/ ReadGetData(e, i)
        BY <1>3, <3>2
      <3>3. CASE \E t \in Tx : ReadTx(e, t)
        BY <1>3, <2>1, <3>3
      <3>4. CASE \E b \in Block : ReadBlock(e, b)
        BY <1>3, <2>1, <3>4
      <3> QED
        BY <1>6, <3>1, <3>2, <3>3, <3>4 DEF TaskStep
  <1>7. Tx \subseteq Item
    BY DEF Item
  <1> QED
    BY <1>1, <1>2, <1>4, <1>5, <1>6, <1>7 DEF Next

LEMMA InitHandshake ==
    ASSUME Init
    PROVE  HandshakeInv
  <1>1. /\ phase["dialer"] = "AwaitingPeerVersion" /\ phase["listener"] = "AwaitingVersion"
        /\ why["dialer"] = "none" /\ why["listener"] = "none"
        /\ wire["dialer"] = << >> /\ wire["listener"] = << >>
        /\ replies["dialer"] = << Version("dialer") >> /\ replies["listener"] = << >>
    BY DEF Init, End, Version
  <1>2. Other("dialer") = "listener" /\ Other("listener") = "dialer"
    BY DEF Other
  <1>3. VersionFirst("dialer") /\ Nothing("listener")
    BY <1>1 DEF VersionFirst, Nothing
  <1>4. \A e \in End : OwesVersion(e) /\ OwesVerack(e) /\ OwesRelay(e)
    BY <1>1, <1>2, <1>3 DEF OwesVersion, OwesVerack, OwesRelay, End
  <1> QED
    BY <1>1, <1>4 DEF HandshakeInv, End

LEMMA HandshakeShows ==
    ASSUME HandshakeInv
    PROVE  HandshakeAgreement
  BY OtherEnd DEF HandshakeInv, HandshakeAgreement, OwesRelay

\* For every pair of nonces, every feed and every capacity of the connection: two
\* nodes that run HandshakeState and run_peer never report a violation to each
\* other, and both become Established only where neither is connected to itself.
THEOREM HandshakeTheorem == Spec => []HandshakeAgreement
  <1>1. Init => TypeOK /\ HandshakeInv
    BY InitTypes, InitHandshake
  <1>2. TypeOK /\ HandshakeInv /\ [Next]_vars => (TypeOK /\ HandshakeInv)'
    BY NextTypes, NextHandshake
  <1>3. TypeOK /\ HandshakeInv => HandshakeAgreement
    BY HandshakeShows
  <1> QED
    BY <1>1, <1>2, <1>3, PTL DEF Spec

-----------------------------------------------------------------------------
(* Requests are not repeated                                                *)

\* Message m is somewhere in s, and at most once.
In(s, m) == \E k \in DOMAIN s : s[k] = m
Once(s, m) == \A j, k \in DOMAIN s : s[j] = m /\ s[k] = m => j = k

\* What holds of m in s holds of m in t.
Fewer(s, t, m) == (In(t, m) => In(s, m)) /\ (Once(s, m) => Once(t, m))

\* The request of e for i, or its answer, is in one place at most, and the
\* tracker of e has it.
Alone(e, i) ==
    LET o == Other(e)
        g == Msg("getdata", i)
        d == Msg("data", i)
    IN  /\ Once(replies[e], g) /\ Once(wire[e], g) /\ Once(replies[o], d) /\ Once(wire[o], d)
        /\ ~(In(replies[e], g) /\ In(wire[e], g))
        /\ ~(In(replies[e], g) \/ In(wire[e], g)) \/ ~(In(replies[o], d) \/ In(wire[o], d))
        /\ ~(In(replies[o], d) /\ In(wire[o], d))
        /\ (In(replies[e], g) \/ In(wire[e], g) \/ In(replies[o], d) \/ In(wire[o], d))
              => pending[e][i] = "fresh"

Capped(e, T) ==
    LET live == {j \in T : pending[e][j] = "fresh"}
    IN  IsFiniteSet(live) /\ Cardinality(live) <= MAX_PENDING_BLOCK_REQUESTS

Caps == \A e \in End : Capped(e, Tx) /\ Capped(e, Block)
Requests == \A e \in End, i \in Item : Alone(e, i) /\ pending[e][i] # "old"
RequestInv == Caps /\ (lapses = 0 => Requests)

\* The queues only hand messages over: what Tail, Append and a new queue hold.
LEMMA TailFewer ==
    ASSUME NEW q \in Seq(Message), q # << >>
    PROVE  /\ \A m : Fewer(q, Tail(q), m)
           /\ Once(q, Head(q)) => ~In(Tail(q), Head(q))
           /\ In(q, Head(q))
  <1>1. /\ Head(q) = q[1] /\ Len(q) \in Nat \ {0} /\ Len(Tail(q)) = Len(q) - 1
        /\ \A i \in 1..Len(Tail(q)) : Tail(q)[i] = q[i + 1]
        /\ DOMAIN q = 1..Len(q) /\ DOMAIN Tail(q) = 1..Len(Tail(q))
    BY RelayTail
  <1> DEFINE t == Tail(q)
  <1> HIDE DEF t
  <1>2. /\ DOMAIN q = 1..Len(q) /\ DOMAIN t = 1..(Len(q) - 1)
        /\ \A i \in DOMAIN t : t[i] = q[i + 1] /\ i + 1 \in DOMAIN q
        /\ 1 \in DOMAIN q
    BY <1>1 DEF t
  <1>3. \A i, j \in DOMAIN t : i + 1 = j + 1 => i = j
    BY <1>1, <1>2
  <1>4. \A i \in DOMAIN t : i + 1 # 1
    BY <1>1, <1>2
  <1>5. \A m : In(t, m) => In(q, m)
    BY <1>2 DEF In
  <1>6. \A m : Once(q, m) => Once(t, m)
    BY <1>2, <1>3 DEF Once
  <1>7. Once(q, Head(q)) => ~In(t, Head(q))
    BY <1>1, <1>2, <1>4 DEF Once, In
  <1>8. In(q, Head(q))
    BY <1>1, <1>2 DEF In
  <1> QED
    BY <1>5, <1>6, <1>7, <1>8 DEF Fewer, t

LEMMA AppendFewer ==
    ASSUME NEW q \in Seq(Message), NEW x \in Message
    PROVE  /\ \A m : m # x => Fewer(q, Append(q, x), m)
           /\ ~In(q, x) => Once(Append(q, x), x)
  <1>1. /\ Len(q) \in Nat /\ Len(Append(q, x)) = Len(q) + 1
        /\ \A i \in 1..Len(q) : Append(q, x)[i] = q[i]
        /\ Append(q, x)[Len(q) + 1] = x
        /\ DOMAIN q = 1..Len(q) /\ DOMAIN Append(q, x) = 1..Len(Append(q, x))
    BY RelayAppend
  <1> DEFINE t == Append(q, x)
  <1> HIDE DEF t
  <1>2. /\ DOMAIN q = 1..Len(q) /\ DOMAIN t = 1..(Len(q) + 1)
        /\ \A i \in DOMAIN q : t[i] = q[i]
        /\ \A i \in DOMAIN t : i \in DOMAIN q \/ i = Len(q) + 1
        /\ t[Len(q) + 1] = x
    BY <1>1 DEF t
  <1>3. \A m : m # x => (In(t, m) => In(q, m))
    BY <1>2 DEF In
  <1>4. \A m : m # x => (Once(q, m) => Once(t, m))
    BY <1>2 DEF Once
  <1>5. ~In(q, x) => Once(t, x)
    BY <1>2 DEF Once, In
  <1> QED
    BY <1>3, <1>4, <1>5 DEF Fewer, t

LEMMA ShortFewer ==
    ASSUME NEW x, NEW y
    PROVE  /\ \A m : ~In(<< >>, m) /\ Once(<< >>, m)
           /\ \A m : m # x => ~In(<< x >>, m)
           /\ \A m : m # x /\ m # y => ~In(<< x, y >>, m) /\ Once(<< x, y >>, m)
           /\ \A m : Once(<< x >>, m)
  <1>1. DOMAIN << >> = {} /\ DOMAIN << x >> = {1} /\ DOMAIN << x, y >> = {1, 2}
        /\ << x >>[1] = x /\ << x, y >>[1] = x /\ << x, y >>[2] = y
    OBVIOUS
  <1> QED
    BY <1>1 DEF In, Once

\* A step that leaves the tracker alone and only takes messages away.
LEMMA AloneKept ==
    ASSUME NEW e \in End, NEW i \in Item, Alone(e, i),
           Fewer(replies[e], replies'[e], Msg("getdata", i)),
           Fewer(wire[e], wire'[e], Msg("getdata", i)),
           Fewer(replies[Other(e)], replies'[Other(e)], Msg("data", i)),
           Fewer(wire[Other(e)], wire'[Other(e)], Msg("data", i)),
           pending'[e][i] = pending[e][i]
    PROVE  Alone(e, i)'
  BY DEF Alone, Fewer

LEMMA SameFewer ==
    \A s, m : Fewer(s, s, m)
  BY DEF Fewer

LEMMA NewFewer ==
    ASSUME NEW s, NEW t, NEW m, ~In(t, m), Once(t, m)
    PROVE  Fewer(s, t, m)
  BY DEF Fewer

LEMMA Messages ==
    /\ \A i, j : Msg("getdata", i) # Msg("data", j) /\ Msg("inv", i) # Msg("getdata", j)
                 /\ Msg("inv", i) # Msg("data", j)
    /\ \A i, j : (Msg("getdata", i) = Msg("getdata", j) => i = j)
                 /\ (Msg("data", i) = Msg("data", j) => i = j)
    /\ \A n, j : /\ Msg("version", n) # Msg("data", j) /\ Msg("version", n) # Msg("getdata", j)
                 /\ Msg("verack", n) # Msg("data", j) /\ Msg("verack", n) # Msg("getdata", j)
  BY DEF Msg

LEMMA TakeFewer ==
    ASSUME TypeOK, NEW e \in End, Take(e)
    PROVE  /\ \A d \in End : \A m : Fewer(wire[d], wire'[d], m)
           /\ \A m : Head(Incoming(e)) = m /\ Once(wire[Other(e)], m) => ~In(wire'[Other(e)], m)
           /\ In(wire[Other(e)], Head(Incoming(e)))
  <1> DEFINE o == Other(e)
  <1>1. o \in End
    BY OtherEnd
  <1>2. wire[o] \in Seq(Message) /\ wire[o] # << >> /\ wire' = [wire EXCEPT ![o] = Tail(wire[o])]
        /\ Incoming(e) = wire[o] /\ wire \in [End -> Seq(Message)]
    BY <1>1 DEF Take, Incoming, TypeOK
  <1>3. \A d \in End : wire'[d] = IF d = o THEN Tail(wire[o]) ELSE wire[d]
    BY <1>1, <1>2
  <1> HIDE DEF o
  <1> QED
    BY <1>1, <1>2, <1>3, TailFewer, SameFewer DEF o

\* A task that puts nothing of a request in its queue.
LEMMA OtherReply ==
    ASSUME TypeOK, Requests, NEW e \in End, NEW q,
           \A i \in Item, k \in {"getdata", "data"} : ~In(q, Msg(k, i)) /\ Once(q, Msg(k, i)),
           replies' = [replies EXCEPT ![e] = q] \/ replies' = replies,
           \A d \in End : \A m : Fewer(wire[d], wire'[d], m),
           pending' = pending
    PROVE  Requests'
  <1>1. \A d \in End, i \in Item, k \in {"getdata", "data"} :
            Fewer(replies[d], replies'[d], Msg(k, i))
    BY SameFewer, NewFewer DEF TypeOK
  <1> SUFFICES ASSUME NEW d \in End, NEW i \in Item
               PROVE  Alone(d, i)' /\ pending'[d][i] # "old"
    BY DEF Requests
  <1>2. Alone(d, i) /\ pending[d][i] # "old" /\ Other(d) \in End
    BY OtherEnd DEF Requests
  <1> QED
    BY <1>1, <1>2, AloneKept

\* mark_requested lets a getdata out only when none is on the way.
LEMMA RequestAlone ==
    ASSUME TypeOK, Requests, NEW e \in End, NEW i \in Item, replies[e] = << >>, Request(e, i),
           \A d \in End : \A m : Fewer(wire[d], wire'[d], m)
    PROVE  Requests'
  <1>1. Expire(e, i) = pending[e]
    BY DEF Expire, TypeOK, Requests
  <1>2. CASE ~Holds(e, i) /\ MarkRequested(e, i)
    <2>1. /\ pending' = [pending EXCEPT ![e] = [pending[e] EXCEPT ![i] = "fresh"]]
          /\ replies' = [replies EXCEPT ![e] = << Msg("getdata", i) >>]
      BY <1>1, <1>2 DEF Request
    <2>2. pending[e][i] # "fresh"
      BY <1>2 DEF MarkRequested, Live, Tracker, Item
    <2>3. pending'[e][i] = "fresh"
          /\ \A d \in End, j \in Item : d # e \/ j # i => pending'[d][j] = pending[d][j]
      BY <2>1 DEF TypeOK
    <2>4. replies'[e] = << Msg("getdata", i) >> /\ \A d \in End : d # e => replies'[d] = replies[d]
      BY <2>1 DEF TypeOK
    <2>5. /\ \A m : Once(replies'[e], m)
          /\ \A m : m # Msg("getdata", i) => Fewer(replies[e], replies'[e], m)
      BY <2>4, ShortFewer, NewFewer
    <2> SUFFICES ASSUME NEW d \in End, NEW j \in Item
                 PROVE  Alone(d, j)' /\ pending'[d][j] # "old"
      BY DEF Requests
    <2>6. Alone(d, j) /\ pending[d][j] # "old"
      BY DEF Requests
    <2>7. Other(d) \in End /\ Other(d) # d
      BY OtherEnd
    <2>8. CASE d = e /\ j = i
      <3>1. /\ ~In(wire[d], Msg("getdata", j)) /\ ~In(replies[Other(d)], Msg("data", j))
            /\ ~In(wire[Other(d)], Msg("data", j))
        BY <2>2, <2>6, <2>8 DEF Alone
      <3>2. /\ Fewer(wire[d], wire'[d], Msg("getdata", j))
            /\ Fewer(wire[Other(d)], wire'[Other(d)], Msg("data", j))
            /\ replies'[Other(d)] = replies[Other(d)]
        BY <2>4, <2>7, <2>8
      <3>3. Once(replies'[d], Msg("getdata", j)) /\ pending'[d][j] = "fresh"
        BY <2>3, <2>5, <2>8
      <3> QED
        BY <2>6, <3>1, <3>2, <3>3 DEF Alone, Fewer
    <2>9. CASE d # e \/ j # i
      <3>1. Fewer(replies[d], replies'[d], Msg("getdata", j))
        BY <2>4, <2>5, <2>9, SameFewer, Messages
      <3>2. Fewer(replies[Other(d)], replies'[Other(d)], Msg("data", j))
        BY <2>4, <2>5, <2>7, SameFewer, Messages
      <3>3. pending'[d][j] = pending[d][j]
        BY <2>3, <2>9
      <3> QED
        BY <2>6, <2>7, <3>1, <3>2, <3>3, AloneKept
    <2> QED
      BY <2>8, <2>9
  <1>3. CASE ~(~Holds(e, i) /\ MarkRequested(e, i))
    <2>1. replies' = replies /\ (pending' = pending \/ pending' = [pending EXCEPT ![e] = pending[e]])
      BY <1>1, <1>3 DEF Request
    <2>2. pending' = pending
      BY <2>1 DEF TypeOK
    <2> QED
      BY <2>1, <2>2, OtherReply, ShortFewer
  <1> QED
    BY <1>2, <1>3

LEMMA SendAlone ==
    ASSUME TypeOK, Requests, NEW e \in End, Send(e)
    PROVE  Requests'
  <1> DEFINE x == Head(replies[e])
             o == Other(e)
  <1>1. replies[e] \in Seq(Message) /\ replies[e] # << >> /\ wire[e] \in Seq(Message)
    BY DEF Send, TypeOK
  <1>2. x \in Message
    BY <1>1
  <1>3. o \in End /\ o # e /\ Other(o) = e /\ \A d \in End : d = e \/ d = o
    BY OtherEnd
  <1>4. /\ replies' = [replies EXCEPT ![e] = Tail(replies[e])]
        /\ wire' = [wire EXCEPT ![e] = Append(wire[e], x)]
        /\ pending' = pending
    BY DEF Send, data
  <1>5. /\ replies'[e] = Tail(replies[e]) /\ wire'[e] = Append(wire[e], x)
        /\ replies'[o] = replies[o] /\ wire'[o] = wire[o]
    BY <1>3, <1>4 DEF TypeOK
  <1>6. /\ \A m : Fewer(replies[e], replies'[e], m)
        /\ Once(replies[e], x) => ~In(replies'[e], x)
        /\ In(replies[e], x)
    BY <1>1, <1>5, TailFewer
  <1>7. /\ \A m : m # x => Fewer(wire[e], wire'[e], m)
        /\ ~In(wire[e], x) => Once(wire'[e], x)
    BY <1>1, <1>2, <1>5, AppendFewer
  <1> HIDE DEF x, o
  <1> SUFFICES ASSUME NEW d \in End, NEW i \in Item
               PROVE  Alone(d, i)' /\ pending'[d][i] # "old"
    BY DEF Requests
  <1>8. Alone(d, i) /\ pending'[d][i] # "old" /\ pending'[d][i] = pending[d][i]
    BY <1>4 DEF Requests
  <1>9. CASE d = e
    <2>1. CASE x = Msg("getdata", i)
      BY <1>5, <1>6, <1>7, <1>8, <1>9, <2>1 DEF Alone, Fewer, o
    <2>2. CASE x # Msg("getdata", i)
      BY <1>5, <1>6, <1>7, <1>8, <1>9, <2>2, SameFewer, AloneKept DEF o
    <2> QED
      BY <2>1, <2>2
  <1>10. CASE d = o
    <2>1. CASE x = Msg("data", i)
      BY <1>3, <1>5, <1>6, <1>7, <1>8, <1>10, <2>1 DEF Alone, Fewer
    <2>2. CASE x # Msg("data", i)
      BY <1>3, <1>5, <1>6, <1>7, <1>8, <1>10, <2>2, SameFewer, AloneKept
    <2> QED
      BY <2>1, <2>2
  <1> QED
    BY <1>3, <1>8, <1>9, <1>10

\* The answer takes the place of the request.
LEMMA AnswerAlone ==
    ASSUME TypeOK, Requests, NEW e \in End, NEW i \in Item, ReadGetData(e, i)
    PROVE  Requests'
  <1> DEFINE o == Other(e)
  <1>1. o \in End /\ o # e /\ Other(o) = e /\ \A d \in End : d = e \/ d = o
    BY OtherEnd
  <1>2. /\ Take(e) /\ Head(Incoming(e)) = Msg("getdata", i) /\ pending' = pending
        /\ replies' = [replies EXCEPT ![e] = IF Holds(e, i) THEN << Msg("data", i) >> ELSE << >>]
    BY DEF ReadGetData, ReadItem, data
  <1>3. /\ replies'[e] = (IF Holds(e, i) THEN << Msg("data", i) >> ELSE << >>)
        /\ replies'[o] = replies[o]
    BY <1>1, <1>2 DEF TypeOK
  <1>4. /\ \A m : Once(replies'[e], m)
        /\ \A m : m # Msg("data", i) => Fewer(replies[e], replies'[e], m)
    BY <1>3, ShortFewer, NewFewer
  <1>5. /\ \A d \in End : \A m : Fewer(wire[d], wire'[d], m)
        /\ Once(wire[o], Msg("getdata", i)) => ~In(wire'[o], Msg("getdata", i))
        /\ In(wire[o], Msg("getdata", i))
    BY <1>2, TakeFewer
  <1> HIDE DEF o
  <1> SUFFICES ASSUME NEW d \in End, NEW j \in Item
               PROVE  Alone(d, j)' /\ pending'[d][j] # "old"
    BY DEF Requests
  <1>6. Alone(d, j) /\ pending'[d][j] # "old" /\ pending'[d][j] = pending[d][j]
    BY <1>2 DEF Requests
  <1>7. CASE d = o /\ j = i
    BY <1>1, <1>3, <1>4, <1>5, <1>6, <1>7 DEF Alone, Fewer
  <1>8. CASE d = o /\ j # i
    BY <1>1, <1>3, <1>4, <1>5, <1>6, <1>8, SameFewer, AloneKept, Messages
  <1>9. CASE d = e
    <2>1. Other(d) = o
      BY <1>9 DEF o
    <2> QED
      BY <1>1, <1>3, <1>4, <1>5, <1>6, <1>9, <2>1, SameFewer, AloneKept, Messages
  <1> QED
    BY <1>1, <1>6, <1>7, <1>8, <1>9

\* The request may be forgotten once its answer has been read.
LEMMA AnsweredAlone ==
    ASSUME TypeOK, Requests, NEW e \in End, NEW i \in Item, Take(e),
           Head(Incoming(e)) = Msg("data", i), replies' = replies,
           pending' = [pending EXCEPT ![e][i] = "none"]
    PROVE  Requests'
  <1> DEFINE o == Other(e)
  <1>1. o \in End /\ o # e /\ Other(o) = e /\ \A d \in End : d = e \/ d = o
    BY OtherEnd
  <1>2. /\ \A d \in End : \A m : Fewer(wire[d], wire'[d], m)
        /\ Once(wire[o], Msg("data", i)) => ~In(wire'[o], Msg("data", i))
        /\ In(wire[o], Msg("data", i))
    BY TakeFewer
  <1>3. /\ pending'[e][i] = "none"
        /\ \A d \in End, j \in Item : d # e \/ j # i => pending'[d][j] = pending[d][j]
    BY DEF TypeOK
  <1> SUFFICES ASSUME NEW d \in End, NEW j \in Item
               PROVE  Alone(d, j)' /\ pending'[d][j] # "old"
    BY DEF Requests
  <1>4. Alone(d, j) /\ pending[d][j] # "old" /\ Other(d) \in End
    BY OtherEnd DEF Requests
  <1>5. CASE d = e /\ j = i
    <2>1. Other(d) = o
      BY <1>5 DEF o
    <2> HIDE DEF o
    <2> QED
      BY <1>1, <1>2, <1>3, <1>4, <1>5, <2>1 DEF Alone, Fewer
  <1>6. CASE d # e \/ j # i
    BY <1>2, <1>3, <1>4, <1>6, SameFewer, AloneKept
  <1> QED
    BY <1>5, <1>6

LEMMA NextRequests ==
    ASSUME TypeOK, Requests, [Next]_vars, lapses = 0, lapses' = 0
    PROVE  Requests'
  <1>1. \A d \in End : \A m : Fewer(wire[d], wire[d], m)
    BY SameFewer
  <1>2. \A i \in Item, k \in {"getdata", "data"} : ~In(<< >>, Msg(k, i)) /\ Once(<< >>, Msg(k, i))
    BY ShortFewer
  <1>3. CASE wire' = wire /\ pending' = pending /\ replies' = replies
    BY <1>1, <1>2, <1>3, OtherReply, ConversationAssumption DEF End
  <1>4. ASSUME NEW e \in End, SendFails(e) \/ ReadFails(e) \/ HandshakeTimeout(e) \/ Shutdown(e)
        PROVE  Requests'
    <2>1. wire' = wire /\ pending' = pending /\ replies' = [replies EXCEPT ![e] = << >>]
      BY <1>4 DEF SendFails, ReadFails, HandshakeTimeout, Shutdown, Close, data
    <2> QED
      BY <1>1, <1>2, <2>1, OtherReply
  <1>5. ASSUME NEW e \in End, ReadHandshake(e)
        PROVE  Requests'
    <2>1. Take(e) /\ pending' = pending
      BY <1>5 DEF ReadHandshake, data
    <2>2. PICK q \in {<< >>, << Msg("verack", "none") >>,
                      << Msg("version", nonce[e]), Msg("verack", "none") >>} :
              replies' = [replies EXCEPT ![e] = q]
      BY <1>5 DEF ReadHandshake, OnMessage, Close
    <2>3. ASSUME NEW i \in Item, NEW k \in {"getdata", "data"}
          PROVE  ~In(q, Msg(k, i)) /\ Once(q, Msg(k, i))
      <3> DEFINE v == Msg("version", nonce[e])
                 a == Msg("verack", "none")
                 m == Msg(k, i)
      <3>1. m # v /\ m # a
        BY Messages
      <3>2. q = << >> \/ q = << a >> \/ q = << v, a >>
        OBVIOUS
      <3> HIDE DEF v, a, m
      <3>3. ~In(q, m) /\ Once(q, m)
        BY <3>1, <3>2, ShortFewer
      <3> QED
        BY <3>3 DEF m
    <2> QED
      BY <2>1, <2>2, <2>3, TakeFewer, OtherReply
  <1>6. ASSUME NEW e \in End, NEW i \in Item, ReadInv(e, i)
        PROVE  Requests'
    BY <1>6, TakeFewer, RequestAlone DEF ReadInv, ReadItem, Reading
  <1>7. ASSUME NEW e \in End, NEW i \in Item, ReadTx(e, i)
        PROVE  Requests'
    BY <1>7, AnsweredAlone DEF ReadTx, ReadItem
  <1>8. ASSUME NEW e \in End, NEW i \in Block, ReadBlock(e, i)
        PROVE  Requests'
    <2>1. Take(e) /\ Head(Incoming(e)) = Msg("data", i) /\ replies[e] = << >> /\ i \in Item
      BY <1>8 DEF ReadBlock, ReadItem, Reading, Item
    <2>2. CASE ConnectResult(e, i) = "Connected"
      BY <1>8, <2>1, <2>2, AnsweredAlone DEF ReadBlock
    <2>3. CASE ConnectResult(e, i) = "Orphaned"
      <3>1. Request(e, prev_blockhash[i])
        BY <1>8, <2>3 DEF ReadBlock
      <3>2. prev_blockhash[i] \in Item
        BY <2>3, ConversationAssumption DEF ConnectResult, ParentKnown, Item
      <3> QED
        BY <2>1, <3>1, <3>2, TakeFewer, RequestAlone
    <2>4. CASE ConnectResult(e, i) \notin {"Connected", "Orphaned"}
      <3>1. pending' = pending /\ replies' = replies
        BY <1>8, <2>4 DEF ReadBlock
      <3> QED
        BY <1>2, <2>1, <3>1, TakeFewer, OtherReply
    <2> QED
      BY <2>2, <2>3, <2>4
  <1>9. ASSUME NEW e \in End, TakeCommand(e)
        PROVE  Requests'
    <2>1. /\ wire' = wire /\ pending' = pending
          /\ replies' = [replies EXCEPT ![e] = << Msg("inv", Head(commands[e])) >>]
      BY <1>9 DEF TakeCommand, data
    <2>2. \A i \in Item, k \in {"getdata", "data"} :
              /\ ~In(<< Msg("inv", Head(commands[e])) >>, Msg(k, i))
              /\ Once(<< Msg("inv", Head(commands[e])) >>, Msg(k, i))
      BY ShortFewer, Messages
    <2> QED
      BY <1>1, <2>1, <2>2, OtherReply
  <1>10. ASSUME NEW e \in End, NEW i \in Item, Lapse(e, i)
         PROVE  FALSE
    BY <1>10 DEF Lapse
  <1>11. ASSUME NEW e \in End, NEW i \in Item, Learn(e, i) \/ DropTx(e, i)
         PROVE  Requests'
    <2>1. UNCHANGED << wire, pending, replies >>
      BY <1>11 DEF Learn, DropTx
    <2> QED
      BY <1>3, <2>1
  <1>12. ASSUME NEW e \in End, TaskStep(e)
         PROVE  Requests'
    <2>1. Tx \subseteq Item
      BY DEF Item
    <2> QED
      BY <1>4, <1>5, <1>6, <1>7, <1>8, <1>12, <2>1, SendAlone, AnswerAlone DEF TaskStep
  <1>13. CASE UNCHANGED vars
    BY <1>3, <1>13 DEF vars
  <1>14. Tx \subseteq Item
    BY DEF Item
  <1> QED
    BY <1>4, <1>9, <1>10, <1>11, <1>12, <1>13, <1>14 DEF Next

\* The cap on one tracker, in terms of the set of its live requests.
LEMMA CappedKept ==
    ASSUME NEW e \in End, NEW T, Capped(e, T),
           \A j \in T : pending'[e][j] = "fresh" => pending[e][j] = "fresh"
    PROVE  Capped(e, T)'
  <1> DEFINE live == {j \in T : pending[e][j] = "fresh"}
             after == {j \in T : pending'[e][j] = "fresh"}
  <1>1. IsFiniteSet(live) /\ Cardinality(live) <= MAX_PENDING_BLOCK_REQUESTS /\ after \subseteq live
    BY DEF Capped
  <1> HIDE DEF live, after
  <1>2. IsFiniteSet(after) /\ Cardinality(after) <= Cardinality(live)
    BY <1>1, FS_Subset
  <1>3. Cardinality(after) \in Nat /\ Cardinality(live) \in Nat
    BY <1>1, <1>2, FS_CardinalityType
  <1>4. Cardinality(after) <= MAX_PENDING_BLOCK_REQUESTS
    BY <1>1, <1>2, <1>3, ConversationAssumption
  <1> QED
    BY <1>2, <1>4 DEF Capped, after

LEMMA CappedAdd ==
    ASSUME NEW e \in End, NEW T, NEW i \in T, Capped(e, T),
           Cardinality({j \in T : pending[e][j] = "fresh"}) < MAX_PENDING_BLOCK_REQUESTS,
           \A j \in T : pending'[e][j] = "fresh" => pending[e][j] = "fresh" \/ j = i
    PROVE  Capped(e, T)'
  <1> DEFINE live == {j \in T : pending[e][j] = "fresh"}
             after == {j \in T : pending'[e][j] = "fresh"}
  <1>1. IsFiniteSet(live) /\ Cardinality(live) < MAX_PENDING_BLOCK_REQUESTS /\ after \subseteq live \cup {i}
    BY DEF Capped
  <1> HIDE DEF live, after
  <1>2. IsFiniteSet(live \cup {i})
        /\ Cardinality(live \cup {i}) \in {Cardinality(live), Cardinality(live) + 1}
    BY <1>1, FS_AddElement
  <1>3. IsFiniteSet(after) /\ Cardinality(after) <= Cardinality(live \cup {i})
    BY <1>1, <1>2, FS_Subset
  <1>4. Cardinality(after) \in Nat /\ Cardinality(live) \in Nat
    BY <1>1, <1>3, FS_CardinalityType
  <1>5. Cardinality(after) <= MAX_PENDING_BLOCK_REQUESTS
    BY <1>1, <1>2, <1>3, <1>4, ConversationAssumption
  <1> QED
    BY <1>3, <1>5 DEF Capped, after

LEMMA RequestCaps ==
    ASSUME TypeOK, Caps, NEW e \in End, NEW i \in Item, Request(e, i)
    PROVE  Caps'
  <1>1. \A j \in Item : Expire(e, i)[j] = "fresh" => pending[e][j] = "fresh"
    BY DEF Expire
  <1>2. Expire(e, i) \in [Item -> Statuses]
    BY DEF Expire, TypeOK, Statuses
  <1>3. Tx \subseteq Item /\ Block \subseteq Item /\ Tx \cap Block = {}
    BY ConversationAssumption DEF Item
  <1> SUFFICES ASSUME NEW d \in End, NEW T \in {Tx, Block}
               PROVE  Capped(d, T)'
    BY DEF Caps
  <1>4. Capped(d, T) /\ T \subseteq Item
    BY <1>3 DEF Caps
  <1>5. CASE pending' = [pending EXCEPT ![e] = [Expire(e, i) EXCEPT ![i] = "fresh"]]
    <2>1. CASE d = e /\ i \in T /\ MarkRequested(e, i)
      <3>1. Tracker(i) = T
        BY <1>3, <2>1 DEF Tracker
      <3>2. Cardinality({j \in T : pending[e][j] = "fresh"}) < MAX_PENDING_BLOCK_REQUESTS
        BY <2>1, <3>1 DEF MarkRequested, Live
      <3>3. \A j \in T : pending'[e][j] = "fresh" => pending[e][j] = "fresh" \/ j = i
        BY <1>1, <1>2, <1>4, <1>5 DEF TypeOK
      <3> QED
        BY <1>4, <2>1, <3>2, <3>3, CappedAdd
    <2>2. CASE d # e \/ i \notin T
      <3>1. \A j \in T : pending'[d][j] = "fresh" => pending[d][j] = "fresh"
        BY <1>1, <1>2, <1>4, <1>5, <2>2 DEF TypeOK
      <3> QED
        BY <1>4, <3>1, CappedKept
    <2>3. CASE ~MarkRequested(e, i)
      <3>1. pending' = pending \/ pending' = [pending EXCEPT ![e] = Expire(e, i)]
        BY <2>3 DEF Request
      <3>2. \A j \in T : pending'[d][j] = "fresh" => pending[d][j] = "fresh"
        BY <1>1, <1>2, <1>4, <3>1 DEF TypeOK
      <3> QED
        BY <1>4, <3>2, CappedKept
    <2> QED
      BY <2>1, <2>2, <2>3
  <1>6. CASE pending' = pending \/ pending' = [pending EXCEPT ![e] = Expire(e, i)]
    <2>1. \A j \in T : pending'[d][j] = "fresh" => pending[d][j] = "fresh"
      BY <1>1, <1>2, <1>4, <1>6 DEF TypeOK
    <2> QED
      BY <1>4, <2>1, CappedKept
  <1> QED
    BY <1>5, <1>6 DEF Request

LEMMA NextCaps ==
    ASSUME TypeOK, Caps, [Next]_vars
    PROVE  Caps'
  <1>1. Tx \subseteq Item /\ Block \subseteq Item
    BY DEF Item
  <1>2. ASSUME \A d \in End, j \in Item : pending'[d][j] = "fresh" => pending[d][j] = "fresh"
        PROVE  Caps'
    BY <1>1, <1>2, CappedKept DEF Caps
  <1>3. ASSUME NEW e \in End, NEW i \in Item, NEW v \in {"none", "old"},
               pending' = [pending EXCEPT ![e][i] = v]
        PROVE  Caps'
    <2>1. \A d \in End, j \in Item : pending'[d][j] = "fresh" => pending[d][j] = "fresh"
      BY <1>3 DEF TypeOK
    <2> QED
      BY <1>2, <2>1
  <1>4. CASE pending' = pending
    BY <1>2, <1>4
  <1>5. ASSUME NEW e \in End, NEW i \in Block, ReadBlock(e, i)
        PROVE  Caps'
    <2>1. CASE ConnectResult(e, i) = "Connected"
      BY <1>1, <1>3, <1>5, <2>1 DEF ReadBlock
    <2>2. CASE ConnectResult(e, i) = "Orphaned"
      <3>1. Request(e, prev_blockhash[i])
        BY <1>5, <2>2 DEF ReadBlock
      <3>2. prev_blockhash[i] \in Item
        BY <2>2, ConversationAssumption DEF ConnectResult, ParentKnown, Item
      <3> QED
        BY <3>1, <3>2, RequestCaps
    <2>3. CASE ConnectResult(e, i) \notin {"Connected", "Orphaned"}
      BY <1>4, <1>5, <2>3 DEF ReadBlock
    <2> QED
      BY <2>1, <2>2, <2>3
  <1>6. ASSUME NEW e \in End, NEW i \in Item, ReadInv(e, i) \/ ReadGetData(e, i) \/ ReadTx(e, i)
        PROVE  Caps'
    <2>1. CASE ReadInv(e, i)
      BY <2>1, RequestCaps DEF ReadInv
    <2>2. CASE ReadGetData(e, i)
      BY <1>4, <2>2 DEF ReadGetData, data
    <2>3. CASE ReadTx(e, i)
      BY <1>3, <2>3 DEF ReadTx
    <2> QED
      BY <1>6, <2>1, <2>2, <2>3
  <1>7. ASSUME NEW e \in End, NEW i \in Item, Lapse(e, i)
        PROVE  Caps'
    BY <1>3, <1>7 DEF Lapse
  <1>8. ASSUME NEW e \in End,
               \/ Send(e) \/ SendFails(e) \/ ReadFails(e) \/ ReadHandshake(e) \/ TakeCommand(e)
               \/ HandshakeTimeout(e) \/ Shutdown(e) \/ (\E i \in Item : Learn(e, i))
               \/ \E t \in Tx : DropTx(e, t)
        PROVE  pending' = pending
    BY <1>8 DEF Send, SendFails, ReadFails, ReadHandshake, TakeCommand, HandshakeTimeout, Shutdown,
                Learn, DropTx, data
  <1>9. CASE UNCHANGED vars
    BY <1>4, <1>9 DEF vars
  <1> QED
    BY <1>1, <1>4, <1>5, <1>6, <1>7, <1>8, <1>9 DEF Next, TaskStep

LEMMA InitRequests ==
    ASSUME Init
    PROVE  RequestInv
  <1>1. \A e \in End, i \in Item : pending[e][i] = "none"
    BY DEF Init
  <1>2. ASSUME NEW e \in End, NEW T \in {Tx, Block}
        PROVE  Capped(e, T)
    <2>1. {j \in T : pending[e][j] = "fresh"} = {}
      BY <1>1 DEF Item
    <2> QED
      <3>1. IsFiniteSet({}) /\ Cardinality({}) = 0
        BY FS_EmptySet
      <3> QED
        <4>1. 0 <= MAX_PENDING_BLOCK_REQUESTS
          BY ConversationAssumption
        <4> QED
          BY <2>1, <3>1, <4>1, Zenon DEF Capped
  <1>3. ASSUME NEW e \in End
        PROVE  \A m : Once(wire[e], m) /\ ~In(wire[e], m)
    <2>1. wire[e] = << >>
      BY DEF Init
    <2> QED
      BY <2>1, ShortFewer
  <1>4. ASSUME NEW e \in End, NEW i \in Item, NEW k \in {"getdata", "data"}
        PROVE  Once(replies[e], Msg(k, i)) /\ ~In(replies[e], Msg(k, i))
    <2>1. replies[e] = << >> \/ replies[e] = << Msg("version", nonce["dialer"]) >>
      BY DEF Init, End
    <2> DEFINE v == Msg("version", nonce["dialer"])
               m == Msg(k, i)
    <2>2. m # v
      BY Messages
    <2>3. replies[e] = << >> \/ replies[e] = << v >>
      BY <2>1
    <2> HIDE DEF v, m
    <2>4. Once(replies[e], m) /\ ~In(replies[e], m)
      BY <2>2, <2>3, ShortFewer
    <2> QED
      BY <2>4 DEF m
  <1>5. \A e \in End : Other(e) \in End
    BY OtherEnd
  <1> QED
    BY <1>1, <1>2, <1>3, <1>4, <1>5 DEF RequestInv, Alone, Caps, Requests

LEMMA RequestsShow ==
    ASSUME TypeOK, RequestInv
    PROVE  NoDuplicateRequest
  <1>1. ASSUME NEW e \in End, NEW i \in Item
        PROVE  Cardinality(Live(e, i)) <= MAX_PENDING_BLOCK_REQUESTS
    BY DEF RequestInv, Caps, Capped, Live, Tracker
  <1>2. ASSUME lapses = 0, NEW e \in End, NEW i \in Item,
               NEW j \in DOMAIN (replies[e] \o wire[e]), NEW k \in DOMAIN (replies[e] \o wire[e]),
               (replies[e] \o wire[e])[j] = Msg("getdata", i),
               (replies[e] \o wire[e])[k] = Msg("getdata", i)
        PROVE  j = k
    <2> DEFINE r == replies[e]
               w == wire[e]
               g == Msg("getdata", i)
    <2>1. r \in Seq(Message) /\ w \in Seq(Message)
      BY DEF TypeOK
    <2>2. Once(r, g) /\ Once(w, g) /\ ~(In(r, g) /\ In(w, g))
      BY <1>2 DEF RequestInv, Alone, Caps, Requests
    <2>3. /\ DOMAIN r = 1..Len(r) /\ DOMAIN w = 1..Len(w) /\ Len(r) \in Nat /\ Len(w) \in Nat
          /\ DOMAIN (r \o w) = 1..(Len(r) + Len(w))
          /\ \A n \in 1..(Len(r) + Len(w)) : (r \o w)[n] = IF n <= Len(r) THEN r[n] ELSE w[n - Len(r)]
      <3> HIDE DEF r, w
      <3> QED
        BY <2>1
    <2>4. (r \o w)[j] = g /\ (r \o w)[k] = g /\ j \in DOMAIN (r \o w) /\ k \in DOMAIN (r \o w)
      BY <1>2
    <2> HIDE DEF r, w, g
    <2>5. /\ j \in Nat /\ k \in Nat
          /\ (j \in DOMAIN r /\ r[j] = g) \/ (j - Len(r) \in DOMAIN w /\ w[j - Len(r)] = g)
          /\ (k \in DOMAIN r /\ r[k] = g) \/ (k - Len(r) \in DOMAIN w /\ w[k - Len(r)] = g)
      <3>1. j \in 1..(Len(r) + Len(w)) /\ k \in 1..(Len(r) + Len(w))
        BY <2>3, <2>4
      <3>2. ASSUME NEW n \in 1..(Len(r) + Len(w)), (r \o w)[n] = g
            PROVE  /\ n \in Nat
                   /\ (n \in DOMAIN r /\ r[n] = g) \/ (n - Len(r) \in DOMAIN w /\ w[n - Len(r)] = g)
        <4>1. CASE n <= Len(r)
          <5>1. n \in 1..Len(r) /\ n \in Nat
            BY <2>3, <4>1
          <5>2. (r \o w)[n] = r[n]
            BY <2>3, <4>1, Zenon
          <5> QED
            BY <2>3, <3>2, <5>1, <5>2, Zenon
        <4>2. CASE ~(n <= Len(r))
          <5>1. n - Len(r) \in 1..Len(w)
            BY <2>3, <4>2
          <5> QED
            BY <2>3, <3>2, <4>2, <5>1
        <4> QED
          BY <4>1, <4>2
      <3> QED
        BY <2>4, <3>1, <3>2
    <2>6. CASE j \in DOMAIN r /\ r[j] = g
      BY <2>2, <2>5, <2>6 DEF Once, In
    <2>7. CASE j - Len(r) \in DOMAIN w /\ w[j - Len(r)] = g
      <3>1. k - Len(r) \in DOMAIN w /\ w[k - Len(r)] = g
        BY <2>2, <2>5, <2>7 DEF In
      <3>2. j - Len(r) = k - Len(r)
        BY <2>2, <2>7, <3>1 DEF Once
      <3> QED
        BY <2>3, <2>5, <3>2
    <2> QED
      BY <2>5, <2>6, <2>7
  <1> QED
    BY <1>1, <1>2 DEF NoDuplicateRequest

LEMMA NextRequestInv ==
    ASSUME TypeOK, RequestInv, [Next]_vars
    PROVE  RequestInv'
  <1>1. Caps'
    BY NextCaps DEF RequestInv
  <1>2. lapses' = 0 => lapses = 0
    BY DEF Next, TaskStep, Send, SendFails, ReadFails, HandshakeTimeout, Shutdown, ReadHandshake, ReadItem,
           ReadInv, ReadGetData, ReadTx, ReadBlock, Learn, TakeCommand, DropTx, Lapse, vars, TypeOK
  <1>3. lapses' = 0 => Requests'
    BY <1>2, NextRequests DEF RequestInv
  <1> QED
    BY <1>1, <1>3 DEF RequestInv

\* The request trackers do their work for every tree, every capacity and every
\* interleaving of the two tasks: until a request outlives BLOCK_REQUEST_TTL
\* neither node has two getdata for one item on the way, and no tracker holds more
\* live requests than MAX_PENDING_BLOCK_REQUESTS.
THEOREM RequestTheorem == Spec => []NoDuplicateRequest
  <1>1. Init => TypeOK /\ RequestInv
    BY InitTypes, InitRequests
  <1>2. TypeOK /\ RequestInv /\ [Next]_vars => (TypeOK /\ RequestInv)'
    BY NextTypes, NextRequestInv
  <1>3. TypeOK /\ RequestInv => NoDuplicateRequest
    BY RequestsShow
  <1> QED
    BY <1>1, <1>2, <1>3, PTL DEF Spec

-----------------------------------------------------------------------------
(* Branches                                                                 *)

\* A set of numbers that is not empty has a smallest one.
LEMMA Smallest ==
    ASSUME NEW T \in SUBSET Nat, T # {}
    PROVE  \E x \in T : \A y \in T : x <= y
  <1> DEFINE R == { p \in Nat \X Nat : p[1] < p[2] }
  <1>1. IsWellFoundedOn(R, Nat)
    BY NatLessThanWellFounded DEF OpToRel
  <1>2. \E x \in T : \A y \in T : ~(<< y, x >> \in R)
    <2> HIDE DEF R
    <2> QED
      BY <1>1, WFMin
  <1>3. PICK x \in T : \A y \in T : ~(<< y, x >> \in R)
    BY <1>2
  <1>4. ASSUME NEW y \in T
        PROVE  x <= y
    <2>1. x \in Nat /\ y \in Nat /\ << y, x >> \notin R
      BY <1>3
    <2>2. ~(y < x)
      BY <2>1
    <2> QED
      BY <2>1, <2>2
  <1> QED
    BY <1>4

\* u lists b, its parent, and so on, n times.
Walk(u, b, n) ==
    /\ u \in [0..n -> Block \cup {"genesis"}]
    /\ u[0] = b
    /\ \A k \in 1..n : u[k] = IF u[k - 1] = "genesis" THEN "genesis"
                              ELSE prev_blockhash[u[k - 1]]

\* There is a walk of every length: the recursion of Branch has a solution.
LEMMA WalkExists ==
    ASSUME NEW b \in Block, NEW n \in Nat
    PROVE  \E u : Walk(u, b, n)
  <1> DEFINE T == {k \in Nat : ~\E u : Walk(u, b, k)}
  <1> SUFFICES ASSUME T # {}
               PROVE  FALSE
    OBVIOUS
  <1>1. PICK x \in T : \A y \in T : x <= y
    <2>1. T \in SUBSET Nat
      OBVIOUS
    <2> HIDE DEF T
    <2> QED
      BY <2>1, Smallest
  <1>2. CASE x = 0
    <2> DEFINE u == [k \in 0..0 |-> b]
    <2>1. u \in [0..0 -> Block \cup {"genesis"}] /\ u[0] = b
      OBVIOUS
    <2>2. \A k \in 1..0 : FALSE
      OBVIOUS
    <2> HIDE DEF u
    <2>3. Walk(u, b, 0)
      BY <2>1, <2>2 DEF Walk
    <2> QED
      BY <1>2, <2>3
  <1>3. CASE x # 0
    <2>1. x - 1 \in Nat /\ x \in Nat /\ ~(x <= x - 1)
      BY <1>3
    <2>2. PICK u : Walk(u, b, x - 1)
      BY <1>1, <2>1
    <2> DEFINE g == IF u[x - 1] = "genesis" THEN "genesis" ELSE prev_blockhash[u[x - 1]]
               v == [k \in 0..x |-> IF k = x THEN g ELSE u[k]]
    <2>3. u[x - 1] \in Block \cup {"genesis"} /\ \A k \in 0..(x - 1) : u[k] \in Block \cup {"genesis"}
      BY <2>1, <2>2 DEF Walk
    <2>4. g \in Block \cup {"genesis"}
      BY <2>3, ConversationAssumption
    <2>5. /\ \A k \in 0..x : k # x => k \in 0..(x - 1)
          /\ 0 \in 0..x /\ \A k \in 1..x : k \in 0..x /\ k - 1 \in 0..x /\ k - 1 # x
          /\ \A k \in 1..x : k # x => k \in 1..(x - 1)
      BY <2>1
    <2> HIDE DEF g
    <2>6. v \in [0..x -> Block \cup {"genesis"}]
      BY <2>3, <2>4, <2>5
    <2>7. v[0] = b
      BY <1>3, <2>2, <2>5 DEF Walk
    <2>8. ASSUME NEW k \in 1..x
          PROVE  v[k] = IF v[k - 1] = "genesis" THEN "genesis" ELSE prev_blockhash[v[k - 1]]
      <3>1. v[k - 1] = u[k - 1]
        BY <2>5
      <3>2. CASE k = x
        <4>1. v[k] = g
          BY <2>5, <3>2
        <4> QED
          BY <3>1, <3>2, <4>1 DEF g
      <3>3. CASE k # x
        <4>1. v[k] = u[k]
          BY <2>5, <3>3
        <4> QED
          BY <2>2, <2>5, <3>1, <3>3, <4>1 DEF Walk
      <3> QED
        BY <3>2, <3>3
    <2> HIDE DEF v
    <2>9. Walk(v, b, x)
      BY <2>6, <2>7, <2>8 DEF Walk
    <2> QED
      BY <2>9
  <1> QED
    BY <1>2, <1>3

LEMMA BranchWalk ==
    ASSUME NEW b \in Block
    PROVE  \E u : /\ Walk(u, b, height[b])
                  /\ Branch(b) = {u[n] : n \in 0..height[b]} \ {"genesis"}
  <1> DEFINE h == height[b]
             Step(u) == [n \in 0..h |-> IF n = 0 THEN b
                                       ELSE IF u[n - 1] = "genesis" THEN "genesis"
                                            ELSE prev_blockhash[u[n - 1]]]
             up == CHOOSE u : u = Step(u)
  <1>1. h \in Nat
    BY ConversationAssumption
  <1>2. PICK w : Walk(w, b, h)
    BY <1>1, WalkExists
  <1>3. w = Step(w)
    <2>1. \A n \in 0..h : n = 0 \/ n \in 1..h
      BY <1>1
    <2>2. \A n \in 0..h : w[n] = Step(w)[n]
      BY <1>2, <2>1 DEF Walk
    <2>3. w = [n \in 0..h |-> w[n]]
      BY <1>2 DEF Walk
    <2> QED
      BY <2>2, <2>3
  <1>4. up = Step(up)
    <2> HIDE DEF Step
    <2> QED
      BY <1>3
  <1>5. Branch(b) = {up[n] : n \in 0..h} \ {"genesis"}
    BY DEF Branch
  <1>6. Walk(up, b, h)
    <2> HIDE DEF up, h
    <2>1. 0 \in 0..h /\ \A n \in 1..h : n \in 0..h /\ n # 0
      BY <1>1
    <2>2. \A n \in 0..h : up[n] = IF n = 0 THEN b
                                 ELSE IF up[n - 1] = "genesis" THEN "genesis"
                                      ELSE prev_blockhash[up[n - 1]]
      BY <1>4
    <2> DEFINE T == {n \in 0..h : up[n] \notin Block \cup {"genesis"}}
    <2>3. T = {}
      <3> SUFFICES ASSUME T # {}
                   PROVE  FALSE
        OBVIOUS
      <3>1. T \in SUBSET Nat
        BY <1>1
      <3>2. PICK x \in T : \A y \in T : x <= y
        <4> HIDE DEF T
        <4> QED
          BY <3>1, Smallest
      <3>3. x # 0 /\ x \in 0..h
        BY <2>2
      <3>4. x - 1 \in 0..h /\ ~(x <= x - 1)
        BY <1>1, <3>3
      <3>5. up[x - 1] \in Block \cup {"genesis"}
        BY <3>2, <3>4
      <3>6. up[x] \in Block \cup {"genesis"}
        BY <2>2, <3>3, <3>5, ConversationAssumption
      <3> QED
        BY <3>2, <3>6
    <2>4. up \in [0..h -> Block \cup {"genesis"}]
      <3>1. DOMAIN up = 0..h /\ up = [n \in 0..h |-> up[n]]
        BY <1>4
      <3>2. \A n \in 0..h : up[n] \in Block \cup {"genesis"}
        BY <2>3
      <3> QED
        BY <3>1, <3>2
    <2> QED
      BY <2>1, <2>2, <2>4 DEF Walk
  <1> HIDE DEF up
  <1> QED
    BY <1>5, <1>6

\* The branch of b holds b, and the parent of each of its blocks.
LEMMA BranchClosed ==
    ASSUME NEW b \in Block
    PROVE  /\ b \in Branch(b) /\ Branch(b) \subseteq Block
           /\ \A x \in Branch(b) : prev_blockhash[x] \in Branch(b) \cup {"genesis"}
  <1> DEFINE h == height[b]
  <1>1. PICK u : Walk(u, b, h) /\ Branch(b) = {u[n] : n \in 0..h} \ {"genesis"}
    BY BranchWalk
  <1>2. h \in Nat /\ 0 \in 0..h
    BY ConversationAssumption
  <1> HIDE DEF h
  <1>3. /\ u[0] = b /\ \A n \in 0..h : u[n] \in Block \cup {"genesis"}
        /\ \A n \in 1..h : u[n] = IF u[n - 1] = "genesis" THEN "genesis"
                                  ELSE prev_blockhash[u[n - 1]]
    BY <1>1 DEF Walk
  <1>4. \A n \in 0..h : u[n] # "genesis" => height[u[n]] = h - n
    <2> DEFINE T == {n \in 0..h : u[n] # "genesis" /\ height[u[n]] # h - n}
    <2> SUFFICES ASSUME T # {}
                 PROVE  FALSE
      OBVIOUS
    <2>1. T \in SUBSET Nat
      BY <1>2
    <2>2. PICK x \in T : \A y \in T : x <= y
      <3> HIDE DEF T
      <3> QED
        BY <2>1, Smallest
    <2>3. x # 0
      BY <1>2, <1>3, <2>2 DEF h
    <2>4. x \in 1..h /\ x - 1 \in 0..h /\ ~(x <= x - 1)
      BY <1>2, <2>2, <2>3
    <2>5. u[x - 1] \in Block \ {"genesis"} /\ u[x] = prev_blockhash[u[x - 1]] /\ u[x] \in Block
      BY <1>3, <2>2, <2>4
    <2>6. height[u[x - 1]] = h - (x - 1)
      BY <2>2, <2>4, <2>5
    <2>7. height[u[x - 1]] = height[u[x]] + 1 /\ height[u[x]] \in Nat
      BY <2>5, ConversationAssumption
    <2>8. height[u[x]] = h - x
      BY <1>2, <2>4, <2>6, <2>7
    <2> QED
      BY <2>2, <2>8
  <1>5. b \in Branch(b)
    BY <1>1, <1>2, <1>3, ConversationAssumption DEF Item
  <1>6. Branch(b) \subseteq Block
    BY <1>1, <1>3
  <1>7. ASSUME NEW x \in Branch(b)
        PROVE  prev_blockhash[x] \in Branch(b) \cup {"genesis"}
    <2>1. PICK n \in 0..h : u[n] = x /\ x # "genesis" /\ x \in Block
      BY <1>1, <1>3, <1>7
    <2>2. height[x] = h - n /\ height[x] \in Nat \ {0}
      BY <1>4, <2>1, ConversationAssumption
    <2>3. n + 1 \in 1..h /\ n + 1 \in 0..h /\ (n + 1) - 1 = n
      BY <1>2, <2>2
    <2>4. u[n + 1] = prev_blockhash[x]
      BY <1>3, <2>1, <2>3
    <2> QED
      BY <1>1, <2>3, <2>4
  <1> QED
    BY <1>5, <1>6, <1>7

\* It is the smallest such set.
LEMMA BranchLeast ==
    ASSUME NEW b \in Block, NEW A, b \in A,
           \A x \in A \cap Block : prev_blockhash[x] \in A \cup {"genesis"}
    PROVE  Branch(b) \subseteq A
  <1> DEFINE h == height[b]
  <1>1. PICK u : Walk(u, b, h) /\ Branch(b) = {u[n] : n \in 0..h} \ {"genesis"}
    BY BranchWalk
  <1>2. h \in Nat
    BY ConversationAssumption
  <1> HIDE DEF h
  <1>3. /\ u[0] = b /\ \A n \in 0..h : u[n] \in Block \cup {"genesis"}
        /\ \A n \in 1..h : u[n] = IF u[n - 1] = "genesis" THEN "genesis"
                                  ELSE prev_blockhash[u[n - 1]]
    BY <1>1 DEF Walk
  <1> DEFINE T == {n \in 0..h : u[n] \notin A \cup {"genesis"}}
  <1>4. T = {}
    <2> SUFFICES ASSUME T # {}
                 PROVE  FALSE
      OBVIOUS
    <2>1. T \in SUBSET Nat
      BY <1>2
    <2>2. PICK x \in T : \A y \in T : x <= y
      <3> HIDE DEF T
      <3> QED
        BY <2>1, Smallest
    <2>3. x # 0
      BY <1>3, <2>2
    <2>4. x \in 1..h /\ x - 1 \in 0..h /\ ~(x <= x - 1)
      BY <1>2, <2>2, <2>3
    <2>5. u[x - 1] \in A \cup {"genesis"} /\ u[x - 1] \in Block \cup {"genesis"}
      BY <1>3, <2>2, <2>4
    <2>6. u[x] \in A \cup {"genesis"}
      BY <1>3, <2>4, <2>5
    <2> QED
      BY <2>2, <2>6
  <1> QED
    BY <1>1, <1>4

LEMMA BranchParent ==
    ASSUME NEW b \in Block, prev_blockhash[b] \in Block
    PROVE  prev_blockhash[b] \in Branch(b) /\ Branch(prev_blockhash[b]) \subseteq Branch(b)
  <1>1. /\ b \in Branch(b) /\ Branch(b) \subseteq Block
        /\ \A x \in Branch(b) : prev_blockhash[x] \in Branch(b) \cup {"genesis"}
    BY BranchClosed
  <1>2. prev_blockhash[b] \in Branch(b)
    BY <1>1, ConversationAssumption DEF Item
  <1> QED
    BY <1>1, <1>2, BranchLeast

-----------------------------------------------------------------------------
(* What is offered is accounted for                                         *)

\* Node e has i to give, or it has dropped the transaction.
Offers(e, i) == IF i \in Tx THEN i \in pool[e] \cup skipped[e] ELSE i \in known[e]

\* m is on its way from e, or about to be.
Sent(e, m) == In(replies[e], m) \/ In(wire[e], m)

\* A node announces and sends what it has, and is asked for what it announced.
Vouched(e) ==
    /\ \A i \in Item : In(commands[e], i) => Offers(e, i)
    /\ \A i \in Item, k \in {"inv", "data"} : Sent(e, Msg(k, i)) => Offers(e, i)
    /\ \A i \in Item : Sent(e, Msg("getdata", i)) => Offers(Other(e), i)

\* The blocks of a tree have their parents in it.
Rooted(e) == \A b \in known[e] : prev_blockhash[b] \in known[e] \cup {"genesis"}

\* Item x is here, declined or coming.
Held(e, x) ==
    \/ IF x \in Tx THEN x \in pool[e] \cup skipped[e] \cup skipped[Other(e)]
       ELSE x \in known[e] \cup skipped[e]
    \/ Sent(e, Msg("getdata", x)) \/ Sent(Other(e), Msg("data", x))

\* The offered items lie in a set each of whose members is held or is an orphan
\* whose parent is in the set: the walks from orphan to parent that the
\* announcements started are under way, or they ended.
Accounted(e) ==
    \E S \in SUBSET (Item \cup {"genesis"}) :
        /\ offered[e] \subseteq S
        /\ \A x \in S : \/ x = "genesis" \/ Held(e, x)
                        \/ x \in orphans[e] /\ prev_blockhash[x] \in S

OfferInv ==
    /\ \A e \in End : Rooted(e)
    /\ Open => \A e \in End : Vouched(e) /\ Accounted(e)

LEMMA InFlightSent ==
    ASSUME NEW e, NEW i
    PROVE  InFlight(e, i) <=> Sent(e, Msg("getdata", i)) \/ Sent(Other(e), Msg("data", i))
  BY DEF InFlight, In, Range, Incoming, Sent

\* At rest nothing is coming, so a walk ends at a declined block or at an orphan
\* whose parent is known.
LEMMA OffersShow ==
    ASSUME TypeOK, OfferInv
    PROVE  OfferedIsHeld
  <1> SUFFICES ASSUME Quiet, NEW e \in End, NEW i \in offered[e]
               PROVE  IF i \in Tx
                      THEN i \in pool[e] \cup skipped[e] \cup skipped[Other(e)]
                      ELSE i \in known[e] \/ Branch(i) \cap skipped[e] # {} \/ Stranded(e)
    BY DEF OfferedIsHeld
  <1>1. Open
    BY DEF Quiet, Open
  <1>2. \A m : ~Sent(e, m) /\ ~Sent(Other(e), m)
    <2>1. /\ replies[e] = << >> /\ wire[e] = << >>
          /\ replies[Other(e)] = << >> /\ wire[Other(e)] = << >>
      BY OtherEnd DEF Quiet
    <2> QED
      BY <2>1, ShortFewer DEF Sent
  <1> DEFINE here(x) == IF x \in Tx THEN x \in pool[e] \cup skipped[e] \cup skipped[Other(e)]
                        ELSE x \in known[e] \cup skipped[e]
  <1>0. PICK S \in SUBSET (Item \cup {"genesis"}) :
            /\ offered[e] \subseteq S
            /\ \A x \in S : x = "genesis" \/ here(x) \/ (x \in orphans[e] /\ prev_blockhash[x] \in S)
    BY <1>1, <1>2 DEF OfferInv, Accounted, Held
  <1>3. CASE i \in Tx
    <2>1. i \notin orphans[e] /\ i # "genesis"
      BY <1>3, ConversationAssumption DEF TypeOK, Item
    <2> QED
      BY <1>0, <1>3, <2>1
  <1>4. CASE i \notin Tx
    <2>1. i \in Block
      BY <1>4 DEF TypeOK, Item
    <2> SUFFICES ASSUME i \notin known[e], Branch(i) \cap skipped[e] = {}
                 PROVE  Stranded(e)
      BY <1>4
    <2>3. /\ i \in Branch(i) /\ Branch(i) \subseteq Block
          /\ \A x \in Branch(i) : prev_blockhash[x] \in Branch(i) \cup {"genesis"}
      BY <2>1, BranchClosed
    <2> DEFINE Y == {y \in Branch(i) \cap S : y \notin known[e]}
               H == {height[y] : y \in Y}
    <2>4. i \in Y
      BY <1>0, <2>1, <2>3
    <2>5. H \in SUBSET Nat /\ H # {}
      BY <2>3, <2>4, ConversationAssumption
    <2>6. PICK n \in H : \A k \in H : n <= k
      <3> HIDE DEF H
      <3> QED
        BY <2>5, Smallest
    <2>7. PICK y \in Y : height[y] = n
      BY <2>6
    <2>8. y \in Block /\ y \in Branch(i) /\ y \in S /\ y \notin known[e] /\ y # "genesis"
      BY <2>3, <2>7, ConversationAssumption DEF Item
    <2>9. y \in orphans[e] /\ prev_blockhash[y] \in S
      BY <1>0, <2>8, ConversationAssumption DEF Item
    <2>10. prev_blockhash[y] \in known[e] \cup {"genesis"}
      <3> SUFFICES ASSUME prev_blockhash[y] \notin known[e] \cup {"genesis"}
                   PROVE  FALSE
        OBVIOUS
      <3> DEFINE p == prev_blockhash[y]
      <3>1. p \in Branch(i) /\ p \in Y /\ p \in Block
        BY <2>3, <2>8, <2>9
      <3>2. height[p] \in H /\ height[y] = height[p] + 1 /\ height[p] \in Nat
        BY <2>8, <3>1, ConversationAssumption
      <3>3. n <= height[p]
        <4> HIDE DEF H, p
        <4> QED
          BY <2>6, <3>2
      <3> QED
        BY <2>7, <3>2, <3>3
    <2> QED
      BY <2>9, <2>10 DEF Stranded, ParentKnown
  <1> QED
    BY <1>3, <1>4

LEMMA InitOffers ==
    ASSUME Init
    PROVE  OfferInv
  <1>1. \A e \in End : Rooted(e)
    BY ConversationAssumption DEF Init, Rooted
  <1>2. ASSUME NEW e \in End
        PROVE  Vouched(e) /\ Accounted(e)
    <2>1. wire[e] = << >> /\ commands[e] = << >> /\ offered[e] = {}
      BY DEF Init
    <2>2. \A m : ~In(wire[e], m) /\ ~In(commands[e], m)
      BY <2>1, ShortFewer
    <2>3. ASSUME NEW i \in Item, NEW k \in {"inv", "getdata", "data"}
          PROVE  ~In(replies[e], Msg(k, i))
      <3> DEFINE v == Msg("version", nonce["dialer"])
                 m == Msg(k, i)
      <3>1. replies[e] = << >> \/ replies[e] = << v >>
        BY DEF Init, End
      <3>2. m # v
        BY DEF Msg
      <3> HIDE DEF v, m
      <3>3. ~In(replies[e], m)
        BY <3>1, <3>2, ShortFewer
      <3> QED
        BY <3>3 DEF m
    <2>4. Vouched(e)
      BY <2>2, <2>3 DEF Vouched, Sent
    <2>5. Accounted(e)
      <3>1. {} \in SUBSET (Item \cup {"genesis"}) /\ offered[e] \subseteq {}
        BY <2>1
      <3> QED
        BY <3>1 DEF Accounted
    <2> QED
      BY <2>4, <2>5
  <1> QED
    BY <1>1, <1>2 DEF OfferInv

\* What the operators do to what is in a queue.
LEMMA QueueIn ==
    ASSUME NEW M, NEW q \in Seq(M)
    PROVE  /\ q # << >> => \A m : In(q, m) <=> m = Head(q) \/ In(Tail(q), m)
           /\ \A x \in M : \A m : In(Append(q, x), m) <=> m = x \/ In(q, m)
  <1>1. DOMAIN q = 1..Len(q) /\ Len(q) \in Nat
    OBVIOUS
  <1>2. ASSUME q # << >>, NEW m
        PROVE  In(q, m) <=> m = Head(q) \/ In(Tail(q), m)
    <2> DEFINE t == Tail(q)
    <2>1. /\ Head(q) = q[1] /\ Len(q) # 0 /\ DOMAIN t = 1..(Len(q) - 1)
          /\ \A k \in 1..(Len(q) - 1) : t[k] = q[k + 1]
      BY <1>2
    <2> HIDE DEF t
    <2>2. /\ 1 \in 1..Len(q) /\ \A k \in 1..(Len(q) - 1) : k + 1 \in 1..Len(q)
          /\ \A k \in 1..Len(q) : k = 1 \/ (k - 1 \in 1..(Len(q) - 1) /\ (k - 1) + 1 = k)
      BY <1>1, <2>1
    <2>3. In(q, m) => m = Head(q) \/ In(t, m)
      <3> SUFFICES ASSUME NEW k \in 1..Len(q), q[k] = m, k # 1
                   PROVE  In(t, m)
        BY <1>1, <2>1 DEF In
      <3>1. k - 1 \in DOMAIN t /\ t[k - 1] = q[(k - 1) + 1] /\ (k - 1) + 1 = k
        BY <2>1, <2>2
      <3>2. t[k - 1] = m
        BY <3>1
      <3> QED
        BY <3>1, <3>2 DEF In
    <2>4. m = Head(q) \/ In(t, m) => In(q, m)
      BY <1>1, <2>1, <2>2 DEF In
    <2> QED
      BY <2>3, <2>4 DEF t
  <1>3. ASSUME NEW x \in M, NEW m
        PROVE  In(Append(q, x), m) <=> m = x \/ In(q, m)
    <2> DEFINE t == Append(q, x)
    <2>1. /\ DOMAIN t = 1..(Len(q) + 1) /\ t[Len(q) + 1] = x
          /\ \A k \in 1..Len(q) : t[k] = q[k]
      OBVIOUS
    <2> HIDE DEF t
    <2>2. /\ Len(q) + 1 \in 1..(Len(q) + 1) /\ \A k \in 1..Len(q) : k \in 1..(Len(q) + 1)
          /\ \A k \in 1..(Len(q) + 1) : k = Len(q) + 1 \/ k \in 1..Len(q)
      BY <1>1
    <2> QED
      BY <1>1, <2>1, <2>2 DEF In, t
  <1> QED
    BY <1>2, <1>3

LEMMA SendSent ==
    ASSUME TypeOK, NEW e \in End, Send(e)
    PROVE  \A d \in End : \A m : Sent(d, m)' <=> Sent(d, m)
  <1> DEFINE x == Head(replies[e])
  <1>1. replies[e] \in Seq(Message) /\ replies[e] # << >> /\ wire[e] \in Seq(Message)
    BY DEF Send, TypeOK
  <1>2. x \in Message
    BY <1>1
  <1>3. /\ replies' = [replies EXCEPT ![e] = Tail(replies[e])]
        /\ wire' = [wire EXCEPT ![e] = Append(wire[e], x)]
    BY DEF Send
  <1>4. /\ replies'[e] = Tail(replies[e]) /\ wire'[e] = Append(wire[e], x)
        /\ \A d \in End : d # e => replies'[d] = replies[d] /\ wire'[d] = wire[d]
    BY <1>3 DEF TypeOK
  <1>5. \A m : In(replies[e], m) <=> m = x \/ In(replies'[e], m)
    BY <1>1, <1>4, QueueIn
  <1>6. \A m : In(wire'[e], m) <=> m = x \/ In(wire[e], m)
    BY <1>1, <1>2, <1>4, QueueIn
  <1> HIDE DEF x
  <1> QED
    BY <1>4, <1>5, <1>6 DEF Sent

\* A task reads m and has q to send.
LEMMA ReadSent ==
    ASSUME TypeOK, NEW e \in End, Take(e), replies[e] = << >>, NEW q,
           replies' = [replies EXCEPT ![e] = q]
    PROVE  /\ \A m : Sent(e, m)' <=> Sent(e, m) \/ In(q, m)
           /\ \A m : Sent(Other(e), m) <=> m = Head(Incoming(e)) \/ Sent(Other(e), m)'
  <1> DEFINE o == Other(e)
  <1>1. o \in End /\ o # e
    BY OtherEnd
  <1>2. wire[o] \in Seq(Message) /\ wire[o] # << >> /\ wire' = [wire EXCEPT ![o] = Tail(wire[o])]
        /\ Incoming(e) = wire[o]
    BY <1>1 DEF Take, Incoming, TypeOK
  <1>3. /\ wire'[o] = Tail(wire[o]) /\ wire'[e] = wire[e]
        /\ replies'[o] = replies[o] /\ replies'[e] = q
    BY <1>1, <1>2 DEF TypeOK
  <1>4. \A m : ~In(replies[e], m)
    BY ShortFewer
  <1> HIDE DEF o
  <1>5. \A m : In(wire[o], m) <=> m = Head(wire[o]) \/ In(wire'[o], m)
    BY <1>2, <1>3, QueueIn
  <1>6. \A m : Sent(e, m)' <=> Sent(e, m) \/ In(q, m)
    BY <1>3, <1>4 DEF Sent
  <1>7. \A m : Sent(o, m) <=> m = Head(Incoming(e)) \/ Sent(o, m)'
    BY <1>2, <1>3, <1>5 DEF Sent
  <1> QED
    BY <1>6, <1>7 DEF o

\* What a step has to show: N are the items it newly accounts for.
LEMMA OfferStep ==
    ASSUME TypeOK, TypeOK', OfferInv, Open, NEW e \in End, NEW N \in SUBSET Item,
           \A d \in End : Rooted(d)',
           \A d \in End, i \in Item : Offers(d, i) => Offers(d, i)',
           \A d \in End, i \in Item : In(commands'[d], i) => In(commands[d], i) \/ Offers(d, i)',
           \A d \in End, i \in Item, k \in {"inv", "data"} :
               Sent(d, Msg(k, i))' => Sent(d, Msg(k, i)) \/ Offers(d, i)',
           \A d \in End, i \in Item :
               Sent(d, Msg("getdata", i))' => Sent(d, Msg("getdata", i)) \/ Offers(Other(d), i)',
           \A d \in End : orphans[d] \subseteq orphans'[d] \cup known'[d],
           \A x \in Item : Held(e, x) => \/ Held(e, x)'
                                         \/ x \in orphans'[e] /\ prev_blockhash[x] \in N,
           \A x \in N : Held(e, x)',
           \A x \in Item : Held(Other(e), x) => Held(Other(e), x)',
           offered'[e] \subseteq offered[e] \cup N, offered'[Other(e)] = offered[Other(e)]
    PROVE  OfferInv'
  <1>1. ASSUME NEW d \in End
        PROVE  Vouched(d)'
    <2>1. Vouched(d) /\ Other(d) \in End
      BY OtherEnd DEF OfferInv
    <2> QED
      BY <2>1 DEF Vouched
  <1>2. ASSUME NEW d \in End
        PROVE  Accounted(d)'
    <2> DEFINE M == IF d = e THEN N ELSE {}
    <2>1. PICK S \in SUBSET (Item \cup {"genesis"}) :
              /\ offered[d] \subseteq S
              /\ \A x \in S : \/ x = "genesis" \/ Held(d, x)
                              \/ x \in orphans[d] /\ prev_blockhash[x] \in S
      BY DEF OfferInv, Accounted
    <2>2. d = e \/ d = Other(e)
      BY OtherEnd
    <2>3. /\ \A x \in Item : Held(d, x) => \/ Held(d, x)'
                                           \/ x \in orphans'[d] /\ prev_blockhash[x] \in M
          /\ \A x \in M : Held(d, x)'
          /\ offered'[d] \subseteq offered[d] \cup M /\ M \in SUBSET Item
      BY <2>2
    <2>4. \A x \in orphans[d] : x \in orphans'[d] \/ Held(d, x)'
      <3>1. orphans[d] \subseteq Block /\ Block \cap Tx = {}
        BY ConversationAssumption DEF TypeOK
      <3> QED
        BY <3>1 DEF Held
    <2> DEFINE U == S \cup M
    <2> HIDE DEF M
    <2>5. U \in SUBSET (Item \cup {"genesis"}) /\ offered'[d] \subseteq U
      BY <2>1, <2>3
    <2>6. ASSUME NEW x \in U
          PROVE  \/ x = "genesis" \/ Held(d, x)'
                 \/ x \in orphans'[d] /\ prev_blockhash[x] \in U
      BY <2>1, <2>3, <2>4
    <2> HIDE DEF U
    <2> QED
      BY <2>5, <2>6 DEF Accounted
  <1> QED
    BY <1>1, <1>2 DEF OfferInv

\* connect_block keeps the tree rooted and loses no block.
LEMMA ConnectOffers ==
    ASSUME TypeOK, NEW e \in End, NEW b \in Block, ConnectBlock(e, b), \A d \in End : Rooted(d)
    PROVE  /\ \A d \in End : Rooted(d)'
           /\ \A d \in End : known[d] \subseteq known'[d]
           /\ \A d \in End : orphans[d] \subseteq orphans'[d] \cup known'[d]
           /\ ConnectResult(e, b) \in {"Connected", "SideChain"} => b \in known'[e]
           /\ ConnectResult(e, b) = "Orphaned" => b \in orphans'[e]
           /\ ConnectResult(e, b) \notin {"Connected", "SideChain", "Orphaned"}
                 => b \in known[e] \cup orphans[e]
  <1> DEFINE now == known[e] \cup {b}
             ready == Ready(orphans[e], now)
  <1>1. ready \subseteq orphans[e] /\ orphans[e] \subseteq Block /\ known[e] \subseteq Block
    BY DEF Ready, TypeOK
  <1>2. CASE ConnectResult(e, b) = "Connected"
    <2>1. /\ known' = [known EXCEPT ![e] = now \cup ready]
          /\ orphans' = [orphans EXCEPT ![e] = orphans[e] \ ready]
      BY <1>2 DEF ConnectBlock
    <2>2. prev_blockhash[b] \in known[e] \cup {"genesis"}
      BY <1>2 DEF ConnectResult, ParentKnown
    <2>3. ASSUME NEW x \in ready
          PROVE  prev_blockhash[x] \in now \cup ready \cup {"genesis"}
      <3> DEFINE p == prev_blockhash[x]
      <3>1. x \in Block /\ x \in orphans[e] /\ Branch(x) \subseteq orphans[e] \cup now
        BY <1>1 DEF Ready
      <3>2. CASE p \in Block
        <4>1. p \in Branch(x) /\ Branch(p) \subseteq Branch(x)
          BY <3>1, <3>2, BranchParent
        <4> QED
          BY <3>1, <4>1 DEF Ready
      <3>3. CASE p \notin Block
        BY <3>1, <3>3, ConversationAssumption
      <3> QED
        BY <3>2, <3>3
    <2> HIDE DEF ready
    <2>4. \A d \in End : known[d] \subseteq known'[d] /\ orphans[d] \subseteq orphans'[d] \cup known'[d]
      BY <1>1, <2>1 DEF TypeOK
    <2>5. ASSUME NEW d \in End, NEW x \in known'[d]
          PROVE  prev_blockhash[x] \in known'[d] \cup {"genesis"}
      <3>1. CASE d # e
        BY <2>1, <2>5, <3>1 DEF TypeOK, Rooted
      <3>2. CASE d = e
        <4>1. known'[d] = now \cup ready
          BY <2>1, <3>2 DEF TypeOK
        <4> QED
          BY <2>2, <2>3, <2>5, <3>2, <4>1 DEF Rooted
      <3> QED
        BY <3>1, <3>2
    <2> QED
      BY <1>2, <2>1, <2>4, <2>5 DEF Rooted, TypeOK
  <1>3. CASE ConnectResult(e, b) = "SideChain"
    <2>1. known' = [known EXCEPT ![e] = now] /\ orphans' = orphans
      BY <1>3 DEF ConnectBlock
    <2>2. prev_blockhash[b] \in known[e] \cup {"genesis"}
      BY <1>3 DEF ConnectResult, ParentKnown
    <2>3. \A d \in End : known'[d] = IF d = e THEN now ELSE known[d]
      BY <2>1 DEF TypeOK
    <2> QED
      BY <1>3, <2>1, <2>2, <2>3 DEF Rooted
  <1>4. CASE ConnectResult(e, b) = "Orphaned"
    <2>1. orphans' = [orphans EXCEPT ![e] = orphans[e] \cup {b}] /\ known' = known
      BY <1>4 DEF ConnectBlock
    <2> QED
      BY <1>4, <2>1 DEF Rooted, TypeOK
  <1>5. CASE ConnectResult(e, b) = "AlreadyKnown"
    <2>1. orphans' = orphans /\ known' = known
      BY <1>5 DEF ConnectBlock
    <2>2. b \in known[e] \cup orphans[e]
      BY <1>5, ConversationAssumption DEF ConnectResult, HasBlock, Item
    <2> QED
      BY <1>5, <2>1, <2>2 DEF Rooted
  <1> QED
    BY <1>2, <1>3, <1>4, <1>5 DEF ConnectResult

\* A request asks for the item, or the item is here, coming or declined.
LEMMA RequestHeld ==
    ASSUME TypeOK, Caps, NEW e \in End, NEW i \in Item, Request(e, i), pool' = pool,
           known[e] \subseteq known'[e], InFlight(e, i) => InFlight(e, i)'
    PROVE  /\ Held(e, i)'
           /\ \A x \in Item : x # i \/ x \in Tx => (x \in skipped[e] => x \in skipped'[e])
           /\ skipped'[Other(e)] = skipped[Other(e)]
  <1> DEFINE declined == \/ i \in Live(e, i) /\ ~InFlight(e, i)
                         \/ Cardinality(Live(e, i)) >= MAX_PENDING_BLOCK_REQUESTS
                         \/ i \in orphans[e]
  <1>1. skipped' = [skipped EXCEPT ![e] = IF declined THEN skipped[e] \cup {i}
                                          ELSE skipped[e] \ ({i} \cap Block)]
    BY DEF Request
  <1>2. Other(e) \in End /\ Other(e) # e
    BY OtherEnd
  <1>3. Block \cap Tx = {} /\ "genesis" \notin Item
    BY ConversationAssumption
  <1>4. declined => i \in skipped'[e]
    <2> HIDE DEF declined
    <2> QED
      BY <1>1 DEF TypeOK
  <1>5. /\ \A x \in Item : x # i \/ x \in Tx => (x \in skipped[e] => x \in skipped'[e])
        /\ skipped'[Other(e)] = skipped[Other(e)]
    <2> HIDE DEF declined
    <2> QED
      BY <1>1, <1>2, <1>3 DEF TypeOK
  <1>6. Held(e, i)'
    <2>1. CASE Holds(e, i)
      BY <1>3, <1>4, <2>1 DEF Holds, HasBlock, Held
    <2>2. CASE ~Holds(e, i) /\ MarkRequested(e, i)
      <3>1. replies' = [replies EXCEPT ![e] = << Msg("getdata", i) >>]
        BY <2>2 DEF Request
      <3>2. replies'[e] = << Msg("getdata", i) >>
        BY <3>1 DEF TypeOK
      <3>3. In(replies'[e], Msg("getdata", i))
        BY <3>2 DEF In
      <3> QED
        BY <3>3 DEF Held, Sent
    <2>3. CASE ~Holds(e, i) /\ ~MarkRequested(e, i)
      <3>1. Cardinality(Live(e, i)) \in Nat
        <4>1. IsFiniteSet(Live(e, i))
          BY DEF Caps, Capped, Live, Tracker
        <4> QED
          BY <4>1, FS_CardinalityType
      <3>2. i \in Live(e, i) \/ Cardinality(Live(e, i)) >= MAX_PENDING_BLOCK_REQUESTS
        BY <2>3, <3>1, ConversationAssumption DEF MarkRequested
      <3>3. i \in skipped'[e] \/ InFlight(e, i)'
        BY <1>4, <3>2
      <3>4. InFlight(e, i)' => Sent(e, Msg("getdata", i))' \/ Sent(Other(e), Msg("data", i))'
        BY DEF InFlight, In, Range, Incoming, Sent
      <3> QED
        BY <3>3, <3>4 DEF Held
    <2> QED
      BY <2>1, <2>2, <2>3
  <1> QED
    BY <1>5, <1>6

\* Steps that exchange no message and lose nothing.
LEMMA QuietOffers ==
    ASSUME TypeOK, TypeOK', OfferInv, Open, NEW e \in End,
           \A d \in End : \A m : Sent(d, m)' <=> Sent(d, m),
           \A d \in End : Rooted(d)',
           \A d \in End : known[d] \subseteq known'[d],
           \A d \in End : orphans[d] \subseteq orphans'[d] \cup known'[d],
           \A d \in End : skipped[d] \subseteq skipped'[d],
           \A d \in End : pool[d] \subseteq pool'[d] \cup skipped'[d],
           \A d \in End, i \in Item : In(commands'[d], i) => In(commands[d], i) \/ Offers(d, i)',
           offered' = offered
    PROVE  OfferInv'
  <1>1. \A d \in End, i \in Item : Offers(d, i) => Offers(d, i)'
    BY DEF Offers
  <1>2. ASSUME NEW d \in End, NEW x \in Item, Held(d, x)
        PROVE  Held(d, x)'
    <2>1. Other(d) \in End
      BY OtherEnd
    <2>2. CASE x \in Tx
      BY <1>2, <2>1, <2>2 DEF Held
    <2>3. CASE x \notin Tx
      BY <1>2, <2>1, <2>3 DEF Held
    <2> QED
      BY <2>2, <2>3
  <1>3. Other(e) \in End /\ {} \in SUBSET Item
    BY OtherEnd
  <1> QED
    BY <1>1, <1>2, <1>3, OfferStep

LEMMA LearnOffers ==
    ASSUME TypeOK, TypeOK', OfferInv, Open, NEW e \in End, NEW i \in Item, Learn(e, i)
    PROVE  OfferInv'
  <1>1. \A d \in End : \A m : Sent(d, m)' <=> Sent(d, m)
    BY DEF Learn, Sent
  <1>2. skipped' = skipped /\ offered' = offered /\ \A d \in End : Rooted(d)
    BY DEF Learn, OfferInv
  <1>3. /\ \A d \in End : Rooted(d)' /\ known[d] \subseteq known'[d] /\ pool[d] \subseteq pool'[d]
        /\ \A d \in End : orphans[d] \subseteq orphans'[d] \cup known'[d]
        /\ i \in Tx => i \in pool'[e]
        /\ i \notin Tx /\ ConnectResult(e, i) = "Connected" => i \in known'[e]
    <2>1. CASE i \in Tx
      <3>1. pool' = [pool EXCEPT ![e] = pool[e] \cup {i}] /\ UNCHANGED << known, orphans >>
        BY <2>1 DEF Learn
      <3> QED
        BY <1>2, <2>1, <3>1 DEF TypeOK, Rooted
    <2>2. CASE i \notin Tx
      <3>1. ConnectBlock(e, i) /\ pool' = pool /\ i \in Block
        BY <2>2 DEF Learn, Item
      <3> QED
        BY <1>2, <2>2, <3>1, ConnectOffers
    <2> QED
      BY <2>1, <2>2
  <1>4. ASSUME NEW d \in End, NEW j \in Item, In(commands'[d], j)
        PROVE  In(commands[d], j) \/ Offers(d, j)'
    <2>1. CASE commands' = commands
      BY <1>4, <2>1
    <2>2. CASE commands' # commands
      <3>1. /\ commands' = [commands EXCEPT ![e] = Append(commands[e], i)]
            /\ i \notin Tx => ConnectResult(e, i) = "Connected"
        BY <2>2 DEF Learn
      <3>2. CASE d = e
        <4>1. commands[e] \in Seq(Item) /\ commands'[e] = Append(commands[e], i)
          BY <3>1 DEF TypeOK
        <4>2. j = i \/ In(commands[e], j)
          BY <1>4, <3>2, <4>1, QueueIn
        <4> QED
          BY <1>3, <3>1, <3>2, <4>2 DEF Offers
      <3>3. CASE d # e
        BY <1>4, <3>1, <3>3 DEF TypeOK
      <3> QED
        BY <3>2, <3>3
    <2> QED
      BY <2>1, <2>2
  <1> QED
    BY <1>1, <1>2, <1>3, <1>4, QuietOffers

\* An announcement is of something the node has.
LEMMA CommandOffers ==
    ASSUME TypeOK, TypeOK', OfferInv, Open, NEW e \in End, TakeCommand(e)
    PROVE  OfferInv'
  <1> DEFINE c == Head(commands[e])
  <1>1. commands[e] \in Seq(Item) /\ commands[e] # << >>
    BY DEF TakeCommand, TypeOK
  <1>2. c \in Item /\ \A i : In(commands[e], i) <=> i = c \/ In(Tail(commands[e]), i)
    BY <1>1, QueueIn
  <1>3. /\ replies[e] = << >> /\ UNCHANGED << wire, data, feed >>
        /\ replies' = [replies EXCEPT ![e] = << Msg("inv", c) >>]
        /\ commands' = [commands EXCEPT ![e] = Tail(commands[e])]
    BY DEF TakeCommand, Reading
  <1> HIDE DEF c
  <1>4. Offers(e, c)
    BY <1>2 DEF OfferInv, Vouched
  <1>5. /\ replies'[e] = << Msg("inv", c) >> /\ commands'[e] = Tail(commands[e])
        /\ \A d \in End : d # e => replies'[d] = replies[d] /\ commands'[d] = commands[d]
    BY <1>3 DEF TypeOK
  <1>6. /\ \A m : ~In(<< >>, m)
        /\ \A m : m # Msg("inv", c) => ~In(<< Msg("inv", c) >>, m)
    BY ShortFewer
  <1>7. \A d \in End : \A m : m # Msg("inv", c) => (Sent(d, m)' <=> Sent(d, m))
    BY <1>3, <1>5, <1>6 DEF Sent
  <1>8. \A m : Sent(Other(e), m)' <=> Sent(Other(e), m)
    BY <1>3, <1>5, OtherEnd DEF Sent
  <1>9. \A d \in End, i \in Item : Offers(d, i)' <=> Offers(d, i)
    BY <1>3 DEF Offers, data
  <1>10. ASSUME NEW d \in End, NEW x \in Item, Held(d, x)
         PROVE  Held(d, x)'
    <2>1. /\ Sent(d, Msg("getdata", x))' <=> Sent(d, Msg("getdata", x))
          /\ Sent(Other(d), Msg("data", x))' <=> Sent(Other(d), Msg("data", x))
      BY <1>7, OtherEnd, Messages
    <2> QED
      BY <1>3, <1>10, <2>1 DEF Held, data
  <1>11. \A d \in End, i \in Item, k \in {"inv", "data"} :
             Sent(d, Msg(k, i))' => Sent(d, Msg(k, i)) \/ Offers(d, i)'
    <2>1. ASSUME NEW d \in End, NEW i \in Item, NEW k \in {"inv", "data"},
                 Sent(d, Msg(k, i))', ~Sent(d, Msg(k, i))
          PROVE  Offers(d, i)'
      <3>1. Msg(k, i) = Msg("inv", c)
        BY <1>7, <2>1
      <3>2. i = c
        BY <3>1 DEF Msg
      <3>3. d = e
        BY <1>8, <2>1, OtherEnd
      <3> QED
        BY <1>4, <1>9, <3>2, <3>3
    <2> QED
      BY <2>1
  <1>12. \A d \in End, i \in Item : In(commands'[d], i) => In(commands[d], i)
    BY <1>2, <1>5
  <1>13. \A d \in End : Rooted(d)' /\ orphans'[d] = orphans[d] /\ offered'[d] = offered[d]
    BY <1>3 DEF data, OfferInv, Rooted
  <1>14. \A d \in End, i \in Item : Sent(d, Msg("getdata", i))' => Sent(d, Msg("getdata", i))
    BY <1>7, Messages
  <1>15. Other(e) \in End /\ {} \in SUBSET Item
    BY OtherEnd
  <1> QED
    BY <1>9, <1>10, <1>11, <1>12, <1>13, <1>14, <1>15, OfferStep

\* What a step that reads a message and answers with q has to show.
LEMMA ReadOffers ==
    ASSUME TypeOK, TypeOK', OfferInv, Open, NEW e \in End, NEW q, NEW N \in SUBSET Item,
           Take(e), replies[e] = << >>, replies' = [replies EXCEPT ![e] = q], commands' = commands,
           \A d \in End : Rooted(d)',
           \A d \in End : known[d] \subseteq known'[d],
           \A d \in End : orphans[d] \subseteq orphans'[d] \cup known'[d],
           \A d \in End : pool[d] \subseteq pool'[d] \cup skipped'[d],
           \A d \in End : skipped[d] \cap Tx \subseteq skipped'[d],
           skipped'[Other(e)] = skipped[Other(e)],
           \A x \in skipped[e] : x \in skipped'[e] \/ Held(e, x)',
           \A i \in Item, k \in {"inv", "data"} : In(q, Msg(k, i)) => Offers(e, i)',
           \A i \in Item : In(q, Msg("getdata", i)) => Offers(Other(e), i)',
           \A x \in Item : Head(Incoming(e)) = Msg("data", x)
                              => Held(e, x)' \/ (x \in orphans'[e] /\ prev_blockhash[x] \in N),
           \A x \in Item : Head(Incoming(e)) = Msg("getdata", x) => Held(Other(e), x)',
           \A x \in N : Held(e, x)',
           offered'[e] \subseteq offered[e] \cup N, offered'[Other(e)] = offered[Other(e)]
    PROVE  OfferInv'
  <1> DEFINE o == Other(e)
  <1>1. o \in End /\ o # e /\ Other(o) = e /\ \A d \in End : d = e \/ d = o
    BY OtherEnd
  <1>2. /\ \A m : Sent(e, m)' <=> Sent(e, m) \/ In(q, m)
        /\ \A m : Sent(o, m) <=> m = Head(Incoming(e)) \/ Sent(o, m)'
    BY ReadSent
  <1>3. \A d \in End, i \in Item : Offers(d, i) => Offers(d, i)'
    BY DEF Offers
  <1>4. \A d \in End, i \in Item, k \in {"inv", "data"} :
            Sent(d, Msg(k, i))' => Sent(d, Msg(k, i)) \/ Offers(d, i)'
    BY <1>1, <1>2
  <1>5. \A d \in End, i \in Item :
            Sent(d, Msg("getdata", i))' => Sent(d, Msg("getdata", i)) \/ Offers(Other(d), i)'
    BY <1>1, <1>2
  <1>6. ASSUME NEW x \in Item, Held(e, x)
        PROVE  Held(e, x)' \/ (x \in orphans'[e] /\ prev_blockhash[x] \in N)
    <2>1. CASE Sent(e, Msg("getdata", x)) \/ Sent(o, Msg("data", x))
      <3>1. \/ Sent(e, Msg("getdata", x))' \/ Sent(o, Msg("data", x))'
            \/ Msg("data", x) = Head(Incoming(e))
        BY <1>2, <2>1
      <3> QED
        BY <3>1 DEF Held
    <2>2. CASE x \in Tx /\ x \in pool[e] \cup skipped[e] \cup skipped[o]
      BY <1>1, <2>2 DEF Held
    <2>3. CASE x \notin Tx /\ x \in known[e] \cup skipped[e]
      BY <2>3 DEF Held
    <2> QED
      BY <1>6, <2>1, <2>2, <2>3 DEF Held
  <1>7. ASSUME NEW x \in Item, Held(o, x)
        PROVE  Held(o, x)'
    <2>1. CASE Sent(o, Msg("getdata", x)) \/ Sent(e, Msg("data", x))
      <3>1. \/ Sent(o, Msg("getdata", x))' \/ Sent(e, Msg("data", x))'
            \/ Msg("getdata", x) = Head(Incoming(e))
        BY <1>2, <2>1
      <3> QED
        BY <1>1, <3>1 DEF Held
    <2>2. CASE x \in Tx /\ x \in pool[o] \cup skipped[o] \cup skipped[e]
      <3>1. x \in pool'[o] \cup skipped'[o] \cup skipped'[e]
        BY <1>1, <2>2
      <3> QED
        BY <1>1, <2>2, <3>1 DEF Held
    <2>3. CASE x \notin Tx /\ x \in known[o] \cup skipped[o]
      BY <1>1, <2>3 DEF Held
    <2> QED
      BY <1>1, <1>7, <2>1, <2>2, <2>3 DEF Held
  <1> QED
    BY <1>3, <1>4, <1>5, <1>6, <1>7, OfferStep

LEMMA ReadVouched ==
    ASSUME OfferInv, Open, TypeOK, NEW e \in End, Take(e), replies[e] = << >>
    PROVE  /\ \A i \in Item, k \in {"inv", "data"} : Head(Incoming(e)) = Msg(k, i) => Offers(Other(e), i)
           /\ \A i \in Item : Head(Incoming(e)) = Msg("getdata", i) => Offers(e, i)
  <1> DEFINE o == Other(e)
  <1>1. o \in End /\ Other(o) = e
    BY OtherEnd
  <1>2. wire[o] \in Seq(Message) /\ wire[o] # << >> /\ Incoming(e) = wire[o]
    BY <1>1 DEF Take, Incoming, TypeOK
  <1>3. Sent(o, Head(Incoming(e)))
    BY <1>2, QueueIn DEF Sent
  <1>4. Vouched(o)
    BY <1>1 DEF OfferInv
  <1> HIDE DEF o
  <1> QED
    BY <1>1, <1>3, <1>4 DEF Vouched, o

LEMMA HandshakeOffers ==
    ASSUME TypeOK, TypeOK', OfferInv, Open, Open', NEW e \in End, ReadHandshake(e)
    PROVE  OfferInv'
  <1> DEFINE m == Head(Incoming(e))
             next == OnMessage(e, m)
  <1>1. next.phase # "closed" /\ ~SelfConnection(e, m)
    BY DEF ReadHandshake, Close, Open, TypeOK
  <1>2. /\ replies' = [replies EXCEPT ![e] = next.out] /\ commands' = commands
        /\ replies[e] = << >> /\ Take(e) /\ UNCHANGED data
    BY <1>1 DEF ReadHandshake, Reading
  <1>3. /\ m.kind \in {"version", "verack"}
        /\ next.out \in {<< >>, << Msg("verack", "none") >>,
                         << Msg("version", nonce[e]), Msg("verack", "none") >>}
    BY <1>1 DEF OnMessage
  <1>4. ASSUME NEW i \in Item, NEW k \in {"inv", "getdata", "data"}
        PROVE  ~In(next.out, Msg(k, i)) /\ m # Msg(k, i)
    <2> DEFINE v == Msg("version", nonce[e])
               a == Msg("verack", "none")
               x == Msg(k, i)
               q == next.out
    <2>1. x # v /\ x # a /\ x.kind = k
      BY DEF Msg
    <2>2. q = << >> \/ q = << a >> \/ q = << v, a >>
      BY <1>3
    <2> HIDE DEF v, a, x, q
    <2>3. ~In(q, x)
      BY <2>1, <2>2, ShortFewer
    <2>4. m # x
      BY <1>3, <2>1
    <2> QED
      BY <2>3, <2>4 DEF q, x
  <1>5. /\ \A d \in End : Rooted(d)' /\ known[d] = known'[d] /\ orphans[d] = orphans'[d]
                          /\ pool'[d] = pool[d] /\ skipped'[d] = skipped[d] /\ offered'[d] = offered[d]
        /\ {} \in SUBSET Item
    BY <1>2 DEF data, OfferInv, Rooted
  <1> DEFINE q == next.out
  <1>6. Other(e) \in End
    BY OtherEnd
  <1>7. replies' = [replies EXCEPT ![e] = q]
    BY <1>2
  <1> HIDE DEF q, next, m
  <1> QED
    BY <1>2, <1>4, <1>5, <1>6, <1>7, ReadOffers DEF q, m

LEMMA GetDataOffers ==
    ASSUME TypeOK, TypeOK', OfferInv, Open, NEW e \in End, NEW i \in Item, ReadGetData(e, i)
    PROVE  OfferInv'
  <1> DEFINE q == IF Holds(e, i) THEN << Msg("data", i) >> ELSE << >>
             o == Other(e)
  <1>1. /\ Take(e) /\ replies[e] = << >> /\ UNCHANGED data /\ commands' = commands
        /\ Head(Incoming(e)) = Msg("getdata", i)
        /\ replies' = [replies EXCEPT ![e] = q]
    BY DEF ReadGetData, ReadItem, Reading
  <1>2. o \in End /\ o # e /\ Other(o) = e
    BY OtherEnd
  <1>3. Offers(e, i)
    BY <1>1, ReadVouched
  <1>4. /\ \A d \in End : Rooted(d)' /\ known[d] = known'[d] /\ orphans[d] = orphans'[d]
                          /\ pool'[d] = pool[d] /\ skipped'[d] = skipped[d] /\ offered'[d] = offered[d]
        /\ {} \in SUBSET Item
    BY <1>1 DEF data, OfferInv, Rooted
  <1>5. Offers(e, i)'
    BY <1>3, <1>4 DEF Offers
  <1>6. \A m : In(q, m) => m = Msg("data", i) /\ Holds(e, i)
    BY ShortFewer
  <1>7. Holds(e, i) => Sent(e, Msg("data", i))'
    <2> SUFFICES ASSUME Holds(e, i) PROVE Sent(e, Msg("data", i))'
      OBVIOUS
    <2>1. replies'[e] = << Msg("data", i) >>
      BY <1>1 DEF TypeOK
    <2> QED
      BY <2>1 DEF Sent, In
  <1>8. Held(o, i)'
    <2>1. CASE Holds(e, i)
      BY <1>2, <1>7, <2>1 DEF Held
    <2>2. CASE ~Holds(e, i)
      BY <1>2, <1>3, <1>4, <2>2 DEF Offers, Holds, HasBlock, Held
    <2> QED
      BY <2>1, <2>2
  <1>9. \A x \in Item : /\ Head(Incoming(e)) # Msg("data", x)
                        /\ Head(Incoming(e)) = Msg("getdata", x) => x = i
    BY <1>1, Messages
  <1>10. \A j \in Item : ~In(q, Msg("getdata", j)) /\ ~In(q, Msg("inv", j))
                         /\ (In(q, Msg("data", j)) => j = i)
    BY <1>6, Messages
  <1> HIDE DEF q, o
  <1> QED
    BY <1>1, <1>2, <1>4, <1>5, <1>8, <1>9, <1>10, ReadOffers DEF o

LEMMA TxOffers ==
    ASSUME TypeOK, TypeOK', OfferInv, Open, NEW e \in End, NEW t \in Tx, ReadTx(e, t)
    PROVE  OfferInv'
  <1>1. /\ Take(e) /\ replies[e] = << >> /\ commands' = commands /\ replies' = replies
        /\ known' = known /\ orphans' = orphans /\ offered' = offered
        /\ Head(Incoming(e)) = Msg("data", t)
        /\ \/ pool' = [pool EXCEPT ![e] = pool[e] \cup {t}] /\ skipped' = skipped
           \/ skipped' = [skipped EXCEPT ![e] = skipped[e] \cup {t}] /\ pool' = pool
    BY DEF ReadTx, ReadItem, Reading
  <1>2. replies' = [replies EXCEPT ![e] = << >>]
    BY <1>1 DEF TypeOK
  <1>3. Other(e) \in End /\ Other(e) # e /\ {} \in SUBSET Item
    BY OtherEnd
  <1>4. /\ \A d \in End : Rooted(d)' /\ known[d] = known'[d] /\ orphans[d] = orphans'[d]
                          /\ pool[d] \subseteq pool'[d] /\ skipped[d] \subseteq skipped'[d]
                          /\ offered'[d] = offered[d]
        /\ skipped'[Other(e)] = skipped[Other(e)]
        /\ t \in pool'[e] \cup skipped'[e]
    <2>1. \A d \in End : Rooted(d)'
      BY <1>1 DEF OfferInv, Rooted
    <2>2. /\ \A d \in End : pool[d] \subseteq pool'[d] /\ skipped[d] \subseteq skipped'[d]
          /\ skipped'[Other(e)] = skipped[Other(e)] /\ t \in pool'[e] \cup skipped'[e]
      <3>1. CASE pool' = [pool EXCEPT ![e] = pool[e] \cup {t}] /\ skipped' = skipped
        BY <3>1 DEF TypeOK
      <3>2. CASE skipped' = [skipped EXCEPT ![e] = skipped[e] \cup {t}] /\ pool' = pool
        BY <1>3, <3>2 DEF TypeOK
      <3> QED
        BY <1>1, <3>1, <3>2
    <2> QED
      BY <1>1, <2>1, <2>2
  <1>5. Held(e, t)'
    BY <1>4 DEF Held
  <1>6. \A x \in Item : /\ Head(Incoming(e)) # Msg("getdata", x)
                        /\ Head(Incoming(e)) = Msg("data", x) => x = t
    BY <1>1, Messages
  <1>7. \A m : ~In(<< >>, m)
    BY ShortFewer
  <1> DEFINE q == << >>
  <1> HIDE DEF q
  <1>8. replies' = [replies EXCEPT ![e] = q] /\ \A m : ~In(q, m)
    BY <1>2, <1>7 DEF q
  <1>9. /\ \A d \in End : Rooted(d)'
        /\ \A d \in End : known[d] \subseteq known'[d]
        /\ \A d \in End : orphans[d] \subseteq orphans'[d] \cup known'[d]
        /\ \A d \in End : pool[d] \subseteq pool'[d] \cup skipped'[d]
        /\ \A d \in End : skipped[d] \cap Tx \subseteq skipped'[d]
        /\ \A x \in skipped[e] : x \in skipped'[e] \/ Held(e, x)'
        /\ offered'[e] \subseteq offered[e] \cup {} /\ offered'[Other(e)] = offered[Other(e)]
        /\ skipped'[Other(e)] = skipped[Other(e)]
    BY <1>3, <1>4
  <1>10. /\ \A x \in Item : Head(Incoming(e)) = Msg("data", x)
                  => Held(e, x)' \/ (x \in orphans'[e] /\ prev_blockhash[x] \in {})
         /\ \A x \in Item : Head(Incoming(e)) = Msg("getdata", x) => Held(Other(e), x)'
         /\ \A x \in {} : Held(e, x)'
    BY <1>5, <1>6
  <1>11. /\ \A i \in Item, k \in {"inv", "data"} : In(q, Msg(k, i)) => Offers(e, i)'
         /\ \A i \in Item : In(q, Msg("getdata", i)) => Offers(Other(e), i)'
    BY <1>8
  <1> QED
    BY <1>1, <1>3, <1>8, <1>9, <1>10, <1>11, ReadOffers

LEMMA InvOffers ==
    ASSUME TypeOK, TypeOK', Caps, OfferInv, Open, NEW e \in End, NEW i \in Item, ReadInv(e, i)
    PROVE  OfferInv'
  <1> DEFINE o == Other(e)
  <1>1. /\ Take(e) /\ replies[e] = << >> /\ commands' = commands /\ Request(e, i)
        /\ Head(Incoming(e)) = Msg("inv", i) /\ pool' = pool
        /\ known' = known /\ orphans' = orphans /\ offered' = [offered EXCEPT ![e] = offered[e] \cup {i}]
    BY DEF ReadInv, ReadItem, Reading
  <1>2. o \in End /\ o # e /\ Other(o) = e /\ {i} \in SUBSET Item
    BY OtherEnd
  <1>3. \E p \in {<< >>, << Msg("getdata", i) >>} : replies' = [replies EXCEPT ![e] = p]
    <2>1. replies' = replies \/ replies' = [replies EXCEPT ![e] = << Msg("getdata", i) >>]
      BY <1>1 DEF Request
    <2>2. replies = [replies EXCEPT ![e] = << >>]
      BY <1>1 DEF TypeOK
    <2> QED
      BY <2>1, <2>2
  <1>4. PICK q \in {<< >>, << Msg("getdata", i) >>} : replies' = [replies EXCEPT ![e] = q]
    BY <1>3
  <1>5. \A m : In(q, m) => m = Msg("getdata", i)
    BY ShortFewer
  <1>6. Offers(o, i)
    BY <1>1, ReadVouched
  <1>7. /\ \A m : Sent(e, m)' <=> Sent(e, m) \/ In(q, m)
        /\ \A m : Sent(o, m) <=> m = Msg("inv", i) \/ Sent(o, m)'
    BY <1>1, <1>4, ReadSent
  <1>8. InFlight(e, i) => InFlight(e, i)'
    <2>1. InFlight(e, i)' <=> Sent(e, Msg("getdata", i))' \/ Sent(o, Msg("data", i))'
      BY DEF InFlight, In, Range, Incoming, Sent
    <2>2. Msg("data", i) # Msg("inv", i)
      BY Messages
    <2> QED
      BY <1>7, <2>1, <2>2, InFlightSent
  <1>9. /\ Held(e, i)' /\ skipped'[o] = skipped[o]
        /\ \A x \in Item : x # i \/ x \in Tx => (x \in skipped[e] => x \in skipped'[e])
    BY <1>1, <1>8, RequestHeld
  <1>10. skipped[e] \subseteq Item /\ \A d \in End : d = e \/ d = o
    BY OtherEnd DEF TypeOK
  <1> HIDE DEF o
  <1>11. /\ \A d \in End : Rooted(d)'
         /\ \A d \in End : known[d] \subseteq known'[d]
         /\ \A d \in End : orphans[d] \subseteq orphans'[d] \cup known'[d]
         /\ \A d \in End : pool[d] \subseteq pool'[d] \cup skipped'[d]
    BY <1>1 DEF OfferInv, Rooted
  <1>12. /\ \A d \in End : skipped[d] \cap Tx \subseteq skipped'[d]
         /\ \A x \in skipped[e] : x \in skipped'[e] \/ Held(e, x)'
    BY <1>9, <1>10
  <1>13. offered'[e] \subseteq offered[e] \cup {i} /\ offered'[o] = offered[o]
    BY <1>1, <1>2 DEF TypeOK
  <1>14. /\ \A j \in Item, k \in {"inv", "data"} : In(q, Msg(k, j)) => Offers(e, j)'
         /\ \A j \in Item : In(q, Msg("getdata", j)) => Offers(o, j)'
    <2>1. Offers(o, i)'
      BY <1>1, <1>6, <1>9 DEF Offers
    <2> QED
      BY <1>5, <2>1, Messages
  <1>15. /\ \A x \in Item : Head(Incoming(e)) # Msg("data", x) /\ Head(Incoming(e)) # Msg("getdata", x)
         /\ \A x \in {i} : Held(e, x)'
    BY <1>1, <1>9, Messages
  <1> QED
    BY <1>1, <1>2, <1>4, <1>9, <1>11, <1>12, <1>13, <1>14, <1>15, ReadOffers DEF o

\* The block is connected, or it is an orphan and its parent is asked for: the
\* peer has the parent, since it had the block in its tree.
LEMMA BlockOffers ==
    ASSUME TypeOK, TypeOK', Caps, OfferInv, Open, NEW e \in End, NEW b \in Block, ReadBlock(e, b)
    PROVE  OfferInv'
  <1> DEFINE o == Other(e)
             p == prev_blockhash[b]
  <1>1. /\ Take(e) /\ replies[e] = << >> /\ commands' = commands /\ pool' = pool /\ offered' = offered
        /\ Head(Incoming(e)) = Msg("data", b) /\ ConnectBlock(e, b)
    BY DEF ReadBlock, ReadItem, Reading
  <1>2. o \in End /\ o # e /\ Other(o) = e /\ b \in Item /\ \A d \in End : d = e \/ d = o
    BY OtherEnd DEF Item
  <1>3. b \notin Tx /\ "genesis" \notin Item
    BY ConversationAssumption
  <1>4. /\ \A d \in End : Rooted(d)
        /\ \A d \in End : Rooted(d)'
        /\ \A d \in End : known[d] \subseteq known'[d]
        /\ \A d \in End : orphans[d] \subseteq orphans'[d] \cup known'[d]
        /\ ConnectResult(e, b) \in {"Connected", "SideChain"} => b \in known'[e]
        /\ ConnectResult(e, b) = "Orphaned" => b \in orphans'[e]
        /\ ConnectResult(e, b) \notin {"Connected", "SideChain", "Orphaned"}
              => b \in known[e] \cup orphans[e]
    BY <1>1, ConnectOffers DEF OfferInv
  <1>5. b \in known[o]
    <2>1. Offers(o, b)
      BY <1>1, <1>2, ReadVouched
    <2> QED
      BY <1>3, <2>1 DEF Offers
  <1>6. \A d \in End : pool[d] \subseteq pool'[d] \cup skipped'[d]
    BY <1>1
  <1>7. \A x \in Item : /\ Head(Incoming(e)) # Msg("getdata", x)
                        /\ Head(Incoming(e)) = Msg("data", x) => x = b
    BY <1>1, Messages
  <1>8. CASE ConnectResult(e, b) = "Orphaned"
    <2>1. Request(e, p)
      BY <1>8 DEF ReadBlock
    <2>2. p \in Block /\ p \in Item /\ p # b /\ {p} \in SUBSET Item
      <3>1. p \in Block
        BY <1>8, ConversationAssumption DEF ConnectResult, ParentKnown
      <3>2. height[b] = height[p] + 1 /\ height[p] \in Nat
        BY <1>3, <3>1, ConversationAssumption DEF Item
      <3> QED
        BY <3>1, <3>2 DEF Item
    <2>3. PICK q \in {<< >>, << Msg("getdata", p) >>} : replies' = [replies EXCEPT ![e] = q]
      <3>1. replies' = replies \/ replies' = [replies EXCEPT ![e] = << Msg("getdata", p) >>]
        BY <2>1 DEF Request
      <3>2. replies = [replies EXCEPT ![e] = << >>]
        BY <1>1 DEF TypeOK
      <3> QED
        BY <3>1, <3>2
    <2> HIDE DEF p
    <2>4. \A m : In(q, m) => m = Msg("getdata", p)
      BY ShortFewer
    <2>5. /\ \A m : Sent(e, m)' <=> Sent(e, m) \/ In(q, m)
          /\ \A m : Sent(o, m) <=> m = Msg("data", b) \/ Sent(o, m)'
      BY <1>1, <2>3, ReadSent
    <2>6. InFlight(e, p) => InFlight(e, p)'
      <3>1. InFlight(e, p)' <=> Sent(e, Msg("getdata", p))' \/ Sent(o, Msg("data", p))'
        BY DEF InFlight, In, Range, Incoming, Sent
      <3>2. Msg("data", b) # Msg("data", p)
        BY <2>2, Messages
      <3> QED
        BY <2>5, <3>1, <3>2, InFlightSent
    <2>7. /\ Held(e, p)' /\ skipped'[o] = skipped[o]
          /\ \A x \in Item : x # p \/ x \in Tx => (x \in skipped[e] => x \in skipped'[e])
      BY <1>1, <1>4, <2>1, <2>2, <2>6, RequestHeld
    <2>8. skipped[e] \subseteq Item
      BY DEF TypeOK
    <2>9. /\ \A d \in End : skipped[d] \cap Tx \subseteq skipped'[d]
          /\ \A x \in skipped[e] : x \in skipped'[e] \/ Held(e, x)'
      BY <1>2, <2>7, <2>8
    <2>10. p \in known[o]
      BY <1>2, <1>3, <1>4, <1>5, <2>2 DEF Rooted, p
    <2>11. Offers(o, p)'
      BY <1>2, <1>4, <2>2, <2>10, ConversationAssumption DEF Offers
    <2>12. /\ \A j \in Item, k \in {"inv", "data"} : In(q, Msg(k, j)) => Offers(e, j)'
           /\ \A j \in Item : In(q, Msg("getdata", j)) => Offers(o, j)'
      BY <2>4, <2>11, Messages
    <2>13. /\ \A x \in {p} : Held(e, x)'
           /\ offered'[e] \subseteq offered[e] \cup {p} /\ offered'[o] = offered[o]
      BY <1>1, <2>7
    <2>14. \A x \in Item : Head(Incoming(e)) = Msg("data", x)
                  => Held(e, x)' \/ (x \in orphans'[e] /\ prev_blockhash[x] \in {p})
      BY <1>4, <1>7, <1>8 DEF p
    <2> HIDE DEF o
    <2> QED
      BY <1>1, <1>4, <1>6, <1>7, <2>2, <2>3, <2>7, <2>9, <2>12, <2>13, <2>14, ReadOffers DEF o
  <1>9. CASE ConnectResult(e, b) # "Orphaned"
    <2>1. replies' = replies /\ \A d \in End : skipped[d] \subseteq skipped'[d]
          /\ skipped'[o] = skipped[o]
      <3>1. /\ replies' = replies
            /\ skipped' = skipped \/ skipped' = [skipped EXCEPT ![e] = skipped[e] \cup ({b} \cap orphans[e])]
        BY <1>9 DEF ReadBlock
      <3>2. CASE skipped' = skipped
        BY <3>1, <3>2
      <3>3. CASE skipped' = [skipped EXCEPT ![e] = skipped[e] \cup ({b} \cap orphans[e])]
        <4>1. \A d \in End : skipped'[d] = IF d = e THEN skipped[e] \cup ({b} \cap orphans[e])
                                           ELSE skipped[d]
          BY <3>3 DEF TypeOK
        <4> QED
          BY <1>2, <3>1, <4>1
      <3> QED
        BY <3>1, <3>2, <3>3
    <2>2. Held(e, b)'
      <3>1. CASE ConnectResult(e, b) \in {"Connected", "SideChain"}
        BY <1>3, <1>4, <3>1 DEF Held
      <3>2. CASE ConnectResult(e, b) \notin {"Connected", "SideChain"}
        <4>1. skipped' = [skipped EXCEPT ![e] = skipped[e] \cup ({b} \cap orphans[e])]
          BY <1>9, <3>2 DEF ReadBlock
        <4>2. b \in known'[e] \cup skipped'[e]
          BY <1>4, <1>9, <3>2, <4>1 DEF TypeOK
        <4> QED
          BY <1>3, <4>2 DEF Held
      <3> QED
        BY <3>1, <3>2
    <2>3. PICK q : q = << >>
      OBVIOUS
    <2>4. replies' = [replies EXCEPT ![e] = q] /\ \A m : ~In(q, m)
      BY <1>1, <2>1, <2>3, ShortFewer DEF TypeOK
    <2>5. /\ \A j \in Item, k \in {"inv", "data"} : In(q, Msg(k, j)) => Offers(e, j)'
          /\ \A j \in Item : In(q, Msg("getdata", j)) => Offers(o, j)'
      BY <2>4
    <2>6. /\ \A d \in End : skipped[d] \cap Tx \subseteq skipped'[d]
          /\ \A x \in skipped[e] : x \in skipped'[e] \/ Held(e, x)'
      BY <2>1
    <2>7. /\ {} \in SUBSET Item /\ \A x \in {} : Held(e, x)'
          /\ offered'[e] \subseteq offered[e] \cup {} /\ offered'[o] = offered[o]
      BY <1>1
    <2>8. \A x \in Item : Head(Incoming(e)) = Msg("data", x)
                  => Held(e, x)' \/ (x \in orphans'[e] /\ prev_blockhash[x] \in {})
      BY <1>7, <2>2
    <2> HIDE DEF o
    <2> QED
      BY <1>1, <1>4, <1>6, <1>7, <2>1, <2>4, <2>5, <2>6, <2>7, <2>8, ReadOffers DEF o
  <1> QED
    BY <1>8, <1>9

\* A closed end stays closed.
LEMMA OpenBefore ==
    ASSUME TypeOK, [Next]_vars, Open'
    PROVE  Open
  <1>1. ASSUME NEW d \in End, phase[d] = "closed"
        PROVE  phase'[d] = "closed"
    <2>1. CASE phase' = phase
      BY <1>1, <2>1
    <2>2. CASE phase' # phase
      <3>1. PICK e \in End : \/ SendFails(e) \/ ReadFails(e) \/ HandshakeTimeout(e) \/ Shutdown(e)
                             \/ ReadHandshake(e)
        BY <2>2 DEF Next, TaskStep, Send, ReadInv, ReadGetData, ReadTx, ReadBlock, ReadItem, Learn,
                    TakeCommand, DropTx, Lapse, vars
      <3>2. CASE ReadHandshake(e)
        <4>1. /\ phase[e] # "closed"
              /\ \E v : phase' = [phase EXCEPT ![e] = v]
          BY <3>2 DEF ReadHandshake, Reading, Close
        <4> QED
          BY <1>1, <4>1 DEF TypeOK
      <3>3. CASE ~ReadHandshake(e)
        <4>1. phase' = [phase EXCEPT ![e] = "closed"]
          BY <3>1, <3>3 DEF SendFails, ReadFails, HandshakeTimeout, Shutdown, Close
        <4> QED
          BY <1>1, <4>1 DEF TypeOK
      <3> QED
        BY <3>2, <3>3
    <2> QED
      BY <2>1, <2>2
  <1> QED
    BY <1>1 DEF Open

LEMMA NextRooted ==
    ASSUME TypeOK, [Next]_vars, \A d \in End : Rooted(d)
    PROVE  \A d \in End : Rooted(d)'
  <1>1. CASE known' = known
    BY <1>1 DEF Rooted
  <1>2. ASSUME NEW e \in End, NEW b \in Block, ConnectBlock(e, b)
        PROVE  \A d \in End : Rooted(d)'
    BY <1>2, ConnectOffers
  <1>3. ASSUME NEW e \in End, NEW b \in Block, ReadBlock(e, b)
        PROVE  \A d \in End : Rooted(d)'
    BY <1>2, <1>3 DEF ReadBlock
  <1>4. ASSUME NEW e \in End, NEW i \in Item, Learn(e, i)
        PROVE  \A d \in End : Rooted(d)'
    BY <1>1, <1>2, <1>4 DEF Learn, Item
  <1>5. ASSUME NEW e \in End,
               \/ Send(e) \/ SendFails(e) \/ ReadFails(e) \/ ReadHandshake(e) \/ TakeCommand(e)
               \/ HandshakeTimeout(e) \/ Shutdown(e)
               \/ (\E i \in Item : ReadInv(e, i) \/ ReadGetData(e, i) \/ Lapse(e, i))
               \/ \E t \in Tx : DropTx(e, t) \/ ReadTx(e, t)
        PROVE  known' = known
    BY <1>5 DEF Send, SendFails, ReadFails, ReadHandshake, TakeCommand, HandshakeTimeout, Shutdown,
                ReadInv, ReadGetData, Lapse, DropTx, ReadTx, data
  <1>6. CASE UNCHANGED vars
    BY <1>1, <1>6 DEF vars
  <1> QED
    BY <1>1, <1>3, <1>4, <1>5, <1>6 DEF Next, TaskStep

LEMMA NextOffers ==
    ASSUME TypeOK, TypeOK', Caps, OfferInv, [Next]_vars
    PROVE  OfferInv'
  <1>1. \A d \in End : Rooted(d)'
    BY NextRooted DEF OfferInv
  <1> SUFFICES ASSUME Open' PROVE OfferInv'
    BY <1>1 DEF OfferInv
  <1>2. Open
    BY OpenBefore
  <1>3. ASSUME NEW e \in End, Close(e, "OutboundQueueFull") \/ Close(e, "ConnectionClosed")
                              \/ Close(e, "HandshakeTimeout") \/ Close(e, "stopped")
        PROVE  FALSE
    BY <1>3 DEF Close, Open, TypeOK
  <1>4. CASE UNCHANGED vars
    BY <1>4 DEF vars, OfferInv, Rooted, Open, Vouched, Accounted, Sent, Held, Offers
  <1>5. ASSUME NEW e \in End, Send(e)
        PROVE  OfferInv'
    BY <1>1, <1>2, <1>5, SendSent, QuietOffers DEF Send, data
  <1>6. ASSUME NEW e \in End, NEW t \in Tx, DropTx(e, t)
        PROVE  OfferInv'
    <2>1. /\ UNCHANGED << replies, wire, commands, known, orphans, offered >>
          /\ pool' = [pool EXCEPT ![e] = pool[e] \ {t}]
          /\ skipped' = [skipped EXCEPT ![e] = skipped[e] \cup {t}]
      BY <1>6 DEF DropTx
    <2>2. /\ \A d \in End : skipped[d] \subseteq skipped'[d]
          /\ \A d \in End : pool[d] \subseteq pool'[d] \cup skipped'[d]
      BY <2>1 DEF TypeOK
    <2>3. \A d \in End : \A m : Sent(d, m)' <=> Sent(d, m)
      BY <2>1 DEF Sent
    <2> QED
      BY <1>1, <1>2, <2>1, <2>2, <2>3, QuietOffers
  <1>7. ASSUME NEW e \in End, NEW i \in Item, Lapse(e, i)
        PROVE  OfferInv'
    <2>1. UNCHANGED << replies, wire, commands, known, orphans, offered, pool, skipped >>
      BY <1>7 DEF Lapse
    <2>2. \A d \in End : \A m : Sent(d, m)' <=> Sent(d, m)
      BY <2>1 DEF Sent
    <2> QED
      BY <1>1, <1>2, <2>1, <2>2, QuietOffers
  <1>8. ASSUME NEW e \in End, TaskStep(e)
        PROVE  OfferInv'
    BY <1>2, <1>3, <1>5, <1>8, HandshakeOffers, InvOffers, GetDataOffers, TxOffers, BlockOffers
       DEF TaskStep, SendFails, ReadFails
  <1>9. ASSUME NEW e \in End, HandshakeTimeout(e) \/ Shutdown(e)
        PROVE  FALSE
    BY <1>3, <1>9 DEF HandshakeTimeout, Shutdown
  <1> QED
    BY <1>2, <1>4, <1>6, <1>7, <1>8, <1>9, CommandOffers, LearnOffers DEF Next

\* No announcement is lost, for every tree of blocks, every feed, every capacity of
\* the connection and every cap of the trackers: when both tasks are at rest, each
\* node has what it was offered, or declined it or a block below it, or its branch
\* is stranded.
THEOREM OfferTheorem == Spec => []OfferedIsHeld
  <1>1. Init => TypeOK /\ RequestInv /\ OfferInv
    BY InitTypes, InitRequests, InitOffers
  <1>2. TypeOK /\ RequestInv /\ OfferInv /\ [Next]_vars => (TypeOK /\ RequestInv /\ OfferInv)'
    <2> SUFFICES ASSUME TypeOK, RequestInv, OfferInv, [Next]_vars
                 PROVE  TypeOK' /\ RequestInv' /\ OfferInv'
      OBVIOUS
    <2>1. TypeOK' /\ RequestInv'
      BY NextTypes, NextRequestInv
    <2> QED
      BY <2>1, NextOffers DEF RequestInv
  <1>3. TypeOK /\ RequestInv /\ OfferInv => OfferedIsHeld
    BY OffersShow
  <1> QED
    BY <1>1, <1>2, <1>3, PTL DEF Spec
=============================================================================
