------------------------- MODULE EventJournalProofs -------------------------
(***************************************************************************)
(* Proofs about the journals, for every capacity, every set of readers and  *)
(* every number of events.  The inductive invariant is                      *)
(*   TypeOK, WindowIsSuffix, Delivery, RingOfDisconnections, SyncProgress;  *)
(* the other properties follow from it state by state.                      *)
(***************************************************************************)
EXTENDS EventJournal, TLAPS

\* ExactDelivery is inductive once the start is known not to pass the position.
Delivery ==
    /\ ExactDelivery
    /\ \A r \in Reader : base[r] <= position[r]

\* The disconnected ring is in the order of the events.
RingIncreases ==
    \A i, j \in 1..Len(disconnected) : i < j => disconnected[i] < disconnected[j]

\* The disconnected ring names disconnections only, in order, each at least as
\* old as its distance from the end of the ring says; a disconnection that it
\* does not name is older than the whole ring, and then the ring is full.
RingOfDisconnections ==
    /\ RingIncreases
    /\ Len(disconnected) <= DisconnectedCapacity
    /\ \A k \in 1..Len(disconnected) :
          /\ disconnected[k] \in 1..Len(log)
          /\ log[disconnected[k]] \in Disconnection
          /\ disconnected[k] <= Len(log) - (Len(disconnected) - k)
    /\ \A n \in 1..Len(log) :
          log[n] \in Disconnection =>
            \/ \E k \in 1..Len(disconnected) : disconnected[k] = n
            \/ /\ Len(disconnected) = DisconnectedCapacity
               /\ n < disconnected[1]

\* Up to which sequence number a peer has seen every disconnection, stage by
\* stage of sync_mempool.
SyncProgress ==
    \A p \in Peer :
        /\ stage[p] = "ready" =>
              \A n \in 1..position[p] : log[n] \in Disconnection => n \in recovered[p]
        /\ stage[p] = "lagged" => since[p] = position[p]
        /\ stage[p] \in {"lagged", "jumped"} =>
              /\ since[p] <= Len(log)
              /\ \A n \in 1..since[p] : log[n] \in Disconnection => n \in recovered[p]

IInv ==
    /\ TypeOK
    /\ WindowIsSuffix
    /\ Delivery
    /\ RingOfDisconnections
    /\ SyncProgress

-----------------------------------------------------------------------------
(* The ring                                                                 *)

\* new is ring with x added last; the first drop elements of ring are gone.
Pushed(ring, new, capacity, x, drop) ==
    /\ drop = 1 <=> Len(ring) = capacity
    /\ Len(new) = Len(ring) + 1 - drop
    /\ Len(new) <= capacity
    /\ new[Len(new)] = x
    /\ \A i \in 1..(Len(new) - 1) : new[i] = ring[i + drop]

\* push_back on a ring that is within its capacity: the new element is last,
\* the old ones keep their order, and one is dropped exactly when it was full.
LEMMA PushBackFacts ==
    ASSUME NEW S, NEW ring \in Seq(S), NEW capacity \in Nat \ {0}, NEW x \in S,
           Len(ring) <= capacity,
           NEW new, new = PushBack(ring, capacity, x)
    PROVE  /\ new \in Seq(S)
           /\ \E drop \in {0, 1} : Pushed(ring, new, capacity, x, drop)
  <1>1. CASE Len(ring) = capacity
    <2>1. ring # << >> /\ new = Append(Tail(ring), x)
      BY <1>1 DEF PushBack
    <2>2. /\ Tail(ring) \in Seq(S)
          /\ Len(Tail(ring)) = Len(ring) - 1
          /\ \A i \in 1..(Len(ring) - 1) : Tail(ring)[i] = ring[i + 1]
      BY <2>1
    <2>3. /\ new \in Seq(S)
          /\ Len(new) = Len(ring)
          /\ new[Len(ring)] = x
          /\ \A i \in 1..(Len(ring) - 1) : new[i] = ring[i + 1]
      BY <2>1, <2>2
    <2>4. Pushed(ring, new, capacity, x, 1) BY <1>1, <2>3 DEF Pushed
    <2> QED BY <2>3, <2>4
  <1>2. CASE Len(ring) # capacity
    <2>1. Len(ring) < capacity /\ new = Append(ring, x)
      BY <1>2 DEF PushBack
    <2>2. /\ new \in Seq(S)
          /\ Len(new) = Len(ring) + 1
          /\ new[Len(ring) + 1] = x
          /\ \A i \in 1..Len(ring) : new[i] = ring[i + 0]
      BY <2>1
    <2>3. Pushed(ring, new, capacity, x, 0) BY <1>2, <2>1, <2>2 DEF Pushed
    <2> QED BY <2>2, <2>3
  <1> QED BY <1>1, <1>2

\* The fields of a retained entry.
LEMMA EntryAt ==
    ASSUME WindowIsSuffix
    PROVE  \A i \in 1..Len(entries) :
              LET n == Len(log) - Len(entries) + i
              IN  entries[i].seq = n /\ entries[i].event = log[n]
  <1> TAKE i \in 1..Len(entries)
  <1> DEFINE n == Len(log) - Len(entries) + i
  <1>1. entries[i] = [seq |-> n, event |-> log[n]] BY DEF WindowIsSuffix
  <1> HIDE DEF n
  <1>2. entries[i].seq = n /\ entries[i].event = log[n] BY <1>1
  <1> QED BY <1>2 DEF n

\* What a reader at a position that does not lag is given is exactly the part
\* of the history after its position.
LEMMA EventsAfterFacts ==
    ASSUME TypeOK, WindowIsSuffix, NEW pos \in Nat, pos <= Len(log), ~Lags(pos)
    PROVE  EventsAfter(pos) = { [seq |-> n, event |-> log[n]] : n \in (pos + 1)..Len(log) }
  <1>1. Len(log) \in Nat /\ Len(entries) \in Nat /\ Len(entries) <= Len(log)
    BY JournalAssumption DEF TypeOK, WindowIsSuffix
  <1>2. \A i \in 1..Len(entries) :
           /\ entries[i] = [seq |-> Len(log) - Len(entries) + i,
                            event |-> log[Len(log) - Len(entries) + i]]
           /\ entries[i].seq = Len(log) - Len(entries) + i
    BY DEF WindowIsSuffix
  <1>3. pos >= Len(log) - Len(entries)
    <2>1. CASE entries = << >>
      <3>1. Len(entries) = 0 BY <2>1
      <3>2. Len(log) = 0 BY <3>1, <1>1, JournalAssumption DEF WindowIsSuffix
      <3> QED BY <3>1, <3>2
    <2>2. CASE entries # << >>
      <3>1. Len(entries) >= 1 BY <2>2 DEF TypeOK
      <3>2. 1 \in 1..Len(entries) BY <3>1, <1>1
      <3>3. entries[1].seq = Len(log) - Len(entries) + 1 BY <3>2, <1>2
      <3>4. pos >= entries[1].seq - 1 BY <2>2, <3>3, <1>1 DEF Lags
      <3> QED BY <3>3, <3>4, <1>1
    <2> QED BY <2>1, <2>2
  <1>4. ASSUME NEW n \in (pos + 1)..Len(log)
        PROVE  [seq |-> n, event |-> log[n]] \in EventsAfter(pos)
    <2> DEFINE i == n - (Len(log) - Len(entries))
    <2>1. i \in 1..Len(entries) BY <1>1, <1>3
    <2>2. entries[i] = [seq |-> n, event |-> log[n]] /\ entries[i].seq > pos
      BY <1>1, <1>2, <2>1
    <2> QED BY <2>1, <2>2 DEF EventsAfter
  <1>5. ASSUME NEW x \in EventsAfter(pos)
        PROVE  \E n \in (pos + 1)..Len(log) : x = [seq |-> n, event |-> log[n]]
    <2>1. PICK i \in 1..Len(entries) : entries[i].seq > pos /\ x = entries[i]
      BY DEF EventsAfter
    <2>2. entries[i].seq = Len(log) - Len(entries) + i BY <1>2
    <2>3. Len(log) - Len(entries) + i > pos BY <2>1, <2>2
    <2>4. Len(log) - Len(entries) + i \in (pos + 1)..Len(log)
      BY <1>1, <2>3
    <2> QED BY <1>2, <2>1, <2>4
  <1> QED BY <1>4, <1>5

\* The newest number of the event journal is the number of events ever pushed.
LEMMA LatestIsLength ==
    ASSUME TypeOK, WindowIsSuffix
    PROVE  LatestSeq = Len(log)
  <1>1. Len(log) \in Nat /\ Len(entries) \in Nat
    BY DEF TypeOK
  <1>2. CASE entries = << >>
    <2>1. Len(entries) = 0 BY <1>2
    <2> QED BY <2>1, <1>2, <1>1, JournalAssumption DEF LatestSeq, WindowIsSuffix
  <1>3. CASE entries # << >>
    <2>1. Len(entries) \in 1..Len(entries) BY <1>3, <1>1 DEF TypeOK
    <2>2. entries[Len(entries)] = [seq |-> Len(log), event |-> log[Len(log)]]
      BY <2>1, <1>1 DEF WindowIsSuffix
    <2> QED BY <2>2, <1>3 DEF LatestSeq
  <1> QED BY <1>2, <1>3

\* Recovery that does not fail gives exactly the disconnections after s.
LEMMA BlocksSinceFacts ==
    ASSUME TypeOK, RingOfDisconnections, NEW s \in Nat, ~RecoveryFails(s)
    PROVE  BlocksSince(s) = { n \in (s + 1)..Len(log) : log[n] \in Disconnection }
  <1>1. Len(log) \in Nat /\ Len(disconnected) \in Nat
    BY DEF TypeOK
  <1>2. ASSUME NEW n \in (s + 1)..Len(log), log[n] \in Disconnection
        PROVE  n \in BlocksSince(s)
    <2>1. n \in 1..Len(log) BY <1>1
    <2>2. CASE \E k \in 1..Len(disconnected) : disconnected[k] = n
      BY <2>2 DEF BlocksSince
    <2>3. CASE Len(disconnected) = DisconnectedCapacity /\ n < disconnected[1]
      <3>1. disconnected # << >> /\ 1 \in 1..Len(disconnected)
        BY <2>3, <1>1, JournalAssumption
      <3>2. disconnected[1] \in Nat BY <3>1 DEF TypeOK
      <3> QED BY <3>1, <3>2, <2>3, <1>1 DEF RecoveryFails
    <2> QED BY <1>2, <2>1, <2>2, <2>3 DEF RingOfDisconnections
  <1>3. ASSUME NEW n \in BlocksSince(s)
        PROVE  n \in (s + 1)..Len(log) /\ log[n] \in Disconnection
    BY <1>1 DEF BlocksSince, RingOfDisconnections
  <1> QED BY <1>2, <1>3

-----------------------------------------------------------------------------
(* Each action preserves the invariant                                      *)

\* Both rings hold the history's end after a push, and readers, which do not
\* move, keep what they had been given.
LEMMA PushStep ==
    ASSUME IInv, NEW e \in Event, Push(e)
    PROVE  IInv'
  <1> USE DEF IInv
  <1>1. Len(log) \in Nat /\ Len(entries) \in Nat /\ Len(disconnected) \in Nat
    BY DEF TypeOK
  <1>2. /\ log' \in Seq(Event)
        /\ Len(log') = Len(log) + 1
        /\ log'[Len(log) + 1] = e
        /\ \A n \in 1..Len(log) : log'[n] = log[n]
    BY DEF Push, TypeOK
  <1>3. next_seq = Len(log) + 1 /\ next_seq' = Len(log) + 2
    BY <1>1 DEF Push, WindowIsSuffix
  <1> DEFINE x    == [seq |-> Len(log) + 1, event |-> e]
  <1>4. /\ entries' \in Seq(Entry)
        /\ \E drop \in {0, 1} : Pushed(entries, entries', EventCapacity, x, drop)
    <2>1. entries' = PushBack(entries, EventCapacity, x)
      BY <1>3 DEF Push
    <2>2. x \in Entry /\ entries \in Seq(Entry) /\ Len(entries) <= EventCapacity
      BY <1>1, JournalAssumption DEF TypeOK, Entry, WindowIsSuffix
    <2>3. EventCapacity \in Nat \ {0}
      BY JournalAssumption
    <2> HIDE DEF x
    <2> QED BY <2>1, <2>2, <2>3, PushBackFacts
  <1>5. TypeOK'
    <2>1. disconnected' \in Seq(Nat)
      <3>1. CASE e \in Disconnection
        <4>1. disconnected' = PushBack(disconnected, DisconnectedCapacity, Len(log) + 1)
          BY <3>1, <1>3 DEF Push
        <4>2. /\ disconnected \in Seq(Nat) /\ Len(log) + 1 \in Nat
              /\ Len(disconnected) <= DisconnectedCapacity
              /\ DisconnectedCapacity \in Nat \ {0}
          BY <1>1, JournalAssumption DEF TypeOK, RingOfDisconnections
        <4> QED BY <4>1, <4>2, PushBackFacts
      <3>2. CASE e \notin Disconnection
        BY <3>2 DEF Push, TypeOK
      <3> QED BY <3>1, <3>2
    <2> QED BY <2>1, <1>1, <1>2, <1>3, <1>4 DEF TypeOK, Push
  <1>6. WindowIsSuffix'
    <2>0. PICK drop \in {0, 1} :
              /\ drop = 1 <=> Len(entries) = EventCapacity
              /\ Len(entries') = Len(entries) + 1 - drop
              /\ Len(entries') <= EventCapacity
              /\ entries'[Len(entries')] = x
              /\ \A i \in 1..(Len(entries') - 1) : entries'[i] = entries[i + drop]
      BY <1>4 DEF Pushed
    <2>1. Len(entries) <= Len(log) /\ Len(entries) <= EventCapacity
      BY <1>1, JournalAssumption DEF WindowIsSuffix
    <2>2. Len(entries') = IF Len(log') < EventCapacity THEN Len(log') ELSE EventCapacity
      BY <1>1, <1>2, <2>0, JournalAssumption DEF WindowIsSuffix
    <2>3. ASSUME NEW i \in 1..Len(entries')
          PROVE  LET n == Len(log') - Len(entries') + i
                 IN  entries'[i] = [seq |-> n, event |-> log'[n]]
      <3>1. CASE i = Len(entries')
        BY <3>1, <1>1, <1>2, <2>0
      <3>2. CASE i # Len(entries')
        <4>1. i \in 1..(Len(entries') - 1) /\ i + drop \in 1..Len(entries)
          BY <3>2, <1>1, <2>0, <2>1
        <4> DEFINE n == Len(log) - Len(entries) + (i + drop)
        <4>2. n = Len(log') - Len(entries') + i /\ n \in 1..Len(log)
          BY <4>1, <1>1, <1>2, <2>0, <2>1
        <4>3. entries'[i] = [seq |-> n, event |-> log[n]]
          BY <4>1, <2>0 DEF WindowIsSuffix
        <4> QED BY <4>2, <4>3, <1>2
      <3> QED BY <3>1, <3>2
    <2> QED BY <2>2, <2>3, <1>1, <1>2, <1>3 DEF WindowIsSuffix
  <1>7. Delivery'
    <2>1. UNCHANGED << position, base, delivered >> BY DEF Push
    <2>2. ASSUME NEW r \in Reader
          PROVE  /\ position[r] <= Len(log')
                 /\ base[r] <= position[r]
                 /\ delivered[r] = { [seq |-> n, event |-> log'[n]] :
                                       n \in (base[r] + 1)..position[r] }
      <3>1. position[r] \in Nat /\ base[r] \in Nat
        BY DEF TypeOK
      <3>2. position[r] <= Len(log) /\ base[r] <= position[r]
        BY DEF Delivery, ExactDelivery
      <3>3. \A n \in (base[r] + 1)..position[r] : log'[n] = log[n]
        BY <3>1, <3>2, <1>1, <1>2
      <3> QED BY <3>1, <3>2, <3>3, <1>1, <1>2 DEF Delivery, ExactDelivery
    <2> QED BY <2>1, <2>2 DEF Delivery, ExactDelivery
  <1>8. RingOfDisconnections'
    <2>1. CASE e \notin Disconnection
      <3>1. disconnected' = disconnected BY <2>1 DEF Push
      <3>2. \A k \in 1..Len(disconnected) : disconnected[k] \in Nat
        BY DEF TypeOK
      <3>3. \A n \in 1..Len(log') : log'[n] \in Disconnection => n \in 1..Len(log)
        BY <2>1, <1>1, <1>2
      <3>4. \A k \in 1..Len(disconnected) :
               /\ disconnected[k] \in 1..Len(log')
               /\ log'[disconnected[k]] \in Disconnection
               /\ disconnected[k] <= Len(log') - (Len(disconnected) - k)
        BY <3>2, <1>1, <1>2 DEF RingOfDisconnections
      <3>5. \A n \in 1..Len(log') : log'[n] \in Disconnection =>
               \/ \E k \in 1..Len(disconnected) : disconnected[k] = n
               \/ Len(disconnected) = DisconnectedCapacity /\ n < disconnected[1]
        BY <3>3, <1>2 DEF RingOfDisconnections
      <3> QED BY <3>1, <3>4, <3>5 DEF RingOfDisconnections, RingIncreases
    <2>2. CASE e \in Disconnection
      <3>1. PICK d \in {0, 1} :
            /\ d = 1 <=> Len(disconnected) = DisconnectedCapacity
            /\ Len(disconnected') = Len(disconnected) + 1 - d
            /\ Len(disconnected') <= DisconnectedCapacity
            /\ disconnected'[Len(disconnected')] = Len(log) + 1
            /\ \A i \in 1..(Len(disconnected') - 1) :
                  disconnected'[i] = disconnected[i + d]
        <4>1. disconnected' = PushBack(disconnected, DisconnectedCapacity, Len(log) + 1)
          BY <2>2, <1>3 DEF Push
        <4>2. /\ disconnected \in Seq(Nat) /\ Len(log) + 1 \in Nat
              /\ Len(disconnected) <= DisconnectedCapacity
              /\ DisconnectedCapacity \in Nat \ {0}
          BY <1>1, JournalAssumption DEF TypeOK, RingOfDisconnections
        <4>3. \E d \in {0, 1} : Pushed(disconnected, disconnected',
                                       DisconnectedCapacity, Len(log) + 1, d)
          BY <4>1, <4>2, PushBackFacts
        <4> QED BY <4>3 DEF Pushed
      <3>2. RingIncreases BY DEF RingOfDisconnections
      <3>3. \A k \in 1..Len(disconnected) : disconnected[k] \in Nat BY DEF TypeOK
      <3>4. Len(disconnected') \in Nat /\ Len(disconnected') >= 1
        BY <3>1, <3>2, <1>1, JournalAssumption
      <3>5. ASSUME NEW k \in 1..Len(disconnected')
            PROVE  /\ disconnected'[k] \in 1..Len(log')
                   /\ log'[disconnected'[k]] \in Disconnection
                   /\ disconnected'[k] <= Len(log') - (Len(disconnected') - k)
        <4>1. CASE k = Len(disconnected')
          BY <4>1, <3>1, <3>4, <2>2, <1>1, <1>2
        <4>2. CASE k # Len(disconnected')
          <5>1. k \in 1..(Len(disconnected') - 1) /\ k + d \in 1..Len(disconnected)
            BY <4>2, <3>1, <3>2, <3>4, <1>1
          <5>2. /\ disconnected[k + d] \in 1..Len(log)
                /\ log[disconnected[k + d]] \in Disconnection
                /\ disconnected[k + d] <= Len(log) - (Len(disconnected) - (k + d))
            BY <5>1 DEF RingOfDisconnections
          <5>3. disconnected'[k] = disconnected[k + d]
            BY <5>1, <3>1
          <5> QED BY <5>1, <5>2, <5>3, <3>1, <3>2, <1>1, <1>2
        <4> QED BY <4>1, <4>2
      <3>6. ASSUME NEW n \in 1..Len(log'), log'[n] \in Disconnection
            PROVE  \/ \E k \in 1..Len(disconnected') : disconnected'[k] = n
                   \/ /\ Len(disconnected') = DisconnectedCapacity
                      /\ n < disconnected'[1]
        <4>1. CASE n = Len(log) + 1
          BY <4>1, <3>1, <3>4
        <4>2. CASE n # Len(log) + 1
          <5>1. n \in 1..Len(log) /\ log[n] \in Disconnection
            BY <4>2, <3>6, <1>1, <1>2
          <5>2. CASE \E k \in 1..Len(disconnected) : disconnected[k] = n
            <6>1. PICK k \in 1..Len(disconnected) : disconnected[k] = n
              BY <5>2
            <6>2. CASE k > d
              <7>1. k - d \in 1..(Len(disconnected') - 1)
                BY <6>2, <3>1, <3>2, <3>4, <1>1
              <7>2. (k - d) + d = k OBVIOUS
              <7>3. disconnected'[k - d] = n BY <6>1, <7>1, <7>2, <3>1
              <7> QED BY <7>1, <7>3, <3>4
            <6>3. CASE ~(k > d)
              <7>1. k = 1 /\ d = 1 BY <6>3, <3>2, <1>1
              <7>2. /\ Len(disconnected) = DisconnectedCapacity
                    /\ Len(disconnected') = DisconnectedCapacity
                BY <7>1, <3>1, <3>2, <1>1
              <7>3. CASE DisconnectedCapacity = 1
                BY <7>2, <7>3, <3>1, <5>1, <1>1
              <7>4. CASE DisconnectedCapacity # 1
                <8>1. 1 \in 1..(Len(disconnected') - 1) /\ 2 \in 1..Len(disconnected)
                  BY <7>2, <7>4, JournalAssumption
                <8>2. disconnected'[1] = disconnected[2]
                  BY <8>1, <7>1, <3>1
                <8>3. disconnected[1] < disconnected[2]
                  BY <8>1, <1>1, <3>2 DEF RingIncreases
                <8> QED BY <8>2, <8>3, <7>1, <7>2, <6>1
              <7> QED BY <7>3, <7>4
            <6> QED BY <6>2, <6>3
          <5>3. CASE /\ Len(disconnected) = DisconnectedCapacity
                     /\ n < disconnected[1]
            <6>1. d = 1 /\ Len(disconnected') = DisconnectedCapacity
              BY <5>3, <3>1, <3>2, <3>3, <1>1
            <6>2. CASE DisconnectedCapacity = 1
              BY <6>1, <6>2, <3>1, <5>1, <1>1
            <6>3. CASE DisconnectedCapacity # 1
              <7>1. 1 \in 1..(Len(disconnected') - 1) /\ 2 \in 1..Len(disconnected)
                BY <5>3, <6>1, <6>3, JournalAssumption
              <7>2. disconnected'[1] = disconnected[2]
                BY <7>1, <6>1, <3>1
              <7>3. /\ disconnected[1] < disconnected[2]
                    /\ disconnected[1] \in Nat /\ disconnected[2] \in Nat
                BY <7>1, <1>1, <3>2, <3>3 DEF RingIncreases
              <7> QED BY <7>2, <7>3, <6>1, <5>3
            <6> QED BY <6>2, <6>3
          <5> QED BY <5>1, <5>2, <5>3 DEF RingOfDisconnections
        <4> QED BY <4>1, <4>2
      <3>7. ASSUME NEW i \in 1..Len(disconnected'), NEW j \in 1..Len(disconnected'),
                   i < j
            PROVE  disconnected'[i] < disconnected'[j]
        <4>1. i \in 1..(Len(disconnected') - 1) /\ i + d \in 1..Len(disconnected)
          BY <3>7, <3>1, <3>4, <1>1
        <4>2. disconnected'[i] = disconnected[i + d] /\ disconnected[i + d] <= Len(log)
          BY <4>1, <3>1, <1>1 DEF RingOfDisconnections
        <4>3. CASE j = Len(disconnected')
          BY <4>1, <4>2, <4>3, <3>1, <3>3, <1>1
        <4>4. CASE j # Len(disconnected')
          <5>1. j \in 1..(Len(disconnected') - 1) /\ j + d \in 1..Len(disconnected)
            BY <4>4, <3>1, <3>4, <1>1
          <5>2. disconnected'[j] = disconnected[j + d]
            BY <5>1, <3>1
          <5> QED BY <4>1, <4>2, <5>1, <5>2, <3>2, <3>7 DEF RingIncreases
        <4> QED BY <4>3, <4>4
      <3> QED BY <3>1, <3>5, <3>6, <3>7 DEF RingOfDisconnections, RingIncreases
    <2> QED BY <2>1, <2>2
  <1>9. SyncProgress'
    <2>1. UNCHANGED << position, stage, since, recovered >> BY DEF Push
    <2>2. ASSUME NEW p \in Peer
          PROVE  /\ stage[p] = "ready" =>
                      \A n \in 1..position[p] :
                          log'[n] \in Disconnection => n \in recovered[p]
                 /\ stage[p] = "lagged" => since[p] = position[p]
                 /\ stage[p] \in {"lagged", "jumped"} =>
                      /\ since[p] <= Len(log')
                      /\ \A n \in 1..since[p] :
                            log'[n] \in Disconnection => n \in recovered[p]
      <3>1. position[p] \in Nat /\ since[p] \in Nat /\ position[p] <= Len(log)
        BY DEF TypeOK, Delivery, ExactDelivery, Reader
      <3> QED BY <3>1, <1>1, <1>2 DEF SyncProgress
    <2> QED BY <2>1, <2>2 DEF SyncProgress
  <1> QED BY <1>5, <1>6, <1>7, <1>8, <1>9

\* A successful read brings the reader to the end with nothing missing.
LEMMA ReadDelivers ==
    ASSUME IInv, NEW r \in Reader, Read(r), UNCHANGED << log, base >>
    PROVE  Delivery' /\ position'[r] = Len(log)
  <1> USE DEF IInv
  <1>1. Len(log) \in Nat /\ \A q \in Reader : position[q] \in Nat /\ base[q] \in Nat
    BY DEF TypeOK
  <1>2. /\ position' = [position EXCEPT ![r] = Len(log)]
        /\ delivered' = [delivered EXCEPT ![r] = delivered[r] \cup EventsAfter(position[r])]
    BY LatestIsLength DEF Read
  <1>3. EventsAfter(position[r]) =
          { [seq |-> n, event |-> log[n]] : n \in (position[r] + 1)..Len(log) }
    BY <1>1, EventsAfterFacts DEF Read, Delivery, ExactDelivery
  <1>4. base[r] <= position[r] /\ position[r] <= Len(log)
    BY DEF Delivery, ExactDelivery
  <1>5. \A n : n \in (base[r] + 1)..Len(log) <=>
                 n \in (base[r] + 1)..position[r] \/ n \in (position[r] + 1)..Len(log)
    BY <1>1, <1>4
  <1>6. delivered[r] \cup EventsAfter(position[r]) =
          { [seq |-> n, event |-> log[n]] : n \in (base[r] + 1)..Len(log) }
    BY <1>3, <1>5 DEF Delivery, ExactDelivery
  <1>7. ASSUME NEW q \in Reader
        PROVE  /\ position'[q] <= Len(log)
               /\ base[q] <= position'[q]
               /\ delivered'[q] = { [seq |-> n, event |-> log[n]] :
                                      n \in (base[q] + 1)..position'[q] }
    <2>1. CASE q = r
      <3>1. position'[q] = Len(log) BY <2>1, <1>2 DEF TypeOK
      <3>2. delivered'[q] = delivered[r] \cup EventsAfter(position[r])
        BY <2>1, <1>2 DEF TypeOK
      <3> QED BY <2>1, <3>1, <3>2, <1>1, <1>4, <1>6
    <2>2. CASE q # r
      <3>1. position'[q] = position[q] /\ delivered'[q] = delivered[q]
        BY <2>2, <1>2 DEF TypeOK
      <3> QED BY <3>1 DEF Delivery, ExactDelivery
    <2> QED BY <2>1, <2>2
  <1>8. position'[r] = Len(log) BY <1>2 DEF TypeOK
  <1> QED BY <1>7, <1>8 DEF Delivery, ExactDelivery

\* The types survive every step of a reader.
LEMMA ReaderTypes ==
    ASSUME IInv, NEW r \in Reader, Read(r)
    PROVE  position' \in [Reader -> Nat] /\ delivered' \in [Reader -> SUBSET Entry]
  <1>1. LatestSeq \in Nat BY LatestIsLength DEF IInv, TypeOK
  <1>2. EventsAfter(position[r]) \subseteq Entry BY DEF EventsAfter, IInv, TypeOK
  <1> QED BY <1>1, <1>2 DEF IInv, TypeOK, Read

\* Nothing but the given variables matters to the two ring invariants.
LEMMA RingsUnchanged ==
    ASSUME IInv, UNCHANGED << next_seq, entries, disconnected, log >>
    PROVE  WindowIsSuffix' /\ RingOfDisconnections'
  BY DEF IInv, WindowIsSuffix, RingOfDisconnections, RingIncreases

\* The wallet's drain preserves the invariant.
LEMMA TakeEventsStep ==
    ASSUME IInv, TakeEvents
    PROVE  IInv'
  <1>1. Wallet \in Reader BY DEF Reader
  <1>2. TypeOK' BY <1>1, ReaderTypes DEF TakeEvents, IInv, TypeOK
  <1>3. WindowIsSuffix' /\ RingOfDisconnections'
    BY RingsUnchanged DEF TakeEvents
  <1>4. Delivery' BY <1>1, ReadDelivers DEF TakeEvents
  <1>5. SyncProgress'
    <2>1. \A p \in Peer : position'[p] = position[p]
      BY JournalAssumption DEF TakeEvents, Read, Reader, IInv, TypeOK
    <2> QED BY <2>1 DEF SyncProgress, IInv, TakeEvents
  <1> QED BY <1>2, <1>3, <1>4, <1>5 DEF IInv

\* What collect_events gives a peer names every disconnection it had not read.
LEMMA CollectEventsStep ==
    ASSUME IInv, NEW p \in Peer, CollectEvents(p)
    PROVE  IInv'
  <1> DEFINE new == { x.seq : x \in { y \in EventsAfter(position[p]) :
                                        y.event \in Disconnection } }
  <1>1. p \in Reader BY DEF Reader
  <1>2. new \subseteq Nat
    <2>1. EventsAfter(position[p]) \subseteq Entry BY DEF EventsAfter, IInv, TypeOK
    <2>2. \A x \in Entry : x.seq \in Nat BY DEF Entry
    <2> QED BY <2>1, <2>2
  <1>3. recovered' = [recovered EXCEPT ![p] = recovered[p] \cup new]
    BY DEF CollectEvents
  <1>4. recovered' \in [Peer -> SUBSET Nat]
    BY <1>2, <1>3 DEF IInv, TypeOK
  <1>5. TypeOK'
    BY <1>1, <1>4, ReaderTypes DEF CollectEvents, IInv, TypeOK
  <1>6. WindowIsSuffix' /\ RingOfDisconnections'
    BY RingsUnchanged DEF CollectEvents
  <1>7. Delivery' /\ position'[p] = Len(log)
    BY <1>1, ReadDelivers DEF CollectEvents
  <1>8. SyncProgress'
    <2>1. ASSUME NEW q \in Peer, q # p
          PROVE  position'[q] = position[q] /\ recovered'[q] = recovered[q]
      BY <2>1 DEF CollectEvents, Read, Reader, IInv, TypeOK
    <2>2. recovered'[p] = recovered[p] \cup new
      BY <1>3 DEF IInv, TypeOK
    <2>3. position[p] \in Nat /\ Len(log) \in Nat /\ position[p] <= Len(log)
      BY <1>1 DEF IInv, TypeOK, Delivery, ExactDelivery
    <2>4. EventsAfter(position[p]) =
            { [seq |-> n, event |-> log[n]] : n \in (position[p] + 1)..Len(log) }
      BY <2>3, EventsAfterFacts DEF CollectEvents, Read, IInv
    <2>5. ASSUME NEW n \in 1..Len(log), log[n] \in Disconnection
          PROVE  n \in recovered'[p]
      <3>1. CASE n <= position[p]
        BY <3>1, <2>2, <2>3, <2>5 DEF IInv, SyncProgress, CollectEvents
      <3>2. CASE n > position[p]
        <4> DEFINE x == [seq |-> n, event |-> log[n]]
        <4>1. n \in (position[p] + 1)..Len(log) BY <3>2, <2>3
        <4>2. x \in EventsAfter(position[p]) BY <4>1, <2>4
        <4>3. x.event \in Disconnection /\ x.seq = n BY <2>5
        <4>4. n \in new BY <4>2, <4>3
        <4> QED BY <4>4, <2>2
      <3> QED BY <3>1, <3>2, <2>3
    <2>6. UNCHANGED << stage, since, log >> /\ stage[p] = "ready"
      BY DEF CollectEvents
    <2> HIDE DEF new
    <2> QED BY <1>7, <2>1, <2>5, <2>6 DEF SyncProgress, IInv
  <1> QED BY <1>5, <1>6, <1>7, <1>8 DEF IInv

\* A lag report keeps the old position for the recovery.
LEMMA DetectLagStep ==
    ASSUME IInv, NEW p \in Peer, DetectLag(p)
    PROVE  IInv'
  <1>1. p \in Reader BY DEF Reader
  <1>2. TypeOK' BY <1>1 DEF DetectLag, IInv, TypeOK
  <1>3. WindowIsSuffix' /\ RingOfDisconnections'
    BY RingsUnchanged DEF DetectLag
  <1>4. Delivery' BY DEF DetectLag, IInv, Delivery, ExactDelivery
  <1>5. SyncProgress'
    <2>1. stage'[p] = "lagged" /\ since'[p] = position[p] /\ stage[p] = "ready"
      BY DEF DetectLag, IInv, TypeOK
    <2>2. \A q \in Peer : q # p => stage'[q] = stage[q] /\ since'[q] = since[q]
      BY DEF DetectLag, IInv, TypeOK
    <2>3. position[p] <= Len(log)
      BY <1>1 DEF IInv, Delivery, ExactDelivery
    <2> QED BY <2>1, <2>2, <2>3 DEF SyncProgress, IInv, DetectLag
  <1> QED BY <1>2, <1>3, <1>4, <1>5 DEF IInv

\* A cursor placed at the tail starts a new, empty delivery.
LEMMA TailDelivery ==
    ASSUME IInv, NEW p \in Peer, UNCHANGED log,
           position' = [position EXCEPT ![p] = LatestSeq],
           base' = [base EXCEPT ![p] = LatestSeq],
           delivered' = [delivered EXCEPT ![p] = {}]
    PROVE  /\ Delivery'
           /\ position' \in [Reader -> Nat]
           /\ base' \in [Reader -> Nat]
           /\ delivered' \in [Reader -> SUBSET Entry]
  <1>1. p \in Reader /\ LatestSeq = Len(log) /\ Len(log) \in Nat
    BY LatestIsLength DEF Reader, IInv, TypeOK
  <1>2. /\ position'[p] = Len(log) /\ base'[p] = Len(log) /\ delivered'[p] = {}
        /\ \A q \in Reader : q # p => /\ position'[q] = position[q]
                                      /\ base'[q] = base[q]
                                      /\ delivered'[q] = delivered[q]
    BY <1>1 DEF IInv, TypeOK
  <1>3. (Len(log) + 1)..Len(log) = {} BY <1>1
  <1>4. ASSUME NEW q \in Reader
        PROVE  /\ position'[q] <= Len(log)
               /\ base'[q] <= position'[q]
               /\ delivered'[q] = { [seq |-> n, event |-> log[n]] :
                                      n \in (base'[q] + 1)..position'[q] }
    <2>1. CASE q = p BY <2>1, <1>1, <1>2, <1>3
    <2>2. CASE q # p BY <2>2, <1>2 DEF IInv, Delivery, ExactDelivery
    <2> QED BY <2>1, <2>2
  <1>5. Delivery' BY <1>4 DEF Delivery, ExactDelivery
  <1> QED BY <1>1, <1>5 DEF IInv, TypeOK

\* Moving the cursor to the tail loses nothing recovery will not return.
LEMMA JumpToTailStep ==
    ASSUME IInv, NEW p \in Peer, JumpToTail(p)
    PROVE  IInv'
  <1>1. Delivery' /\ TypeOK'
    BY TailDelivery DEF JumpToTail, IInv, TypeOK
  <1>2. WindowIsSuffix' /\ RingOfDisconnections'
    BY RingsUnchanged DEF JumpToTail
  <1>3. SyncProgress'
    <2>1. stage'[p] = "jumped" /\ stage[p] = "lagged"
      BY DEF JumpToTail, IInv, TypeOK
    <2>2. \A q \in Peer : q # p => stage'[q] = stage[q] /\ position'[q] = position[q]
      BY DEF JumpToTail, IInv, TypeOK, Reader
    <2> QED BY <2>1, <2>2 DEF SyncProgress, IInv, JumpToTail
  <1> QED BY <1>1, <1>2, <1>3 DEF IInv

\* The third lock of sync_mempool closes the gap between since and the end of
\* the history, whatever was disconnected between the locks.
LEMMA RecoverStep ==
    ASSUME IInv, NEW p \in Peer, Recover(p)
    PROVE  IInv'
  <1>1. BlocksSince(since[p]) \subseteq Nat
    BY DEF BlocksSince, IInv, TypeOK
  <1>2. TypeOK' BY <1>1 DEF Recover, IInv, TypeOK
  <1>3. WindowIsSuffix' /\ RingOfDisconnections'
    BY RingsUnchanged DEF Recover
  <1>4. Delivery' BY DEF Recover, IInv, Delivery, ExactDelivery
  <1>5. SyncProgress'
    <2>1. \A q \in Peer : q # p => /\ stage'[q] = stage[q]
                                   /\ since'[q] = since[q]
                                   /\ recovered'[q] = recovered[q]
      BY DEF Recover, IInv, TypeOK
    <2>2. UNCHANGED << position, log >> BY DEF Recover
    <2>3. CASE RecoveryFails(since[p])
      <3>1. stage'[p] = "failed" BY <2>3 DEF Recover, IInv, TypeOK
      <3> QED BY <3>1, <2>1, <2>2 DEF SyncProgress, IInv
    <2>4. CASE ~RecoveryFails(since[p])
      <3>1. /\ stage'[p] = "ready" /\ stage[p] = "jumped"
            /\ recovered'[p] = recovered[p] \cup BlocksSince(since[p])
        BY <2>4 DEF Recover, IInv, TypeOK
      <3>2. since[p] \in Nat /\ position[p] \in Nat /\ Len(log) \in Nat
        BY DEF IInv, TypeOK, Reader
      <3>3. position[p] <= Len(log)
        BY DEF IInv, Delivery, ExactDelivery, Reader
      <3>4. BlocksSince(since[p]) =
              { n \in (since[p] + 1)..Len(log) : log[n] \in Disconnection }
        BY <2>4, <3>2, BlocksSinceFacts DEF IInv
      <3>5. ASSUME NEW n \in 1..position[p], log[n] \in Disconnection
            PROVE  n \in recovered'[p]
        <4>1. CASE n <= since[p]
          BY <4>1, <3>1, <3>2, <3>5 DEF IInv, SyncProgress
        <4>2. CASE n > since[p]
          <5>1. n \in (since[p] + 1)..Len(log) BY <4>2, <3>2, <3>3
          <5> QED BY <5>1, <3>1, <3>4, <3>5
        <4> QED BY <4>1, <4>2, <3>2
      <3> QED BY <3>1, <3>5, <2>1, <2>2 DEF SyncProgress, IInv
    <2> QED BY <2>3, <2>4
  <1> QED BY <1>2, <1>3, <1>4, <1>5 DEF IInv

\* A new connection starts at the tail with nothing to make up for.
LEMMA AttachStep ==
    ASSUME IInv, NEW p \in Peer, Attach(p)
    PROVE  IInv'
  <1>1. LatestSeq = Len(log) /\ Len(log) \in Nat
    BY LatestIsLength DEF IInv, TypeOK
  <1>2. 1..LatestSeq \subseteq Nat BY <1>1
  <1>3. Delivery' /\ TypeOK'
    BY <1>2, TailDelivery DEF Attach, IInv, TypeOK
  <1>4. WindowIsSuffix' /\ RingOfDisconnections'
    BY RingsUnchanged DEF Attach
  <1>5. SyncProgress'
    <2>1. /\ stage'[p] = "ready" /\ recovered'[p] = 1..Len(log)
          /\ position'[p] = Len(log)
      BY <1>1 DEF Attach, IInv, TypeOK, Reader
    <2>2. \A q \in Peer : q # p => /\ stage'[q] = stage[q]
                                   /\ since'[q] = since[q]
                                   /\ position'[q] = position[q]
                                   /\ recovered'[q] = recovered[q]
      BY DEF Attach, IInv, TypeOK, Reader
    <2> QED BY <2>1, <2>2 DEF SyncProgress, IInv, Attach
  <1> QED BY <1>3, <1>4, <1>5 DEF IInv

\* The empty journals satisfy the invariant.
LEMMA InitIInv == Init => IInv
  <1> SUFFICES ASSUME Init PROVE IInv OBVIOUS
  <1>1. TypeOK BY DEF Init, TypeOK
  <1>2. WindowIsSuffix BY JournalAssumption DEF Init, WindowIsSuffix
  <1>3. Delivery BY DEF Init, Delivery, ExactDelivery
  <1>4. RingOfDisconnections
    BY JournalAssumption DEF Init, RingOfDisconnections, RingIncreases
  <1>5. SyncProgress BY DEF Init, SyncProgress, Reader
  <1> QED BY <1>1, <1>2, <1>3, <1>4, <1>5 DEF IInv

-----------------------------------------------------------------------------
(* The theorems                                                             *)

\* The inductive invariant holds in every reachable state of the journals.
THEOREM Invariance == Spec => []IInv
  <1>1. IInv /\ [Next]_vars => IInv'
    <2> SUFFICES ASSUME IInv, [Next]_vars PROVE IInv' OBVIOUS
    <2>1. CASE \E e \in Event : Push(e) BY <2>1, PushStep
    <2>2. CASE TakeEvents BY <2>2, TakeEventsStep
    <2>3. ASSUME NEW p \in Peer,
                 \/ CollectEvents(p) \/ DetectLag(p) \/ JumpToTail(p)
                 \/ Recover(p) \/ Attach(p)
          PROVE  IInv'
      BY <2>3, CollectEventsStep, DetectLagStep, JumpToTailStep, RecoverStep, AttachStep
    <2>4. CASE UNCHANGED vars
      BY <2>4 DEF vars, IInv, TypeOK, WindowIsSuffix, Delivery, ExactDelivery,
                  RingOfDisconnections, RingIncreases, SyncProgress
    <2> QED BY <2>1, <2>2, <2>3, <2>4 DEF Next
  <1> QED BY InitIInv, <1>1, PTL DEF Spec

\* Every variable of the journals keeps its type.
THEOREM TypeCorrect == Spec => []TypeOK
  BY Invariance, PTL DEF IInv

\* The event ring is always the end of the history, with no number missing.
THEOREM WindowTheorem == Spec => []WindowIsSuffix
  BY Invariance, PTL DEF IInv

\* collect_events and take_events give every reader every event between its
\* starting point and its position, exactly once.
THEOREM DeliveryTheorem == Spec => []ExactDelivery
  BY Invariance, PTL DEF IInv, Delivery

\* A reader is told that it lags exactly when an event it has not read is gone.
THEOREM LagTheorem == Spec => []LagMeansLoss
  <1>1. IInv => LagMeansLoss
    <2> SUFFICES ASSUME IInv, NEW r \in Reader
                 PROVE  Lags(position[r]) <=>
                          \E n \in (position[r] + 1)..Len(log) :
                              \A i \in 1..Len(entries) : entries[i].seq # n
      BY DEF LagMeansLoss
    <2>1. /\ Len(log) \in Nat /\ Len(entries) \in Nat /\ position[r] \in Nat
          /\ position[r] <= Len(log) /\ Len(entries) <= Len(log)
      BY JournalAssumption
         DEF IInv, TypeOK, WindowIsSuffix, Delivery, ExactDelivery
    <2>2. \A i \in 1..Len(entries) : entries[i].seq = Len(log) - Len(entries) + i
      BY EntryAt DEF IInv
    <2>3. entries = << >> <=> Len(entries) = 0
      BY DEF IInv, TypeOK
    <2>4. Len(entries) = 0 => Len(log) = 0
      BY <2>1, JournalAssumption DEF IInv, WindowIsSuffix
    <2>5. Lags(position[r]) <=> position[r] < Len(log) - Len(entries)
      <3>1. CASE Len(entries) = 0 BY <3>1, <2>1, <2>3, <2>4 DEF Lags
      <3>2. CASE Len(entries) # 0
        <4>1. 1 \in 1..Len(entries) BY <3>2, <2>1
        <4>2. entries[1].seq = Len(log) - Len(entries) + 1 BY <4>1, <2>2
        <4> QED BY <3>2, <4>2, <2>1, <2>3 DEF Lags
      <3> QED BY <3>1, <3>2
    <2>6. ASSUME position[r] < Len(log) - Len(entries)
          PROVE  \E n \in (position[r] + 1)..Len(log) :
                     \A i \in 1..Len(entries) : entries[i].seq # n
      <3>1. position[r] + 1 \in (position[r] + 1)..Len(log) BY <2>1, <2>6
      <3>2. \A i \in 1..Len(entries) : entries[i].seq # position[r] + 1
        BY <2>1, <2>2, <2>6
      <3> QED BY <3>1, <3>2
    <2>7. ASSUME NEW n \in (position[r] + 1)..Len(log),
                 \A i \in 1..Len(entries) : entries[i].seq # n
          PROVE  position[r] < Len(log) - Len(entries)
      <3> SUFFICES ASSUME position[r] >= Len(log) - Len(entries) PROVE FALSE
        BY <2>1
      <3> DEFINE i == n - (Len(log) - Len(entries))
      <3>1. i \in 1..Len(entries) BY <2>1
      <3>2. Len(log) - Len(entries) + i = n BY <2>1
      <3> QED BY <3>1, <3>2, <2>2, <2>7
    <2> QED BY <2>5, <2>6, <2>7
  <1> QED BY Invariance, <1>1, PTL

\* blocks_since, when it does not fail, gives exactly the blocks disconnected
\* after the number it is asked about.
THEOREM RecoveryTheorem == Spec => []RecoveryIsExact
  <1>1. IInv => RecoveryIsExact
    BY BlocksSinceFacts DEF IInv, RecoveryIsExact, TypeOK
  <1> QED BY Invariance, <1>1, PTL

\* The disconnected journal covers the event journal: this is where the
\* assumption EventCapacity <= DisconnectedCapacity is needed.
THEOREM CoverTheorem == Spec => []BlocksCoverEvents
  <1>1. IInv => BlocksCoverEvents
    <2> SUFFICES ASSUME IInv, NEW i \in 1..Len(entries),
                        entries[i].event \in Disconnection
                 PROVE  \E k \in 1..Len(disconnected) : disconnected[k] = entries[i].seq
      BY DEF BlocksCoverEvents
    <2> DEFINE n == Len(log) - Len(entries) + i
    <2>1. /\ Len(log) \in Nat /\ Len(entries) \in Nat /\ Len(disconnected) \in Nat
          /\ Len(entries) <= Len(log) /\ Len(entries) <= EventCapacity
      BY JournalAssumption DEF IInv, TypeOK, WindowIsSuffix
    <2>2. entries[i].seq = n /\ entries[i].event = log[n]
      BY EntryAt DEF IInv
    <2>3. n \in 1..Len(log) /\ n > Len(log) - EventCapacity
      BY <2>1, JournalAssumption
    <2> HIDE DEF n
    <2>4. ASSUME Len(disconnected) = DisconnectedCapacity, n < disconnected[1]
          PROVE  FALSE
      <3>1. 1 \in 1..Len(disconnected) BY <2>4, JournalAssumption
      <3>2. /\ disconnected[1] \in Nat
            /\ disconnected[1] <= Len(log) - (Len(disconnected) - 1)
        BY <3>1 DEF IInv, TypeOK, RingOfDisconnections
      <3> QED BY <3>2, <2>1, <2>3, <2>4, JournalAssumption
    <2> QED BY <2>2, <2>3, <2>4 DEF IInv, RingOfDisconnections
  <1> QED BY Invariance, <1>1, PTL

\* No peer whose sync_mempool succeeded has missed a disconnection, although
\* its recovery takes three locks with pushes in between.
THEOREM SyncTheorem == Spec => []NoDisconnectMissed
  <1>1. IInv => NoDisconnectMissed BY DEF IInv, SyncProgress, NoDisconnectMissed
  <1> QED BY Invariance, <1>1, PTL
=============================================================================
