--------------------------- MODULE MempoolProofs ---------------------------
(***************************************************************************)
(* Proofs about the pool that peers share, for every tree of blocks, every  *)
(* set of transactions, every number of peers and every limit.  The         *)
(* inductive invariant PInv adds to the properties the order of admission   *)
(* and what accept_tx has established about the candidate that              *)
(* make_room_for makes room for.  LInv adds the types and the sum of the    *)
(* sizes, RInv what a pass of restore_candidates leaves behind.  Sums and   *)
(* sequences are recursive functions; what is needed of them is proved by   *)
(* taking a smallest counterexample.                                        *)
(***************************************************************************)
EXTENDS MempoolSync, FiniteSetTheorems, NaturalsInduction, WellFoundedInduction,
        SequenceTheorems, TLAPS

\* The entries are transactions, numbered below next_seq.
EntriesNumbered ==
    /\ next_seq \in Nat
    /\ DOMAIN entries \subseteq Tx
    /\ \A t \in DOMAIN entries : entries[t] \in Nat /\ entries[t] < next_seq
    /\ lostParent \in BOOLEAN
    /\ current \in BOOLEAN

\* The candidate is new, conflicts with nothing and, unless one of its parents
\* has been evicted for it, spends outputs of the chain and of the entries.
RoomForValid ==
    pc = "room" =>
        /\ candidate \in Tx \ DOMAIN entries
        /\ Spends(candidate) \cap DOMAIN spends = {}
        /\ ~lostParent => ValidForView(candidate, PoolView(Utxo, DOMAIN entries))

PInv ==
    /\ EntriesNumbered
    /\ SpendsExact
    /\ RoomForValid
    /\ PoolMineable

-----------------------------------------------------------------------------
(* Operators                                                                *)

\* Every entry of a mineable pool is valid on the entries before it.
LEMMA MineableMeans ==
    Kept(DOMAIN entries, DOMAIN entries, Utxo) <=>
        \A t \in DOMAIN entries :
            ValidForView(t, PoolView(Utxo, { s \in DOMAIN entries : entries[s] < entries[t] }))
  BY DEF Kept

\* A step that leaves entries and unspent set alone leaves the pool mineable.
LEMMA KeptSame ==
    ASSUME entries' = entries, Utxo' = Utxo, Kept(DOMAIN entries, DOMAIN entries, Utxo)
    PROVE  Kept(DOMAIN entries, DOMAIN entries, Utxo)'
  <1> DEFINE Before(t) == { s \in DOMAIN entries : entries[s] < entries[t] }
  <1>1. ASSUME NEW t \in DOMAIN entries'
        PROVE  ValidForView(t, PoolView(Utxo, Before(t)))'
    <2>1. ValidForView(t, PoolView(Utxo, Before(t)))
      BY MineableMeans
    <2>2. Before(t)' = Before(t)
      OBVIOUS
    <2> HIDE DEF Before
    <2>3. PoolView(Utxo, Before(t))' = PoolView(Utxo, Before(t))
      BY <2>2 DEF PoolView
    <2> QED
      BY <2>1, <2>3 DEF ValidForView
  <1> QED
    BY <1>1 DEF Kept

\* Taking entries out of a view keeps an outpoint none of them creates.
LEMMA ViewShrinks ==
    ASSUME NEW U, NEW E, NEW R, NEW o \in PoolView(U, E),
           \A j \in E \cap R : o \notin outputs[j]
    PROVE  o \in PoolView(U, E \ R)
  BY DEF PoolView

\* Descendants are closed under spending.
LEMMA DescendantsClosed ==
    ASSUME NEW v, NEW r \in Descendants(v) \cup {v}, NEW c \in DOMAIN entries,
           NEW o \in DOMAIN spends, txid_of[o] = r, spends[o] = c
    PROVE  c \in Descendants(v)
  BY DEF Descendants

\* remove_entry keeps the index exact.
LEMMA RemoveKeepsIndex ==
    ASSUME SpendsExact, NEW R, RemoveEntries(R)
    PROVE  /\ SpendsExact'
           /\ DOMAIN entries' = DOMAIN entries \ R
           /\ \A t \in DOMAIN entries' : entries'[t] = entries[t]
           /\ DOMAIN spends' \subseteq DOMAIN spends
  <1>1. /\ DOMAIN entries' = DOMAIN entries \ R
        /\ \A t \in DOMAIN entries' : entries'[t] = entries[t]
    BY DEF RemoveEntries
  <1>2. /\ DOMAIN spends' = { x \in DOMAIN spends : spends[x] \notin R \cap DOMAIN entries }
        /\ \A x \in DOMAIN spends' : spends'[x] = spends[x]
    BY DEF RemoveEntries
  <1>3. \A t \in DOMAIN entries' : \A o \in Spends(t) : o \in DOMAIN spends' /\ spends'[o] = t
    BY <1>1, <1>2 DEF SpendsExact
  <1>4. \A o \in DOMAIN spends' : \E t \in DOMAIN entries' : o \in Spends(t)
    BY <1>1, <1>2 DEF SpendsExact
  <1>5. DOMAIN spends' = UNION { Spends(t) : t \in DOMAIN entries' }
    BY <1>3, <1>4
  <1>6. SpendsExact'
    BY <1>3, <1>5 DEF SpendsExact, Spends
  <1> QED
    BY <1>1, <1>2, <1>6

-----------------------------------------------------------------------------
(* The pool's own steps                                                     *)

\* What a pool step does not touch.
ChainStill == tip' = tip /\ current' = current

\* Nothing but the given variables matters to the invariant.
LEMMA PoolUnchanged ==
    ASSUME PInv, UNCHANGED << poolVars, lostParent >>, ChainStill,
           pc' = "room" => pc = "room" /\ candidate' = candidate
    PROVE  PInv'
  <1>1. Utxo' = Utxo
    BY DEF ChainStill, Utxo
  <1>2. EntriesNumbered'
    BY DEF PInv, EntriesNumbered, poolVars, ChainStill
  <1>3. SpendsExact'
    BY DEF PInv, SpendsExact, poolVars
  <1>5. RoomForValid'
    BY <1>1 DEF PInv, RoomForValid, ValidForView, PoolView, poolVars
  <1>6. PoolMineable'
    <2> SUFFICES ASSUME (current /\ ~lostParent)'
                 PROVE  Kept(DOMAIN entries, DOMAIN entries, Utxo)'
      BY DEF PoolMineable
    <2>1. Kept(DOMAIN entries, DOMAIN entries, Utxo)
      BY DEF PInv, PoolMineable, ChainStill
    <2>2. entries' = entries
      BY DEF poolVars
    <2> QED
      BY <1>1, <2>1, <2>2, KeptSame
  <1> QED
    BY <1>2, <1>3, <1>5, <1>6 DEF PInv

\* accept_tx hands make_room_for a candidate that is new and valid.
LEMMA BeginAcceptStep ==
    ASSUME PInv, NEW t, Admissible(t, Utxo), BeginAccept(t), ChainStill
    PROVE  PInv'
  <1>1. Utxo' = Utxo
    BY DEF ChainStill, Utxo
  <1>2. EntriesNumbered'
    BY DEF auxVars, PInv, EntriesNumbered, BeginAccept, poolVars, ChainStill
  <1>3. SpendsExact'
    BY DEF PInv, SpendsExact, BeginAccept, poolVars
  <1>4. RoomForValid'
    <2>1. candidate' = t /\ entries' = entries /\ spends' = spends
      BY DEF BeginAccept, poolVars
    <2>2. t \in Tx \ DOMAIN entries /\ Spends(t) \cap DOMAIN spends = {}
      BY DEF Admissible, ValidForView
    <2>3. ValidForView(candidate, PoolView(Utxo, DOMAIN entries))'
      BY <1>1, <2>1 DEF Admissible, ValidForView, PoolView
    <2> QED
      BY <2>1, <2>2, <2>3 DEF RoomForValid
  <1>5. PoolMineable'
    <2> SUFFICES ASSUME (current /\ ~lostParent)'
                 PROVE  Kept(DOMAIN entries, DOMAIN entries, Utxo)'
      BY DEF PoolMineable
    <2>1. Kept(DOMAIN entries, DOMAIN entries, Utxo)
      BY DEF auxVars, PInv, PoolMineable, ChainStill, BeginAccept
    <2>2. entries' = entries
      BY DEF poolVars, BeginAccept
    <2> QED
      BY <1>1, <2>1, <2>2, KeptSame
  <1> QED
    BY <1>2, <1>3, <1>4, <1>5 DEF PInv

\* A set of entries that contains the children of its members may leave: what
\* the others spend is still there.
LEMMA RemoveClosedStep ==
    ASSUME PInv, NEW R, RemoveEntries(R), tip' = tip,
           \A c \in DOMAIN entries : (\E o \in Spends(c) : txid_of[o] \in R) => c \in R,
           Kept(DOMAIN entries, DOMAIN entries, Utxo)
    PROVE  Kept(DOMAIN entries, DOMAIN entries, Utxo)'
  <1> DEFINE Before(t) == { s \in DOMAIN entries : entries[s] < entries[t] }
  <1>1. /\ DOMAIN entries' = DOMAIN entries \ R
        /\ \A t \in DOMAIN entries' : entries'[t] = entries[t]
    BY RemoveKeepsIndex DEF PInv
  <1>2. Utxo' = Utxo
    BY DEF Utxo
  <1>3. ASSUME NEW t \in DOMAIN entries'
        PROVE  ValidForView(t, PoolView(Utxo, Before(t)))'
    <2>1. t \in DOMAIN entries /\ t \notin R
      BY <1>1
    <2>2. ValidForView(t, PoolView(Utxo, Before(t)))
      BY <2>1, MineableMeans
    <2>3. Before(t)' = Before(t) \ R
      BY <1>1
    <2>4. ASSUME NEW o \in Spends(t)
          PROVE  o \in PoolView(Utxo, Before(t) \ R)
      <3>1. o \in PoolView(Utxo, Before(t))
        BY <2>2 DEF ValidForView
      <3>2. txid_of[o] \notin R
        BY <2>1
      <3>3. \A j \in Before(t) \cap R : o \notin outputs[j]
        BY <3>2, PoolAssumption DEF PInv, EntriesNumbered
      <3> HIDE DEF Before
      <3> QED
        BY <3>1, <3>3, ViewShrinks
    <2>5. PoolView(Utxo, Before(t) \ R) \subseteq PoolView(Utxo, Before(t))'
      BY <1>1, <1>2, <2>3 DEF PoolView
    <2> HIDE DEF Before
    <2> QED
      BY <2>2, <2>4, <2>5 DEF ValidForView
  <1> QED
    BY <1>3 DEF Kept

\* make_room_for evicts the victim with everything that depends on it.
LEMMA EvictOneStep ==
    ASSUME PInv, EvictOne, ChainStill
    PROVE  PInv'
  <1> DEFINE R == {Victim} \cup Descendants(Victim)
  <1>1. /\ RemoveEntries(R)
        /\ next_seq' = next_seq
        /\ pc = "room" /\ candidate' = candidate
    BY DEF EvictOne, workVars
  <1>2. lostParent' = (lostParent \/ \E o \in Spends(candidate) : txid_of[o] \in R)
    BY DEF EvictOne
  <1>3. \A c \in DOMAIN entries : (\E o \in Spends(c) : txid_of[o] \in R) => c \in R
    <2> SUFFICES ASSUME NEW c \in DOMAIN entries, NEW o \in Spends(c), txid_of[o] \in R
                 PROVE  c \in R
      OBVIOUS
    <2>1. o \in DOMAIN spends /\ spends[o] = c
      BY DEF PInv, SpendsExact
    <2>2. c \in Descendants(Victim)
      BY <2>1, DescendantsClosed
    <2> QED
      BY <2>2
  <1> HIDE DEF R
  <1>4. /\ SpendsExact'
        /\ DOMAIN entries' = DOMAIN entries \ R
        /\ \A t \in DOMAIN entries' : entries'[t] = entries[t]
        /\ DOMAIN spends' \subseteq DOMAIN spends
    BY <1>1, RemoveKeepsIndex DEF PInv
  <1>5. Utxo' = Utxo
    BY DEF ChainStill, Utxo
  <1>6. EntriesNumbered'
    <2>1. lostParent' \in BOOLEAN /\ current' \in BOOLEAN
      BY <1>2 DEF PInv, EntriesNumbered, ChainStill
    <2> QED
      BY <1>1, <1>4, <2>1 DEF PInv, EntriesNumbered
  <1>7. RoomForValid'
    <2>1. candidate \in Tx \ DOMAIN entries' /\ Spends(candidate) \cap DOMAIN spends' = {}
      BY <1>1, <1>4 DEF PInv, RoomForValid
    <2>2. ASSUME ~lostParent'
          PROVE  ValidForView(candidate, PoolView(Utxo, DOMAIN entries))'
      <3>1. ~lostParent /\ \A o \in Spends(candidate) : txid_of[o] \notin R
        BY <1>2, <2>2
      <3>2. ValidForView(candidate, PoolView(Utxo, DOMAIN entries))
        BY <1>1, <3>1 DEF PInv, RoomForValid
      <3>3. ASSUME NEW o \in Spends(candidate)
            PROVE  o \in PoolView(Utxo, DOMAIN entries \ R)
        <4>1. o \in PoolView(Utxo, DOMAIN entries)
          BY <3>2 DEF ValidForView
        <4>2. \A j \in DOMAIN entries \cap R : o \notin outputs[j]
          BY <3>1, PoolAssumption DEF PInv, EntriesNumbered
        <4> QED
          BY <4>1, <4>2, ViewShrinks
      <3>4. PoolView(Utxo, DOMAIN entries \ R) \subseteq PoolView(Utxo, DOMAIN entries)'
        BY <1>4, <1>5 DEF PoolView
      <3>5. Spends(candidate) \subseteq PoolView(Utxo, DOMAIN entries)'
        BY <3>3, <3>4
      <3> QED
        BY <1>1, <3>2, <3>5 DEF ValidForView
    <2> QED
      BY <1>1, <2>1, <2>2 DEF RoomForValid
  <1>8. PoolMineable'
    <2> SUFFICES ASSUME (current /\ ~lostParent)'
                 PROVE  Kept(DOMAIN entries, DOMAIN entries, Utxo)'
      BY DEF PoolMineable
    <2>1. current /\ ~lostParent
      BY <1>2 DEF ChainStill
    <2>2. Kept(DOMAIN entries, DOMAIN entries, Utxo)
      BY <2>1 DEF PInv, PoolMineable
    <2> QED
      BY <1>1, <1>3, <2>2, RemoveClosedStep DEF ChainStill
  <1> QED
    BY <1>4, <1>6, <1>7, <1>8 DEF PInv

\* The new entry comes after all others and is valid on all of them.
LEMMA InsertEntryStep ==
    ASSUME PInv, InsertEntry, ChainStill
    PROVE  PInv'
  <1> DEFINE Before(t) == { s \in DOMAIN entries : entries[s] < entries[t] }
  <1>1. /\ DOMAIN entries' = DOMAIN entries \cup {candidate}
        /\ \A t \in DOMAIN entries : t # candidate => entries'[t] = entries[t]
        /\ entries'[candidate] = next_seq
        /\ next_seq' = next_seq + 1
        /\ lostParent' = lostParent
        /\ pc = "room" /\ pc' # "room"
    BY DEF auxVars, InsertEntry, Accepted
  <1>2. /\ DOMAIN spends' = DOMAIN spends \cup Spends(candidate)
        /\ \A o \in DOMAIN spends' :
              spends'[o] = IF o \in Spends(candidate) THEN candidate ELSE spends[o]
    BY DEF InsertEntry
  <1>3. /\ candidate \in Tx \ DOMAIN entries
        /\ Spends(candidate) \cap DOMAIN spends = {}
        /\ ~lostParent => ValidForView(candidate, PoolView(Utxo, DOMAIN entries))
    BY <1>1 DEF PInv, RoomForValid
  <1>4. Utxo' = Utxo
    BY DEF ChainStill, Utxo
  <1>5. EntriesNumbered'
    <2>1. lostParent' \in BOOLEAN /\ current' \in BOOLEAN
      BY <1>1 DEF PInv, EntriesNumbered, ChainStill
    <2> QED
      BY <1>1, <1>3, <2>1 DEF PInv, EntriesNumbered
  <1>6. SpendsExact'
    <2>1. \A t \in DOMAIN entries' : \A o \in Spends(t) : o \in DOMAIN spends' /\ spends'[o] = t
      BY <1>1, <1>2, <1>3 DEF PInv, SpendsExact
    <2>2. \A o \in DOMAIN spends' : \E t \in DOMAIN entries' : o \in Spends(t)
      BY <1>1, <1>2 DEF PInv, SpendsExact
    <2>3. DOMAIN spends' = UNION { Spends(t) : t \in DOMAIN entries' }
      BY <2>1, <2>2
    <2> QED
      BY <2>1, <2>3 DEF SpendsExact, Spends
  <1>7. RoomForValid'
    BY <1>1 DEF RoomForValid
  <1>8. PoolMineable'
    <2> SUFFICES ASSUME (current /\ ~lostParent)'
                 PROVE  Kept(DOMAIN entries, DOMAIN entries, Utxo)'
      BY DEF PoolMineable
    <2>1. ~lostParent /\ Kept(DOMAIN entries, DOMAIN entries, Utxo)
      BY <1>1 DEF PInv, PoolMineable, ChainStill
    <2>2. ASSUME NEW t \in DOMAIN entries'
          PROVE  ValidForView(t, PoolView(Utxo, Before(t)))'
      <3>1. CASE t \in DOMAIN entries
        <4>1. ValidForView(t, PoolView(Utxo, Before(t)))
          BY <2>1, <3>1, MineableMeans
        <4>2. Before(t)' = Before(t) /\ candidate \notin Before(t)
          BY <1>1, <1>3, <3>1 DEF PInv, EntriesNumbered
        <4>3. \A s \in Before(t) : entries'[s] = entries[s]
          BY <1>1, <4>2
        <4> HIDE DEF Before
        <4>4. PoolView(Utxo, Before(t))' = PoolView(Utxo, Before(t))
          BY <1>4, <4>2, <4>3 DEF PoolView
        <4> QED
          BY <4>1, <4>4 DEF ValidForView
      <3>2. CASE t = candidate
        <4>1. ValidForView(t, PoolView(Utxo, DOMAIN entries))
          BY <1>3, <2>1, <3>2
        <4>2. Before(t)' = DOMAIN entries
          <5>1. entries'[t] = next_seq /\ ~(next_seq < next_seq)
            BY <1>1, <3>2 DEF PInv, EntriesNumbered
          <5>2. \A s \in DOMAIN entries : entries'[s] < next_seq
            BY <1>1, <1>3 DEF PInv, EntriesNumbered
          <5> QED
            BY <1>1, <3>2, <5>1, <5>2
        <4>3. \A s \in DOMAIN entries : entries'[s] = entries[s]
          BY <1>1, <1>3
        <4> HIDE DEF Before
        <4>4. PoolView(Utxo, Before(t))' = PoolView(Utxo, DOMAIN entries)
          BY <1>4, <4>2, <4>3 DEF PoolView
        <4> QED
          BY <4>1, <4>4 DEF ValidForView
      <3> QED
        BY <1>1, <3>1, <3>2
    <2> QED
      BY <2>2 DEF Kept
  <1> QED
    BY <1>5, <1>6, <1>7, <1>8 DEF PInv

\* Revalidation leaves a pool that is valid in its order on the chain as it is.
LEMMA SynchronizeStep ==
    ASSUME PInv, NEW C, NEW D, Synchronize(Utxo, C, D), tip' = tip, current' = TRUE
    PROVE  PInv'
  <1> DEFINE E == DOMAIN entries \ RemovedBy(C)
             Before(t) == { s \in DOMAIN entries : entries[s] < entries[t] }
  <1>1. PICK S \in SUBSET E : Kept(S, E, Utxo) /\ RemoveEntries(DOMAIN entries \ S)
    BY DEF Synchronize
  <1>2. pc' = "restore" /\ lostParent' = FALSE /\ next_seq' = next_seq
    BY DEF Synchronize
  <1>3. /\ SpendsExact'
        /\ DOMAIN entries' = S
        /\ \A t \in S : entries'[t] = entries[t]
    BY <1>1, RemoveKeepsIndex DEF PInv
  <1>4. Utxo' = Utxo
    BY DEF Utxo
  <1>5. EntriesNumbered'
    BY <1>1, <1>2, <1>3 DEF PInv, EntriesNumbered
  <1>6. RoomForValid'
    BY <1>2 DEF RoomForValid
  <1>7. ASSUME NEW t \in DOMAIN entries'
        PROVE  ValidForView(t, PoolView(Utxo, Before(t)))'
    <2> DEFINE Ahead == { s \in S : entries[s] < entries[t] }
    <2>1. ValidForView(t, PoolView(Utxo, Ahead))
      BY <1>1, <1>3 DEF Kept
    <2>2. Before(t)' = Ahead
      BY <1>3
    <2>3. \A s \in Ahead : entries'[s] = entries[s]
      BY <1>3
    <2> HIDE DEF Before, Ahead
    <2>4. PoolView(Utxo, Before(t))' = PoolView(Utxo, Ahead)
      BY <1>4, <2>2, <2>3 DEF PoolView
    <2> QED
      BY <2>1, <2>4 DEF ValidForView
  <1>8. PoolMineable'
    BY <1>7 DEF PoolMineable, Kept
  <1> QED
    BY <1>3, <1>5, <1>6, <1>8 DEF PInv

\* In a mineable pool no entry is stale: no other entry spends what it spends.
LEMMA NothingStale ==
    ASSUME PInv, current /\ ~lostParent, NEW t \in DOMAIN entries
    PROVE  ValidForView(t, PoolView(Utxo, DOMAIN entries \ {t}))
  <1> DEFINE Before == { s \in DOMAIN entries : entries[s] < entries[t] }
  <1>1. ValidForView(t, PoolView(Utxo, Before))
    BY MineableMeans DEF PInv, PoolMineable
  <1>2. Before \subseteq DOMAIN entries \ {t}
    BY DEF PInv, EntriesNumbered
  <1>3. ASSUME NEW o \in Spends(t), NEW s \in DOMAIN entries \ {t}
        PROVE  o \notin Spends(s)
    BY DEF PInv, SpendsExact
  <1> HIDE DEF Before
  <1>4. ASSUME NEW o \in Spends(t)
        PROVE  o \in PoolView(Utxo, DOMAIN entries \ {t})
    <2>1. o \in PoolView(Utxo, Before)
      BY <1>1 DEF ValidForView
    <2>2. o \in OutPoint /\ (o \in Utxo \/ \E j \in Before : o \in outputs[j])
      BY <2>1 DEF PoolView
    <2> QED
      BY <1>2, <1>3, <2>2 DEF PoolView
  <1> QED
    BY <1>1, <1>4 DEF ValidForView

\* serve_transaction removes an entry only when the pool need not be mineable.
LEMMA ServeStaleStep ==
    ASSUME PInv, NEW t, ServeStale(t, Utxo), ChainStill
    PROVE  PInv'
  <1>1. /\ RemoveEntries({t})
        /\ t \in DOMAIN entries
        /\ pc' = "idle" /\ next_seq' = next_seq /\ lostParent' = lostParent
    BY DEF auxVars, ServeStale, workVars
  <1>2. ~(current /\ ~lostParent)
    BY NothingStale DEF ServeStale
  <1>3. /\ SpendsExact'
        /\ DOMAIN entries' = DOMAIN entries \ {t}
        /\ \A u \in DOMAIN entries' : entries'[u] = entries[u]
    BY <1>1, RemoveKeepsIndex DEF PInv
  <1>4. EntriesNumbered'
    <2>1. lostParent' \in BOOLEAN /\ current' \in BOOLEAN
      BY <1>1 DEF PInv, EntriesNumbered, ChainStill
    <2> QED
      BY <1>1, <1>3, <2>1 DEF PInv, EntriesNumbered
  <1>5. RoomForValid'
    BY <1>1 DEF RoomForValid
  <1>6. PoolMineable'
    BY <1>1, <1>2 DEF PoolMineable, ChainStill
  <1> QED
    BY <1>3, <1>4, <1>5, <1>6 DEF PInv

\* A tip move makes the pool outdated and touches nothing else of it.
LEMMA MoveTipStep ==
    ASSUME PInv, NEW p, NEW h, MoveTip(p, h)
    PROVE  PInv'
  <1>1. /\ UNCHANGED << poolVars, lostParent, pc >>
        /\ current' = FALSE
        /\ pc = "idle"
    BY DEF auxVars, MoveTip, workVars
  <1>2. EntriesNumbered'
    BY <1>1 DEF PInv, EntriesNumbered, poolVars
  <1>3. SpendsExact'
    BY <1>1 DEF PInv, SpendsExact, poolVars
  <1>4. RoomForValid'
    BY <1>1 DEF RoomForValid
  <1>5. PoolMineable'
    BY <1>1 DEF PoolMineable
  <1> QED
    BY <1>2, <1>3, <1>4, <1>5 DEF PInv

-----------------------------------------------------------------------------
(* The specification                                                        *)

\* The empty pool on the genesis chain.
LEMMA InitPInv ==
    Init => PInv
  <1> SUFFICES ASSUME Init
               PROVE  PInv
    OBVIOUS
  <1>1. DOMAIN entries = {} /\ DOMAIN spends = {}
    BY DEF Init, PoolInit
  <1> QED
    BY <1>1 DEF Init, PoolInit, PInv, EntriesNumbered, SpendsExact, RoomForValid, PoolMineable, Kept

\* The iterations of an operation on the pool.
LEMMA WorkStep ==
    ASSUME PInv, Work
    PROVE  PInv'
  <1>1. ChainStill
    BY DEF Work, ChainStill
  <1>2. CASE EvictOne
    BY <1>1, <1>2, EvictOneStep
  <1>3. CASE RefuseAtCapacity
    <2>1. UNCHANGED << poolVars, lostParent >> /\ pc' # "room"
      BY <1>3 DEF auxVars, RefuseAtCapacity, NotAccepted
    <2> QED
      BY <1>1, <2>1, PoolUnchanged
  <1>4. CASE InsertEntry
    BY <1>1, <1>4, InsertEntryStep
  <1>5. CASE RestoreNext(Utxo)
    <2>1. CASE Admissible(Head(pending), Utxo) /\ BeginAccept(Head(pending))
      BY <1>1, <2>1, BeginAcceptStep
    <2>2. CASE UNCHANGED << poolVars, lostParent >> /\ pc' = pc /\ pc = "restore"
      BY <1>1, <2>2, PoolUnchanged
    <2> QED
      BY <1>5, <2>1, <2>2 DEF auxVars, RestoreNext
  <1>6. CASE RestorePass
    <2>1. UNCHANGED << poolVars, lostParent >> /\ pc' # "room"
      BY <1>6 DEF RestorePass
    <2> QED
      BY <1>1, <2>1, PoolUnchanged
  <1> QED
    BY <1>2, <1>3, <1>4, <1>5, <1>6 DEF Work, PoolStep

\* Every step keeps the invariant.
LEMMA NextPInv ==
    PInv /\ [Next]_vars => PInv'
  <1> SUFFICES ASSUME PInv, [Next]_vars
               PROVE  PInv'
    OBVIOUS
  <1>1. CASE UNCHANGED vars
    <2>1. UNCHANGED << poolVars, lostParent >> /\ pc' = pc /\ candidate' = candidate /\ ChainStill
      BY <1>1 DEF auxVars, vars, workVars, ChainStill
    <2> QED
      BY <2>1, PoolUnchanged
  <1>2. ASSUME NEW p \in Peer, NEW h \in Hash, MoveTip(p, h)
        PROVE  PInv'
    BY <1>2, MoveTipStep
  <1>3. ASSUME NEW p \in Peer, NEW h \in Hash, FailReorg(p, h)
        PROVE  PInv'
    <2>1. UNCHANGED << poolVars, lostParent >> /\ pc' = pc /\ candidate' = candidate /\ ChainStill
      BY <1>3 DEF auxVars, FailReorg, workVars, ChainStill
    <2> QED
      BY <2>1, PoolUnchanged
  <1>4. ASSUME NEW p \in Peer, SyncStep(p)
        PROVE  PInv'
    <2>1. CASE CollectEvents(p) \/ JumpToTail(p) \/ FailResync(p)
      <3>1. UNCHANGED << poolVars, lostParent >> /\ pc' = pc /\ candidate' = candidate /\ ChainStill
        BY <2>1 DEF auxVars, CollectEvents, JumpToTail, FailResync, workVars, ChainStill
      <3> QED
        BY <3>1, PoolUnchanged
    <2>2. CASE ApplyEvents(p)
      BY <2>2, SynchronizeStep DEF ApplyEvents
    <2>3. CASE Resync(p)
      BY <2>3, SynchronizeStep DEF Resync
    <2> QED
      BY <1>4, <2>1, <2>2, <2>3 DEF SyncStep
  <1>5. ASSUME NEW t \in Tx, HandleTx(t)
        PROVE  PInv'
    <2>1. Admissible(t, Utxo) /\ BeginAccept(t) /\ ChainStill
      BY <1>5 DEF HandleTx, AcceptTx, ChainStill
    <2> QED
      BY <2>1, BeginAcceptStep
  <1>6. ASSUME NEW t \in Tx, HandleGetdata(t)
        PROVE  PInv'
    <2>1. ServeStale(t, Utxo) /\ ChainStill
      BY <1>6 DEF HandleGetdata, ChainStill
    <2> QED
      BY <2>1, ServeStaleStep
  <1>7. CASE Work
    BY <1>7, WorkStep
  <1> QED
    BY <1>1, <1>2, <1>3, <1>4, <1>5, <1>6, <1>7 DEF Next

\* The inductive invariant holds in every behaviour of the pool and its peers.
THEOREM PoolInvariant == Spec => []PInv
  <1> QED
    BY InitPInv, NextPInv, PTL DEF Spec

\* The index spends is exact (check_mempool_conflicts and descendants_of rely
\* on it), for every pool, chain and number of peers.
THEOREM SpendsTheorem == Spec => []SpendsExact
  <1>1. PInv => SpendsExact
    BY DEF PInv
  <1> QED
    BY <1>1, PoolInvariant, PTL

\* From a synchronization to the next tip move the pool could be mined on the
\* active chain in its order of admission, unless making room evicted a parent
\* of the transaction it was made for (revalidate_pool, accept_tx, sync_mempool).
THEOREM MineableTheorem == Spec => []PoolMineable
  <1>1. PInv => PoolMineable
    BY DEF PInv
  <1> QED
    BY <1>1, PoolInvariant, PTL

-----------------------------------------------------------------------------
(* The limit on the number of entries                                       *)

CInv == IsFiniteSet(DOMAIN entries) /\ CountWithinLimit

\* Entries are only taken out, except by InsertEntry.
LEMMA CountShrinks ==
    ASSUME CInv, DOMAIN entries' \subseteq DOMAIN entries
    PROVE  CInv'
  <1>1. /\ IsFiniteSet(DOMAIN entries')
        /\ Cardinality(DOMAIN entries') <= Cardinality(DOMAIN entries)
        /\ Cardinality(DOMAIN entries') \in Nat
        /\ Cardinality(DOMAIN entries) \in Nat
    BY FS_Subset, FS_CardinalityType DEF CInv
  <1> QED
    BY <1>1, PoolAssumption DEF CInv, CountWithinLimit

\* Every step keeps the count within the limit.
LEMMA NextCInv ==
    CInv /\ [Next]_vars => CInv'
  <1> SUFFICES ASSUME CInv, [Next]_vars
               PROVE  CInv'
    OBVIOUS
  <1>1. CASE entries' = entries
    BY <1>1, CountShrinks
  <1>2. ASSUME NEW R, RemoveEntries(R)
        PROVE  CInv'
    BY <1>2, CountShrinks DEF RemoveEntries
  <1>3. CASE InsertEntry
    <2>1. DOMAIN entries' = DOMAIN entries \cup {candidate}
      BY <1>3 DEF InsertEntry
    <2>2. IsFiniteSet(DOMAIN entries') /\ Cardinality(DOMAIN entries') <= Cardinality(DOMAIN entries) + 1
      BY <2>1, FS_AddElement, FS_CardinalityType DEF CInv
    <2>3. ~(Cardinality(DOMAIN entries) + 1 > max_tx_count)
      BY <1>3 DEF InsertEntry, ExceedsWith
    <2> QED
      BY <2>2, <2>3, FS_CardinalityType, PoolAssumption DEF CInv, CountWithinLimit
  <1>4. CASE Work
    <2>1. CASE EvictOne
      BY <1>2, <2>1 DEF EvictOne
    <2>2. CASE RefuseAtCapacity \/ RestoreNext(Utxo) \/ RestorePass
      BY <1>1, <2>2 DEF RefuseAtCapacity, RestoreNext, RestorePass, BeginAccept, poolVars
    <2> QED
      BY <1>3, <1>4, <2>1, <2>2 DEF Work, PoolStep
  <1>5. ASSUME NEW C, NEW D, Synchronize(Utxo, C, D)
        PROVE  CInv'
    BY <1>2, <1>5 DEF Synchronize
  <1>6. ASSUME NEW p \in Peer, SyncStep(p)
        PROVE  CInv'
    <2>1. CASE CollectEvents(p) \/ JumpToTail(p) \/ FailResync(p)
      BY <1>1, <2>1 DEF CollectEvents, JumpToTail, FailResync, poolVars
    <2>2. CASE ApplyEvents(p) \/ Resync(p)
      BY <1>5, <2>2 DEF ApplyEvents, Resync
    <2> QED
      BY <1>6, <2>1, <2>2 DEF SyncStep
  <1>7. ASSUME NEW p \in Peer, NEW h \in Hash, MoveTip(p, h) \/ FailReorg(p, h)
        PROVE  CInv'
    BY <1>1, <1>7 DEF MoveTip, FailReorg, poolVars
  <1>8. ASSUME NEW t \in Tx, HandleTx(t) \/ HandleGetdata(t)
        PROVE  CInv'
    <2>1. CASE HandleTx(t)
      BY <1>1, <2>1 DEF HandleTx, AcceptTx, BeginAccept, poolVars
    <2>2. CASE HandleGetdata(t)
      BY <1>2, <2>2 DEF HandleGetdata, ServeStale
    <2> QED
      BY <1>8, <2>1, <2>2
  <1>9. CASE UNCHANGED vars
    BY <1>1, <1>9 DEF vars, poolVars
  <1> QED
    BY <1>4, <1>6, <1>7, <1>8, <1>9 DEF Next

\* The pool never holds more than max_tx_count transactions, although victims
\* leave with their descendants and disconnected blocks return many at once
\* (make_room_for, restore_candidates).
THEOREM CountTheorem == Spec => []CountWithinLimit
  <1>1. Init => CInv
    <2> SUFFICES ASSUME Init
                 PROVE  CInv
      OBVIOUS
    <2>1. DOMAIN entries = {}
      BY DEF Init, PoolInit
    <2> QED
      BY <2>1, FS_EmptySet, PoolAssumption DEF CInv, CountWithinLimit
  <1>2. CInv => CountWithinLimit
    BY DEF CInv
  <1> QED
    BY <1>1, <1>2, NextCInv, PTL DEF Spec

-----------------------------------------------------------------------------
(* Sequences of events and of transactions                                  *)

\* Every nonempty set of naturals has a least element.
LEMMA Smallest ==
    ASSUME NEW T \in SUBSET Nat, T # {}
    PROVE  \E x \in T : \A y \in T : x <= y
  <1> DEFINE R == { p \in Nat \X Nat : p[1] < p[2] }
  <1>1. IsWellFoundedOn(R, Nat)
    BY NatLessThanWellFounded DEF OpToRel
  <1>2. \E x \in T : \A y \in T : ~(<< y, x >> \in R)
    <2> HIDE DEF R
    <2> QED
      BY <1>1, WFMin
  <1>3. PICK x \in T : \A y \in T : ~(<< y, x >> \in R)
    BY <1>2
  <1>4. ASSUME NEW y \in T
        PROVE  x <= y
    <2>1. x \in Nat /\ y \in Nat /\ << y, x >> \notin R
      BY <1>3
    <2>2. ~(y < x)
      BY <2>1
    <2> QED
      BY <2>1, <2>2
  <1> QED
    BY <1>4

\* u lists what At has picked after each position up to n.
Picks(u, S, s, P, n) ==
    /\ u \in [0..n -> Seq(S)]
    /\ u[0] = << >>
    /\ \A k \in 1..n : u[k] = IF k \in P THEN Append(u[k - 1], s[k]) ELSE u[k - 1]

\* There is such a list.
LEMMA PicksExists ==
    ASSUME NEW S, NEW s \in Seq(S), NEW P, NEW n \in 0..Len(s)
    PROVE  \E u : Picks(u, S, s, P, n)
  <1> DEFINE T == {k \in 0..Len(s) : ~\E u : Picks(u, S, s, P, k)}
  <1> SUFFICES ASSUME T # {}
               PROVE  FALSE
    OBVIOUS
  <1>1. PICK x \in T : \A y \in T : x <= y
    <2>1. T \in SUBSET Nat
      OBVIOUS
    <2> HIDE DEF T
    <2> QED
      BY <2>1, Smallest
  <1>2. CASE x = 0
    <2> DEFINE u == [k \in 0..0 |-> << >>]
    <2>1. u \in [0..0 -> Seq(S)] /\ u[0] = << >>
      OBVIOUS
    <2>2. \A k \in 1..0 : FALSE
      OBVIOUS
    <2> HIDE DEF u
    <2>3. Picks(u, S, s, P, 0)
      BY <2>1, <2>2 DEF Picks
    <2> QED
      BY <1>2, <2>3
  <1>3. CASE x # 0
    <2>1. x - 1 \in 0..Len(s) /\ x \in 1..Len(s) /\ ~(x <= x - 1)
      BY <1>3
    <2>2. PICK u : Picks(u, S, s, P, x - 1)
      BY <1>1, <2>1
    <2> DEFINE g == IF x \in P THEN Append(u[x - 1], s[x]) ELSE u[x - 1]
               v == [k \in 0..x |-> IF k = x THEN g ELSE u[k]]
    <2>3. u[x - 1] \in Seq(S) /\ \A k \in 0..(x - 1) : u[k] \in Seq(S)
      BY <2>1, <2>2 DEF Picks
    <2>4. g \in Seq(S)
      BY <2>1, <2>3
    <2>5. /\ \A k \in 0..x : k # x => k \in 0..(x - 1)
          /\ 0 \in 0..x /\ \A k \in 1..x : k \in 0..x /\ k - 1 \in 0..x /\ k - 1 # x
          /\ \A k \in 1..x : k # x => k \in 1..(x - 1)
      BY <2>1
    <2> HIDE DEF g
    <2>6. v \in [0..x -> Seq(S)]
      BY <2>3, <2>4, <2>5
    <2>7. v[0] = << >>
      BY <1>3, <2>2, <2>5 DEF Picks
    <2>8. ASSUME NEW k \in 1..x
          PROVE  v[k] = IF k \in P THEN Append(v[k - 1], s[k]) ELSE v[k - 1]
      <3>1. v[k - 1] = u[k - 1]
        BY <2>5
      <3>2. CASE k = x
        <4>1. v[k] = g
          BY <2>5, <3>2
        <4> QED
          BY <3>1, <3>2, <4>1 DEF g
      <3>3. CASE k # x
        <4>1. v[k] = u[k]
          BY <2>5, <3>3
        <4> QED
          BY <2>2, <2>5, <3>1, <3>3, <4>1 DEF Picks
      <3> QED
        BY <3>2, <3>3
    <2> HIDE DEF v
    <2>9. Picks(v, S, s, P, x)
      BY <2>6, <2>7, <2>8 DEF Picks
    <2> QED
      BY <2>9
  <1> QED
    BY <1>2, <1>3

\* At gives a sequence of elements of s.
LEMMA AtType ==
    ASSUME NEW S, NEW s \in Seq(S), NEW P
    PROVE  At(s, P) \in Seq(S)
  <1> DEFINE h == Len(s)
             Step(u) == [n \in 0..h |-> IF n = 0 THEN << >>
                                       ELSE IF n \in P THEN Append(u[n - 1], s[n]) ELSE u[n - 1]]
             up == CHOOSE u : u = Step(u)
  <1>1. h \in Nat /\ h \in 0..h /\ 0 \in 0..h
    OBVIOUS
  <1>2. PICK w : Picks(w, S, s, P, h)
    BY <1>1, PicksExists
  <1>3. w = Step(w)
    <2>1. \A n \in 0..h : n = 0 \/ n \in 1..h
      BY <1>1
    <2>2. \A n \in 0..h : w[n] = Step(w)[n]
      BY <1>2, <2>1 DEF Picks
    <2>3. w = [n \in 0..h |-> w[n]]
      BY <1>2 DEF Picks
    <2> QED
      BY <2>2, <2>3
  <1>4. up = Step(up)
    <2> HIDE DEF Step
    <2> QED
      BY <1>3
  <1>5. At(s, P) = up[h]
    BY DEF At
  <1> HIDE DEF up
  <1>6. \A n \in 0..h : up[n] = IF n = 0 THEN << >>
                               ELSE IF n \in P THEN Append(up[n - 1], s[n]) ELSE up[n - 1]
    BY <1>4
  <1> DEFINE T == {n \in 0..h : up[n] \notin Seq(S)}
  <1>7. T = {}
    <2> SUFFICES ASSUME T # {}
                 PROVE  FALSE
      OBVIOUS
    <2>1. T \in SUBSET Nat
      BY <1>1
    <2>2. PICK x \in T : \A y \in T : x <= y
      <3> HIDE DEF T
      <3> QED
        BY <2>1, Smallest
    <2>3. x # 0 /\ x \in 0..h
      <3>1. up[0] = << >> /\ << >> \in Seq(S)
        BY <1>1, <1>6
      <3> QED
        BY <3>1
    <2>4. x - 1 \in 0..h /\ ~(x <= x - 1) /\ x \in 1..Len(s)
      BY <1>1, <2>3
    <2>5. up[x - 1] \in Seq(S) /\ s[x] \in S
      BY <2>2, <2>4
    <2>6. up[x] = IF x \in P THEN Append(up[x - 1], s[x]) ELSE up[x - 1]
      BY <1>6, <2>3
    <2>7. Append(up[x - 1], s[x]) \in Seq(S)
      BY <2>5
    <2>8. up[x] \in Seq(S)
      BY <2>5, <2>6, <2>7, Zenon
    <2> QED
      BY <2>2, <2>8
  <1> QED
    BY <1>1, <1>5, <1>7

\* u lists the concatenations of the first sequences of q, up to n of them.
Joins(u, S, q, n) ==
    /\ u \in [1..n -> Seq(S)]
    /\ n > 0 => u[1] = q[1]
    /\ \A k \in 2..n : u[k] = u[k - 1] \o q[k]

\* There is such a list.
LEMMA JoinsExists ==
    ASSUME NEW S, NEW q \in Seq(Seq(S)), NEW n \in 1..Len(q)
    PROVE  \E u : Joins(u, S, q, n)
  <1> DEFINE T == {k \in 1..Len(q) : ~\E u : Joins(u, S, q, k)}
  <1> SUFFICES ASSUME T # {}
               PROVE  FALSE
    OBVIOUS
  <1>1. PICK x \in T : \A y \in T : x <= y
    <2>1. T \in SUBSET Nat
      OBVIOUS
    <2> HIDE DEF T
    <2> QED
      BY <2>1, Smallest
  <1>2. CASE x = 1
    <2> DEFINE u == [k \in 1..1 |-> q[1]]
    <2>1. u \in [1..1 -> Seq(S)] /\ u[1] = q[1]
      BY <1>2
    <2>2. \A k \in 2..1 : FALSE
      OBVIOUS
    <2> HIDE DEF u
    <2>3. Joins(u, S, q, 1)
      BY <2>1, <2>2 DEF Joins
    <2> QED
      BY <1>2, <2>3
  <1>3. CASE x # 1
    <2>1. x - 1 \in 1..Len(q) /\ x \in 1..Len(q) /\ ~(x <= x - 1) /\ x - 1 > 0
      BY <1>3
    <2>2. PICK u : Joins(u, S, q, x - 1)
      BY <1>1, <2>1
    <2> DEFINE g == u[x - 1] \o q[x]
               v == [k \in 1..x |-> IF k = x THEN g ELSE u[k]]
    <2>3. u[x - 1] \in Seq(S) /\ \A k \in 1..(x - 1) : u[k] \in Seq(S)
      BY <2>1, <2>2 DEF Joins
    <2>4. g \in Seq(S)
      BY <2>1, <2>3
    <2>5. /\ \A k \in 1..x : k # x => k \in 1..(x - 1)
          /\ 1 \in 1..x /\ \A k \in 2..x : k \in 1..x /\ k - 1 \in 1..x /\ k - 1 # x
          /\ \A k \in 2..x : k # x => k \in 2..(x - 1)
      BY <2>1
    <2> HIDE DEF g
    <2>6. v \in [1..x -> Seq(S)]
      BY <2>3, <2>4, <2>5
    <2>7. v[1] = q[1]
      BY <1>3, <2>1, <2>2, <2>5 DEF Joins
    <2>8. ASSUME NEW k \in 2..x
          PROVE  v[k] = v[k - 1] \o q[k]
      <3>1. v[k - 1] = u[k - 1]
        BY <2>5
      <3>2. CASE k = x
        <4>1. v[k] = g
          BY <2>5, <3>2
        <4> QED
          BY <3>1, <3>2, <4>1 DEF g
      <3>3. CASE k # x
        <4>1. v[k] = u[k]
          BY <2>5, <3>3
        <4> QED
          BY <2>2, <2>5, <3>1, <3>3, <4>1 DEF Joins
      <3> QED
        BY <3>2, <3>3
    <2> HIDE DEF v
    <2>9. Joins(v, S, q, x)
      BY <2>6, <2>7, <2>8 DEF Joins
    <2> QED
      BY <2>9
  <1> QED
    BY <1>2, <1>3

\* A concatenation of sequences over S is one.
LEMMA FlattenType ==
    ASSUME NEW S, NEW q \in Seq(Seq(S))
    PROVE  FlattenSeq(q) \in Seq(S)
  <1> DEFINE h == Len(q)
             Step(u) == [i \in 1..h |-> IF i = 1 THEN q[i] ELSE u[i - 1] \o q[i]]
             up == CHOOSE u : u = Step(u)
  <1>1. CASE h = 0
    <2>1. FlattenSeq(q) = q
      BY <1>1 DEF FlattenSeq
    <2>2. q = << >>
      BY <1>1
    <2> QED
      BY <2>1, <2>2
  <1>2. CASE h # 0
    <2>1. h \in Nat /\ h \in 1..h /\ 1 \in 1..h
      BY <1>2
    <2>2. PICK w : Joins(w, S, q, h)
      BY <2>1, JoinsExists
    <2>3. w = Step(w)
      <3>1. \A n \in 1..h : n = 1 \/ n \in 2..h
        BY <2>1
      <3>2. \A n \in 1..h : w[n] = Step(w)[n]
        <4>1. h > 0 /\ \A n \in 2..h : n # 1 /\ n \in 1..h
          BY <2>1
        <4>2. w[1] = q[1] /\ \A n \in 2..h : w[n] = w[n - 1] \o q[n]
          BY <2>2, <4>1 DEF Joins
        <4> QED
          BY <3>1, <4>1, <4>2
      <3>3. w = [n \in 1..h |-> w[n]]
        BY <2>2 DEF Joins
      <3> QED
        BY <3>2, <3>3
    <2>4. up = Step(up)
      <3> HIDE DEF Step
      <3> QED
        BY <2>3
    <2>5. FlattenSeq(q) = up[h]
      BY <1>2 DEF FlattenSeq
    <2> HIDE DEF up
    <2>6. \A n \in 1..h : up[n] = IF n = 1 THEN q[n] ELSE up[n - 1] \o q[n]
      BY <2>4
    <2> DEFINE T == {n \in 1..h : up[n] \notin Seq(S)}
    <2>7. T = {}
      <3> SUFFICES ASSUME T # {}
                   PROVE  FALSE
        OBVIOUS
      <3>1. T \in SUBSET Nat
        BY <2>1
      <3>2. PICK x \in T : \A y \in T : x <= y
        <4> HIDE DEF T
        <4> QED
          BY <3>1, Smallest
      <3>3. x # 1 /\ x \in 1..h
        <4>1. up[1] = q[1] /\ q[1] \in Seq(S)
          BY <2>1, <2>6
        <4> QED
          BY <4>1
      <3>4. x - 1 \in 1..h /\ ~(x <= x - 1)
        BY <2>1, <3>3
      <3>5. up[x - 1] \in Seq(S) /\ q[x] \in Seq(S)
        BY <3>2, <3>4
      <3>6. up[x] = up[x - 1] \o q[x]
        BY <2>6, <3>3
      <3>7. up[x - 1] \o q[x] \in Seq(S)
        BY <3>5
      <3> QED
        BY <3>2, <3>6, <3>7
    <2> QED
      BY <2>1, <2>5, <2>7
  <1> QED
    BY <1>1, <1>2

\* Blocks give sequences of transactions.
LEMMA TxsType ==
    ASSUME NEW bs \in Seq(Hash)
    PROVE  TxsOf(bs) \in Seq(Tx) /\ Candidates(bs) \in Seq(Tx)
  <1>1. [ i \in DOMAIN bs |-> transactions[bs[i]] ] \in Seq(Seq(Tx))
    <2>1. \A i \in DOMAIN bs : transactions[bs[i]] \in Seq(Tx)
      BY SyncAssumption
    <2> QED
      BY <2>1
  <1>2. ASSUME NEW h \in Hash
        PROVE  Payments[h] \in Seq(Tx)
    BY SyncAssumption, AtType DEF Payments
  <1>3. [ i \in DOMAIN bs |-> Payments[bs[i]] ] \in Seq(Seq(Tx))
    BY <1>2
  <1> QED
    BY <1>1, <1>3, FlattenType DEF TxsOf, Candidates

Event == [kind : {"connected", "disconnected"}, hash : Hash]
LogType == Seq(Event)

LEMMA HashesType ==
    ASSUME log \in LogType, NEW P
    PROVE  HashesAt(P) \in Seq(Hash)
  <1> DEFINE hit == At(log, P)
  <1>1. hit \in LogType
    BY AtType DEF LogType
  <1>2. HashesAt(P) = [ i \in DOMAIN hit |-> hit[i].hash ]
    BY DEF HashesAt
  <1> HIDE DEF hit
  <1>3. \A i \in DOMAIN hit : hit[i].hash \in Hash
    <2>1. \A i \in DOMAIN hit : hit[i] \in Event
      BY <1>1 DEF LogType
    <2> QED
      BY <2>1 DEF Event
  <1>4. DOMAIN hit = 1..Len(hit) /\ Len(hit) \in Nat
    BY <1>1 DEF LogType
  <1> QED
    BY <1>2, <1>3, <1>4

\* The events of a reorg extend the history.
LEMMA ReorgType ==
    ASSUME NEW g \in Hash, NEW h \in Hash, NEW n \in Nat, n <= Len(branch[h])
    PROVE  ReorgEvents(g, h, n) \in LogType
  <1> DEFINE c == Common(g, h)
             down == SubSeq(branch[g], c + 1, Len(branch[g]))
             up == SubSeq(branch[h], c + 1, n)
             both == { i \in DOMAIN branch[g] \cap DOMAIN branch[h] : branch[g][i] = branch[h][i] }
             A == [ i \in DOMAIN down |-> [kind |-> "disconnected", hash |-> Reverse(down)[i]] ]
             B == [ i \in DOMAIN up |-> [kind |-> "connected", hash |-> up[i]] ]
  <1>1. branch[g] \in Seq(Hash) /\ branch[h] \in Seq(Hash)
    BY SyncAssumption
  <1>2. c \in Nat
    <2>1. IsFiniteSet(1..Len(branch[g])) /\ both \subseteq 1..Len(branch[g])
      <3>1. DOMAIN branch[g] = 1..Len(branch[g]) /\ Len(branch[g]) \in Nat
        BY <1>1
      <3> QED
        BY <3>1, FS_Interval
    <2>2. IsFiniteSet(both)
      BY <2>1, FS_Subset
    <2> QED
      BY <2>2, FS_CardinalityType DEF Common
  <1>3. ReorgEvents(g, h, n) = A \o B
    BY DEF ReorgEvents
  <1> HIDE DEF c
  <1>4. down \in Seq(Hash)
    BY <1>1, <1>2, SubSeqProperties
  <1>5. up \in Seq(Hash)
    BY <1>1, <1>2, SubSeqProperties
  <1> HIDE DEF down, up
  <1>6. Reverse(down) \in Seq(Hash) /\ Len(Reverse(down)) = Len(down)
    BY <1>4 DEF Reverse
  <1>7. A \in LogType
    BY <1>4, <1>6 DEF Event, LogType
  <1>8. B \in LogType
    <2>1. DOMAIN up = 1..Len(up) /\ Len(up) \in Nat /\ \A i \in DOMAIN up : up[i] \in Hash
      BY <1>5
    <2>2. \A i \in DOMAIN up : [kind |-> "connected", hash |-> up[i]]
                                  \in Event
      BY <2>1 DEF Event
    <2> QED
      BY <2>1, <2>2 DEF LogType
  <1> QED
    BY <1>3, <1>7, <1>8 DEF LogType

-----------------------------------------------------------------------------
(* Sums of sizes                                                            *)

\* The element MapThenSumSet takes out of a set first.
Pick1(s) == CHOOSE x \in s : TRUE

\* u gives the sums of sizes over the sets of P.
Sums(u, P) ==
    u = [ s \in P |-> IF s = {} THEN 0 ELSE size[Pick1(s)] + u[s \ {Pick1(s)}] ]

Small(D, n) == { s \in SUBSET D : Cardinality(s) <= n }

LEMMA BytesIs ==
    ASSUME NEW T
    PROVE  Bytes(T) = (CHOOSE u : Sums(u, SUBSET T))[T]
  BY DEF Bytes, MapThenSumSet, MapThenFoldSet, Sums, Pick1

\* A nonempty finite set loses one element.
LEMMA OneLess ==
    ASSUME NEW s, IsFiniteSet(s), NEW x \in s
    PROVE  /\ IsFiniteSet(s \ {x})
           /\ Cardinality(s \ {x}) = Cardinality(s) - 1
           /\ Cardinality(s) \in Nat \ {0}
  BY FS_RemoveElement, FS_CardinalityType, FS_EmptySet

LEMMA Pick1In ==
    ASSUME NEW s, s # {}
    PROVE  Pick1(s) \in s
  BY DEF Pick1

LEMMA SumsExists ==
    ASSUME NEW D \in SUBSET Tx, IsFiniteSet(D), NEW n \in Nat
    PROVE  \E u : Sums(u, Small(D, n)) /\ \A s \in Small(D, n) : u[s] \in Nat
  <1> DEFINE Good(k) == \E u : Sums(u, Small(D, k)) /\ \A s \in Small(D, k) : u[s] \in Nat
             T == {k \in Nat : ~Good(k)}
  <1> SUFFICES ASSUME T # {}
               PROVE  FALSE
    OBVIOUS
  <1>1. PICK x \in T : \A y \in T : x <= y
    <2>1. T \in SUBSET Nat
      OBVIOUS
    <2> HIDE DEF T
    <2> QED
      BY <2>1, Smallest
  <1>2. ASSUME NEW s \in SUBSET D, s # {}
        PROVE  /\ Pick1(s) \in s /\ Pick1(s) \in Tx
               /\ s \ {Pick1(s)} \in SUBSET D
               /\ Cardinality(s \ {Pick1(s)}) = Cardinality(s) - 1
               /\ Cardinality(s) \in Nat \ {0}
    <2>1. Pick1(s) \in s
      BY <1>2, Pick1In
    <2>2. IsFiniteSet(s)
      BY FS_Subset
    <2> QED
      BY <2>1, <2>2, OneLess
  <1>3. {} \in SUBSET D /\ Cardinality({}) = 0
    BY FS_EmptySet
  <1>4. \A s \in SUBSET D : Cardinality(s) \in Nat
    BY FS_Subset, FS_CardinalityType
  <1>5. CASE x = 0
    <2> DEFINE u == [s \in Small(D, 0) |-> 0]
    <2>1. ASSUME NEW s \in Small(D, 0), s # {}
          PROVE  FALSE
      <3>1. s \in SUBSET D /\ Cardinality(s) <= 0
        BY DEF Small
      <3>2. Cardinality(s) \in Nat \ {0}
        BY <1>2, <2>1, <3>1
      <3> QED
        BY <3>1, <3>2
    <2>2. Sums(u, Small(D, 0))
      BY <2>1 DEF Sums
    <2>3. \A s \in Small(D, 0) : u[s] \in Nat
      OBVIOUS
    <2> HIDE DEF u
    <2> QED
      BY <1>5, <2>2, <2>3
  <1>6. CASE x # 0
    <2>1. x - 1 \in Nat /\ ~(x <= x - 1)
      BY <1>6
    <2>2. PICK u : Sums(u, Small(D, x - 1)) /\ \A s \in Small(D, x - 1) : u[s] \in Nat
      BY <1>1, <2>1
    <2> DEFINE F(s) == IF s = {} THEN 0 ELSE size[Pick1(s)] + u[s \ {Pick1(s)}]
               v == [s \in Small(D, x) |-> F(s)]
    <2>3. ASSUME NEW s \in Small(D, x), s # {}
          PROVE  s \ {Pick1(s)} \in Small(D, x - 1) /\ s \ {Pick1(s)} \in Small(D, x)
      <3>1. s \in SUBSET D /\ Cardinality(s) <= x
        BY DEF Small
      <3> QED
        BY <1>2, <2>3, <3>1 DEF Small
    <2>4. \A s \in Small(D, x - 1) : u[s] = F(s)
      BY <2>2 DEF Sums
    <2>5. ASSUME NEW s \in Small(D, x)
          PROVE  F(s) = IF s = {} THEN 0 ELSE size[Pick1(s)] + v[s \ {Pick1(s)}]
      BY <2>3, <2>4
    <2>6. ASSUME NEW s \in Small(D, x)
          PROVE  F(s) \in Nat
      <3>1. CASE s # {}
        <4>1. u[s \ {Pick1(s)}] \in Nat
          BY <2>2, <2>3, <3>1
        <4>2. size[Pick1(s)] \in Nat
          <5>1. Pick1(s) \in Tx
            BY <1>2, <3>1 DEF Small
          <5> QED
            BY <5>1, PoolAssumption
        <4> QED
          BY <3>1, <4>1, <4>2
      <3> QED
        BY <3>1
    <2> HIDE DEF F
    <2>7. Sums(v, Small(D, x))
      BY <2>5 DEF Sums
    <2>8. \A s \in Small(D, x) : v[s] \in Nat
      BY <2>6
    <2> HIDE DEF v
    <2> QED
      BY <2>7, <2>8
  <1> QED
    BY <1>5, <1>6

\* The sums over all subsets of a finite set of transactions exist.
LEMMA SumsOf ==
    ASSUME NEW D \in SUBSET Tx, IsFiniteSet(D)
    PROVE  Sums(CHOOSE u : Sums(u, SUBSET D), SUBSET D)
  <1>1. Cardinality(D) \in Nat
    BY FS_CardinalityType
  <1>2. Small(D, Cardinality(D)) = SUBSET D
    BY FS_Subset DEF Small
  <1>3. PICK u : Sums(u, Small(D, Cardinality(D)))
    BY <1>1, SumsExists
  <1>4. Sums(u, SUBSET D)
    BY <1>2, <1>3
  <1> QED
    BY <1>4

\* Two tables of sums agree where both are defined.
LEMMA SumsAgree ==
    ASSUME NEW E \in SUBSET Tx, IsFiniteSet(E), NEW D \in SUBSET E,
           NEW u, NEW v, Sums(u, SUBSET D), Sums(v, SUBSET E)
    PROVE  \A s \in SUBSET D : u[s] = v[s] /\ u[s] \in Nat
  <1> DEFINE Bad(s) == ~(u[s] = v[s] /\ u[s] \in Nat)
             T == {k \in Nat : \E s \in SUBSET D : Cardinality(s) = k /\ Bad(s)}
  <1>1. \A s \in SUBSET D : IsFiniteSet(s) /\ Cardinality(s) \in Nat
    BY FS_Subset, FS_CardinalityType
  <1>2. T = {}
    <2> SUFFICES ASSUME T # {}
                 PROVE  FALSE
      OBVIOUS
    <2>1. PICK x \in T : \A y \in T : x <= y
      <3>1. T \in SUBSET Nat
        OBVIOUS
      <3> HIDE DEF T
      <3> QED
        BY <3>1, Smallest
    <2>2. PICK s \in SUBSET D : Cardinality(s) = x /\ Bad(s)
      OBVIOUS
    <2>3. s \in SUBSET E
      OBVIOUS
    <2>4. CASE s = {}
      BY <2>2, <2>3, <2>4 DEF Sums
    <2>5. CASE s # {}
      <3> DEFINE r == s \ {Pick1(s)}
      <3>1. Pick1(s) \in s
        BY <2>5, Pick1In
      <3>2. r \in SUBSET D /\ r \in SUBSET E /\ Cardinality(r) = x - 1 /\ x - 1 \in Nat /\ ~(x <= x - 1)
        BY <1>1, <2>2, <3>1, OneLess
      <3>3. ~Bad(r)
        BY <2>1, <3>2
      <3>4. u[s] = size[Pick1(s)] + u[r] /\ v[s] = size[Pick1(s)] + v[r]
        BY <2>3, <2>5 DEF Sums
      <3>5. size[Pick1(s)] \in Nat
        BY <2>3, <3>1, PoolAssumption
      <3> HIDE DEF r
      <3> QED
        BY <2>2, <3>3, <3>4, <3>5
    <2> QED
      BY <2>4, <2>5
  <1> QED
    BY <1>1, <1>2

LEMMA BytesType ==
    ASSUME NEW D \in SUBSET Tx, IsFiniteSet(D)
    PROVE  Bytes(D) \in Nat
  BY BytesIs, SumsOf, SumsAgree

LEMMA BytesEmpty ==
    Bytes({}) = 0
  <1>1. Sums(CHOOSE u : Sums(u, SUBSET {}), SUBSET {})
    BY SumsOf, FS_EmptySet
  <1> DEFINE w == CHOOSE u : Sums(u, SUBSET {})
  <1>2. Bytes({}) = w[{}]
    BY BytesIs
  <1> HIDE DEF w
  <1> QED
    BY <1>1, <1>2 DEF Sums, w

\* The sum over a set, by the element taken out first.
LEMMA BytesFirst ==
    ASSUME NEW D \in SUBSET Tx, IsFiniteSet(D), D # {}
    PROVE  Bytes(D) = size[Pick1(D)] + Bytes(D \ {Pick1(D)})
  <1> DEFINE w == CHOOSE u : Sums(u, SUBSET D)
             E == D \ {Pick1(D)}
             z == CHOOSE u : Sums(u, SUBSET E)
  <1>1. Pick1(D) \in D /\ E \in SUBSET D /\ E \in SUBSET Tx /\ IsFiniteSet(E)
    BY Pick1In, FS_Subset
  <1>2. Sums(w, SUBSET D)
    BY SumsOf
  <1>3. Sums(z, SUBSET E)
    BY <1>1, SumsOf
  <1>4. Bytes(D) = w[D] /\ Bytes(E) = z[E]
    BY BytesIs
  <1> HIDE DEF w, z
  <1>5. w[D] = size[Pick1(D)] + w[E]
    BY <1>2 DEF Sums
  <1> HIDE DEF E
  <1>6. z[E] = w[E]
    BY <1>1, <1>2, <1>3, SumsAgree
  <1> QED
    BY <1>4, <1>5, <1>6 DEF E

\* The sum over a set, by any of its elements.
LEMMA BytesRemove ==
    ASSUME NEW D \in SUBSET Tx, IsFiniteSet(D), NEW e \in D
    PROVE  Bytes(D) = size[e] + Bytes(D \ {e})
  <1> DEFINE Bad(s, y) == Bytes(s) # size[y] + Bytes(s \ {y})
             T == {k \in Nat : \E s \in SUBSET D : Cardinality(s) = k /\ \E y \in s : Bad(s, y)}
  <1>1. \A s \in SUBSET D : IsFiniteSet(s) /\ Cardinality(s) \in Nat /\ s \in SUBSET Tx
    BY FS_Subset, FS_CardinalityType
  <1>2. T = {}
    <2> SUFFICES ASSUME T # {}
                 PROVE  FALSE
      OBVIOUS
    <2>1. PICK x \in T : \A y \in T : x <= y
      <3>1. T \in SUBSET Nat
        OBVIOUS
      <3> HIDE DEF T
      <3> QED
        BY <3>1, Smallest
    <2>2. PICK s \in SUBSET D : Cardinality(s) = x /\ \E y \in s : Bad(s, y)
      OBVIOUS
    <2>3. PICK y \in s : Bad(s, y)
      BY <2>2
    <2> DEFINE c == Pick1(s)
               both == (s \ {c}) \ {y}
    <2>4. c \in s /\ Bytes(s) = size[c] + Bytes(s \ {c})
      BY <1>1, <2>3, Pick1In, BytesFirst
    <2> HIDE DEF c
    <2>5. y # c
      BY <2>3, <2>4
    <2>6. x - 1 \in Nat /\ ~(x <= x - 1) /\ x - 1 \notin T
      <3>1. x \in Nat \ {0}
        BY <1>1, <2>2, <2>4, OneLess
      <3>2. x - 1 \in Nat /\ ~(x <= x - 1)
        BY <3>1
      <3> HIDE DEF T
      <3> QED
        BY <2>1, <3>2
    <2>7. Bytes(s \ {c}) = size[y] + Bytes(both)
      <3>1. y \in s \ {c} /\ s \ {c} \in SUBSET D /\ Cardinality(s \ {c}) = x - 1
        BY <1>1, <2>2, <2>4, <2>5, OneLess
      <3> QED
        BY <2>6, <3>1
    <2>8. Bytes(s \ {y}) = size[c] + Bytes(both)
      <3>1. c \in s \ {y} /\ s \ {y} \in SUBSET D /\ Cardinality(s \ {y}) = x - 1
        BY <1>1, <2>2, <2>4, <2>5, OneLess
      <3>2. (s \ {y}) \ {c} = both
        OBVIOUS
      <3>3. ~Bad(s \ {y}, c)
        BY <2>6, <3>1
      <3> QED
        BY <3>2, <3>3
    <2>9. size[y] \in Nat /\ size[c] \in Nat /\ Bytes(both) \in Nat
      <3>1. y \in Tx /\ c \in Tx /\ both \in SUBSET D
        BY <2>4
      <3> HIDE DEF both
      <3> QED
        BY <1>1, <3>1, PoolAssumption, BytesType
    <2> HIDE DEF both
    <2> QED
      BY <2>3, <2>4, <2>7, <2>8, <2>9
  <1>3. Cardinality(D) \in Nat /\ Cardinality(D) \notin T
    BY <1>1, <1>2
  <1> QED
    BY <1>3

\* Taking entries out takes their sizes out of the sum.
LEMMA BytesMinus ==
    ASSUME NEW D \in SUBSET Tx, IsFiniteSet(D), NEW G \in SUBSET D
    PROVE  /\ Bytes(D \ G) = Bytes(D) - Bytes(G)
           /\ Bytes(D \ G) \in Nat /\ Bytes(D) \in Nat /\ Bytes(G) \in Nat
  <1> DEFINE Bad(s) == Bytes(D \ s) # Bytes(D) - Bytes(s)
             T == {k \in Nat : \E s \in SUBSET D : Cardinality(s) = k /\ Bad(s)}
  <1>1. \A s \in SUBSET D : /\ IsFiniteSet(s) /\ Cardinality(s) \in Nat /\ s \in SUBSET Tx
                            /\ Bytes(s) \in Nat /\ Bytes(D \ s) \in Nat
    <2>1. \A s \in SUBSET D : IsFiniteSet(s) /\ Cardinality(s) \in Nat /\ s \in SUBSET Tx /\ D \ s \in SUBSET D
      BY FS_Subset, FS_CardinalityType
    <2> QED
      BY <2>1, BytesType
  <1>2. Bytes(D) \in Nat
    BY BytesType
  <1>3. T = {}
    <2> SUFFICES ASSUME T # {}
                 PROVE  FALSE
      OBVIOUS
    <2>1. PICK x \in T : \A y \in T : x <= y
      <3>1. T \in SUBSET Nat
        OBVIOUS
      <3> HIDE DEF T
      <3> QED
        BY <3>1, Smallest
    <2>2. PICK s \in SUBSET D : Cardinality(s) = x /\ Bad(s)
      OBVIOUS
    <2>3. CASE s = {}
      <3>1. D \ s = D
        BY <2>3
      <3> QED
        BY <1>2, <2>2, <2>3, <3>1, BytesEmpty
    <2>4. CASE s # {}
      <3>1. PICK y \in s : TRUE
        BY <2>4
      <3> DEFINE r == s \ {y}
      <3>2. r \in SUBSET D /\ Cardinality(r) = x - 1 /\ x - 1 \in Nat /\ ~(x <= x - 1)
        <4>1. IsFiniteSet(s)
          BY <1>1
        <4>2. Cardinality(r) = Cardinality(s) - 1 /\ Cardinality(s) \in Nat \ {0}
          BY <3>1, <4>1, OneLess
        <4> QED
          BY <2>2, <4>2
      <3>3. ~Bad(r)
        BY <2>1, <3>2
      <3>4. Bytes(s) = size[y] + Bytes(r)
        BY <1>1, BytesRemove
      <3>5. Bytes(D \ r) = size[y] + Bytes(D \ s)
        <4>1. y \in D \ r /\ (D \ r) \ {y} = D \ s /\ D \ r \in SUBSET D
          OBVIOUS
        <4> QED
          BY <1>1, <4>1, BytesRemove
      <3>6. size[y] \in Nat /\ Bytes(D \ s) \in Nat /\ Bytes(r) \in Nat /\ Bytes(s) \in Nat
        BY <1>1, <3>2, PoolAssumption
      <3> HIDE DEF r
      <3> QED
        BY <1>2, <2>2, <3>3, <3>4, <3>5, <3>6
    <2> QED
      BY <2>3, <2>4
  <1> QED
    BY <1>1, <1>2, <1>3

-----------------------------------------------------------------------------
(* Types, and the limit on the number of bytes                              *)

PoolType ==
    /\ DOMAIN entries \subseteq Tx /\ entries \in [DOMAIN entries -> Nat]
    /\ DOMAIN spends \subseteq OutPoint /\ spends \in [DOMAIN spends -> Tx]
    /\ total_bytes \in Nat
    /\ next_seq \in Nat

WorkType ==
    /\ pc \in {"idle", "room", "restore"}
    /\ candidate \in Tx \cup {NoTx}
    /\ restoring \in BOOLEAN
    /\ pending \in Seq(Tx)
    /\ remaining \in Seq(Tx)
    /\ progress \in BOOLEAN
    /\ lostParent \in BOOLEAN
    /\ evicted \in BOOLEAN

ChainType ==
    /\ tip \in Hash
    /\ log \in LogType
    /\ stage \in [Peer -> {"ready", "sync", "held", "lagged", "jumped"}]
    /\ position \in [Peer -> Nat]
    /\ since \in [Peer -> Nat]
    /\ current \in BOOLEAN
    /\ gaveUp \in BOOLEAN

\* total_bytes is the sum of the sizes, and within the limit.
BytesExact ==
    /\ IsFiniteSet(DOMAIN entries)
    /\ total_bytes = Bytes(DOMAIN entries)
    /\ total_bytes <= max_bytes

LInv == PoolType /\ WorkType /\ ChainType /\ BytesExact

LEMMA TypeParts ==
    TypeOK <=> PoolType /\ WorkType /\ ChainType
  BY DEF TypeOK, PoolType, WorkType, ChainType, LogType, Event

\* remove_entry subtracts what it removes.
LEMMA RemoveStep ==
    ASSUME PoolType, BytesExact, NEW R, RemoveEntries(R), next_seq' = next_seq
    PROVE  PoolType' /\ BytesExact'
  <1> DEFINE D == DOMAIN entries
             gone == R \cap D
  <1>1. D \in SUBSET Tx /\ IsFiniteSet(D) /\ gone \in SUBSET D
    BY DEF PoolType, BytesExact
  <1>2. /\ entries' = [ t \in D \ gone |-> entries[t] ]
        /\ DOMAIN entries' = D \ gone
        /\ total_bytes' = total_bytes - Bytes(gone)
    BY DEF RemoveEntries
  <1>3. DOMAIN entries' \subseteq Tx /\ entries' \in [DOMAIN entries' -> Nat]
    BY <1>1, <1>2 DEF PoolType
  <1>4. DOMAIN spends' \subseteq OutPoint /\ spends' \in [DOMAIN spends' -> Tx]
    BY DEF PoolType, RemoveEntries
  <1> HIDE DEF D, gone
  <1>5. /\ Bytes(D \ gone) = Bytes(D) - Bytes(gone)
        /\ Bytes(D \ gone) \in Nat /\ Bytes(D) \in Nat /\ Bytes(gone) \in Nat
    BY <1>1, BytesMinus
  <1>6. total_bytes = Bytes(D) /\ total_bytes <= max_bytes /\ max_bytes \in Nat
    BY PoolAssumption DEF BytesExact, D
  <1>7. total_bytes' = Bytes(DOMAIN entries') /\ total_bytes' \in Nat /\ total_bytes' <= max_bytes
    BY <1>2, <1>5, <1>6
  <1>8. IsFiniteSet(DOMAIN entries')
    BY <1>1, <1>2, FS_Subset
  <1>9. BytesExact'
    BY <1>7, <1>8 DEF BytesExact
  <1>10. PoolType'
    BY <1>3, <1>4, <1>7 DEF PoolType
  <1> QED
    BY <1>9, <1>10

\* insert_entry adds the size of an entry that fits.
LEMMA InsertStep ==
    ASSUME PoolType, BytesExact, InsertEntry, candidate \in Tx \ DOMAIN entries
    PROVE  PoolType' /\ BytesExact'
  <1> DEFINE D == DOMAIN entries
             E == D \cup {candidate}
  <1>1. D \in SUBSET Tx /\ IsFiniteSet(D) /\ E \in SUBSET Tx /\ candidate \in E /\ E \ {candidate} = D
    BY DEF PoolType, BytesExact
  <1>2. IsFiniteSet(E)
    BY <1>1, FS_AddElement
  <1>3. /\ DOMAIN entries' = E
        /\ entries' = [ t \in E |-> IF t = candidate THEN next_seq ELSE entries[t] ]
        /\ total_bytes' = total_bytes + size[candidate]
        /\ next_seq' = next_seq + 1
        /\ ~ExceedsWith(candidate)
    BY DEF InsertEntry
  <1>4. DOMAIN entries' \subseteq Tx /\ entries' \in [DOMAIN entries' -> Nat]
    BY <1>1, <1>3 DEF PoolType
  <1>5. DOMAIN spends' \subseteq OutPoint /\ spends' \in [DOMAIN spends' -> Tx]
    <2>1. Spends(candidate) \subseteq OutPoint
      BY TxAssumption DEF Spends
    <2> QED
      BY <2>1 DEF PoolType, InsertEntry
  <1> HIDE DEF D, E
  <1>6. size[candidate] \in Nat /\ max_bytes \in Nat /\ Bytes(D) \in Nat
    BY <1>1, PoolAssumption, BytesType
  <1>7. Bytes(E) = size[candidate] + Bytes(D)
    BY <1>1, <1>2, BytesRemove
  <1>8. total_bytes = Bytes(D)
    BY DEF BytesExact, D
  <1>9. total_bytes' = Bytes(DOMAIN entries') /\ total_bytes' \in Nat
    BY <1>3, <1>6, <1>7, <1>8
  <1>10. total_bytes' <= max_bytes
    BY <1>3, <1>6, <1>8 DEF ExceedsWith
  <1>11. BytesExact'
    BY <1>2, <1>3, <1>9, <1>10 DEF BytesExact
  <1>12. PoolType'
    BY <1>3, <1>4, <1>5, <1>9 DEF PoolType
  <1> QED
    BY <1>11, <1>12

\* Steps that leave the pool alone.
LEMMA PoolStill ==
    ASSUME PoolType, BytesExact, UNCHANGED poolVars
    PROVE  PoolType' /\ BytesExact'
  BY DEF PoolType, BytesExact, poolVars

\* The iterations of an operation on the pool.
LEMMA WorkLInv ==
    ASSUME LInv, PInv, Work
    PROVE  LInv'
  <1>1. ChainType'
    BY DEF LInv, ChainType, Work, peerVars
  <1>2. CASE EvictOne
    <2>1. PICK R : RemoveEntries(R) /\ next_seq' = next_seq
      BY <1>2 DEF EvictOne
    <2>2. PoolType' /\ BytesExact'
      BY <2>1, RemoveStep DEF LInv
    <2>3. lostParent' \in BOOLEAN /\ evicted' \in BOOLEAN
      BY <1>2 DEF EvictOne, LInv, WorkType
    <2>4. UNCHANGED << pc, candidate, restoring, pending, remaining, progress >>
      BY <1>2 DEF EvictOne, workVars
    <2>5. WorkType'
      BY <2>3, <2>4 DEF LInv, WorkType
    <2> QED
      BY <1>1, <2>2, <2>5 DEF LInv
  <1>3. CASE RefuseAtCapacity
    <2>1. PoolType' /\ BytesExact'
      BY <1>3, PoolStill DEF RefuseAtCapacity, LInv
    <2>2. candidate \in Tx
      BY <1>3 DEF RefuseAtCapacity, PInv, RoomForValid
    <2>3. Append(remaining, candidate) \in Seq(Tx) /\ remaining \in Seq(Tx)
      BY <2>2 DEF LInv, WorkType
    <2>4. remaining' \in Seq(Tx)
      BY <1>3, <2>3 DEF RefuseAtCapacity, NotAccepted
    <2>5. WorkType'
      BY <1>3, <2>4 DEF RefuseAtCapacity, NotAccepted, LInv, WorkType, auxVars
    <2> QED
      BY <1>1, <2>1, <2>5 DEF LInv
  <1>4. CASE InsertEntry
    <2>1. candidate \in Tx \ DOMAIN entries
      BY <1>4 DEF InsertEntry, PInv, RoomForValid
    <2>2. PoolType' /\ BytesExact'
      BY <1>4, <2>1, InsertStep DEF LInv
    <2>3. WorkType'
      BY <1>4 DEF InsertEntry, Accepted, LInv, WorkType, auxVars
    <2> QED
      BY <1>1, <2>2, <2>3 DEF LInv
  <1>5. CASE RestoreNext(Utxo)
    <2>1. PoolType' /\ BytesExact'
      BY <1>5, PoolStill DEF RestoreNext, BeginAccept, LInv
    <2>2. /\ pending' = Tail(pending) /\ pending' \in Seq(Tx)
          /\ Head(pending) \in Tx
          /\ Append(remaining, Head(pending)) \in Seq(Tx)
      BY <1>5 DEF RestoreNext, LInv, WorkType
    <2>3. ASSUME BeginAccept(Head(pending)), restoring' = TRUE
          PROVE  WorkType'
      BY <2>2, <2>3 DEF BeginAccept, LInv, WorkType, auxVars
    <2>4. ASSUME remaining' = Append(remaining, Head(pending)),
                 UNCHANGED << poolVars, pc, candidate, restoring, progress, auxVars >>
          PROVE  WorkType'
      BY <2>2, <2>4 DEF LInv, WorkType, auxVars
    <2>5. WorkType'
      BY <1>5, <2>3, <2>4 DEF RestoreNext
    <2> QED
      BY <1>1, <2>1, <2>5 DEF LInv
  <1>6. CASE RestorePass
    <2>1. PoolType' /\ BytesExact'
      BY <1>6, PoolStill DEF RestorePass, LInv
    <2>2. WorkType'
      BY <1>6 DEF RestorePass, LInv, WorkType
    <2> QED
      BY <1>1, <2>1, <2>2 DEF LInv
  <1> QED
    BY <1>2, <1>3, <1>4, <1>5, <1>6 DEF Work, PoolStep

LEMMA SynchronizeLInv ==
    ASSUME LInv, NEW C, NEW D \in Seq(Tx), Synchronize(Utxo, C, D)
    PROVE  PoolType' /\ BytesExact' /\ WorkType'
  <1>1. PICK R : RemoveEntries(R) /\ next_seq' = next_seq
    BY DEF Synchronize
  <1>2. PoolType' /\ BytesExact'
    BY <1>1, RemoveStep DEF LInv
  <1>3. WorkType'
    <2>1. /\ pc' = "restore" /\ pending' = D /\ remaining' = << >>
          /\ progress' = FALSE /\ lostParent' = FALSE /\ evicted' = FALSE
          /\ candidate' = candidate /\ restoring' = restoring
      BY DEF Synchronize
    <2>2. << >> \in Seq(Tx)
      OBVIOUS
    <2> QED
      BY <2>1, <2>2 DEF LInv, WorkType
  <1> QED
    BY <1>2, <1>3

\* Reconnecting starts at the end of the history.
LEMMA ReconnectType ==
    ASSUME ChainType, log' \in LogType, NEW p \in Peer, Reconnect(p)
    PROVE  /\ stage' \in [Peer -> {"ready", "sync", "held", "lagged", "jumped"}]
           /\ position' \in [Peer -> Nat] /\ since' \in [Peer -> Nat]
  <1>1. Len(log') \in Nat
    BY DEF LogType
  <1> QED
    BY <1>1 DEF ChainType, Reconnect

LEMMA AppendLog ==
    ASSUME log \in LogType, NEW e \in LogType
    PROVE  log \o e \in LogType
  BY DEF LogType

\* The steps of the chain and of the peers.
LEMMA ChainLInv ==
    ASSUME LInv, NEW p \in Peer, NEW h \in Hash,
           MoveTip(p, h) \/ FailReorg(p, h) \/ CollectEvents(p) \/ JumpToTail(p) \/ FailResync(p)
    PROVE  LInv'
  <1>1. UNCHANGED << poolVars, workVars, auxVars >>
    BY DEF MoveTip, FailReorg, CollectEvents, JumpToTail, FailResync
  <1>2. PoolType' /\ BytesExact'
    BY <1>1, PoolStill DEF LInv
  <1>3. WorkType'
    BY <1>1 DEF LInv, WorkType, workVars, auxVars
  <1>4. ChainType /\ Len(log) \in Nat
    BY DEF LInv, ChainType, LogType
  <1>5. CASE MoveTip(p, h)
    <2>1. Len(branch[h]) \in Nat /\ tip \in Hash
      BY <1>4, SyncAssumption DEF ChainType
    <2>2. log' \in LogType
      BY <1>4, <1>5, <2>1, ReorgType, AppendLog DEF MoveTip, ChainType
    <2>3. tip' = h /\ current' = FALSE
      BY <1>5 DEF MoveTip
    <2>4. ASSUME stage' = [stage EXCEPT ![p] = "sync"], UNCHANGED << position, since, gaveUp >>
          PROVE  ChainType'
      BY <1>4, <2>2, <2>3, <2>4 DEF ChainType
    <2>5. ASSUME Reconnect(p), gaveUp' = TRUE
          PROVE  ChainType'
      BY <1>4, <2>2, <2>3, <2>5, ReconnectType DEF ChainType
    <2>6. ChainType'
      BY <1>5, <2>4, <2>5 DEF MoveTip
    <2> QED
      BY <1>2, <1>3, <2>6 DEF LInv
  <1>6. CASE FailReorg(p, h)
    <2> DEFINE B == { i \in DOMAIN branch[h] : branch[h][i] \in BadBlock }
    <2>1. branch[h] \in Seq(Hash) /\ DOMAIN branch[h] = 1..Len(branch[h]) /\ Len(branch[h]) \in Nat
      BY SyncAssumption
    <2>2. B # {} /\ B \in SUBSET Nat
      BY <1>6, <2>1 DEF FailReorg, ToSet
    <2>3. PICK b \in B : \A y \in B : b <= y
      <3> HIDE DEF B
      <3> QED
        BY <2>2, Smallest
    <2>4. Min(B) \in B
      <3> HIDE DEF B
      <3> QED
        BY <2>2, <2>3 DEF Min
    <2>5. Min(B) - 1 \in Nat /\ Min(B) - 1 <= Len(branch[h])
      BY <2>1, <2>4
    <2>6. log' = log \o ReorgEvents(tip, h, Min(B) - 1)
      BY <1>6 DEF FailReorg
    <2> HIDE DEF B
    <2>7. log' \in LogType
      BY <1>4, <2>5, <2>6, ReorgType, AppendLog DEF ChainType
    <2>8. Reconnect(p) /\ tip' = tip /\ current' = current /\ gaveUp' = gaveUp
      BY <1>6 DEF FailReorg
    <2>9. ChainType'
      BY <1>4, <2>7, <2>8, ReconnectType DEF ChainType
    <2> QED
      BY <1>2, <1>3, <2>9 DEF LInv
  <1>7. CASE CollectEvents(p) \/ JumpToTail(p)
    <2>1. ChainType'
      BY <1>4, <1>7 DEF CollectEvents, JumpToTail, ChainType
    <2> QED
      BY <1>2, <1>3, <2>1 DEF LInv
  <1>8. CASE FailResync(p)
    <2>1. Reconnect(p) /\ UNCHANGED << tip, log, current >> /\ gaveUp' = TRUE
      BY <1>8 DEF FailResync
    <2>2. ChainType'
      BY <1>4, <2>1, ReconnectType DEF ChainType
    <2> QED
      BY <1>2, <1>3, <2>2 DEF LInv
  <1> QED
    BY <1>5, <1>6, <1>7, <1>8

\* The two ways a peer brings the pool up to date.
LEMMA SyncLInv ==
    ASSUME LInv, NEW p \in Peer, ApplyEvents(p) \/ Resync(p)
    PROVE  LInv'
  <1>1. log \in LogType
    BY DEF LInv, ChainType
  <1>2. \E C : \E D \in Seq(Tx) : Synchronize(Utxo, C, D)
    <2>1. CASE ApplyEvents(p)
      <3>1. PICK down \in { HashesIn("disconnected", since[p], position[p]) } :
              \E C : Synchronize(Utxo, C, Candidates(down))
        BY <2>1 DEF ApplyEvents
      <3>2. Candidates(down) \in Seq(Tx)
        BY <1>1, HashesType, TxsType DEF HashesIn
      <3> QED
        BY <3>1, <3>2
    <2>2. CASE Resync(p)
      <3>1. PICK down \in { RecoveredBlocks(since[p]) } :
              \E C : Synchronize(Utxo, C, Candidates(down))
        BY <2>2 DEF Resync
      <3>2. Candidates(down) \in Seq(Tx)
        BY <1>1, HashesType, TxsType DEF RecoveredBlocks
      <3> QED
        BY <3>1, <3>2
    <2> QED
      BY <2>1, <2>2
  <1>3. PoolType' /\ BytesExact' /\ WorkType'
    BY <1>2, SynchronizeLInv
  <1>4. ChainType'
    <2>1. /\ UNCHANGED << tip, log, position, gaveUp >> /\ current' = TRUE
          /\ stage' = [stage EXCEPT ![p] = "ready"] /\ since' = [since EXCEPT ![p] = 0]
      BY DEF ApplyEvents, Resync
    <2> QED
      BY <2>1 DEF LInv, ChainType
  <1> QED
    BY <1>3, <1>4 DEF LInv

\* Every step keeps types and bytes.
LEMMA NextLInv ==
    LInv /\ PInv /\ [Next]_vars => LInv'
  <1> SUFFICES ASSUME LInv, PInv, [Next]_vars
               PROVE  LInv'
    OBVIOUS
  <1>1. CASE UNCHANGED vars
    <2>1. PoolType' /\ BytesExact'
      BY <1>1, PoolStill DEF LInv, vars
    <2> QED
      BY <1>1, <2>1 DEF LInv, WorkType, ChainType, vars, workVars, auxVars, peerVars
  <1>2. ASSUME NEW p \in Peer, NEW h \in Hash, MoveTip(p, h) \/ FailReorg(p, h)
        PROVE  LInv'
    BY <1>2, ChainLInv
  <1>3. ASSUME NEW p \in Peer, SyncStep(p)
        PROVE  LInv'
    BY <1>3, ChainLInv, SyncLInv, SyncAssumption DEF SyncStep
  <1>4. ASSUME NEW t \in Tx, HandleTx(t) \/ HandleGetdata(t)
        PROVE  LInv'
    <2>1. ChainType'
      BY <1>4 DEF HandleTx, HandleGetdata, LInv, ChainType, peerVars
    <2>2. CASE HandleTx(t)
      <3>1. PoolType' /\ BytesExact'
        BY <2>2, PoolStill DEF HandleTx, AcceptTx, BeginAccept, LInv
      <3>2. WorkType'
        BY <2>2 DEF HandleTx, AcceptTx, BeginAccept, LInv, WorkType, auxVars
      <3> QED
        BY <2>1, <3>1, <3>2 DEF LInv
    <2>3. CASE HandleGetdata(t)
      <3>1. RemoveEntries({t}) /\ UNCHANGED << next_seq, workVars, auxVars >>
        BY <2>3 DEF HandleGetdata, ServeStale
      <3>2. PoolType' /\ BytesExact'
        BY <3>1, RemoveStep DEF LInv
      <3>3. WorkType'
        BY <3>1 DEF LInv, WorkType, workVars, auxVars
      <3> QED
        BY <2>1, <3>2, <3>3 DEF LInv
    <2> QED
      BY <1>4, <2>2, <2>3
  <1>5. CASE Work
    BY <1>5, WorkLInv
  <1> QED
    BY <1>1, <1>2, <1>3, <1>4, <1>5 DEF Next

LEMMA InitLInv ==
    Init => LInv
  <1> SUFFICES ASSUME Init
               PROVE  LInv
    OBVIOUS
  <1>1. DOMAIN entries = {} /\ DOMAIN spends = {}
    BY DEF Init, PoolInit
  <1>2. PoolType
    BY <1>1 DEF Init, PoolInit, PoolType
  <1>3. BytesExact
    BY <1>1, FS_EmptySet, BytesEmpty, PoolAssumption DEF Init, PoolInit, BytesExact
  <1>4. WorkType
    <2>1. pending \in Seq(Tx) /\ remaining \in Seq(Tx)
      BY DEF Init, PoolInit
    <2> QED
      BY <2>1 DEF Init, PoolInit, WorkType
  <1>5. ChainType
    <2>1. log \in LogType /\ tip \in Hash
      BY SyncAssumption DEF Init, LogType
    <2>2. position \in [Peer -> Nat] /\ since \in [Peer -> Nat]
      BY DEF Init
    <2> QED
      BY <2>1, <2>2 DEF Init, ChainType
  <1> QED
    BY <1>2, <1>3, <1>4, <1>5 DEF LInv

\* The pool never holds more bytes or transactions than its limits, and
\* total_bytes is the sum of the sizes of the entries, whatever was admitted,
\* evicted with its descendants, confirmed, removed as stale or restored
\* (make_room_for, insert_entry, remove_entry).
THEOREM LimitsTheorem == Spec => []WithinLimits
  <1>1. LInv /\ CountWithinLimit => WithinLimits
    BY TypeParts DEF LInv, WithinLimits, BytesExact
  <1>2. Spec => [](PInv /\ LInv)
    <2>1. PInv /\ LInv /\ [Next]_vars => (PInv /\ LInv)'
      BY NextPInv, NextLInv
    <2> QED
      BY <2>1, InitPInv, InitLInv, PTL DEF Spec
  <1> QED
    BY <1>1, <1>2, CountTheorem, PTL

-----------------------------------------------------------------------------
(* What restore_candidates leaves out                                       *)

\* accept_tx would refuse t.
Hopeless(t) == Admissible(t, Utxo) => NoRoomFor(t)

InRestore == pc = "restore" \/ (pc = "room" /\ restoring)

\* As long as a pass has neither admitted nor evicted anything, the pool is the
\* one every transaction left behind was tried on.
RInv ==
    InRestore /\ ~progress /\ ~evicted =>
        \A i \in DOMAIN remaining : Hopeless(remaining[i])

LEMMA HopelessSame ==
    ASSUME UNCHANGED poolVars, tip' = tip, NEW t, Hopeless(t)
    PROVE  Hopeless(t)'
  <1>1. Utxo' = Utxo
    BY DEF Utxo
  <1>2. entries' = entries /\ spends' = spends /\ total_bytes' = total_bytes /\ next_seq' = next_seq
    BY DEF poolVars
  <1>3. Admissible(t, Utxo)' <=> Admissible(t, Utxo)
    BY <1>1, <1>2 DEF Admissible, ValidForView, PoolView
  <1>4. Victim' = Victim
    BY <1>2 DEF Victim
  <1>5. ExceedsWith(t)' <=> ExceedsWith(t)
    BY <1>2 DEF ExceedsWith
  <1>6. ShouldEvict(Victim, t)' <=> ShouldEvict(Victim, t)
    BY <1>2, <1>4 DEF ShouldEvict
  <1>7. NoRoomFor(t)' <=> NoRoomFor(t)
    BY <1>2, <1>5, <1>6 DEF NoRoomFor
  <1> QED
    BY <1>3, <1>7 DEF Hopeless

\* One more transaction left behind on a pool that does not change.
LEMMA LeaveBehind ==
    ASSUME remaining \in Seq(Tx), NEW t \in Tx, remaining' = Append(remaining, t),
           UNCHANGED poolVars, tip' = tip, Hopeless(t),
           \A i \in DOMAIN remaining : Hopeless(remaining[i])
    PROVE  \A i \in DOMAIN remaining' : Hopeless(remaining[i])'
  <1> SUFFICES ASSUME NEW i \in DOMAIN remaining'
               PROVE  Hopeless(remaining[i])'
    OBVIOUS
  <1>1. \/ i \in DOMAIN remaining /\ remaining'[i] = remaining[i]
        \/ remaining'[i] = t
    OBVIOUS
  <1>2. PICK s : s = remaining'[i]
    OBVIOUS
  <1>3. Hopeless(s)
    BY <1>1, <1>2
  <1>4. Hopeless(s)'
    BY <1>3, HopelessSame
  <1> QED
    BY <1>2, <1>4

\* The pool and what is left behind stay as they are.
LEMMA LeaveSame ==
    ASSUME RInv, UNCHANGED << poolVars, tip, remaining, progress, evicted >>,
           InRestore' => InRestore
    PROVE  RInv'
  <1> SUFFICES ASSUME InRestore', ~progress', ~evicted', NEW i \in DOMAIN remaining'
               PROVE  Hopeless(remaining[i])'
    BY DEF RInv
  <1>1. PICK s : s = remaining'[i]
    OBVIOUS
  <1>2. Hopeless(s)
    BY <1>1 DEF RInv
  <1>3. Hopeless(s)'
    BY <1>2, HopelessSame
  <1> QED
    BY <1>1, <1>3

\* A new pass begins with nothing left behind, and outside of a pass there is
\* nothing to say.
LEMMA LeaveNone ==
    ASSUME remaining' = << >> \/ ~InRestore' \/ progress' \/ evicted'
    PROVE  RInv'
  BY DEF RInv

LEMMA NextRInv ==
    RInv /\ LInv /\ PInv /\ [Next]_vars => RInv'
  <1> SUFFICES ASSUME RInv, LInv, PInv, [Next]_vars
               PROVE  RInv'
    OBVIOUS
  <1>1. CASE UNCHANGED vars
    BY <1>1, LeaveSame DEF vars, workVars, auxVars, InRestore
  <1>2. ASSUME pc = "idle", UNCHANGED workVars
        PROVE  RInv'
    BY <1>2, LeaveNone DEF workVars, InRestore
  <1>3. ASSUME NEW C, NEW D, Synchronize(Utxo, C, D)
        PROVE  RInv'
    BY <1>3, LeaveNone DEF Synchronize
  <1>4. ASSUME NEW p \in Peer, NEW h \in Hash, MoveTip(p, h) \/ FailReorg(p, h)
        PROVE  RInv'
    BY <1>2, <1>4 DEF MoveTip, FailReorg
  <1>5. ASSUME NEW p \in Peer, SyncStep(p)
        PROVE  RInv'
    <2>1. CASE CollectEvents(p) \/ JumpToTail(p) \/ FailResync(p)
      BY <1>2, <2>1 DEF CollectEvents, JumpToTail, FailResync
    <2>2. CASE ApplyEvents(p) \/ Resync(p)
      BY <1>3, <2>2 DEF ApplyEvents, Resync
    <2> QED
      BY <1>5, <2>1, <2>2 DEF SyncStep
  <1>6. ASSUME NEW t \in Tx, HandleTx(t) \/ HandleGetdata(t)
        PROVE  RInv'
    <2>1. CASE HandleTx(t)
      <3>1. pc' = "room" /\ restoring' = FALSE
        BY <2>1 DEF HandleTx, AcceptTx, BeginAccept
      <3> QED
        BY <3>1, LeaveNone DEF InRestore
    <2>2. CASE HandleGetdata(t)
      BY <1>2, <2>2 DEF HandleGetdata, ServeStale
    <2> QED
      BY <1>6, <2>1, <2>2
  <1>7. CASE Work
    <2>1. tip' = tip /\ remaining \in Seq(Tx)
      BY <1>7 DEF Work, LInv, WorkType
    <2>2. CASE EvictOne
      <3>1. pc' = "room" /\ restoring' = restoring /\ evicted' = restoring
        BY <2>2 DEF EvictOne, workVars
      <3> QED
        BY <3>1, LeaveNone DEF InRestore
    <2>3. CASE RefuseAtCapacity
      <3>1. CASE ~restoring
        BY <2>3, <3>1, LeaveNone DEF RefuseAtCapacity, NotAccepted, InRestore
      <3>2. CASE restoring
        <4>1. /\ pc = "room" /\ NoRoomFor(candidate)
              /\ remaining' = Append(remaining, candidate)
              /\ UNCHANGED << poolVars, progress, evicted >>
          BY <2>3, <3>2 DEF RefuseAtCapacity, NotAccepted, auxVars
        <4>2. candidate \in Tx /\ Hopeless(candidate)
          BY <4>1 DEF Hopeless, PInv, RoomForValid
        <4>3. ASSUME ~progress', ~evicted'
              PROVE  \A i \in DOMAIN remaining' : Hopeless(remaining[i])'
          <5>1. \A i \in DOMAIN remaining : Hopeless(remaining[i])
            BY <3>2, <4>1, <4>3 DEF RInv, InRestore
          <5> QED
            BY <2>1, <4>1, <4>2, <5>1, LeaveBehind
        <4> QED
          BY <4>3 DEF RInv
      <3> QED
        BY <3>1, <3>2
    <2>4. CASE InsertEntry
      BY <2>4, LeaveNone DEF InsertEntry, Accepted, InRestore
    <2>5. CASE RestoreNext(Utxo)
      <3>1. Head(pending) \in Tx /\ pc = "restore"
        BY <2>5 DEF RestoreNext, LInv, WorkType
      <3>2. CASE BeginAccept(Head(pending))
        BY <2>1, <3>1, <3>2, LeaveSame DEF BeginAccept, auxVars, InRestore
      <3>3. ASSUME ~Admissible(Head(pending), Utxo),
                   remaining' = Append(remaining, Head(pending)),
                   UNCHANGED << poolVars, pc, candidate, restoring, progress, auxVars >>
            PROVE  RInv'
        <4>1. ASSUME ~progress', ~evicted'
              PROVE  \A i \in DOMAIN remaining' : Hopeless(remaining[i])'
          <5>1. Hopeless(Head(pending)) /\ UNCHANGED << poolVars, progress, evicted >>
            BY <3>3 DEF Hopeless, auxVars
          <5>2. \A i \in DOMAIN remaining : Hopeless(remaining[i])
            BY <3>1, <4>1, <5>1 DEF RInv, InRestore
          <5> QED
            BY <2>1, <3>1, <3>3, <5>1, <5>2, LeaveBehind
        <4> QED
          BY <4>1 DEF RInv
      <3> QED
        BY <2>5, <3>2, <3>3 DEF RestoreNext
    <2>6. CASE RestorePass
      BY <2>6, LeaveNone DEF RestorePass
    <2> QED
      BY <1>7, <2>2, <2>3, <2>4, <2>5, <2>6 DEF Work, PoolStep
  <1> QED
    BY <1>1, <1>4, <1>5, <1>6, <1>7 DEF Next

\* restore_candidates ends at the end of a pass that has admitted nothing, or
\* with nothing left behind.
LEMMA RestoreEnds ==
    ASSUME [Next]_vars, pc = "restore", pc' = "idle"
    PROVE  ~progress \/ remaining = << >>
  <1>1. pc' # pc
    OBVIOUS
  <1>2. Work
    <2>1. \A p \in Peer, h \in Hash : ~MoveTip(p, h) /\ ~FailReorg(p, h)
      BY DEF MoveTip, FailReorg
    <2>2. \A p \in Peer : ~SyncStep(p)
      BY DEF SyncStep, CollectEvents, ApplyEvents, JumpToTail, Resync, FailResync, Synchronize
    <2>3. \A t \in Tx : ~HandleTx(t) /\ ~HandleGetdata(t)
      BY DEF HandleTx, HandleGetdata, AcceptTx, ServeStale
    <2>4. ~UNCHANGED vars
      BY <1>1 DEF vars, workVars
    <2> QED
      BY <2>1, <2>2, <2>3, <2>4 DEF Next
  <1>3. ~EvictOne /\ ~RefuseAtCapacity /\ ~InsertEntry
    BY DEF EvictOne, RefuseAtCapacity, InsertEntry
  <1>4. ~RestoreNext(Utxo)
    BY DEF RestoreNext, BeginAccept
  <1>5. RestorePass
    BY <1>2, <1>3, <1>4 DEF Work, PoolStep
  <1> QED
    BY <1>5 DEF RestorePass

\* restore_candidates gives up only on transactions accept_tx would refuse
\* again, unless its last pass evicted entries for a candidate it then refused;
\* for every chain, order of the candidates, fee rate and limit.
THEOREM RestoreTheorem == Spec => RestoreComplete
  <1> DEFINE A == pc = "restore" /\ pc' = "idle" /\ ~evicted =>
                    \A t \in ToSet(remaining) : Admissible(t, Utxo) => NoRoomFor(t)
  <1>1. RInv /\ LInv /\ [Next]_vars => [A]_vars
    <2> SUFFICES ASSUME RInv, [Next]_vars, pc = "restore", pc' = "idle", ~evicted,
                        NEW t \in ToSet(remaining), Admissible(t, Utxo)
                 PROVE  NoRoomFor(t)
      OBVIOUS
    <2>1. PICK i \in DOMAIN remaining : t = remaining[i]
      BY DEF ToSet
    <2>2. ~progress
      BY <2>1, RestoreEnds
    <2>3. Hopeless(remaining[i])
      BY <2>2 DEF RInv, InRestore
    <2> QED
      BY <2>1, <2>3 DEF Hopeless
  <1>2. Init => RInv
    BY DEF Init, PoolInit, RInv, InRestore
  <1>3. Spec => [](PInv /\ LInv /\ RInv)
    <2>1. PInv /\ LInv /\ RInv /\ [Next]_vars => (PInv /\ LInv /\ RInv)'
      BY NextPInv, NextLInv, NextRInv
    <2> QED
      BY <1>2, <2>1, InitPInv, InitLInv, PTL DEF Spec
  <1> QED
    BY <1>1, <1>3, PTL DEF Spec, RestoreComplete

=============================================================================
