------------------------------ MODULE Mempool ------------------------------
(***************************************************************************)
(* The transaction pool of bitrst-core (mempool.rs).                        *)
(*                                                                          *)
(* Every operation gets the chain's unspent set U from its caller, who      *)
(* holds the chain's read lock and the pool's write lock for the whole of   *)
(* it (relay.rs).  The loops of make_room_for and restore_candidates are    *)
(* one action per iteration; MempoolSync lets nothing else run while pc is  *)
(* not "idle".  The fixed points of remove_for_block and descendants_of are *)
(* written as least closed sets.                                            *)
(*                                                                          *)
(* A transaction's size and fee rate are constants: the values it spends    *)
(* are determined by the outpoints it names.                                *)
(***************************************************************************)
EXTENDS UtxoSet, Integers, SequencesExt

CONSTANTS
    NoTx,          \* no candidate
    txid_of,       \* [OutPoint -> Tx]: the transaction an outpoint names
    size,          \* [Tx -> Nat], serialized size
    fee_rate,      \* [Tx -> Nat], fee per byte, rounded down
    max_tx_count,
    max_bytes,
    MaxAdmissions  \* bound: next_seq above which peers' transactions are not admitted

ASSUME PoolAssumption ==
    /\ NoTx \notin Tx
    /\ txid_of \in [OutPoint -> Tx]
    /\ \A t \in Tx : \A o \in outputs[t] : txid_of[o] = t
    /\ \A t \in Tx \ (Coinbase \cup BadTx) : inputs[t] # << >>
    /\ size \in [Tx -> Nat \ {0}]
    /\ fee_rate \in [Tx -> Nat]
    /\ max_tx_count \in Nat
    /\ max_bytes \in Nat
    /\ MaxAdmissions \in Nat

VARIABLES
    entries,      \* txid -> sequence number of its admission
    spends,       \* outpoint -> the entry that spends it
    total_bytes,
    next_seq

\* The operation in progress.
VARIABLES
    pc,         \* "idle", "room" (make_room_for) or "restore" (restore_candidates)
    candidate,  \* the transaction make_room_for works for
    restoring,  \* accept_tx was called by restore_candidates
    pending,    \* what the present pass of restore_candidates has still to try
    remaining,  \* what the pass could not admit
    progress    \* the pass has admitted something

\* Auxiliary: not state of the program, read by no guard.
VARIABLES
    lostParent,  \* since the last revalidation a transaction went in after
                 \* making room had evicted one it spends from
    evicted      \* the present pass of restore_candidates has evicted entries

poolVars == << entries, spends, total_bytes, next_seq >>
workVars == << pc, candidate, restoring, pending, remaining, progress >>
auxVars == << lostParent, evicted >>

-----------------------------------------------------------------------------
(* Views and validity                                                       *)

\* The chain's set U with the entries E applied in the order of admission.
PoolView(U, E) ==
    { o \in OutPoint :
        \/ o \in U /\ \A t \in E : o \notin Spends(t)
        \/ \E j \in E :
              /\ o \in outputs[j]
              /\ \A t \in E : entries[t] > entries[j] => o \notin Spends(t) }

\* is_valid_for_view: structure, duplicate inputs, inputs present, scripts.
ValidForView(t, view) ==
    /\ t \in Tx \ (Coinbase \cup BadTx)
    /\ NoDuplicateSpend(<< t >>)
    /\ Spends(t) \subseteq view

\* accept_tx up to make_room_for.
Admissible(t, U) ==
    /\ t \notin DOMAIN entries
    /\ Spends(t) \cap DOMAIN spends = {}
    /\ ValidForView(t, PoolView(U, DOMAIN entries))

-----------------------------------------------------------------------------
(* Removing                                                                 *)

Bytes(T) == MapThenSumSet(LAMBDA t : size[t], T)

\* Mutant of RemoveEntries: the index of spent outpoints keeps its entries.
MutRemoveEntries(R) ==
    LET gone == R \cap DOMAIN entries
    IN  /\ entries' = [ t \in DOMAIN entries \ gone |-> entries[t] ]
        /\ spends' = spends
        /\ total_bytes' = total_bytes - Bytes(gone)

\* remove_entry of every transaction of R that is in the pool.
RemoveEntries(R) ==
    LET gone == R \cap DOMAIN entries
    IN  /\ entries' = [ t \in DOMAIN entries \ gone |-> entries[t] ]
        /\ spends' = [ o \in { x \in DOMAIN spends : spends[x] \notin gone } |-> spends[o] ]
        /\ total_bytes' = total_bytes - Bytes(gone)

\* The entries that spend an output of t, of an entry that does, and so on.
Descendants(t) ==
    LET Child(r, c) == \E o \in DOMAIN spends : txid_of[o] = r /\ spends[o] = c
        Closed(S) == \A r \in S \cup {t}, c \in DOMAIN entries : Child(r, c) => c \in S
    IN  { d \in DOMAIN entries : \A S \in SUBSET DOMAIN entries : Closed(S) => d \in S }

\* What remove_for_block takes out for blocks with the transactions txs: the
\* confirmed ones, those that spend what the block spends, and every entry that
\* spends an output of a removed or confirmed transaction.  The blocks of a
\* synchronization are taken together: the least closed set of a union is the
\* union of the least closed sets.
RemovedBy(txs) ==
    LET taken == UNION { Spends(t) : t \in txs \ Coinbase }
        Closed(S) == \A e \in DOMAIN entries :
                        \/ e \in txs
                        \/ Spends(e) \cap taken # {}
                        \/ \E o \in Spends(e) : txid_of[o] \in S \cup txs
                        => e \in S
    IN  { e \in DOMAIN entries : \A S \in SUBSET DOMAIN entries : Closed(S) => e \in S }

\* revalidate_pool keeps S out of the entries E: exactly those that are valid,
\* in the order of admission, on U with the kept ones before them.  There is
\* one such S, and a second pass over it finds nothing invalid.
Kept(S, E, U) ==
    \A t \in E :
        t \in S <=> ValidForView(t, PoolView(U, { s \in S : entries[s] < entries[t] }))

-----------------------------------------------------------------------------
(* accept_tx                                                                *)

ExceedsWith(t) ==
    \/ Cardinality(DOMAIN entries) + 1 > max_tx_count
    \/ total_bytes + size[t] > max_bytes

Victim ==
    CHOOSE v \in DOMAIN entries : \A e \in DOMAIN entries :
        \/ fee_rate[v] < fee_rate[e]
        \/ fee_rate[v] = fee_rate[e] /\ entries[v] <= entries[e]

ShouldEvict(v, t) ==
    \/ fee_rate[t] > fee_rate[v]
    \/ fee_rate[t] = fee_rate[v] /\ next_seq > entries[v]

\* make_room_for gives up on t.
NoRoomFor(t) ==
    /\ ExceedsWith(t)
    /\ DOMAIN entries = {} \/ ~ShouldEvict(Victim, t)

\* accept_tx returns to its caller.
Accepted ==
    /\ pc' = IF restoring THEN "restore" ELSE "idle"
    /\ progress' = restoring
    /\ UNCHANGED << pending, remaining >>

NotAccepted(t) ==
    /\ pc' = IF restoring THEN "restore" ELSE "idle"
    /\ remaining' = IF restoring THEN Append(remaining, t) ELSE remaining
    /\ UNCHANGED << pending, progress >>

\* The checks have passed: make_room_for begins.
BeginAccept(t) ==
    /\ pc' = "room"
    /\ candidate' = t
    /\ UNCHANGED << poolVars, remaining, progress, auxVars >>

AcceptTx(t, U) ==
    /\ pc = "idle"
    /\ next_seq < MaxAdmissions
    /\ Admissible(t, U)
    /\ BeginAccept(t)
    /\ restoring' = FALSE
    /\ UNCHANGED pending

\* One iteration of make_room_for.  A parent of the candidate may be a victim.
EvictOne ==
    /\ pc = "room"
    /\ ExceedsWith(candidate)
    /\ DOMAIN entries # {}
    /\ ShouldEvict(Victim, candidate)
    /\ LET gone == {Victim} \cup Descendants(Victim)
       IN  /\ RemoveEntries(gone)
           /\ lostParent' = (lostParent \/ \E o \in Spends(candidate) : txid_of[o] \in gone)
    /\ evicted' = restoring
    /\ UNCHANGED << next_seq, workVars >>

\* AtCapacity: what was evicted before stays out.
RefuseAtCapacity ==
    /\ pc = "room"
    /\ NoRoomFor(candidate)
    /\ NotAccepted(candidate)
    /\ candidate' = NoTx
    /\ restoring' = FALSE
    /\ UNCHANGED << poolVars, auxVars >>

\* Mutant of InsertEntry: inserts although one limit is exceeded by one.
MutInsertEntry ==
    /\ pc = "room"
    /\ Cardinality(DOMAIN entries) <= max_tx_count
    /\ entries' = [ t \in DOMAIN entries \cup {candidate} |->
                      IF t = candidate THEN next_seq ELSE entries[t] ]
    /\ spends' = [ o \in DOMAIN spends \cup Spends(candidate) |->
                     IF o \in Spends(candidate) THEN candidate ELSE spends[o] ]
    /\ total_bytes' = total_bytes + size[candidate]
    /\ next_seq' = next_seq + 1
    /\ Accepted
    /\ candidate' = NoTx
    /\ restoring' = FALSE
    /\ UNCHANGED auxVars

InsertEntry ==
    /\ pc = "room"
    /\ ~ExceedsWith(candidate)
    /\ entries' = [ t \in DOMAIN entries \cup {candidate} |->
                      IF t = candidate THEN next_seq ELSE entries[t] ]
    /\ spends' = [ o \in DOMAIN spends \cup Spends(candidate) |->
                     IF o \in Spends(candidate) THEN candidate ELSE spends[o] ]
    /\ total_bytes' = total_bytes + size[candidate]
    /\ next_seq' = next_seq + 1
    /\ Accepted
    /\ candidate' = NoTx
    /\ restoring' = FALSE
    /\ UNCHANGED auxVars

-----------------------------------------------------------------------------
(* Following the chain                                                      *)

\* Mutant of Synchronize: the pool is not revalidated.
MutSynchronize(U, connected, candidates) ==
    /\ pc = "idle"
    /\ RemoveEntries(RemovedBy(connected))
    /\ pc' = "restore"
    /\ pending' = candidates
    /\ remaining' = << >>
    /\ progress' = FALSE
    /\ lostParent' = FALSE
    /\ evicted' = FALSE
    /\ UNCHANGED << next_seq, candidate, restoring >>

\* synchronize_to_chain and resync_to_active_chain up to restore_candidates:
\* remove what the blocks with the transactions connected make obsolete,
\* revalidate the rest on U, and begin to restore the candidates.
Synchronize(U, connected, candidates) ==
    /\ pc = "idle"
    /\ LET E == DOMAIN entries \ RemovedBy(connected)
       IN  \E S \in SUBSET E : Kept(S, E, U) /\ RemoveEntries(DOMAIN entries \ S)
    /\ pc' = "restore"
    /\ pending' = candidates
    /\ remaining' = << >>
    /\ progress' = FALSE
    /\ lostParent' = FALSE
    /\ evicted' = FALSE
    /\ UNCHANGED << next_seq, candidate, restoring >>

\* One iteration of a pass of restore_candidates.
RestoreNext(U) ==
    /\ pc = "restore"
    /\ pending # << >>
    /\ pending' = Tail(pending)
    /\ \/ /\ Admissible(Head(pending), U)
          /\ BeginAccept(Head(pending))
          /\ restoring' = TRUE
       \/ /\ ~Admissible(Head(pending), U)
          /\ remaining' = Append(remaining, Head(pending))
          /\ UNCHANGED << poolVars, pc, candidate, restoring, progress, auxVars >>

\* Mutant of RestorePass: one pass only.
MutRestorePass ==
    /\ pc = "restore"
    /\ pending = << >>
    /\ pc' = "idle"
    /\ pending' = << >>
    /\ remaining' = << >>
    /\ progress' = FALSE
    /\ UNCHANGED << poolVars, candidate, restoring, lostParent >>
    /\ evicted' = FALSE

\* The end of a pass: another one follows as long as passes admit something.
RestorePass ==
    /\ pc = "restore"
    /\ pending = << >>
    /\ IF progress /\ remaining # << >>
       THEN pc' = "restore" /\ pending' = remaining
       ELSE pc' = "idle" /\ pending' = << >>
    /\ remaining' = << >>
    /\ progress' = FALSE
    /\ UNCHANGED << poolVars, candidate, restoring, lostParent >>
    /\ evicted' = FALSE

\* serve_transaction finds a stale entry and removes it, without descendants.
ServeStale(t, U) ==
    /\ pc = "idle"
    /\ t \in DOMAIN entries
    /\ ~ValidForView(t, PoolView(U, DOMAIN entries \ {t}))
    /\ RemoveEntries({t})
    /\ UNCHANGED << next_seq, workVars, auxVars >>

PoolInit ==
    /\ entries = [ t \in {} |-> 0 ]
    /\ spends = [ o \in {} |-> NoTx ]
    /\ total_bytes = 0
    /\ next_seq = 0
    /\ pc = "idle"
    /\ candidate = NoTx
    /\ restoring = FALSE
    /\ pending = << >>
    /\ remaining = << >>
    /\ progress = FALSE
    /\ lostParent = FALSE
    /\ evicted = FALSE

\* The iterations a pool operation goes through by itself.
PoolStep(U) ==
    \/ EvictOne
    \/ RefuseAtCapacity
    \/ InsertEntry
    \/ RestoreNext(U)
    \/ RestorePass

=============================================================================
