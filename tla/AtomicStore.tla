---------------------------- MODULE AtomicStore ----------------------------
(***************************************************************************)
(* What the BlockStore trait (store.rs) promises its callers: a block is    *)
(* there or it is not, storing one loses no other, and a crash loses at     *)
(* most what was stored and not yet flushed.  MemoryBlockStore is the       *)
(* special case that never crashes.                                         *)
(***************************************************************************)
CONSTANT Hash

VARIABLES
    stored,   \* blocks get_block returns
    durable   \* blocks that outlive a crash

TypeOK == stored \subseteq Hash /\ durable \subseteq stored

Init == stored = {} /\ durable = {}

\* put_block: the block is there; flushing it may be left to later.
Put(h) == /\ stored' = stored \cup {h}
          /\ durable' \in {durable, stored \cup {h}}

\* commit
Commit == durable' = stored /\ UNCHANGED stored

\* A crash leaves the durable blocks and any of the others, all durable now.
Crash == /\ stored' \in {s \in SUBSET stored : durable \subseteq s}
         /\ durable' = stored'

Next == (\E h \in Hash : Put(h)) \/ Commit \/ Crash

Spec == Init /\ [][Next]_<< stored, durable >>
=============================================================================
