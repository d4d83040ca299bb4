----------------------------- MODULE ForkChoice -----------------------------
(***************************************************************************)
(* What connect_block promises about the tip, without saying how: blocks    *)
(* join a tree one at a time, each above a block already in it, and the tip *)
(* moves exactly when the new block has strictly more cumulative work.      *)
(* There are no orphans, no reorg steps, no rollback and no events here; a  *)
(* block that is refused leaves no trace.                                   *)
(***************************************************************************)
EXTENDS Naturals

CONSTANTS Hash, Genesis, prev_blockhash, bits, BlockWork(_)

VARIABLES
    work,  \* [blocks of the tree -> cumulative work]
    tip

vars == << work, tip >>

Init ==
    /\ work = [ h \in {Genesis} |-> BlockWork(bits[Genesis]) ]
    /\ tip = Genesis

Accept(b) ==
    LET w == work[prev_blockhash[b]] + BlockWork(bits[b])
    IN  /\ b \notin DOMAIN work
        /\ prev_blockhash[b] \in DOMAIN work
        /\ work' = [ h \in DOMAIN work \cup {b} |-> IF h = b THEN w ELSE work[h] ]
        /\ tip' = IF w > work[tip] THEN b ELSE tip

Next == \E b \in Hash : Accept(b)

Spec == Init /\ [][Next]_vars
=============================================================================
