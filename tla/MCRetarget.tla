----------------------------- MODULE MCRetarget -----------------------------
(***************************************************************************)
(* Chain around difficulty adjustments, with an adjustment every 2 blocks:  *)
(*                                                                          *)
(*     g -- a1 -- a2           a1 is slow: the next period is easier        *)
(*      |    \--- z2           competes with a2 at the adjustment height    *)
(*      \-- r1 -- r2           r1 is fast: the difficulty stays             *)
(*      |    \--- q2           claims the easier difficulty after r1        *)
(*      \-- t1 -- t2           as fast as r1: t2 wins a reorg at that height *)
(*      \-- s1 -- s2 -- s3 -- s4   a long branch of easy blocks             *)
(*                                                                          *)
(* bits is the work of a block; a period of more than 3 time units makes    *)
(* the next one easy.  Every block has only its coinbase.                   *)
(***************************************************************************)
EXTENDS Chain

MCHash == {"g", "a1", "a2", "z2", "r1", "r2", "q2", "t1", "t2", "s1", "s2", "s3", "s4"}

MCPrev == [ h \in MCHash |->
    CASE h = "g" -> "none" [] h \in {"a1", "r1", "s1", "t1"} -> "g"
      [] h \in {"a2", "z2"} -> "a1" [] h \in {"r2", "q2"} -> "r1"
      [] h = "t2" -> "t1" [] h = "s2" -> "s1" [] h = "s3" -> "s2" [] h = "s4" -> "s3" ]

MCTime == [ h \in MCHash |->
    CASE h = "g" -> 1 [] h = "a1" -> 9 [] h \in {"a2", "z2"} -> 10
      [] h \in {"r1", "s1", "t1"} -> 2
      [] h \in {"r2", "q2", "s2", "t2"} -> 3
      [] h = "s3" -> 4 [] h = "s4" -> 5 ]

MCBits == [ h \in MCHash |-> IF h \in {"g", "a1", "r1", "r2", "t1", "t2"} THEN 4 ELSE 1 ]

MCTransactions == [ h \in MCHash |-> << h >> ]
MCInputs == [ t \in MCHash |-> << >> ]
MCOutputs == [ t \in MCHash |-> {t} ]

MCBlockWork(b) == b
MCAdjustBits(b, span) == IF span > 3 THEN 1 ELSE b
=============================================================================
