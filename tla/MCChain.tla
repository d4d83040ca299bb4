------------------------------ MODULE MCChain ------------------------------
(***************************************************************************)
(* Chain on a tree with three branches:                                     *)
(*                                                                          *)
(*        g -- a1 -- a2                                                     *)
(*         \-- b1 -- b2 -- b3      b2 spends an output of a1                *)
(*         |     \-- c2 -- c3                                               *)
(*         |     \-- x2            x2 fails the header checks               *)
(*         \-- big                 over the size limit                      *)
(*                                                                          *)
(* All blocks have work 1, so b3 and c3 beat a2.  b2 passes the checks a    *)
(* side-chain block gets while a1 is active and fails when its branch is    *)
(* connected.  a2 spends an output created in the same block.               *)
(***************************************************************************)
EXTENDS Chain

MCHash == {"g", "a1", "a2", "b1", "b2", "b3", "c2", "c3", "x2", "big"}

MCPrev == [ h \in MCHash |->
    CASE h = "g" -> "none" [] h \in {"a1", "b1", "big"} -> "g" [] h = "a2" -> "a1"
      [] h \in {"b2", "c2", "x2"} -> "b1" [] h = "b3" -> "b2" [] h = "c3" -> "c2" ]

MCTime == [ h \in MCHash |->
    CASE h = "g" -> 1 [] h \in {"a1", "b1", "big"} -> 2
      [] h \in {"a2", "b2", "c2", "x2"} -> 3 [] h \in {"b3", "c3"} -> 4 ]

MCBits == [ h \in MCHash |-> 1 ]

\* Branches mine the same coinbase at the same height.
MCTransactions == [ h \in MCHash |->
    CASE h = "g"  -> << "cb0" >>
      [] h = "a1" -> << "cb1", "pay" >>
      [] h = "a2" -> << "cb2", "move", "again" >>
      [] h \in {"b1", "big"} -> << "cb1b" >>
      [] h = "b2" -> << "cb2", "useA" >>
      [] h = "b3" -> << "cb3" >>
      [] h \in {"c2", "x2"} -> << "cb2" >>
      [] h = "c3" -> << "cb3", "pay" >> ]

MCCoinbase == {"cb0", "cb1", "cb1b", "cb2", "cb3"}
MCTx == MCCoinbase \cup {"pay", "move", "again", "useA"}

\* Every transaction has one output, named after it.
MCInputs == [ t \in MCTx |->
    CASE t \in MCCoinbase -> << >>
      [] t = "pay"   -> << "cb0" >>
      [] t = "move"  -> << "pay" >>
      [] t = "again" -> << "move" >>
      [] t = "useA"  -> << "cb1" >> ]
MCOutputs == [ t \in MCTx |-> {t} ]

MCBlockWork(b) == b
MCAdjustBits(b, span) == b
=============================================================================
