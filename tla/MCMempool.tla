----------------------------- MODULE MCMempool -----------------------------
(***************************************************************************)
(* The pool on a chain with forks:                                          *)
(*                                                                          *)
(*     g -- a1 -- a2        a1 confirms pay and big, a2 a child of pay      *)
(*      \-- b1              one block with more work than a2                *)
(*      \-- r1 -- x2        r1 confirms rival, which conflicts with pay;    *)
(*                          x2 has the most work but fails to connect       *)
(*                                                                          *)
(* child spends pay; other and big are independent and take two bytes.  Fee *)
(* rates: pay 1, rival and big 2, child and other 3.  A reorg from a2 to b1 *)
(* gives child back before pay; in a pool of pay and other, restoring big   *)
(* evicts pay and is refused all the same.                                  *)
(***************************************************************************)
EXTENDS MempoolSync

MCHash == {"g", "a1", "a2", "b1", "r1", "x2"}

MCBranch == [ h \in MCHash |->
    CASE h = "g"  -> << "g" >>
      [] h = "a1" -> << "g", "a1" >>
      [] h = "a2" -> << "g", "a1", "a2" >>
      [] h = "b1" -> << "g", "b1" >>
      [] h = "r1" -> << "g", "r1" >>
      [] h = "x2" -> << "g", "r1", "x2" >> ]

MCWork == [ h \in MCHash |->
    CASE h = "g" -> 1 [] h \in {"a1", "r1"} -> 2 [] h = "a2" -> 3
      [] h = "b1" -> 4 [] h = "x2" -> 6 ]

MCCoinbase == {"cb0", "cb0b", "cb0c", "cb1", "cb2"}
MCTx == MCCoinbase \cup {"pay", "rival", "child", "other", "big"}

MCTransactions == [ h \in MCHash |->
    CASE h = "g"  -> << "cb0", "cb0b", "cb0c" >>
      [] h = "a1" -> << "cb1", "pay", "big" >>
      [] h = "a2" -> << "cb2", "child" >>
      [] h = "r1" -> << "cb1", "rival" >>
      [] h = "b1" -> << "cb1" >>
      [] h = "x2" -> << "cb2" >> ]

\* Every transaction has one output, named after it.
MCInputs == [ t \in MCTx |->
    CASE t \in MCCoinbase -> << >>
      [] t \in {"pay", "rival"} -> << "cb0" >>
      [] t = "child" -> << "pay" >>
      [] t = "other" -> << "cb0b" >>
      [] t = "big" -> << "cb0c" >> ]
MCOutputs == [ t \in MCTx |-> {t} ]
MCTxidOf == [ o \in MCTx |-> o ]

MCSize == [ t \in MCTx |-> IF t \in {"other", "big"} THEN 2 ELSE 1 ]
MCFeeRate == [ t \in MCTx |->
    CASE t \in {"child", "other"} -> 3 [] t \in {"rival", "big"} -> 2 [] OTHER -> 1 ]
=============================================================================
