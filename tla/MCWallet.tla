------------------------------ MODULE MCWallet ------------------------------
(***************************************************************************)
(*   g -- a1 -- a2 -- a3                                                    *)
(*    \     \-- q2                                                          *)
(*     \-- b1 -- b2 -- b3                                                   *)
(*      \           \-- x3     x3 is invalid                                *)
(*       \-- s1                one block, heavier than a3                   *)
(*                                                                          *)
(* a1 and b1 create one coin in common; s1 spends a coin that it creates.   *)
(* By way of q2, b2, a2 and b3 a wallet may read a2 for q2 and take it back *)
(* after it has taken back a1, whose coin a2 spends.                        *)
(***************************************************************************)
EXTENDS Wallet

MCBlock == {"g", "a1", "a2", "a3", "q2", "b1", "b2", "b3", "x3", "s1"}
MCBranch == [ b \in MCBlock |->
    CASE b = "g" -> << "g" >>
      [] b = "a1" -> << "g", "a1" >> [] b = "a2" -> << "g", "a1", "a2" >>
      [] b = "a3" -> << "g", "a1", "a2", "a3" >> [] b = "q2" -> << "g", "a1", "q2" >>
      [] b = "b1" -> << "g", "b1" >> [] b = "b2" -> << "g", "b1", "b2" >>
      [] b = "b3" -> << "g", "b1", "b2", "b3" >> [] b = "x3" -> << "g", "b1", "b2", "x3" >>
      [] b = "s1" -> << "g", "s1" >> ]
MCWork == [ b \in MCBlock |->
    CASE b = "g" -> 1 [] b \in {"a1", "b1"} -> 2 [] b = "q2" -> 3 [] b = "b2" -> 4
      [] b = "a2" -> 5 [] b = "a3" -> 6 [] b = "s1" -> 7 [] b = "b3" -> 8 [] b = "x3" -> 9 ]
MCCoin == {"c0", "c1", "c2", "c3", "c4", "d2", "e1"}
MCCreates == [ b \in MCBlock |->
    CASE b = "g" -> {"c0"} [] b = "a1" -> {"c1", "c4"} [] b = "a2" -> {"c2"}
      [] b = "a3" -> {"c3"} [] b = "b1" -> {"c1"} [] b = "b2" -> {"d2"} [] b = "s1" -> {"e1"}
      [] OTHER -> {} ]
MCSpends == [ b \in MCBlock |->
    CASE b = "a2" -> {"c1", "c4"} [] b = "a3" -> {"c0"} [] b = "b1" -> {"c0"}
      [] b = "b3" -> {"d2"} [] b = "s1" -> {"e1"} [] OTHER -> {} ]
MCPayee == [ c \in MCCoin |-> IF c \in {"d2", "c2"} THEN "bob" ELSE "alice" ]
=============================================================================
