--------------------------- MODULE MCConversation ---------------------------
(***************************************************************************)
(* The listener's chain is a1; the other peers of the dialer bring it the   *)
(* rest of the branch b1, b2, b3 and a transaction; the listener gets the   *)
(* same transaction or b2 from elsewhere.                                   *)
(***************************************************************************)
EXTENDS Conversation

MCBlock == {"a1", "b1", "b2", "b3"}
MCPrev == [ b \in MCBlock |->
    CASE b \in {"a1", "b1"} -> "genesis" [] b = "b2" -> "b1" [] b = "b3" -> "b2" ]
MCHeight == [ b \in MCBlock |-> CASE b \in {"a1", "b1"} -> 1 [] b = "b2" -> 2 [] b = "b3" -> 3 ]
MCFirst == [dialer |-> {"b1"}, listener |-> {"a1"}]
MCFeeds == {[dialer |-> {"b2", "b3", "t"}, listener |-> {i}] : i \in {"b2", "t"}}
MCNonces == {[dialer |-> 1, listener |-> n] : n \in {1, 2}}
=============================================================================
