--------------------------- MODULE MCPeerManager ---------------------------
(* A seed and two inbound connections, from three addresses.  Two messages   *)
(* of the seed and one of the first inbound connection are enough to fill a  *)
(* command queue while its task writes or announces; the second competes for *)
(* slots and queues.                                                         *)
EXTENDS PeerManager

MCSeeds == << "o" >>
MCAddr == [c \in Conn |-> CASE c = "o" -> "x" [] c = "i1" -> "y" [] OTHER -> "z"]
MCReads == [c \in Conn |-> CASE c = "o" -> 2 [] c = "i1" -> 1 [] OTHER -> 0]

=============================================================================
