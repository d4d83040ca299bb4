--------------------------- MODULE MCEventJournal ---------------------------
(* Rings of two entries, up to five events, two peers and the wallet.       *)
EXTENDS EventJournal, TLC

Symmetry == Permutations(Peer)
=============================================================================
