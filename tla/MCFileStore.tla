---------------------------- MODULE MCFileStore ----------------------------
(* FileStore with two blocks and one other file of each kind.               *)
EXTENDS FileStore
=============================================================================
