----------------------------- MODULE FileStore -----------------------------
(***************************************************************************)
(* FileBlockStore (store/disk.rs) on a file system that keeps names and     *)
(* contents in memory until they are synced, with an I/O error possible at  *)
(* every call and a crash possible between any two.                         *)
(*                                                                          *)
(* A file is                                                                *)
(*   none    not there                                                      *)
(*   torn    shorter than its block                                         *)
(*   dirty   fully written and not synced: after a crash torn or whole      *)
(*   whole   fully written and synced                                       *)
(* cache is what the process sees, disk what is surely in the directory on  *)
(* the medium.  A crash keeps, name by name, one or the other.  The name of *)
(* the directory itself is in its parent, which no code here syncs: a       *)
(* directory that new has made is lost whole or kept by the next crash.     *)
(***************************************************************************)
EXTENDS Naturals, FiniteSets

CONSTANTS
    Hash,
    Stray,     \* names that are no block's: not 64 hex digits, or of some .tmp file
    NonUtf8,   \* names that are not UTF-8
    HexName    \* names of 64 hex digits, some in upper case: no block's either

VARIABLES
    pc,        \* where the one owner of the store is
    hash,      \* the block of the current put_block
    root,      \* the directory: not there, new (not synced in its parent) or kept
    cache,     \* name -> file
    disk,
    entries,   \* files of the directory that cleanup_temp_files has yet to remove
    acked,     \* blocks whose put_block, or a commit after it, returned Ok
    lost,      \* of these, the ones that went with their root and were not put again
    failed     \* files that failing calls have left since the store was opened

vars == << pc, hash, root, cache, disk, entries, acked, lost, failed >>

temp_path(h) == << "tmp", h >>
block_path(h) == << "block", h >>
Name == ({"tmp", "block"} \X Hash) \cup ({"stray"} \X Stray)
            \cup ({"nonutf8"} \X NonUtf8) \cup ({"hexname"} \X HexName)
File == {"none", "torn", "dirty", "whole"}

\* The places of put_block between two system calls.
Putting == {"write", "sync", "rename", "sync_dir"}

-----------------------------------------------------------------------------
(* put_block                                                                *)

\* Any call of put_block fails: the rest is left undone, the temp file stays.
PutFails ==
    /\ pc \in Putting
    /\ failed' = failed \cup {temp_path(hash)}
    /\ pc' = "idle"
    /\ UNCHANGED << hash, root, cache, disk, entries, acked, lost >>

\* OpenOptions: create and truncate.
OpenTemp(h) ==
    /\ pc = "idle"
    /\ hash' = h
    /\ cache' = [cache EXCEPT ![temp_path(h)] = "torn"]
    /\ pc' = "write"
    /\ UNCHANGED << root, disk, entries, acked, lost, failed >>

WriteAll ==
    /\ pc = "write"
    /\ cache' = [cache EXCEPT ![temp_path(hash)] = "dirty"]
    /\ pc' = "sync"
    /\ UNCHANGED << hash, root, disk, entries, acked, lost, failed >>

\* file.sync_all()
SyncFile ==
    /\ pc = "sync"
    /\ cache' = [cache EXCEPT ![temp_path(hash)] = "whole"]
    /\ pc' = "rename"
    /\ UNCHANGED << hash, root, disk, entries, acked, lost, failed >>

\* Mutant of Rename: copies, and leaves the temp file.
MutRename ==
    /\ pc = "rename"
    /\ cache' = [cache EXCEPT ![block_path(hash)] = cache[temp_path(hash)]]
    /\ pc' = "sync_dir"
    /\ UNCHANGED << hash, root, disk, entries, acked, lost, failed >>

Rename ==
    /\ pc = "rename"
    /\ cache' = [cache EXCEPT ![block_path(hash)] = cache[temp_path(hash)],
                              ![temp_path(hash)] = "none"]
    /\ pc' = "sync_dir"
    /\ UNCHANGED << hash, root, disk, entries, acked, lost, failed >>

\* Mutant of SyncDir: returns without syncing.
MutSyncDir ==
    /\ pc = "sync_dir"
    /\ acked' = acked \cup {hash}
    /\ lost' = lost \ {hash}
    /\ failed' = failed \ {temp_path(hash)}
    /\ pc' = "idle"
    /\ UNCHANGED << hash, root, cache, disk, entries >>

\* sync_dir, and put_block returns Ok.
SyncDir ==
    /\ pc = "sync_dir"
    /\ disk' = cache
    /\ acked' = acked \cup {hash}
    /\ lost' = lost \ {hash}
    /\ failed' = failed \ {temp_path(hash)}
    /\ pc' = "idle"
    /\ UNCHANGED << hash, root, cache, entries >>

\* commit returns Ok, and with it every block that is visible is acknowledged.
CommitAll ==
    /\ pc = "idle"
    /\ disk' = cache
    /\ LET visible == {h \in Hash : cache[block_path(h)] # "none"}
       IN  acked' = acked \cup visible /\ lost' = lost \ visible
    /\ UNCHANGED << pc, hash, root, cache, entries, failed >>

\* get_block: the answer for h.
GetBlock(h) ==
    CASE cache[block_path(h)] = "none" -> "None"
      [] cache[block_path(h)] = "torn" -> "Corrupt"
      [] OTHER -> "Some"

-----------------------------------------------------------------------------
(* The end of the process, crashes and FileBlockStore::new                  *)

\* The process ends or is killed.  What it has not synced is still there.
Exit ==
    /\ pc # "down"
    /\ pc' = "down"
    /\ entries' = {}
    /\ UNCHANGED << hash, root, cache, disk, acked, lost, failed >>

\* The directory when the names in reverted fall back to what was synced and, of
\* the files that were not, the ones in torn are cut short.
Survivors(reverted, torn) ==
    [n \in Name |-> LET f == IF n \in reverted THEN disk[n] ELSE cache[n]
                    IN  IF f # "dirty" THEN f ELSE IF n \in torn THEN "torn" ELSE "whole"]

\* A root that create_dir_all has made is lost, with every block in it.
CrashLosesRoot ==
    /\ root = "new"
    /\ root' = "none"
    /\ cache' = [n \in Name |-> "none"]
    /\ lost' = lost \cup acked

CrashKeepsRoot ==
    /\ root' = IF root = "new" THEN "kept" ELSE root
    /\ \E reverted \in SUBSET {n \in Name : cache[n] # disk[n]},
         torn \in SUBSET {n \in Name : "dirty" \in {cache[n], disk[n]}} :
            cache' = Survivors(reverted, torn)
    /\ UNCHANGED lost

\* The machine crashes, whether a process runs or not.
Crash ==
    /\ CrashLosesRoot \/ CrashKeepsRoot
    /\ disk' = cache'
    /\ pc' = "down"
    /\ entries' = {}
    /\ UNCHANGED << hash, acked, failed >>

\* Files cleanup_temp_files removes: is_valid_block_filename takes upper case too.
Residue == {n \in Name : n[1] \notin {"block", "hexname"} /\ cache[n] # "none"}

\* create_dir_all, and the read_dir of cleanup_temp_files.
Open ==
    /\ pc = "down"
    /\ pc' = "cleanup"
    /\ root' = IF root = "none" THEN "new" ELSE root
    /\ entries' = Residue
    /\ failed' = {}
    /\ UNCHANGED << hash, cache, disk, acked, lost >>

\* Mutant of RemoveResidue: every file goes.
MutRemoveResidue(n) ==
    /\ pc = "cleanup"
    /\ cache[n] # "none"
    /\ cache' = [cache EXCEPT ![n] = "none"]
    /\ entries' = entries \ {n}
    /\ UNCHANGED << pc, hash, root, disk, acked, lost, failed >>

\* One removal; it is not synced.
RemoveResidue(n) ==
    /\ pc = "cleanup" /\ n \in entries
    /\ cache' = [cache EXCEPT ![n] = "none"]
    /\ entries' = entries \ {n}
    /\ UNCHANGED << pc, hash, root, disk, acked, lost, failed >>

\* The removal of a name that is not UTF-8 fails, and the loop goes on.
SkipResidue(n) ==
    /\ pc = "cleanup" /\ n \in entries
    /\ n[1] = "nonutf8"
    /\ entries' = entries \ {n}
    /\ failed' = failed \cup {n}
    /\ UNCHANGED << pc, hash, root, cache, disk, acked, lost >>

\* read_dir, an entry of it or any other removal fails, and with it new: there is
\* no store until the next attempt.
OpenFails ==
    /\ pc = "cleanup"
    /\ pc' = "down"
    /\ entries' = {}
    /\ UNCHANGED << hash, root, cache, disk, acked, lost, failed >>

OpenReturns ==
    /\ pc = "cleanup"
    /\ entries = {}
    /\ pc' = "idle"
    /\ UNCHANGED << hash, root, cache, disk, entries, acked, lost, failed >>

-----------------------------------------------------------------------------
\* No directory, or one that holds no block but may hold other files.
Init ==
    /\ pc = "down"
    /\ hash \in Hash
    /\ root \in {"none", "kept"}
    /\ \E there \in SUBSET {n \in Name : n[1] \notin {"tmp", "block"}} :
          /\ root = "none" => there = {}
          /\ cache = [n \in Name |-> IF n \in there THEN "whole" ELSE "none"]
    /\ disk = cache
    /\ entries = {} /\ acked = {} /\ lost = {} /\ failed = {}

Next ==
    \/ \E h \in Hash : OpenTemp(h)
    \/ WriteAll \/ SyncFile \/ Rename \/ SyncDir \/ PutFails
    \/ CommitAll
    \/ Exit \/ Crash
    \/ Open \/ OpenFails \/ OpenReturns
    \/ \E n \in Name : RemoveResidue(n) \/ SkipResidue(n)

Spec == Init /\ [][Next]_vars

-----------------------------------------------------------------------------
(* Properties                                                               *)

TypeOK ==
    /\ pc \in {"down", "cleanup", "idle"} \cup Putting
    /\ hash \in Hash
    /\ root \in {"none", "new", "kept"}
    /\ cache \in [Name -> File] /\ disk \in [Name -> File]
    /\ entries \subseteq Name
    /\ acked \subseteq Hash /\ lost \subseteq Hash
    /\ failed \subseteq {temp_path(h) : h \in Hash} \cup ({"nonutf8"} \X NonUtf8)

\* get_block never finds a torn block, whatever put_block was interrupted by an
\* error, a kill or a crash, and however often.
NeverCorrupt == \A h \in Hash : GetBlock(h) # "Corrupt"

\* A block whose put_block returned Ok is found ever after, unless it went with a
\* root that new had made and no crash had yet kept.
AckedSurvives == \A h \in acked \ lost : GetBlock(h) = "Some"

\* Errors, kills and crashes in the middle of put_block and of the sweep neither
\* show a torn block nor lose an acknowledged one.  The exception is put_block's
\* own: it syncs the root but not the directory that holds the root's name
\* (disk.rs:30, 75-81), so a crash may take a new root with its blocks.
BlocksSurvive == NeverCorrupt /\ AckedSurvives

\* The residue of an open store is the temp file of the put in progress, temp files
\* of its own failed puts, and files whose name is not UTF-8 and which new failed
\* to remove; a put that succeeds takes away what a failed one of the same block
\* left.  ("Stale `*.tmp` residue from interrupted writes is removed on open.")
ResidueAccounted ==
    pc \in {"idle"} \cup Putting =>
        \A n \in Residue : n \in failed \/ (n = temp_path(hash) /\ pc \in Putting)

\* Temp file, fsync, rename and directory sync implement the abstract store.  What
\* is flushed outlives a crash only in a root that does.
Abstract == INSTANCE AtomicStore WITH
    stored  <- {h \in Hash : cache[block_path(h)] # "none"},
    durable <- {h \in Hash : /\ root = "kept"
                             /\ disk[block_path(h)] # "none" /\ cache[block_path(h)] # "none"}

ImplementsAtomicStore == Abstract!Spec
=============================================================================
