--------------------------- MODULE FileStoreProofs ---------------------------
(***************************************************************************)
(* Theorems about FileStore, for every set of blocks, every set of other    *)
(* files and any number of puts, errors, kills and crashes.                 *)
(***************************************************************************)
EXTENDS FileStore, TLAPS

\* A block file is missing or whole and synced, in memory and on the medium.
BlockFilesWhole ==
    \A h \in Hash : /\ cache[block_path(h)] \in {"none", "whole"}
                    /\ disk[block_path(h)] \in {"none", "whole"}

\* Nothing takes a block file away, so what the medium has is visible.
DiskIsVisible ==
    \A h \in Hash : disk[block_path(h)] # "none" => cache[block_path(h)] # "none"

\* An acknowledged block that did not go with its root has reached the medium.
AckedOnDisk == \A h \in acked \ lost : disk[block_path(h)] = "whole"

\* A store is open only on a root that is there, and without one there is no block.
RootHoldsBlocks ==
    /\ pc # "down" => root # "none"
    /\ root = "none" => \A h \in Hash : cache[block_path(h)] = "none"

\* The sweep visits no block file.
EntriesAreResidue == \A n \in entries : n[1] # "block"

\* The sweep still has to visit every residue that it has not failed to remove.
SweepGoesOn == pc = "cleanup" => Residue \subseteq entries \cup failed

\* What put_block knows of its files: the temp file is whole when it is renamed,
\* and gone after that, and the block file is there.
TempReady ==
    /\ pc = "rename" => cache[temp_path(hash)] = "whole"
    /\ pc = "sync_dir" => cache[temp_path(hash)] = "none" /\ cache[block_path(hash)] = "whole"

StoreInv ==
    /\ TypeOK
    /\ BlockFilesWhole
    /\ DiskIsVisible
    /\ AckedOnDisk
    /\ RootHoldsBlocks
    /\ TempReady
    /\ EntriesAreResidue
    /\ SweepGoesOn
    /\ ResidueAccounted

\* The abstract store's variables, as the refinement gives them.
Stored == {h \in Hash : cache[block_path(h)] # "none"}
Durable == {h \in Hash : /\ root = "kept"
                         /\ disk[block_path(h)] # "none" /\ cache[block_path(h)] # "none"}

-----------------------------------------------------------------------------
(* Names                                                                    *)

LEMMA Names ==
    ASSUME NEW h \in Hash
    PROVE  /\ temp_path(h) \in Name /\ block_path(h) \in Name
           /\ temp_path(h)[1] = "tmp" /\ block_path(h)[1] = "block"
  BY DEF Name, temp_path, block_path

LEMMA NamesDiffer ==
    ASSUME NEW h \in Hash, NEW k \in Hash
    PROVE  /\ temp_path(h) # block_path(k)
           /\ h # k => temp_path(h) # temp_path(k) /\ block_path(h) # block_path(k)
  BY DEF temp_path, block_path

\* A step that changes no block file keeps what the invariant says of them.
LEMMA BlocksUntouched ==
    ASSUME StoreInv,
           \A h \in Hash : cache'[block_path(h)] = cache[block_path(h)],
           UNCHANGED << disk, acked, lost >>
    PROVE  /\ BlockFilesWhole' /\ DiskIsVisible' /\ AckedOnDisk'
           /\ UNCHANGED root /\ pc # "down" => RootHoldsBlocks'
  BY DEF StoreInv, TypeOK, BlockFilesWhole, DiskIsVisible, AckedOnDisk, RootHoldsBlocks

-----------------------------------------------------------------------------
(* Steps                                                                    *)

LEMMA InitStore ==
    Init => StoreInv
  <1> SUFFICES ASSUME Init
               PROVE  StoreInv
    OBVIOUS
  <1>1. PICK there \in SUBSET {n \in Name : n[1] \notin {"tmp", "block"}} :
            cache = [n \in Name |-> IF n \in there THEN "whole" ELSE "none"]
    BY DEF Init
  <1>2. TypeOK
    BY <1>1 DEF Init, TypeOK, File
  <1>3. \A h \in Hash : cache[block_path(h)] = "none" /\ disk[block_path(h)] = "none"
    BY <1>1, Names DEF Init
  <1> QED
    BY <1>2, <1>3 DEF Init, StoreInv, BlockFilesWhole, DiskIsVisible, AckedOnDisk, RootHoldsBlocks,
                      TempReady, EntriesAreResidue, SweepGoesOn, ResidueAccounted, Putting

LEMMA OpenTempStep ==
    ASSUME StoreInv, NEW h \in Hash, OpenTemp(h)
    PROVE  StoreInv'
  <1>1. \A k \in Hash : cache'[block_path(k)] = cache[block_path(k)]
    BY Names, NamesDiffer DEF StoreInv, TypeOK, OpenTemp
  <1>2. BlockFilesWhole' /\ DiskIsVisible' /\ AckedOnDisk' /\ RootHoldsBlocks'
    BY <1>1, BlocksUntouched DEF OpenTemp
  <1>3. TypeOK'
    BY Names DEF StoreInv, TypeOK, OpenTemp, File, Putting
  <1>4. ResidueAccounted'
    <2> SUFFICES ASSUME NEW n \in Residue', n # temp_path(h)
                 PROVE  n \in failed'
      BY DEF ResidueAccounted, OpenTemp, Putting
    <2>1. n \in Residue
      BY DEF Residue, StoreInv, TypeOK, OpenTemp
    <2> QED
      BY <2>1 DEF StoreInv, ResidueAccounted, OpenTemp, Putting
  <1> QED
    BY <1>2, <1>3, <1>4 DEF StoreInv, TempReady, EntriesAreResidue, SweepGoesOn, OpenTemp

\* Writing and syncing touch only the temp file of the put in progress.
LEMMA TempStep ==
    ASSUME StoreInv, WriteAll \/ SyncFile
    PROVE  StoreInv'
  <1>1. PICK f \in File : cache' = [cache EXCEPT ![temp_path(hash)] = f]
    BY DEF WriteAll, SyncFile, File
  <1>2. /\ hash \in Hash /\ hash' = hash /\ pc \in Putting /\ pc' \in Putting
        /\ UNCHANGED << root, disk, entries, acked, lost, failed >>
    BY DEF StoreInv, TypeOK, WriteAll, SyncFile, Putting
  <1>3. \A k \in Hash : cache'[block_path(k)] = cache[block_path(k)]
    BY <1>1, <1>2, Names, NamesDiffer DEF StoreInv, TypeOK
  <1>4. BlockFilesWhole' /\ DiskIsVisible' /\ AckedOnDisk' /\ RootHoldsBlocks'
    BY <1>2, <1>3, BlocksUntouched DEF Putting
  <1>5. TypeOK'
    BY <1>1, <1>2, Names DEF StoreInv, TypeOK
  <1>6. ResidueAccounted'
    <2> SUFFICES ASSUME NEW n \in Residue', n # temp_path(hash)
                 PROVE  n \in failed
      BY <1>2 DEF ResidueAccounted
    <2>1. n \in Residue
      BY <1>1 DEF Residue, StoreInv, TypeOK
    <2> QED
      BY <2>1, <1>2 DEF StoreInv, ResidueAccounted
  <1>7. TempReady'
    BY Names DEF StoreInv, TypeOK, TempReady, WriteAll, SyncFile
  <1> QED
    BY <1>2, <1>4, <1>5, <1>6, <1>7 DEF StoreInv, EntriesAreResidue, SweepGoesOn, Putting

LEMMA RenameStep ==
    ASSUME StoreInv, Rename
    PROVE  StoreInv'
  <1>1. hash \in Hash /\ cache[temp_path(hash)] = "whole" /\ pc \in Putting /\ pc' \in Putting
    BY DEF StoreInv, TypeOK, TempReady, Rename, Putting
  <1>2. /\ cache'[block_path(hash)] = "whole" /\ cache'[temp_path(hash)] = "none"
        /\ \A k \in Hash : k # hash => cache'[block_path(k)] = cache[block_path(k)]
        /\ \A n \in Name : n # block_path(hash) /\ n # temp_path(hash) => cache'[n] = cache[n]
    BY <1>1, Names, NamesDiffer DEF StoreInv, TypeOK, Rename
  <1>3. TypeOK'
    BY <1>1, Names DEF StoreInv, TypeOK, Rename, File, Putting
  <1>4. BlockFilesWhole' /\ DiskIsVisible' /\ AckedOnDisk'
    BY <1>1, <1>2 DEF StoreInv, BlockFilesWhole, DiskIsVisible, AckedOnDisk, Rename
  <1>5. RootHoldsBlocks'
    BY DEF StoreInv, RootHoldsBlocks, Rename
  <1>6. ResidueAccounted'
    <2> SUFFICES ASSUME NEW n \in Residue', n # temp_path(hash)
                 PROVE  n \in failed
      BY <1>1 DEF ResidueAccounted, Rename
    <2>1. n \in Residue
      BY <1>1, <1>2, Names DEF Residue
    <2> QED
      BY <1>1, <2>1 DEF StoreInv, ResidueAccounted
  <1> QED
    BY <1>2, <1>3, <1>4, <1>5, <1>6 DEF StoreInv, TempReady, EntriesAreResidue, SweepGoesOn, Rename

LEMMA FlushStep ==
    ASSUME StoreInv, SyncDir \/ CommitAll
    PROVE  StoreInv'
  <1>1. /\ UNCHANGED << hash, root, cache, entries >>
        /\ disk' = cache /\ pc' = "idle" /\ pc # "down" /\ hash \in Hash
    BY DEF StoreInv, TypeOK, SyncDir, CommitAll
  <1>2. TypeOK'
    BY <1>1 DEF StoreInv, TypeOK, SyncDir, CommitAll
  <1>3. BlockFilesWhole' /\ DiskIsVisible' /\ RootHoldsBlocks'
    BY <1>1 DEF StoreInv, BlockFilesWhole, DiskIsVisible, RootHoldsBlocks
  <1>4. AckedOnDisk'
    <2>1. CASE CommitAll
      BY <1>1, <2>1 DEF StoreInv, TypeOK, AckedOnDisk, BlockFilesWhole, DiskIsVisible, CommitAll
    <2>2. CASE SyncDir
      BY <1>1, <2>2 DEF StoreInv, TypeOK, TempReady, AckedOnDisk, BlockFilesWhole, DiskIsVisible, SyncDir
    <2> QED BY <2>1, <2>2
  <1>5. ResidueAccounted'
    <2> SUFFICES ASSUME NEW n \in Residue'
                 PROVE  n \in failed'
      BY DEF ResidueAccounted
    <2>1. n \in Residue
      BY <1>1 DEF Residue
    <2>2. n \in failed \/ (n = temp_path(hash) /\ pc \in Putting)
      BY <2>1 DEF StoreInv, ResidueAccounted, SyncDir, CommitAll, Putting
    <2>3. SyncDir => n # temp_path(hash)
      BY <2>1 DEF StoreInv, TempReady, Residue, SyncDir
    <2> QED
      BY <2>2, <2>3 DEF SyncDir, CommitAll, Putting
  <1> QED
    BY <1>1, <1>2, <1>3, <1>4, <1>5 DEF StoreInv, TempReady, EntriesAreResidue, SweepGoesOn

LEMMA PutFailsStep ==
    ASSUME StoreInv, PutFails
    PROVE  StoreInv'
  <1>1. BlockFilesWhole' /\ DiskIsVisible' /\ AckedOnDisk' /\ RootHoldsBlocks'
    BY BlocksUntouched DEF PutFails, Putting
  <1>2. TypeOK'
    BY DEF StoreInv, TypeOK, PutFails
  <1>3. ResidueAccounted'
    BY DEF StoreInv, ResidueAccounted, Residue, PutFails
  <1> QED
    BY <1>1, <1>2, <1>3 DEF StoreInv, TempReady, EntriesAreResidue, SweepGoesOn, PutFails

\* What a crash that keeps the root leaves of a block file.
LEMMA CrashChooses ==
    ASSUME StoreInv, CrashKeepsRoot
    PROVE  /\ cache' \in [Name -> File]
           /\ \A h \in Hash : cache'[block_path(h)] \in {cache[block_path(h)], disk[block_path(h)]}
  <1>1. PICK reverted, torn : cache' = Survivors(reverted, torn)
    BY DEF CrashKeepsRoot
  <1>2. cache' \in [Name -> File]
    BY <1>1 DEF StoreInv, TypeOK, Survivors, File
  <1>3. ASSUME NEW h \in Hash
        PROVE  cache'[block_path(h)] \in {cache[block_path(h)], disk[block_path(h)]}
    BY <1>1, Names DEF StoreInv, BlockFilesWhole, Survivors
  <1> QED
    BY <1>2, <1>3

\* A crash that keeps the root gives every block file one of its two contents, and
\* both are whole for an acknowledged block that is not lost already.
LEMMA CrashStep ==
    ASSUME StoreInv, Crash
    PROVE  StoreInv'
  <1>1. CASE CrashLosesRoot
    <2>1. \A h \in Hash : cache'[block_path(h)] = "none" /\ disk'[block_path(h)] = "none"
      BY <1>1, Names DEF CrashLosesRoot, Crash
    <2>2. BlockFilesWhole' /\ DiskIsVisible' /\ RootHoldsBlocks' /\ AckedOnDisk'
      BY <1>1, <2>1 DEF BlockFilesWhole, DiskIsVisible, RootHoldsBlocks, AckedOnDisk, Crash,
                        CrashLosesRoot
    <2>3. TypeOK'
      BY <1>1 DEF StoreInv, TypeOK, File, Crash, CrashLosesRoot
    <2> QED
      BY <2>2, <2>3 DEF StoreInv, TempReady, EntriesAreResidue, SweepGoesOn, ResidueAccounted, Putting, Crash
  <1>2. CASE CrashKeepsRoot
    <2>1. \A h \in Hash : /\ cache'[block_path(h)] \in {cache[block_path(h)], disk[block_path(h)]}
                          /\ disk'[block_path(h)] = cache'[block_path(h)]
      BY <1>2, CrashChooses DEF Crash
    <2>2. BlockFilesWhole' /\ DiskIsVisible'
      BY <2>1 DEF StoreInv, BlockFilesWhole, DiskIsVisible
    <2>3. AckedOnDisk'
      BY <1>2, <2>1 DEF StoreInv, TypeOK, BlockFilesWhole, DiskIsVisible, AckedOnDisk, Crash,
                        CrashKeepsRoot
    <2>4. RootHoldsBlocks'
      BY <1>2, <2>1 DEF StoreInv, RootHoldsBlocks, DiskIsVisible, Crash, CrashKeepsRoot
    <2>5. TypeOK'
      BY <1>2, CrashChooses DEF StoreInv, TypeOK, Crash, CrashKeepsRoot
    <2> QED
      BY <2>2, <2>3, <2>4, <2>5 DEF StoreInv, TempReady, EntriesAreResidue, SweepGoesOn, ResidueAccounted, Putting, Crash
  <1> QED
    BY <1>1, <1>2 DEF Crash

LEMMA OpenStep ==
    ASSUME StoreInv, Exit \/ Open \/ OpenFails \/ OpenReturns
    PROVE  StoreInv'
  <1>1. UNCHANGED << hash, cache, disk, acked, lost >>
    BY DEF Exit, Open, OpenFails, OpenReturns
  <1>2. BlockFilesWhole' /\ DiskIsVisible' /\ AckedOnDisk'
    BY <1>1, BlocksUntouched
  <1>3. RootHoldsBlocks'
    BY <1>1 DEF StoreInv, RootHoldsBlocks, Exit, Open, OpenFails, OpenReturns
  <1>4. TypeOK'
    BY <1>1 DEF StoreInv, TypeOK, Residue, Exit, Open, OpenFails, OpenReturns
  <1>5. SweepGoesOn'
    BY <1>1 DEF EntriesAreResidue, SweepGoesOn, Residue, Exit, Open, OpenFails, OpenReturns
  <1>6. ResidueAccounted'
    BY <1>1 DEF StoreInv, EntriesAreResidue, SweepGoesOn, ResidueAccounted, Residue, Exit, Open, OpenFails, OpenReturns,
                Putting
  <1>7. EntriesAreResidue'
    BY <1>1 DEF StoreInv, EntriesAreResidue, Residue, Exit, Open, OpenFails, OpenReturns
  <1> QED
    BY <1>1, <1>2, <1>3, <1>4, <1>5, <1>6, <1>7
       DEF StoreInv, TempReady, Exit, Open, OpenFails, OpenReturns

\* The sweep touches no block file, which Residue excludes from its entries.
LEMMA SweepStep ==
    ASSUME StoreInv, NEW n \in Name, RemoveResidue(n) \/ SkipResidue(n)
    PROVE  /\ StoreInv'
           /\ \A h \in Hash : cache'[block_path(h)] = cache[block_path(h)]
  <1>1. \A h \in Hash : n # block_path(h)
    BY Names DEF StoreInv, EntriesAreResidue, RemoveResidue, SkipResidue
  <1>2. \A h \in Hash : cache'[block_path(h)] = cache[block_path(h)]
    BY <1>1, Names DEF RemoveResidue, SkipResidue, StoreInv, TypeOK
  <1>3. /\ BlockFilesWhole' /\ DiskIsVisible' /\ AckedOnDisk' /\ RootHoldsBlocks'
    BY <1>2, BlocksUntouched DEF RemoveResidue, SkipResidue
  <1>4. TypeOK'
    BY DEF StoreInv, TypeOK, File, Name, RemoveResidue, SkipResidue
  <1>5. SweepGoesOn'
    BY DEF StoreInv, TypeOK, EntriesAreResidue, SweepGoesOn, Residue, RemoveResidue, SkipResidue
  <1> QED
    BY <1>2, <1>3, <1>4, <1>5 DEF StoreInv, EntriesAreResidue, TempReady, ResidueAccounted, Putting,
                                 RemoveResidue, SkipResidue

LEMMA NextStore ==
    StoreInv /\ [Next]_vars => StoreInv'
  <1> SUFFICES ASSUME StoreInv, [Next]_vars
               PROVE  StoreInv'
    OBVIOUS
  <1>1. CASE UNCHANGED vars
    BY <1>1 DEF vars, StoreInv, TypeOK, BlockFilesWhole, DiskIsVisible, AckedOnDisk, RootHoldsBlocks,
                TempReady, EntriesAreResidue, SweepGoesOn, ResidueAccounted, Residue
  <1> QED
    BY <1>1, OpenTempStep, TempStep, RenameStep, FlushStep, PutFailsStep, CrashStep, OpenStep,
       SweepStep DEF Next

-----------------------------------------------------------------------------
(* Theorems                                                                 *)

THEOREM StoreInvariant == Spec => []StoreInv
  BY InitStore, NextStore, PTL DEF Spec

\* Every variable of the store and of a call in progress keeps its type.
THEOREM TypeCorrect == Spec => []TypeOK
  BY StoreInvariant, PTL DEF StoreInv

\* put_block's order of write, fsync, rename and directory sync never shows a torn
\* block, and never loses one it acknowledged except together with a root that new
\* had made and no crash had kept.
THEOREM SurvivalTheorem == Spec => []BlocksSurvive
  <1>1. StoreInv => BlocksSurvive
    <2> SUFFICES ASSUME StoreInv
                 PROVE  BlocksSurvive
      OBVIOUS
    <2>1. NeverCorrupt
      BY DEF StoreInv, BlockFilesWhole, NeverCorrupt, GetBlock
    <2>2. AckedSurvives
      BY DEF StoreInv, TypeOK, AckedOnDisk, DiskIsVisible, BlockFilesWhole, AckedSurvives, GetBlock
    <2> QED BY <2>1, <2>2 DEF BlocksSurvive
  <1> QED BY <1>1, StoreInvariant, PTL

\* On a root whose own name is durable from the start, put_block never loses a block
\* it acknowledged.
THEOREM KeptRootTheorem ==
    Spec /\ root = "kept" => [](\A h \in acked : GetBlock(h) = "Some")
  <1> DEFINE Kept == root = "kept" /\ lost = {}
  <1>1. Init /\ root = "kept" => Kept
    BY DEF Init
  <1>2. StoreInv /\ Kept /\ [Next]_vars => Kept'
    BY DEF Next, vars, OpenTemp, WriteAll, SyncFile, Rename, SyncDir, PutFails, CommitAll, Exit,
           Crash, CrashLosesRoot, CrashKeepsRoot, Open, OpenFails, OpenReturns, RemoveResidue,
           SkipResidue
  <1>3. BlocksSurvive /\ Kept => \A h \in acked : GetBlock(h) = "Some"
    BY DEF BlocksSurvive, AckedSurvives
  <1> QED
    BY <1>1, <1>2, <1>3, StoreInvariant, SurvivalTheorem, PTL DEF Spec

\* The sweep of new, the renames and the successful puts leave no file that a failed
\* put or an ignored failure of the sweep does not explain.
THEOREM ResidueTheorem == Spec => []ResidueAccounted
  BY StoreInvariant, PTL DEF StoreInv

\* A step that leaves the block files and the root alone is no step of the abstract
\* store.
LEMMA BlocksStutter ==
    ASSUME \A h \in Hash : cache'[block_path(h)] = cache[block_path(h)],
           disk' = disk,
           root' = root
    PROVE  /\ Stored' = Stored
           /\ Durable' = Durable
  BY DEF Stored, Durable

\* Every step of the store is a step of the abstract one or a stutter.
LEMMA StepRefines ==
    ASSUME StoreInv, [Next]_vars
    PROVE  [Abstract!Next]_<< Stored, Durable >>
  <1>1. CASE UNCHANGED vars
    BY <1>1, BlocksStutter DEF vars
  <1>2. ASSUME NEW h \in Hash, OpenTemp(h)
        PROVE  << Stored, Durable >>' = << Stored, Durable >>
    <2>1. \A k \in Hash : cache'[block_path(k)] = cache[block_path(k)]
      BY <1>2, Names, NamesDiffer DEF StoreInv, TypeOK, OpenTemp
    <2> QED
      BY <1>2, <2>1, BlocksStutter DEF OpenTemp
  <1>3. CASE WriteAll \/ SyncFile
    <2>1. \A k \in Hash : cache'[block_path(k)] = cache[block_path(k)]
      BY <1>3, Names, NamesDiffer DEF StoreInv, TypeOK, WriteAll, SyncFile
    <2> QED
      BY <1>3, <2>1, BlocksStutter DEF WriteAll, SyncFile
  <1>4. CASE Rename
    <2>1. hash \in Hash /\ cache'[block_path(hash)] = "whole" /\ disk' = disk /\ root' = root
      BY <1>4, Names, NamesDiffer DEF StoreInv, TypeOK, TempReady, Rename
    <2>2. \A k \in Hash : k # hash => cache'[block_path(k)] = cache[block_path(k)]
      BY <1>4, <2>1, Names, NamesDiffer DEF StoreInv, TypeOK, Rename
    <2>3. Stored' = Stored \cup {hash}
      BY <2>1, <2>2 DEF Stored
    <2>4. Durable' = Durable
      BY <2>1, <2>2 DEF Durable, StoreInv, DiskIsVisible
    <2>5. Abstract!Put(hash)
      BY <2>3, <2>4 DEF Abstract!Put, Stored, Durable
    <2> QED
      BY <2>1, <2>5 DEF Abstract!Next
  <1>5. CASE SyncDir \/ CommitAll
    <2>1. Stored' = Stored /\ root' = root
      BY <1>5 DEF Stored, SyncDir, CommitAll
    <2>2. CASE root = "kept"
      <3>1. Durable' = Stored
        BY <1>5, <2>2 DEF Stored, Durable, SyncDir, CommitAll
      <3>2. Abstract!Commit
        BY <2>1, <3>1 DEF Abstract!Commit, Stored, Durable
      <3> QED
        BY <3>2 DEF Abstract!Next
    <2>3. CASE root # "kept"
      BY <2>1, <2>3 DEF Durable
    <2> QED BY <2>2, <2>3
  <1>6. CASE PutFails \/ Exit \/ OpenFails \/ OpenReturns
    BY <1>6, BlocksStutter DEF PutFails, Exit, OpenFails, OpenReturns
  <1>7. CASE Open
    BY <1>7 DEF Open, Stored, Durable
  <1>8. CASE Crash
    <2>1. Stored' \subseteq Stored /\ Durable \subseteq Stored' /\ Durable' = Stored'
      <3>1. CASE CrashLosesRoot
        <4>1. Stored' = {}
          BY <3>1, Names DEF CrashLosesRoot, Stored
        <4>2. Durable = {} /\ Durable' = {}
          BY <3>1 DEF CrashLosesRoot, Durable
        <4> QED
          BY <4>1, <4>2
      <3>2. CASE CrashKeepsRoot
        <4>1. \A h \in Hash :
                  /\ cache'[block_path(h)] \in {cache[block_path(h)], disk[block_path(h)]}
                  /\ disk'[block_path(h)] = cache'[block_path(h)]
          BY <1>8, <3>2, CrashChooses DEF Crash
        <4>2. Stored' \subseteq Stored /\ Durable \subseteq Stored'
          BY <4>1 DEF Stored, Durable, StoreInv, DiskIsVisible
        <4>3. root' = "kept" => Durable' = Stored'
          BY <4>1 DEF Stored, Durable
        <4>4. root' # "kept" => Durable' = {} /\ Stored' = {}
          <5>1. root' # "kept" => root = "none"
            BY <3>2 DEF CrashKeepsRoot, StoreInv, TypeOK
          <5> QED
            BY <4>2, <5>1 DEF StoreInv, RootHoldsBlocks, Stored, Durable
        <4> QED
          BY <4>2, <4>3, <4>4
      <3> QED BY <1>8, <3>1, <3>2 DEF Crash
    <2>2. Abstract!Crash
      BY <2>1 DEF Abstract!Crash, Stored, Durable
    <2> QED
      BY <2>2 DEF Abstract!Next
  <1>9. ASSUME NEW n \in Name, RemoveResidue(n) \/ SkipResidue(n)
        PROVE  << Stored, Durable >>' = << Stored, Durable >>
    BY <1>9, SweepStep, BlocksStutter DEF RemoveResidue, SkipResidue
  <1> QED
    BY <1>1, <1>2, <1>3, <1>4, <1>5, <1>6, <1>7, <1>8, <1>9 DEF Next

\* The file store, with its temp files, errors, crashes and sweep, implements the
\* abstract store: a crash loses at most what was stored and not flushed to a root
\* that outlives it.
THEOREM AtomicTheorem == Spec => ImplementsAtomicStore
  <1>1. Init => Abstract!Init
    <2> SUFFICES ASSUME Init
                 PROVE  Stored = {} /\ Durable = {}
      BY DEF Abstract!Init, Stored, Durable
    <2>1. \A h \in Hash : cache[block_path(h)] = "none"
      BY Names DEF Init
    <2> QED
      BY <2>1 DEF Stored, Durable
  <1>2. StoreInv /\ [Next]_vars => [Abstract!Next]_<< Stored, Durable >>
    BY StepRefines
  <1> QED
    BY <1>1, <1>2, StoreInvariant, PTL DEF Spec, ImplementsAtomicStore, Abstract!Spec, Stored, Durable

=============================================================================
