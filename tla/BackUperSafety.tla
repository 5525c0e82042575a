--------------------------- MODULE BackUperSafety ---------------------------
(***************************************************************************)
(* What the backup archive gets right, and under which circumstances.      *)
(***************************************************************************)
EXTENDS BackUper

\* A running instance lists every path that has a chunk in the archive, so
\* that BackUp never takes the branch that writes the new chunk alone (an
\* empty list) and never appends a second chunk (an unlisted path) while the
\* archive has one.
ListCoversArchive ==
    \A i \in Instances : pc[i] # Off => Listed(archive) \subseteq mArchiveFiles[i]

\* The archive never holds two chunks of one script: CalcOffsetInArray finds
\* the first chunk of a path, and a second one would never be restored.
UniqueIn(chunks) ==
    \A j, k \in DOMAIN chunks : chunks[j].path = chunks[k].path => j = k

ChunksUnique == UniqueIn(Chunks(archive))

\* Every chunk of the archive is the latest copy taken of its script: no crash,
\* no lost write and no failed restore brings an older copy back.
LatestIn(chunks, known) ==
    \A k \in DOMAIN chunks : chunks[k].ver = known[chunks[k].path]

ChunkIsLatest == LatestIn(Chunks(archive), latest)

\* Why the three hold: what one instance has in memory is as good as the archive,
\* but for the chunk it is about to replace, and while it writes there is no
\* other archive.  With a second instance, or a listing that fails, the list
\* stops covering the archive and the rest falls.
LatestBut(chunks, p, known) ==
    \A k \in DOMAIN chunks :
        chunks[k].path # p => chunks[k].ver = known[chunks[k].path]

PathsWithin(chunks, listed) == \A k \in DOMAIN chunks : chunks[k].path \in listed

SoloInv ==
    /\ ListCoversArchive
    /\ ChunksUnique
    /\ ChunkIsLatest
    /\ \A i \in Instances :
        /\ pc[i] = "bkWrite" => archive = <<>>
        /\ pc[i] \in {"bkTrunc", "bkWrite"} \cup InRestore =>
              /\ UniqueIn(data[i])
              /\ PathsWithin(data[i], mArchiveFiles[i])
        /\ pc[i] \in {"bkTrunc", "bkWrite"} => LatestBut(data[i], cur[i], latest)
        /\ pc[i] \in InRestore => LatestIn(data[i], latest)

\* Every chunk has the text of its own script.
OwnIn(chunks) ==
    \A k \in DOMAIN chunks :
        chunks[k].ver # Torn => chunks[k].ver.of = chunks[k].path

\* A script never has another script's text, neither on the disk after a restore
\* nor in the archive, however the operations of several instances interleave
\* and wherever they are cut short.
NoForeignContent ==
    /\ \A p \in Paths : scripts[p] \notin {NoFile, Torn} => scripts[p].of = p
    /\ OwnIn(Chunks(archive))

\* An archive that was removed because its last chunk was restored is created
\* again by an open only, never by the late write of another instance that had
\* read it before: those chunks were given back to the disk.
NoRevival ==
    [][archive = NoArchive /\ archive' # NoArchive => archive' = <<>>]_archive
-----------------------------------------------------------------------------
(* What the program tells its user.                                        *)

\* When "Backup is success" is shown (se3.cpp:448) the archive has that copy.
BackUpTellsTruth ==
    [][\A i \in Instances :
         outcome[i] # "backedUp" /\ outcome'[i] = "backedUp" =>
             /\ Found(Chunks(archive'), cur[i])
             /\ archive'[Offset(archive', cur[i])].ver = latest'[cur[i]]]_vars

\* When "The script was successfully restored" is shown (se3.cpp:470) for a script that the
\* window shows to have a copy, a chunk of that script was found.  (For a path that is not
\* listed, the empty one for instance, it is shown as well, and nothing was.)
ListedIsRestored ==
    [][\A i \in Instances :
         /\ outcome[i] # "restored" /\ outcome'[i] = "restored"
         /\ cur[i] \in mArchiveFiles[i]
         => Found(data[i], cur[i])]_vars

\* A restore gives back the latest copy taken of its script, or a torn one if the disk is
\* full: not an older copy that a backup, a restore or a crash before it left behind.
RestoreGivesLatest ==
    [][\A i \in Instances :
         pc[i] = "rsCreate" /\ scripts'[cur[i]] # scripts[cur[i]] /\ pc'[i] = "rsDrop" =>
             scripts'[cur[i]] \in {latest[cur[i]], Torn}]_vars

\* When no file operation fails, the icon of a script shows between operations whether a
\* copy of it exists (models.h:115, for the display of the presence of backup copies): the
\* list of an instance is kept, extended and read anew by different operations, and a crash
\* may leave an archive that is empty.
IconShowsBackup ==
    \A i \in Instances : pc[i] = "idle" => mArchiveFiles[i] = Listed(archive)
-----------------------------------------------------------------------------
(* One instance, no file operation failing: the archive is the vault of    *)
(* Vault.tla.                                                              *)

Me == CHOOSE i \in Instances : TRUE

\* The chunks that count: those in memory while the file is truncated.
Kept ==
    CASE pc[Me] \in {"bkWrite", "rsScript", "rsCreate"} -> data[Me]
      [] pc[Me] = "rsDrop" -> Rest(data[Me], cur[Me])
      [] OTHER -> Chunks(archive)

CopyIn(chunks, p) ==
    IF Found(chunks, p) THEN chunks[Offset(chunks, p)].ver ELSE NoFile

Copies == [p \in Paths |-> CopyIn(Kept, p)]

\* A copy is being taken until the file is truncated for it, and has been given back
\* until the file is written without it.
BeingTaken ==
    IF pc[Me] \in {"bkRead", "bkTrunc"}
    THEN <<cur[Me], CopyIn(data[Me], cur[Me])>>
    ELSE NoFile

BeingGiven ==
    IF pc[Me] = "rsDrop" /\ Found(data[Me], cur[Me]) THEN cur[Me] ELSE NoFile

\* Why the archive is the vault: while no file operation fails, the list is exact whenever
\* it is asked, a backup changes no copy but its own, a restore finds the copies listed,
\* and all that a crash can lose is in memory.
ExactInv ==
    \A i \in Instances :
        /\ m_sErrCode[i] = 0
        /\ pc[i] \in {"idle", "bkRead", "rsTrunc"} => mArchiveFiles[i] = Listed(archive)
        /\ pc[i] = "bkRead" => mArchiveFiles[i] # {}
        /\ pc[i] \in {"bkTrunc", "bkWrite"} \cup InRestore =>
              mArchiveFiles[i] = Listed(data[i])
        /\ pc[i] = "bkTrunc" =>
              \A p \in Paths \ {cur[i]} : CopyIn(data[i], p) = CopyIn(Chunks(archive), p)
        /\ pc[i] = "rsTrunc" => data[i] = Chunks(archive)
        /\ pc[i] = "rsCreate" => Found(data[i], cur[i])
        /\ pc[i] \in {"bkWrite", "rsScript", "rsCreate", "rsDrop"} =>
              i \in writers /\ archive = <<>>

V == INSTANCE Vault WITH
        None <- NoFile,
        MayCrash <- "crash" \in Faults,
        vault <- Copies,
        pending <- BeingTaken,
        given <- BeingGiven

\* BackUp replaces exactly one copy with what was on the disk, restoring takes
\* exactly one copy out and puts it on the disk, nothing else changes a copy but a crash,
\* which loses all of them or none.
VaultSpec == V!Spec
=============================================================================
