------------------------------ MODULE BackUper ------------------------------
(***************************************************************************)
(* The archive of script backups of SE3 (SE3/include/backuper.cpp) as the  *)
(* program uses it: ScriptsManager::BackupScript, RestoreScript and        *)
(* FindProccedure (SE3/scriptsmanager.cpp), called from the buttons of the *)
(* main window (SE3/se3.cpp).                                              *)
(*                                                                         *)
(* One archive file holds a compressed sequence of chunks (relative path,  *)
(* content).  BackUp and RestoreFileFromArchive read all of it into        *)
(* memory, truncate the file and write it again, and every running program *)
(* keeps a list of the paths it believes are in the archive.  Each file    *)
(* operation is an action of its own, so that other instances of the       *)
(* program, external edits of the scripts and crashes fall between them.   *)
(* Files have POSIX semantics: a file may be unlinked while it is open,    *)
(* and what is then written to it is gone.                                 *)
(***************************************************************************)
EXTENDS Naturals, Sequences, SequencesExt

CONSTANTS
    Instances,  \* running copies of SE3 that share one installation directory
    Paths,      \* relative paths of scripts
    Versions,   \* what a user may write into a script
    Torn,       \* the content of a file that was created and never written
    NoFile,     \* a script that is not on the disk
    NoArchive,  \* an archive that is not on the disk
    Faults,     \* what the environment may do: a subset of FaultKinds
    MaxChunks   \* bound on the archive's length (reached by two instances only)

FaultKinds ==
    {"list",    \* an open() of the archive fails while its paths are listed
     "open",    \* an open() of the archive fails in BackUp or in a restore
     "write",   \* a write() stores nothing (a full disk); the code never looks
     "script",  \* a script cannot be read, removed or created
     "crash"}   \* the program dies between two file operations

\* The contents of a script carry the script they were written for.
Content == [of : Paths, n : Versions] \cup {Torn}
Chunk == [path : Paths, ver : Content]

ASSUME BackUperAssumption ==
    /\ Faults \subseteq FaultKinds
    /\ MaxChunks \in Nat
    /\ Torn \notin [of : Paths, n : Versions]
    /\ NoFile \notin Content /\ NoFile \notin Paths /\ NoFile \notin Paths \X Content
    /\ NoArchive \notin Seq(Chunk)

VARIABLES
    scripts,        \* scripts[p]: what is on the disk at p
    archive,        \* the chunks of the archive file, or NoArchive
    writers,        \* instances whose open archive file is still linked to its name
    mArchiveFiles,  \* mArchiveFiles[i]: the paths instance i lists as backed up
    m_sErrCode,     \* m_sErrCode[i] # 0: an error is recorded in i's BackUper
    pc,             \* where instance i is
    cur,            \* the path of i's running (or last) operation
    data,           \* the chunks i holds in memory
    outcome,        \* the message i last showed to its user
    latest          \* history: the content last handed to the archive for a path

vars == <<scripts, archive, writers, mArchiveFiles, m_sErrCode, pc, cur, data,
          outcome, latest>>

\* i is constructing nothing and holds nothing: it is not running.
Off == "off"
InBackUp == {"bkRead", "bkTrunc", "bkWrite"}
InRestore == {"rsTrunc", "rsScript", "rsCreate", "rsDrop"}
Labels == {Off, "idle", "rescan"} \cup InBackUp \cup InRestore
Outcomes == {"none", "backedUp", "backUpFailed", "restored", "restoreFailed"}

TypeOK ==
    /\ scripts \in [Paths -> Content \cup {NoFile}]
    /\ archive \in Seq(Chunk) \cup {NoArchive}
    /\ writers \subseteq Instances
    /\ mArchiveFiles \in [Instances -> SUBSET Paths]
    /\ m_sErrCode \in [Instances -> {0, 1}]
    /\ pc \in [Instances -> Labels]
    /\ cur \in [Instances -> Paths]
    /\ data \in [Instances -> Seq(Chunk)]
    /\ outcome \in [Instances -> Outcomes]
    /\ latest \in [Paths -> Content \cup {NoFile}]
-----------------------------------------------------------------------------
(* The chunks of an archive.                                               *)

\* CalcOffsetInArray finds a chunk of p ...
Found(chunks, p) == \E k \in DOMAIN chunks : chunks[k].path = p

\* ... and it is the first one.
Offset(chunks, p) ==
    CHOOSE k \in DOMAIN chunks :
        /\ chunks[k].path = p
        /\ \A j \in DOMAIN chunks : chunks[j].path = p => k <= j

\* An archive that does not exist reads as one without chunks.
Chunks(a) == IF a = NoArchive THEN <<>> ELSE a

Listed(a) == {Chunks(a)[k].path : k \in DOMAIN Chunks(a)}

\* Mutant: the chunk is not cut out.
Rest_Keeps(chunks, p) == chunks

\* What is left of the data once the chunk of p is cut out of it.
Rest(chunks, p) ==
    IF Found(chunks, p) THEN RemoveAt(chunks, Offset(chunks, p)) ELSE chunks
-----------------------------------------------------------------------------
(* Starting, listing, ending.                                              *)

Init ==
    /\ scripts \in [Paths -> {c \in Content \cup {NoFile} : c # Torn}]
    /\ \A p \in Paths : scripts[p] # NoFile => scripts[p].of = p
    /\ archive = NoArchive
    /\ writers = {}
    /\ mArchiveFiles = [i \in Instances |-> {}]
    /\ m_sErrCode = [i \in Instances |-> 0]
    /\ pc = [i \in Instances |-> Off]
    /\ cur \in [Instances -> Paths]
    /\ data = [i \in Instances |-> <<>>]
    /\ outcome = [i \in Instances |-> "none"]
    /\ latest = [p \in Paths |-> NoFile]

\* Mutant: the list is not cleared.
InitArchive_Keeps(i) ==
    /\ mArchiveFiles' = [mArchiveFiles EXCEPT ![i] = @ \cup Listed(archive)]
    /\ m_sErrCode' = [m_sErrCode EXCEPT ![i] = 0]

\* InitArchive: the list is cleared, then filled if the archive can be opened.
\* Every caller clears the error it leaves.
InitArchive(i) ==
    /\ \/ mArchiveFiles' = [mArchiveFiles EXCEPT ![i] = Listed(archive)]
       \/ /\ "list" \in Faults
          /\ mArchiveFiles' = [mArchiveFiles EXCEPT ![i] = {}]
    /\ m_sErrCode' = [m_sErrCode EXCEPT ![i] = 0]

\* ScriptsManager is constructed, and its BackUper with it.
Start(i) ==
    /\ pc[i] = Off
    /\ InitArchive(i)
    /\ pc' = [pc EXCEPT ![i] = "idle"]
    /\ UNCHANGED <<scripts, archive, writers, cur, data, outcome, latest>>

\* FindProccedure: the rescan button, and the end of a successful restore.
FindProccedure(i) ==
    /\ pc[i] \in {"idle", "rescan"}
    /\ InitArchive(i)
    /\ pc' = [pc EXCEPT ![i] = "idle"]
    /\ UNCHANGED <<scripts, archive, writers, cur, data, outcome, latest>>

\* The window is closed, or the program dies wherever it is.
Stop(i) ==
    /\ pc[i] # Off
    /\ pc[i] = "idle" \/ "crash" \in Faults
    /\ pc' = [pc EXCEPT ![i] = Off]
    /\ writers' = writers \ {i}
    /\ mArchiveFiles' = [mArchiveFiles EXCEPT ![i] = {}]
    /\ m_sErrCode' = [m_sErrCode EXCEPT ![i] = 0]
    /\ data' = [data EXCEPT ![i] = <<>>]
    /\ outcome' = [outcome EXCEPT ![i] = "none"]
    /\ UNCHANGED <<scripts, archive, cur, latest>>

\* A script is edited, created or deleted: by a text editor, by the window's
\* delete button, or by the Updater.
EditScript(p) ==
    /\ scripts' \in {[scripts EXCEPT ![p] = c] :
                        c \in [of : {p}, n : Versions] \cup {NoFile}}
    /\ UNCHANGED <<archive, writers, mArchiveFiles, m_sErrCode, pc, cur, data,
                   outcome, latest>>
-----------------------------------------------------------------------------
(* BackUp.                                                                 *)

\* BackupScript reads the error text, and reading it clears the code.
BackUpEnds(i, message) ==
    /\ pc' = [pc EXCEPT ![i] = "idle"]
    /\ data' = [data EXCEPT ![i] = <<>>]
    /\ outcome' = [outcome EXCEPT ![i] = message]
    /\ m_sErrCode' = [m_sErrCode EXCEPT ![i] = 0]

\* PrepareChunkOfData cannot read the script.
BackUpNoScript(i, p) ==
    /\ pc[i] = "idle"
    /\ scripts[p] = NoFile \/ "script" \in Faults
    /\ cur' = [cur EXCEPT ![i] = p]
    /\ BackUpEnds(i, "backUpFailed")
    /\ UNCHANGED <<scripts, archive, writers, mArchiveFiles, latest>>

\* Mutant: whether the script could be read is not asked.
BackUpPrepare_Unchecked(i, p) ==
    /\ pc[i] = "idle"
    /\ cur' = [cur EXCEPT ![i] = p]
    /\ data' = [data EXCEPT ![i] = <<[path |-> p, ver |-> scripts[p]]>>]
    /\ pc' = [pc EXCEPT ![i] = "bkRead"]
    /\ UNCHANGED <<scripts, archive, writers, mArchiveFiles, m_sErrCode, outcome,
                   latest>>

\* PrepareChunkOfData makes the new chunk.  An empty list skips the reading of
\* the archive: the new chunk is then all that will be written.
BackUpPrepare(i, p) ==
    /\ pc[i] = "idle"
    /\ scripts[p] # NoFile
    /\ cur' = [cur EXCEPT ![i] = p]
    /\ data' = [data EXCEPT ![i] = <<[path |-> p, ver |-> scripts[p]]>>]
    /\ outcome' = [outcome EXCEPT ![i] = "none"]
    /\ IF mArchiveFiles[i] # {}
       THEN /\ pc' = [pc EXCEPT ![i] = "bkRead"]
            /\ UNCHANGED mArchiveFiles
       ELSE /\ pc' = [pc EXCEPT ![i] = "bkTrunc"]
            /\ mArchiveFiles' = [mArchiveFiles EXCEPT ![i] = {p}]
    /\ UNCHANGED <<scripts, archive, writers, m_sErrCode, latest>>

\* The archive cannot be opened, or a listed path has no chunk in it.
BackUpReadFails(i) ==
    /\ pc[i] = "bkRead"
    /\ \/ archive = NoArchive
       \/ "open" \in Faults
       \/ cur[i] \in mArchiveFiles[i] /\ ~Found(Chunks(archive), cur[i])
    /\ BackUpEnds(i, "backUpFailed")
    /\ UNCHANGED <<scripts, archive, writers, mArchiveFiles, cur, latest>>

\* Mutant: the chunk of a listed path is not looked for.
BackUpRead_AlwaysAppend(i) ==
    /\ pc[i] = "bkRead"
    /\ archive # NoArchive
    /\ cur[i] \in mArchiveFiles[i] => Found(archive, cur[i])
    /\ Len(archive) < MaxChunks
    /\ data' = [data EXCEPT ![i] = Append(archive, data[i][1])]
    /\ mArchiveFiles' = [mArchiveFiles EXCEPT ![i] = @ \cup {cur[i]}]
    /\ pc' = [pc EXCEPT ![i] = "bkTrunc"]
    /\ UNCHANGED <<scripts, archive, writers, m_sErrCode, cur, outcome, latest>>

\* Mutant: an appended path is not listed.
BackUpRead_ForgetsList(i) ==
    /\ pc[i] = "bkRead"
    /\ archive # NoArchive
    /\ cur[i] \notin mArchiveFiles[i] /\ Len(archive) < MaxChunks
    /\ data' = [data EXCEPT ![i] = Append(archive, data[i][1])]
    /\ pc' = [pc EXCEPT ![i] = "bkTrunc"]
    /\ UNCHANGED <<scripts, archive, writers, mArchiveFiles, m_sErrCode, cur,
                   outcome, latest>>

\* A listed path has its chunk replaced, in place; another one is appended.
BackUpRead(i) ==
    /\ pc[i] = "bkRead"
    /\ archive # NoArchive
    /\ \/ /\ cur[i] \in mArchiveFiles[i]
          /\ Found(archive, cur[i])
          /\ data' = [data EXCEPT ![i] =
                        [archive EXCEPT ![Offset(archive, cur[i])] = data[i][1]]]
       \/ /\ cur[i] \notin mArchiveFiles[i]
          /\ Len(archive) < MaxChunks
          /\ data' = [data EXCEPT ![i] = Append(archive, data[i][1])]
    /\ mArchiveFiles' = [mArchiveFiles EXCEPT ![i] = @ \cup {cur[i]}]
    /\ pc' = [pc EXCEPT ![i] = "bkTrunc"]
    /\ UNCHANGED <<scripts, archive, writers, m_sErrCode, cur, outcome, latest>>

\* open(WriteOnly|Truncate) fails; the list keeps the path.
BackUpTruncateFails(i) ==
    /\ pc[i] = "bkTrunc"
    /\ "open" \in Faults
    /\ BackUpEnds(i, "backUpFailed")
    /\ UNCHANGED <<scripts, archive, writers, mArchiveFiles, cur, latest>>

\* Mutant: the file is truncated and left closed.
BackUpTruncate_Closed(i) ==
    /\ pc[i] = "bkTrunc"
    /\ archive' = <<>>
    /\ pc' = [pc EXCEPT ![i] = "bkWrite"]
    /\ UNCHANGED <<scripts, writers, mArchiveFiles, m_sErrCode, cur, data, outcome,
                   latest>>

BackUpTruncate(i) ==
    /\ pc[i] = "bkTrunc"
    /\ archive' = <<>>
    /\ writers' = writers \cup {i}
    /\ pc' = [pc EXCEPT ![i] = "bkWrite"]
    /\ UNCHANGED <<scripts, mArchiveFiles, m_sErrCode, cur, data, outcome, latest>>

\* Mutant: the file is found by its name when it is written.
Write_ByName(i, chunks) == archive' = chunks

\* What i writes reaches the archive if its file still has its name; whether
\* the write stored anything is not looked at.
Write(i, chunks) ==
    \/ archive' = IF i \in writers THEN chunks ELSE archive
    \/ "write" \in Faults /\ archive' = archive

BackUpWrite(i) ==
    /\ pc[i] = "bkWrite"
    /\ Write(i, data[i])
    /\ writers' = writers \ {i}
    /\ latest' = [latest EXCEPT ![cur[i]] =
                    data[i][Offset(data[i], cur[i])].ver]
    /\ BackUpEnds(i, "backedUp")
    /\ UNCHANGED <<scripts, mArchiveFiles, cur>>
-----------------------------------------------------------------------------
(* RestoreFileFromArchive.  Neither it nor the handler of the button asks  *)
(* whether the path is on the list.  The button is enabled when a listed   *)
(* script is selected, and stays so when the views become empty.  The path *)
(* is empty then: like any path without a chunk, here.                     *)

RestoreOpenFails(i, p) ==
    /\ pc[i] = "idle"
    /\ "open" \in Faults
    /\ cur' = [cur EXCEPT ![i] = p]
    /\ m_sErrCode' = [m_sErrCode EXCEPT ![i] = 1]
    /\ outcome' = [outcome EXCEPT ![i] = "restoreFailed"]
    /\ UNCHANGED <<scripts, archive, writers, mArchiveFiles, pc, data, latest>>

\* open(ReadWrite) creates an archive that is missing; all of it is read.
RestoreOpen(i, p) ==
    /\ pc[i] = "idle"
    /\ cur' = [cur EXCEPT ![i] = p]
    /\ data' = [data EXCEPT ![i] = Chunks(archive)]
    /\ archive' = Chunks(archive)
    /\ outcome' = [outcome EXCEPT ![i] = "none"]
    /\ pc' = [pc EXCEPT ![i] = "rsTrunc"]
    /\ UNCHANGED <<scripts, writers, mArchiveFiles, m_sErrCode, latest>>

\* The file is closed and opened again with Truncate; if that fails the code
\* goes on with a file that takes no writes.
RestoreTruncate(i) ==
    /\ pc[i] = "rsTrunc"
    /\ \/ /\ archive' = <<>>
          /\ writers' = writers \cup {i}
       \/ /\ "open" \in Faults
          /\ UNCHANGED <<archive, writers>>
    /\ pc' = [pc EXCEPT ![i] = "rsScript"]
    /\ UNCHANGED <<scripts, mArchiveFiles, m_sErrCode, cur, data, outcome, latest>>

\* No chunk of the script: nothing is restored and no error is set.
RestoreNothing(i) ==
    /\ pc[i] = "rsScript"
    /\ ~Found(data[i], cur[i])
    /\ pc' = [pc EXCEPT ![i] = "rsDrop"]
    /\ UNCHANGED <<scripts, archive, writers, mArchiveFiles, m_sErrCode, cur,
                   data, outcome, latest>>

\* RestoreFromChunkOfData removes the script (or cannot) ...
RestoreRemoveScript(i) ==
    /\ pc[i] = "rsScript"
    /\ Found(data[i], cur[i])
    /\ \/ /\ scripts' = [scripts EXCEPT ![cur[i]] = NoFile]
          /\ pc' = [pc EXCEPT ![i] = "rsCreate"]
          /\ UNCHANGED m_sErrCode
       \/ /\ "script" \in Faults
          /\ scripts[cur[i]] # NoFile
          /\ pc' = [pc EXCEPT ![i] = "rsDrop"]
          /\ m_sErrCode' = [m_sErrCode EXCEPT ![i] = 1]
          /\ UNCHANGED scripts
    /\ UNCHANGED <<archive, writers, mArchiveFiles, cur, data, outcome, latest>>

\* Mutant: the content is taken from the start of the data.
RestoreCreateScript_First(i) ==
    /\ pc[i] = "rsCreate"
    /\ scripts' = [scripts EXCEPT ![cur[i]] = data[i][1].ver]
    /\ m_sErrCode' = [m_sErrCode EXCEPT ![i] = 0]
    /\ pc' = [pc EXCEPT ![i] = "rsDrop"]
    /\ UNCHANGED <<archive, writers, mArchiveFiles, cur, data, outcome, latest>>

\* ... and creates it again with the chunk's content (or cannot).
RestoreCreateScript(i) ==
    /\ pc[i] = "rsCreate"
    /\ \/ /\ scripts' = [scripts EXCEPT ![cur[i]] =
                            data[i][Offset(data[i], cur[i])].ver]
          /\ m_sErrCode' = [m_sErrCode EXCEPT ![i] = 0]
       \/ /\ "write" \in Faults
          /\ scripts' = [scripts EXCEPT ![cur[i]] = Torn]
          /\ m_sErrCode' = [m_sErrCode EXCEPT ![i] = 0]
       \/ /\ "script" \in Faults
          /\ m_sErrCode' = [m_sErrCode EXCEPT ![i] = 1]
          /\ UNCHANGED scripts
    /\ pc' = [pc EXCEPT ![i] = "rsDrop"]
    /\ UNCHANGED <<archive, writers, mArchiveFiles, cur, data, outcome, latest>>

\* Whatever became of the script, its chunk is dropped: the archive is removed
\* when nothing else is in it, and written again otherwise.  The answer is the
\* last error code; after a success the window rescans.
RestoreDrop(i) ==
    LET rest == Rest(data[i], cur[i]) IN
    /\ pc[i] = "rsDrop"
    /\ IF rest = <<>>
       THEN archive' = NoArchive /\ writers' = {}
       ELSE Write(i, rest) /\ writers' = writers \ {i}
    /\ IF m_sErrCode[i] = 0
       THEN /\ outcome' = [outcome EXCEPT ![i] = "restored"]
            /\ pc' = [pc EXCEPT ![i] = "rescan"]
       ELSE /\ outcome' = [outcome EXCEPT ![i] = "restoreFailed"]
            /\ pc' = [pc EXCEPT ![i] = "idle"]
    /\ data' = [data EXCEPT ![i] = <<>>]
    /\ UNCHANGED <<scripts, mArchiveFiles, m_sErrCode, cur, latest>>
-----------------------------------------------------------------------------
Next ==
    \/ \E p \in Paths : EditScript(p)
    \/ \E i \in Instances :
        \/ Start(i)
        \/ FindProccedure(i)
        \/ Stop(i)
        \/ \E p \in Paths : BackUpNoScript(i, p)
        \/ \E p \in Paths : BackUpPrepare(i, p)
        \/ BackUpReadFails(i)
        \/ BackUpRead(i)
        \/ BackUpTruncateFails(i)
        \/ BackUpTruncate(i)
        \/ BackUpWrite(i)
        \/ \E p \in Paths : RestoreOpenFails(i, p)
        \/ \E p \in Paths : RestoreOpen(i, p)
        \/ RestoreTruncate(i)
        \/ RestoreNothing(i)
        \/ RestoreRemoveScript(i)
        \/ RestoreCreateScript(i)
        \/ RestoreDrop(i)

Spec == Init /\ [][Next]_vars
=============================================================================
