# TLA+ models of SE3, the script executor

SE3 (Script Executor 3) is a Qt desktop program that keeps, shows, backs up and launches the
measurement scripts of an installation; SE2 is its predecessor in the same repository. This directory holds TLA+
models of the parts of it that have state worth checking, TLC configurations, and proofs for TLAPS.

## The system

| Part | Code | State it keeps | Operations |
|---|---|---|---|
| Backup archive | `SE3/include/backuper.cpp` | one archive file (a compressed sequence of chunks), the list `mArchiveFiles` of paths believed to be in it, the last error code | `InitArchive`, `BackUp`, `RestoreFileFromArchive`; batch operations without a caller |
| Script catalogue and selection | `SE3/scriptsmanager.cpp`, `SE3/models.h`, `SE3/se3.cpp` | the files of the last scan, the list (category, title, path), the filters, the selected script (as a view index, as a path, and as two rows), `lastScript` in `commSet.ini` | scan, sort, filter, select, delete, create, save and restore the selection |
| Updater | `SE3/include/updater.cpp` | the modules of `updates.json`, parallel lists of paths and dates | parse, check, update. `ParseJSONFile` returns at line 21 at this commit, so the list is always empty |
| FTP client | `SE2/include/cftpclient.cpp` | one `QFtp` object, a timer, command ids, error flags, open files | put, get, list, remove, mkdir, rmdir, clear: each in a nested event loop; slots for finished commands and for the timer |
| Script thread | `SE3/include/script_thread.cpp`, `SE*/include/luathread.cpp` | `finished`, `abort`, the operation code, all of them used by two threads: `ScriptWrap` locks each access to `finished`, nothing else is protected | load, start, stop, wait for the end of a script |
| Transport functions | `SE3/include/transpfuncs{base,mics,scpi}.cpp` | a pointer to a transport that the clients of one address share, the raw answer, the text answer, whether MICS translation is suppressed | connect, disconnect, send, receive, registers |
| SCPI helpers | `SE*/include/scpicommonfuncs.cpp` | none | format and parse commands |
| SE2 window | `SE2/SE2/se2.cpp`, `main.cpp` | the lists, the current category and row (and the copy of both in the registry), the mode of the next form, whether a script is to be loaded again | list, launch, edit, create, delete, reload, run from a console |
| Metadata reader | `SE3/include/sHead.h` | none | pack and unpack the header of a script |
| Module finder | `SE3/include/findmodules.cpp`, `relpathfinder.cpp` | a map of paths | find a module, copy it and wait |
| Dialogs, graphics items | `SE3/main.cpp`, `SE3/include/metadialog.cpp`, `SE2/include/sch*.cpp` | widgets | drawing, dialogs |
| Git core | `TEST/src` | a libgit2 repository handle | thin wrappers, under construction |
| Third-party code | `gitlib2`, `SE3/import`, `SE3/jsonAdapt`, `lua*`, `visa*` | | |

How they interact: the window (`SE3`) owns one `ScriptsManager`, which owns one `BackUper` and one
`Updater` and hands both to the `TreeModel`, so that a script's icon shows whether a backup or an
update of it exists. The restore button asks the `BackUper`'s list, the restore itself works on the
archive file, and a successful restore rescans, which lists the archive again. Everything in the
window runs on the GUI thread; what happens concurrently comes from outside: the file system (a text
editor, another copy of the program started from the same installation, a full disk, a file that is
locked), a crash, the network, the instruments, and the thread of a running script. A script talks to
instruments through transport clients. SE2's window opens a script in the form of a plugin and hides
itself meanwhile; what the form tells it comes back as queued slots.

Hard to test, and what the properties are aimed at: an archive that is truncated and then written,
with a crash, a second instance or a failing call in between; a list and an archive that must agree
over every sequence of backups, restores and restarts; a selection that is remembered as a path of one
list and as rows of another; an FTP call whose server answers late, in error or not at all, while other
calls arrive in its nested event loop; an answer of an instrument that is read by a call it was not meant
for; a stop that races the start or the end of a script; a window that must come back, in the right mode
and with the right script, on every way out of a form. `PROJECT.json` lists each hazard at its line.

There is no test suite in the repository to compare with: the code is the reference.

## Modules

| Module | What it is |
|---|---|
| `BackUper` | the backup archive, one action per file operation, any number of instances of the program, faults as a constant |
| `Vault` | what the archive promises: at most one copy of each script, taken and given back one at a time, and after a crash the copies it had or none |
| `BackUperSafety` | the properties of `BackUper`, the inductive invariants `SoloInv` and `ExactInv`, and the mapping to `Vault` |
| `BackUperProofs` | theorems about `BackUper` |
| `VaultProofs` | `BackUper` implements `Vault`, and where what its user is told is true |
| `MCBackUper` | TLC instance of it |
| `Ranks` | finite sets of numbers in increasing order: the keys of a `QMap`, the rows of a view; used by both catalogues |
| `RanksProofs` | lemmas about it: every position has one element, every element one position |
| `Catalog` | the list of scripts, its filter and the selection, one action per handler of the window |
| `CatalogSafety` | its properties |
| `CatalogProofs` | theorems about it, with the inductive invariant `Inv` |
| `MCCatalog` | TLC instance of it |
| `FtpClient` | the FTP client: calls, requests, the slots, the timer, and the library's command queue |
| `FtpClientSafety` | its properties and the inductive invariants `TypeInv`, `TimerInv`, `SuccessInv`, `TextInv` |
| `FtpClientProofs` | theorems about it |
| `MCFtpClient` | TLC instance of it |
| `Transport` | the clients of one instrument address, the shared transport, and reading an answer part by part |
| `TransportSafety` | its properties and the inductive invariants `TypeInv`, `SyncInv` |
| `TransportProofs` | theorems about it |
| `MCTransport` | TLC instance of it |
| `ScriptThread` | `LuaWrap` and `ScriptWrap`: the script thread and those who stop it, one action per access to a shared variable |
| `ScriptThreadSafety` | its properties and the inductive invariants `TypeInv`, `WaitInv`, `EndInv` |
| `ScriptThreadProofs` | theorems about it |
| `MCScriptThread` | TLC instance of it |
| `SE2Window` | SE2's main window, one action per handler, and the events it posts |
| `SE2WindowSafety` | its properties and the inductive invariants `WindowInv`, `ModeInv`, `FormInv`, `ListInv` |
| `SE2WindowProofs` | theorems about it |
| `MCSE2Window` | TLC instance of it |

The components are checked one by one. They meet in few places: the icon of a script depends on the
`BackUper`'s list and not on the catalogue's, and a restore ends in the same scan as the rescan button
(`FindProccedure`, in `BackUper` and in `Catalog`); the transports, the FTP client and the script thread
are used by scripts and by plugins, whose code is not in this repository.

### BackUper

`archive` is the sequence of chunks that `qUncompress` of the file yields, or `NoArchive`. A chunk is a
path and a content; a content remembers the script it was written for, which is all the properties need
to tell contents apart. `mArchiveFiles[i]`, `m_sErrCode[i]` are the fields of instance `i`'s `BackUper`;
`data[i]` is the local `QByteArray` of the running call; `pc[i]` is the file operation that comes next.

| Action | Code |
|---|---|
| `Start`, `FindProccedure` | the constructor of `ScriptsManager`, and the scan: both end with the list of `InitArchive` and a cleared error (the constructor's own `UpdateListOfFiles` is overwritten by the `InitArchive` that follows at once) |
| `BackUpNoScript`, `BackUpPrepare` | `BackUp` up to line 122: `PrepareChunkOfData` fails or makes the chunk; an empty list skips the reading |
| `BackUpReadFails`, `BackUpRead` | lines 122-144: the archive is read, the chunk of a listed path replaced, another one appended |
| `BackUpTruncateFails`, `BackUpTruncate`, `BackUpWrite` | lines 153-160: opening with `Truncate`, and the one `write` |
| `RestoreOpenFails`, `RestoreOpen`, `RestoreTruncate` | `RestoreFileFromArchive` to line 275; the result of the second `open` is not looked at |
| `RestoreNothing`, `RestoreRemoveScript`, `RestoreCreateScript` | `CalcOffsetInArray` and `RestoreFromChunkOfData` |
| `RestoreDrop` | lines 287-295: the archive is removed or written without the chunk, whatever became of the script |
| `Stop` | the window closes, or the program dies at any `pc` |
| `EditScript` | the delete button, and whoever else edits scripts |

Assumptions: POSIX files (an open file may be unlinked; what is written to it then is gone: this is
`writers`); one `write` of a small buffer is stored whole or not at all; the uncompressed archive is
read consistently; paths are plain ASCII (see the hazard at line 364); the application path is absolute
and ends with a slash, so that the cleaned paths of `InitArchive` and the paths `BackUp` appends agree.
A restore asks neither the list nor the archive whether there is a copy, and neither does the handler of
its button (`se3.cpp:464-474`). The button follows the selection: it is enabled when a listed script is selected, but
when the shown list becomes empty nothing is selected and it stays as it was. `RestoreOpen` therefore
takes any path; the empty one is, like any path without a chunk, one that is not found.
`BackUp` is modelled although the update button that calls it is disabled at this commit (the
`Updater`'s list is always empty). `latest` is a history variable: what was last handed to the archive.

### Catalog

Scripts are numbers in the order a scan meets them; titles, categories and directories are numbers in
`QString` order. `mScriptInfo` is the list as a sequence of categories, each a sequence of scripts by
title, which is how `QMap` enumerates them (`InOrder` of `Ranks`, and `ByTitle` for the insertions); `shown` is
the list after the proxy filter, which leaves the rows it accepts (`Those`); `current` is the
view's current index, by the script it points to. `Selection` is `RestoreCurrentScriptIndex` followed by
`UpdateViewsCurrentIndex`; rows count from 1 and 0 stands for -1. `DiskChanges` and `SelectScript` are
the environment: the file system and the user's click in the list view.

Every handler runs from start to end before another event is handled: the `processEvents` of
`CBlockArea::ShowArea` comes before the scan with the lists disabled, that of `SaveNewFile` (`se3.cpp:495`) when
all that the model has of the handler is done. Not in the model: launching (the
plugin loader is commented out at `scriptsmanager.cpp:58-75`, so that no launch can succeed), also the one that
`SaveNewFile` posts with `reOpenScript` (496), which uses the null `pl_obj` (if the program dies of it, it saves
nothing, which is one way of `Close`), the network
storage, the buttons' enabled state, excluded directories, and the title texts.

### FtpClient

`call` and `todo` are the stack of the running call: its name and the requests it has still to make;
`ftp` is the queue of commands of the `QFtp` object, or `Null` where the code has `ftp == 0`. `timer`,
`isError`, `isPutComplete`, `strFromFile`, `idGetTextFromFile` and `buffer` are the code's;
`fileObject` says whether there is a `QFile` and whether it is open. `quit` is the state of the
request's event loop, `answer` what the last call returned. `executed` and `undone` are history: whether
the server has done what the current request, or each request of the call so far, is for.

| Action | Code |
|---|---|
| `Begin` | a call that finds `ftp == 0`, up to its first request |
| `StartRequest`, `OpenFails` | a request up to `eventLoop.exec()`, and the early return of `writeFileToFtp` at line 59 |
| `CommandFinished`, `RequestFinished`, `CommandFailed`, `MistakenForText` | `slotCheckCommands`: a command nobody waits for, the one the request waits for, an error, and a command whose id is by chance in the uninitialized `idGetTextFromFile` |
| `TimeOut` | `slotTimeOut` |
| `EndRequest`, `NothingToDo` | the code behind `eventLoop.exec()`, with the loops of `clearFtp` and `writeDirToFtp` and the return of the call |
| `DirUnreadable` | `writeDirToFtp` of a directory that cannot be read |
| `Busy` | a call that finds `ftp != 0`: from a handler that runs in another call's event loop, or after `OpenFails` |

What is assumed of the library: `QFtp` runs its commands in order, reports each as finished or failed,
drops the queue on a failure, and on `abort()` drops all but the running one, whose answer may still
come; ids grow, so that an id of an earlier request matches nothing. `QEventLoop::quit` ends the loop, at
once or after some more events: `EndRequest` interleaves with the slots. A nested call is one action,
because with `ftp != 0` it starts no event loop of its own.

### Transport

`transport` is the one `ICTransport` of an address, `link[c]` the pointer a client has to it and
`isAddrDbl[c]` whether it was told that somebody else opened it. An answer is a header and a body of parts;
`stale` are the parts still to come of answers nobody has read, `head` and `body` those of the answer to
the last command; a header counts as one part until the last of it has come. `suppress` is the transport's
switch for MICS translation, `answ[c]` what `m_sAnsw`
holds: nothing, the call's own answer, or something else. `nStart`, `left` and `nErr` are the code's;
`stored` and `synced` are history: `synced` says that the call began with no answer but its own to be read, and that
its header, if it reads one, has not come short.

| Action | Code |
|---|---|
| `Connect`, `ConnectDouble`, `ConnectFails` | `Connect`: the first client of an address, a double, an `Open` that fails after the object was made |
| `Disconnect`, `Destroy` | `Disconnect`, and the destructor with the constructor of the object that takes its place |
| `Send` | `Send`, or the command of `SetRegLVDS`, with the flags that decide how the answer is read |
| `ReadText`, `ReadTextRaw` | `Recv` with translation, and `Recv` of a text while translation is suppressed |
| `ReadHead`, `ReadHeadShort`, `ReadBody`, `EndBinary` | the binary branch of `CTranspFuncsMics::Recv`, a part or more per read; the header is one read, and nobody asks whether it brought all of it |
| `ReadByte`, `EndBytes` | the byte-by-byte loop of `CTranspFuncsMics::Send` |
| `ReadFails`, `SendFails` | the returns of -1 |
| `GetAnsw`, `SetSuppressMics` | the accessors that change something |

Assumed of the library: answers come in the order of the commands; a read brings at least one part, or some of
a header, or fails; the addresses of different instruments have nothing in common. The calls of one script do not
overlap. What becomes of a client whose transport another one has deleted is undefined: such a client
makes no call in the model (`link = "deleted"`), and `Ownership` speaks of the live ones. Likewise undefined, and
left out, is a register command of a client that has no transport: `CheckErr` uses the null pointer
(`transpfuncsbase.cpp:182`) before it tests it. `ReadByte` and `EndBytes` follow the loop as it is: with a terminator it
compares an `m_sAnsw` that line 40 has emptied, and only a failed read ends it. No property is stated of what it returns.

### ScriptThread

`slot` is where the script thread is in `StartScript`, `pc[c]` where a caller is in `StopScript` or
`StopExitScript` and `WaitForStop`. `finished`, `abort` and `currOp` are the code's, and each access to
them is an action of its own. `ScriptWrap` takes `m_mutex` for each access to `finished`
(`script_thread.cpp:231-241`) and holds nothing between two of them; `LuaWrap` has no lock, and `currOp` and `abort` none
in either. `ending` is what the script thread has reported of the run,
`quit[c]` whether the event loop of a caller has been told to quit, `seen[c]` the run it found unfinished.

| Action | Code |
|---|---|
| `LoadScript`, `StartScript`, `SetUnfinished`, `Run`, `RunEnds` | the slots of the script thread up to the end of the script |
| `Report`, `SetFinished`, `FinishUnlessFinished`, `Announce` | the rest of `StartScript`, with `CheckResult` |
| `InterruptScript` | `ScriptWrap::StopScript` |
| `StopScript`, `Abort`, `Connect`, `TestFinished`, `EnterLoop`, `LeaveLoop`, `Return` | `LuaWrap::StopScript`, `ScriptWrap::StopExitScript`, and `WaitForStop` in them |

`CheckResult` reports `currOp` also of a run that went well (228): that `opStart`, or `opStop`, went well says nothing
of the run's end, and `EndIsTold` counts the reports of `opRun` and of errors only. A Boolean that two threads use
without a lock is a data race; the model lets every interleaving of whole
accesses happen, which is what the build gives for a `bool` on the machines it runs on. A queued `quit`
reaches a loop that does not run yet as soon as it does.

### SE2Window

`ScriptsList`, `isNewScr`, `bReloadScript`, `isRunFromConsole_` and `scriptPath_` are the code's;
`cbIndex`, `items` and `item` are what the combobox and the list widget show, `canEdit` the state of the
two buttons, `settings` the registry. `pending` is the one event posted by the window itself that comes
before the user's next input: the timer of a console run, `destroyed()` of a form, `reOpenScript`.
Positions count from 1, and 0 stands for -1. A title and a category are numbers in `QString` order. The
categories stand in the order in which a scan met their first scripts (`Firsts`), the titles in that of `QMap`.

| Action | Code |
|---|---|
| `Start`, `StartFromConsole`, `Quit` | `main` and the constructor; the destructor |
| `Launch`, `EditScript`, `NewScript`, `DelScript`, `RunScript` | the buttons, the Enter key, the timer of a console run; `LoadScript` in them succeeds, cannot load the plugin, or gets no form |
| `SelectCategory`, `SelectItem`, `FocusIn`, `CloseWindow` | the user and the widgets |
| `CloseForm`, `ReloadScript` | the form goes; the form asks to be loaded again |
| `MyshowQuits`, `MyshowReloads`, `MyshowUpdates`, `ReOpenScript` | the branches of `myshow`, and the slot it posts |
| `DiskChanges` | the file system |

Assumed of Qt 4: `clear` leaves nothing current, the first `addItem` makes the first category current and
emits that, a row or position past the end makes nothing current, a list that gets the focus with nothing
current makes its first item current, and the message box of a plugin that cannot be loaded is the last
window if SE2's own is hidden. A null item, or a position `ScriptsList` does not have, ends the program
(`life = "crashed"`); after a deletion that leaves a list shorter, lines 115-120 of `se2.cpp` make that possible, and no
property claims otherwise. A scan is one moment. `myshow` handles events at its start (line 76): the window is hidden
then, the form gone and nothing posted by the window itself, so that no handler comes in between.

## Runs

| Run | Instance | Shows |
|---|---|---|
| `backuper_solo` | 1 instance, 3 scripts x 2 versions, archives of up to 4 chunks, all faults but `list` | `TypeOK`, `ListCoversArchive`, `ChunksUnique`, `ChunkIsLatest`, `NoForeignContent`, `RestoreGivesLatest` |
| `backuper_vault` | 1 instance, 2 x 2, crashes at any step, no file operation fails | the archive implements `Vault` (`VaultSpec`); messages (`BackUpTellsTruth`, `ListedIsRestored`) and icons (`IconShowsBackup`) are true |
| `backuper_shared` | 2 instances, 2 x 1, faults `list` and `script` | `NoForeignContent`, `NoRevival` |
| `backuper_restore_claim` | 2 instances, no fault | violated: `ListedIsRestored`; "successfully restored" without a chunk, of a script that is listed |
| `catalog_list` | 4 scripts, a name filter, a blank file | `TypeOK`, `SelectionValid`, `SelectionKept`, `OnlyTwinsMissing` |
| `catalog_filtered` | a content filter | violated: the selection survives a rescan while filtered |
| `ftp_client` | every call, puts, `get` and `remove` nested, files that cannot be read, up to 2 files and 1 directory entry of each kind | `TypeOK`, `SuccessIsReal`, `TextIsOwn` |
| `ftp_returns` | every call, every call nested, all faults, up to 2 files and 2 entries | `TimerCovers`, `TimerHasRequest`, `CallReturns` |
| `ftp_clear` | `clearFtp` alone | violated: false means done |
| `transport` | 2 clients, both protocols, bodies of up to 3 parts, raw data for 3, up to 2 stale parts | `TypeOK`, `Ownership`, `AnswerIsOwn`, `WholeAnswer`, `StaysInSync`, `CallReturns` |
| `script_thread` | both classes, 2 callers, 3 runs | `TypeOK`, `StopNotLost`, `StopOutlivesRun`, `EndIsTold`, `StopReturns` |
| `se2_window` | 4 scripts in 3 categories, one without a title, all faults | `TypeOK`, `ShownIsListed`, `SomethingVisible`, `EditOnlyWhenAsked`, `ReloadKeepsScript`, `RestartKeepsSelection` |

Bounds. Three scripts are one more than an operation and its disturbance need: one being backed up, one
already in the archive before it and one behind it, so that offsets matter. One instance never exceeds
three chunks (`ChunksUnique`), so `MaxChunks = 4` does not cut anything off in the solo run; with two
instances the archive can grow without bound by duplicates and `MaxChunks = 3` for two scripts leaves
room for one. In the catalogue four files give two categories of two scripts, different groupings by
category and by directory, and twins in the third sort mode.
A directory of two files gives `writeDirToFtp` a first, a next and a last request; two entries of each
kind give `clearFtp` a listing, several removals and the next directory.
Two clients are an owner and a double. A body of three parts has a first, a middle and a last one, and
with its header it is one part longer than the raw data, so that `SetRawData` refuses the last. `MaxStale`
is a guard of `Send`: with more than two stale parts no further command is sent until some are read.
Three runs let a stop meet the run before, its own and the one after; two callers let one stop what the
other waits for. The SE2 instance has a category of two scripts and two categories of
one, so that the current category may vanish, move, or become one past the last, and one title stands in two
categories; no two scripts of one category have the same title, which the proofs allow.
Symmetry is used for scripts, versions and instances in the runs that check invariants and step
properties only. All runs are checked for deadlock.

`SuccessIsReal` and `TextIsOwn` are checked where they are meant to hold: no composite call and no
`getTextFromFile` is nested (they reset `isError` and take the text of the call that waits), and
`getFile` can open its file (it does not look at the result of `open`). `SuccessIsReal` leaves `clearFtp`
out, which `ftp_clear` shows to forget errors.

`IconShowsBackup` is checked with crashes, but without failing file operations: a restore that cannot remove or
create the script drops the chunk and keeps the path on the list. `OnlyTwinsMissing` says which scripts the catalogue misses: of two
with one title and category one is left out, because `CorrectTitles` (scriptsmanager.cpp:132-168), meant
to tell them apart, never finds two of them in a map by title.

What the window says after a restore is true of a script that the list shows, as long as one instance is running
(`ListedIsRestored`): the list is exact whenever an operation begins. It is not true of listed scripts when another
instance takes their copies, nor of any path the handler may be given: with the empty path one instance reports success,
without any fault, having found nothing. No property is stated of unlisted paths.

The three violated properties are findings of `PROJECT.json`, with the text they contradict.

Liveness. `CallReturns` of the FTP client assumes weak fairness of `TimeOut` (the event loop delivers an
expired timer), `EndRequest` (it notices that it is to quit), `StartRequest` and `NothingToDo` (the code
of a call goes on): each is a step of the program's own thread or of Qt's event loop. Nothing is assumed
of the server, which may stay silent for ever. `CallReturns` of the transport assumes weak fairness of
`Step`, a read or the code between reads: a read of the library returns, with a part or with an error,
because every read has a timeout. `StopReturns` assumes that both threads go on, and that an aborted
script ends; `LuaWrap`'s wait is claimed to end only for a caller that waits for the last run, because
a run begun meanwhile is not aborted (`StartScript` clears `abort`). In the other components every wait
is a system call or the user, and the code promises no progress that depends on scheduling; no fairness
is assumed there.

## Proofs

`BackUperProofs` proves, for every value of the constants that satisfies `BackUperAssumption`:

* `TypeCorrect`: `Spec => []TypeOK`.
* `SoloSafe`: with one instance and listings that do not fail, `ListCoversArchive`, `ChunksUnique` and
  `ChunkIsLatest` always hold, whatever else fails or dies.
* `RestoresGiveLatest`, under the same conditions: `RestoreGivesLatest`, because the chunks in memory during a restore
  are the latest copies (`SoloInv`) and a script is created again only with a chunk of it at hand (`HasChunk`).
* `OwnContent`: `NoForeignContent` always holds, for any number of instances and all faults.

`ListCoversArchive` and its companions are not inductive: a state in the middle of a backup could hold
anything in memory. `SoloInv` adds what the running call has in memory: the chunks held are unique and
listed, all but the one being replaced are the latest copies, and the file is empty while they are about to be written.
With these, each file operation preserves the three; a crash is harmless because it leaves either the
old archive or an empty one, and an empty one is covered by any list. The proof has one lemma per group
of actions. `OwnContent` needs no assumption on interleavings: its strengthening only says that chunks
in anybody's memory have their own script's text. Lemmas about `Append`, `RemoveAt` and replacement in a
sequence of chunks are stated once and cited.

`VaultProofs` goes on from there:

* `ArchiveIsVault`, with one instance that may die at any step while no file operation fails (`Calm`): `BackUper`
  implements `Vault`. `BackUpPrepare` maps to `Take`, `BackUpTruncate` to `Store` (from then on the chunks that
  count are those in memory), the creation of the restored script to `GiveBack`, the last write to `Done`, what
  happens to scripts on the disk to `Edit`, and every other step to a stutter. A death maps to `Crash`: while the
  file is truncated all copies go with the memory, at every other step none does.
* `IconsAreTrue`, `RestoresAreTold` (`ListedIsRestored`), under the same conditions. A restore of a path that is not
  listed is a stutter of the vault.
* `BackUpsAreTold`, with one instance and all faults but `write`: nobody looks at the result of `write`
  (`backuper.cpp:158`), so that a full disk makes the message of a backup untrue, and nothing else does.
* `NothingRevives`: `NoRevival`, for any number of instances and all faults, because an archive that is gone has
  no writer left: a late write needs one.

The conditions are needed: two instances keep lists that contradict each other, and a failed listing or restore
leaves a list that is wrong. Refinement, icons and restores rest on `ExactInv`: the list is the list of the archive
whenever it is asked, so that a backup replaces its own chunk if there is one and appends one if not; what it holds
in memory has everybody else's copies as they were; during a restore it is the list of what is in memory, so that
the chunk of a listed script is found; and
the file is empty from the truncation to the last write. A crash cannot break it, because the next start lists the
archive again. `BackUpsAreTold` needs only that a backup that got as far as its write has an open file (`OpenInv`).
`BackUperAssumption` keeps `NoFile`, the absence of a copy, apart from paths and texts; nothing else is assumed.

`FtpClientProofs` proves, for every set of calls, any size of directories and every subset of the faults
that satisfies `FtpClientAssumption`:

* `TypeCorrect`: `Spec => []TypeOK`.
* `WaitsWithTimer`: `TimerCovers` and `TimerHasRequest` always hold, whatever calls are nested.
* `SuccessfulCallsAreDone`: `SuccessIsReal` (of calls that found the client free, `clearFtp` excepted),
  under `PlainUse`: only single requests are nested, receiving
  files can be opened and `idGetTextFromFile` holds no stray id. Files to be sent may be unreadable.
* `TextsAreOwn`: `TextIsOwn`, if moreover no text is asked for while a call runs. `TextInv`: until an error is
  recorded, the loop has its buffer before it is told to quit, and the text afterwards.

The types and the timer need each other: a queue of commands stays a queue, and not `Null`, because of
its type, and `slotTimeOut` keeps the type because the timer runs only over a queue. `TypeInv` adds that
a request in progress is the head of `todo` and that a text belongs to it; `TimerInv` that a loop that
has been told to quit has no timer left. For `SuccessIsReal`, `SuccessInv` says what a request that has
recorded no error looks like: a put has its own command before it or behind it, and the loop has been
told to quit only when the request's work is done. The fact that `isPutComplete` is stale is harmless
for this reason alone: every put that is reported as done has passed its own `put` command.

`TransportProofs`, for any clients, bodies of any size and `TransportAssumption`: `TypeCorrect`,
`OwnershipHolds`, `AnswersAreOwn`, `AnswersAreWhole`, `ConnectionStaysInSync`. `TypeInv`
keeps `nStart + left` within an answer. `SyncInv` is the heart: while a call that began in sync runs, what
is still to come is what is left of its own answer, and every part so far is where it belongs; the three
properties of answers read off it.

`ScriptThreadProofs`, for any callers, any number of runs and `ThreadAssumption`: `TypeCorrect`,
`StopsAreNotLost`, `StopsOutliveRuns`, `EndsAreTold`. `StopNotLost` is inductive with the fact that nobody
has seen a run that was not begun, because a new run makes every `seen` old. `WaitInv` says that whoever
was told to quit during the last run, or has waited for it, knows it to be finished; `EndInv` what has been
reported at each label of `StartScript`, and that `currOp` is `start` unless a stop has overwritten it.

`RanksProofs` is about finite sets of numbers in increasing order. The rank of an element, the number of elements
up to it, is one-to-one from a finite set into `1..Cardinality`, hence onto: a one-to-one function between finite
sets of one size leaves nothing out (`FS_Injection` in the library). So `Nth` finds an element at every
position, `InOrder` lists each element once, and a set that is not empty has a greatest and a least one, all
without an induction over data.

`CatalogProofs`, for any finite set of files, any titles, categories, directories and filters that satisfy
`CatalogAssumption`: `TypesHold`, `SelectionIsValid`, `SelectionIsKept`, `TwinsOnlyMissing`. `SelectionValid` is
not inductive: a category that is shown with no script in it would give `SelectCategory` and the cut rows nothing
to select. `Inv` adds that none is (`Shown`), which the proxy filter sees to. The lemmas on the way say what a list
is made of: `ByTitle` and `ExtractScriptsInfo` list only files they were given, each under its category, and leave
out only twins; what a filter leaves of a list is a list of its scripts; a path is found where it is
(`GetScriptIndexes`), and rows found in the list that is shown are not cut.

`SE2WindowProofs`, for any finite set of scripts, any titles and categories, any faults and
`SE2Assumption`: `TypesHold`, `ShownTitlesAreListed`, `AlwaysVisible`, `EditsAreAskedFor`, `ReloadsKeepTheScript`,
`SessionsAreContinued`. `WindowInv` says
that nothing but a form is usable while one is open, `ModeInv` that `isNewScr` is set only then or until
`myshow`, and `FormInv` that the script of a form stays the current item until it is closed and loaded
again: the lists are filled anew only on the way on which it is not. `SessionsAreContinued` rests on `ListInv`
(the registry holds the position and the row that were current at the end) and on the lemmas about ranks: a row
stands for one title of a list. `ListInv` also says where lists come from (`Found`): every script listed has the
title it is listed under, and if a category is current, what is shown is listed in it. That gives the types and
`ShownTitlesAreListed`.

Only model-checked: both `CallReturns` and `StopReturns`, because liveness is out of this prover's reach. Every
invariant and every other property that a passing run checks is a theorem.

## Not modelled

* **Launching a script in SE3.** At this commit `pl_obj` is a null pointer (`scriptsmanager.cpp:58`, the code
  that made it is commented out) that `LoadScript` uses unasked (423). With it go `isEditNow`, `SaveNewFile`
  and the script's end.
* **The Updater and the update button.** `ParseJSONFile` returns at its first line (`updater.cpp:21`), the
  list of updates stays empty and the button disabled.
* **The enabled state of SE3's buttons.** It follows `selectionChanged` of a view whose model is reset:
  which signals come is the library's doing.
* **The batch operations of `BackUper`** (`AddFile`, `CreateBackUp`, `RestoreAllFromBackUp`,
  `AppendFileToArchive`) have no caller. The byte layout of a chunk and the header of a script are
  conversions without state.
* **Transports:** the older `TranspFuncs` and `TranspFuncsUni` hold one transport each and share nothing; timeouts,
  addresses and error texts are left to the library.
* **SE2:** the parsing of a header's line, the copy of the launcher at start-up, the geometry of
  schematic items and its older `LuaWrap`, which waits for nothing.
* **Drawing, dialogs, the Git core experiment** (thin wrappers without state of their own) and third-party
  code. The latter is most of the repository: of some 70,000 lines of C and C++ the headers of libgit2, libusb,
  VISA, Qwt, Lua and a JSON library are more than 50,000, and of the program's own 13,000 or so the greater part is
  widgets, graphics items and formatting. A share of mapped lines measured over all of it stays small
  whatever is modelled.

## What may come next

1. The byte layout of a chunk, whose path length counts UTF-16 units of a text written as UTF-8
   (`backuper.cpp:364`), as operators against a reference.
2. Twins in the SE2 instance, where the later of two scripts with one title hides the earlier.
