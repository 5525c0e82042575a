----------------------------- MODULE FtpClient -----------------------------
(***************************************************************************)
(* The FTP client for instruments (SE2/include/cftpclient.cpp).  Each call *)
(* makes one or several requests.  A request creates a QFtp object, starts *)
(* the timer, queues commands and runs an event loop until a slot tells it *)
(* to quit: when the request's last command has finished, when a command   *)
(* has failed, or when the timer has expired.  While the event loop runs,  *)
(* the program goes on handling events, so that another call can arrive;   *)
(* and answers of the server race the timer.                               *)
(*                                                                         *)
(* QFtp is the library's: it runs its queued commands in order, reports    *)
(* each as finished or failed, drops the queue when one fails, and on      *)
(* abort() drops all but the running one, whose answer may still come.     *)
(* Command ids grow over all QFtp objects, so that an id kept from an      *)
(* earlier request matches nothing; only idGetTextFromFile, which the      *)
(* constructor forgets, may hold any number.                               *)
(***************************************************************************)
EXTENDS Naturals, Sequences

CONSTANTS
    Calls,       \* the calls the program makes
    Nested,      \* the calls it may make while another one runs
    Faults,      \* what else may go wrong: a subset of FaultKinds
    MaxFiles,    \* files in a directory that is sent
    MaxEntries,  \* directories, and files, in a directory of the instrument
    Null         \* no QFtp object

FaultKinds ==
    {"unreadable",    \* a file to be sent, or its directory, cannot be read
     "unwritable",    \* the file to receive into cannot be opened
     "uninitialized"} \* idGetTextFromFile starts with the id of some command

Puts == {"putFile", "putText"}
Simple == Puts \cup {"get", "text", "remove", "rmdir", "mkdir"}
Composite == {"putDir", "clear"}
Requests == Simple \cup {"list"}
FtpCommands == Requests \cup {"connect", "login", "put"}

ASSUME FtpClientAssumption ==
    /\ Calls \subseteq Simple \cup Composite
    /\ Nested \subseteq Calls
    /\ Faults \subseteq FaultKinds
    /\ MaxFiles \in Nat /\ MaxEntries \in Nat
    /\ Null \notin Seq(FtpCommands)

VARIABLES
    call,               \* the call that runs, or "none"
    todo,               \* the requests it has still to make, the current one first
    ftp,                \* the commands its QFtp has still to run, or Null
    timer,              \* the timer is running
    quit,               \* the event loop has been told to quit
    isError,
    isPutComplete,
    fileObject,         \* the QFile of a transfer: "none", "open" or "closed"
    buffer,             \* there is a QBuffer for a text
    strFromFile,        \* the number of texts it is made of
    idGetTextFromFile,  \* "uninitialized" until it is set or has been matched
    answer,             \* what the last call returned
    executed,           \* history: the current request did what it is for
    undone              \* history: a request of this call did not

vars == <<call, todo, ftp, timer, quit, isError, isPutComplete, fileObject, buffer,
          strFromFile, idGetTextFromFile, answer, executed, undone>>

\* What a request queues, and the command that is its purpose.  The id that a put
\* waits for is overwritten with the id of the list behind it.
Commands(r) ==
    IF r \in Puts THEN <<"connect", "login", "put", "list">>
                  ELSE <<"connect", "login", r>>
Purpose(r) == IF r \in Puts THEN "put" ELSE r
Last(r) == IF r \in Puts THEN "list" ELSE r

TypeOK ==
    /\ call \in Calls \cup {"none"}
    /\ todo \in Seq(Requests)
    /\ ftp \in Seq(FtpCommands) \cup {Null}
    /\ {timer, quit, isError, isPutComplete} \subseteq BOOLEAN
    /\ fileObject \in {"none", "open", "closed"}
    /\ buffer \in BOOLEAN
    /\ strFromFile \in {0, 1}
    /\ idGetTextFromFile \in {"uninitialized", "set"}
    /\ {answer, executed, undone} \subseteq BOOLEAN
-----------------------------------------------------------------------------
Init ==
    /\ call = "none" /\ todo = <<>>
    /\ ftp = Null
    /\ timer = FALSE /\ quit = FALSE
    /\ isError = FALSE /\ isPutComplete = FALSE
    /\ fileObject = "none" /\ buffer = FALSE
    /\ strFromFile = 0
    /\ idGetTextFromFile = IF "uninitialized" \in Faults THEN "uninitialized" ELSE "set"
    /\ answer = FALSE
    /\ executed = FALSE /\ undone = FALSE

Repeat(r, n) == [k \in 1..n |-> r]

\* The requests a call knows from the start: clearFtp lists three directories.
Program(c) ==
    CASE c = "putDir" -> {Repeat("putFile", n) : n \in 0..MaxFiles}
      [] c = "clear" -> {Repeat("list", 3)}
      [] OTHER -> {<<c>>}

Begin(c) ==
    /\ call = "none" /\ ftp = Null
    /\ call' = c
    /\ todo' \in Program(c)
    /\ isError' = (isError /\ c \notin Composite)
    /\ undone' = FALSE
    /\ UNCHANGED <<ftp, timer, quit, isPutComplete, fileObject, buffer, strFromFile,
                   idGetTextFromFile, answer, executed>>

Returns(value) ==
    /\ call' = "none"
    /\ todo' = <<>>
    /\ answer' = value

StartRequest ==
    /\ call # "none" /\ ftp = Null /\ todo # <<>>
    /\ timer' = TRUE /\ quit' = FALSE
    /\ isError' = FALSE
    /\ executed' = FALSE
    /\ ftp' = Commands(Head(todo))
    /\ \/ Head(todo) \in {"putFile", "get"} /\ fileObject' = "open"
       \/ Head(todo) = "get" /\ "unwritable" \in Faults /\ fileObject' = "closed"
       \/ Head(todo) \notin {"putFile", "get"} /\ UNCHANGED fileObject
    /\ buffer' = (buffer \/ Head(todo) = "text")
    /\ idGetTextFromFile' = IF Head(todo) = "text" THEN "set" ELSE idGetTextFromFile
    /\ UNCHANGED <<call, todo, isPutComplete, strFromFile, answer, undone>>

\* The file to be sent cannot be opened: writeFileToFtp returns, and leaves the
\* QFtp object, two commands and the running timer behind.
OpenFails ==
    /\ call # "none" /\ ftp = Null /\ todo # <<>>
    /\ Head(todo) = "putFile" /\ "unreadable" \in Faults
    /\ timer' = TRUE
    /\ isError' = TRUE
    /\ ftp' = <<"connect", "login">>
    /\ fileObject' = "closed"
    /\ undone' = TRUE
    /\ Returns(TRUE)
    /\ UNCHANGED <<quit, isPutComplete, buffer, strFromFile, idGetTextFromFile, executed>>

\* writeDirToFtp with a directory that cannot be read; it asks before anything else.
DirUnreadable ==
    /\ "putDir" \in IF call = "none" THEN Calls ELSE Nested
    /\ call = "none" \/ ftp # Null
    /\ "unreadable" \in Faults
    /\ isError' = TRUE
    /\ answer' = TRUE
    /\ UNCHANGED <<call, todo, ftp, timer, quit, isPutComplete, fileObject, buffer,
                   strFromFile, idGetTextFromFile, executed, undone>>
-----------------------------------------------------------------------------
(* The slots.                                                              *)

\* signalTransferComplete reaches an event loop if there is one.
SignalTransferComplete == quit' = (call # "none")

Waits(cmd) == call # "none" /\ Last(Head(todo)) = cmd

\* The QFile of a receiving request takes what arrives only if it is open.
Executes(cmd) ==
    /\ call # "none"
    /\ Purpose(Head(todo)) = cmd
    /\ cmd = "get" => fileObject = "open"

\* slotCheckCommands, for a command that nobody waits for.
CommandFinished ==
    /\ ftp # Null /\ ftp # <<>>
    /\ ~Waits(Head(ftp))
    /\ executed' = (executed \/ Executes(Head(ftp)))
    /\ ftp' = Tail(ftp)
    /\ UNCHANGED <<call, todo, timer, quit, isError, isPutComplete, fileObject, buffer,
                   strFromFile, idGetTextFromFile, answer, undone>>

\* Such a command may have the id that idGetTextFromFile happens to hold: the
\* request is over.
MistakenForText ==
    /\ ftp # Null /\ ftp # <<>>
    /\ ~Waits(Head(ftp))
    /\ idGetTextFromFile = "uninitialized"
    /\ idGetTextFromFile' = "set"
    /\ executed' = (executed \/ Executes(Head(ftp)))
    /\ ftp' = <<>>
    /\ timer' = FALSE
    /\ SignalTransferComplete
    /\ UNCHANGED <<call, todo, isError, isPutComplete, fileObject, buffer, strFromFile,
                   answer, undone>>

\* Mutant: the timer is not stopped.
RequestFinished_TimerRuns ==
    /\ ftp # Null /\ ftp # <<>>
    /\ Waits(Head(ftp))
    /\ executed' = (executed \/ Executes(Head(ftp)))
    /\ LET r == Head(todo) IN
       /\ fileObject' = IF r \in Puts \cup {"get"} THEN "none" ELSE fileObject
       /\ strFromFile' = IF r = "text" /\ buffer THEN strFromFile + 1 ELSE strFromFile
       /\ buffer' = (buffer /\ r # "text")
       /\ isPutComplete' = (isPutComplete \/ r \in Puts)
    /\ ftp' = <<>>
    /\ SignalTransferComplete
    /\ UNCHANGED <<call, todo, timer, isError, idGetTextFromFile, answer, undone>>

\* The command the request waits for has finished.
RequestFinished ==
    /\ ftp # Null /\ ftp # <<>>
    /\ Waits(Head(ftp))
    /\ executed' = (executed \/ Executes(Head(ftp)))
    /\ LET r == Head(todo) IN
       /\ fileObject' = IF r \in Puts \cup {"get"} THEN "none" ELSE fileObject
       /\ strFromFile' = IF r = "text" /\ buffer THEN strFromFile + 1 ELSE strFromFile
       /\ buffer' = (buffer /\ r # "text")
       /\ isPutComplete' = (isPutComplete \/ r \in Puts)
    /\ ftp' = <<>>
    /\ timer' = FALSE
    /\ SignalTransferComplete
    /\ UNCHANGED <<call, todo, isError, idGetTextFromFile, answer, undone>>

\* Mutant: the event loop is not told.
CommandFailed_Silent ==
    /\ ftp # Null /\ ftp # <<>>
    /\ timer' = FALSE
    /\ isError' = TRUE
    /\ ftp' = <<>>
    /\ UNCHANGED <<call, todo, quit, isPutComplete, fileObject, buffer, strFromFile,
                   idGetTextFromFile, answer, executed, undone>>

\* Mutant: the error is not recorded.
CommandFailed_Forgotten ==
    /\ ftp # Null /\ ftp # <<>>
    /\ timer' = FALSE
    /\ ftp' = <<>>
    /\ SignalTransferComplete
    /\ UNCHANGED <<call, todo, isError, isPutComplete, fileObject, buffer, strFromFile,
                   idGetTextFromFile, answer, executed, undone>>

CommandFailed ==
    /\ ftp # Null /\ ftp # <<>>
    /\ timer' = FALSE
    /\ isError' = TRUE
    /\ ftp' = <<>>
    /\ SignalTransferComplete
    /\ UNCHANGED <<call, todo, isPutComplete, fileObject, buffer, strFromFile,
                   idGetTextFromFile, answer, executed, undone>>

\* slotTimeOut: the running command goes on, and may still be answered.
TimeOut ==
    /\ timer
    /\ timer' = FALSE
    /\ isError' = TRUE
    /\ ftp' = SubSeq(ftp, 1, IF ftp = <<>> THEN 0 ELSE 1)
    /\ SignalTransferComplete
    /\ UNCHANGED <<call, todo, isPutComplete, fileObject, buffer, strFromFile,
                   idGetTextFromFile, answer, executed, undone>>
-----------------------------------------------------------------------------
(* The end of a request, and of a call.                                    *)

\* What clearFtp finds in a directory: the directories go first.
Listings == {Repeat("rmdir", d) \o Repeat("remove", f) : d, f \in 0..MaxEntries}

\* Mutant: the text is returned and kept.
Text_Kept(r) == strFromFile

\* getTextFromFile returns the text and forgets it.
Text(r) == IF r = "text" THEN 0 ELSE strFromFile

\* The event loop ends.  writeDirToFtp gives up at the first error; clearFtp goes on.
EndRequest ==
    LET r == Head(todo)
        failed == isError \/ (r \in Puts /\ ~isPutComplete)
    IN
    /\ call # "none" /\ ftp # Null /\ quit
    /\ ftp' = Null
    /\ quit' = FALSE
    /\ isError' = failed
    /\ undone' = (undone \/ ~executed)
    /\ strFromFile' = Text(r)
    /\ \E found \in IF r = "list" THEN Listings ELSE {<<>>} :
          IF found \o Tail(todo) = <<>> \/ (call = "putDir" /\ failed)
          THEN Returns(failed)
          ELSE todo' = found \o Tail(todo) /\ UNCHANGED <<call, answer>>
    /\ UNCHANGED <<timer, isPutComplete, fileObject, buffer, idGetTextFromFile, executed>>

\* An empty directory is sent.
NothingToDo ==
    /\ call # "none" /\ todo = <<>>
    /\ Returns(isError)
    /\ UNCHANGED <<ftp, timer, quit, isError, isPutComplete, fileObject, buffer,
                   strFromFile, idGetTextFromFile, executed, undone>>

\* A call while there is a QFtp object: its own requests are skipped, what comes
\* before and behind them is not.  A clearFtp forgets what an outer one has found.
Busy(c) ==
    /\ ftp # Null
    /\ call # "none" => c \in Nested
    /\ isError' \in CASE c \in Puts   -> {isError \/ ~isPutComplete}
                      [] c = "putDir" -> {FALSE, ~isPutComplete}
                      [] c = "clear"  -> {FALSE}
                      [] OTHER        -> {isError}
    /\ answer' = isError'
    /\ strFromFile' = Text(c)
    /\ IF c = "clear" /\ todo # <<>>
       THEN \E k \in 1..Len(todo) :
              /\ \A j \in 2..k : todo[j] # "list"
              /\ k < Len(todo) => todo[k + 1] = "list"
              /\ todo' = <<Head(todo)>> \o SubSeq(todo, k + 1, Len(todo))
       ELSE UNCHANGED todo
    /\ UNCHANGED <<call, ftp, timer, quit, isPutComplete, fileObject, buffer,
                   idGetTextFromFile, executed, undone>>

Next ==
    \/ \E c \in Calls : Begin(c)
    \/ StartRequest
    \/ OpenFails
    \/ DirUnreadable
    \/ CommandFinished
    \/ MistakenForText
    \/ RequestFinished
    \/ CommandFailed
    \/ TimeOut
    \/ EndRequest
    \/ NothingToDo
    \/ \E c \in Calls : Busy(c)

\* The event loop delivers the timer and notices that it is to quit, and the code
\* of a call goes on; the server owes nothing.
Fairness ==
    /\ WF_vars(TimeOut)
    /\ WF_vars(EndRequest)
    /\ WF_vars(StartRequest)
    /\ WF_vars(NothingToDo)

Spec == Init /\ [][Next]_vars /\ Fairness
=============================================================================
