-------------------------- MODULE FtpClientProofs --------------------------
(***************************************************************************)
(* Theorems about the FTP client, for every set of calls and every size of *)
(* directories.                                                            *)
(***************************************************************************)
EXTENDS FtpClientSafety, SequenceTheorems, TLAPS

-----------------------------------------------------------------------------
(* Types.                                                                  *)

LEMMA NullIsNoSeq ==
    ASSUME NEW s \in Seq(FtpCommands)
    PROVE  s # Null
BY FtpClientAssumption

LEMMA CommandsType ==
    ASSUME NEW r \in Requests
    PROVE  Commands(r) \in Seq(FtpCommands)
<1>1. {"connect", "login", "put", "list", r} \subseteq FtpCommands
    BY DEF FtpCommands, Requests
<1>2. <<"connect", "login", "put", "list">> \in Seq(FtpCommands)
    BY <1>1
<1>3. <<"connect", "login", r>> \in Seq(FtpCommands)
    BY <1>1
<1> QED
    BY <1>2, <1>3 DEF Commands

LEMMA RepeatType ==
    ASSUME NEW S, NEW r \in S, NEW n \in Nat
    PROVE  Repeat(r, n) \in Seq(S)
<1>1. Repeat(r, n) \in [1..n -> S]
    BY DEF Repeat
<1> QED
    BY <1>1, SeqDef

LEMMA ProgramType ==
    ASSUME NEW c \in Calls, NEW p \in Program(c)
    PROVE  p \in Seq(Requests)
<1>1. "putFile" \in Requests /\ "list" \in Requests /\ Simple \subseteq Requests
    BY DEF Requests, Simple, Puts
<1>2. CASE c = "putDir"
    <2>1. PICK n \in 0..MaxFiles : p = Repeat("putFile", n)
        BY <1>2 DEF Program
    <2>2. n \in Nat
        BY FtpClientAssumption
    <2> QED
        BY <1>1, <2>1, <2>2, RepeatType
<1>3. CASE c = "clear"
    <2>1. p = Repeat("list", 3)
        BY <1>3 DEF Program
    <2> QED
        BY <1>1, <2>1, RepeatType
<1>4. CASE c \in Simple
    <2>1. p = <<c>>
        BY <1>4 DEF Program, Simple, Puts
    <2> QED
        BY <1>1, <1>4, <2>1
<1> QED
    BY <1>2, <1>3, <1>4, FtpClientAssumption DEF Composite

LEMMA ListingsType ==
    ASSUME NEW found \in Listings
    PROVE  found \in Seq(Requests)
<1>1. PICK d \in 0..MaxEntries, f \in 0..MaxEntries :
          found = Repeat("rmdir", d) \o Repeat("remove", f)
    BY DEF Listings
<1>2. d \in Nat /\ f \in Nat /\ "rmdir" \in Requests /\ "remove" \in Requests
    BY FtpClientAssumption DEF Requests, Simple
<1>3. Repeat("rmdir", d) \in Seq(Requests) /\ Repeat("remove", f) \in Seq(Requests)
    BY <1>2, RepeatType
<1> QED
    BY <1>1, <1>3, ConcatProperties

\* What slotTimeOut leaves of the commands.
LEMMA AbortType ==
    ASSUME NEW s \in Seq(FtpCommands)
    PROVE  SubSeq(s, 1, IF s = <<>> THEN 0 ELSE 1) \in Seq(FtpCommands)
<1>1. CASE s = <<>>
    BY <1>1
<1>2. CASE s # <<>>
    <2>1. Len(s) \in Nat /\ Len(s) # 0
        BY <1>2, EmptySeq, LenProperties
    <2> QED
        BY <1>2, <2>1
<1> QED
    BY <1>1, <1>2

LEMMA TypeInvInit == Init => TypeInv
<1> SUFFICES ASSUME Init
             PROVE  TypeInv
    OBVIOUS
<1>1. call = "none" /\ todo = <<>> /\ ftp = Null /\ strFromFile = 0
    BY DEF Init
<1>2. todo \in Seq(Requests)
    BY <1>1
<1>3. /\ {timer, quit, isError, isPutComplete, answer, executed, undone} \subseteq BOOLEAN
      /\ buffer \in BOOLEAN
      /\ fileObject = "none"
      /\ idGetTextFromFile \in {"uninitialized", "set"}
    BY DEF Init
<1> QED
    BY <1>1, <1>2, <1>3 DEF TypeInv, TypeOK

LEMMA TypeInvStep == TypeInv /\ TimerInv /\ [Next]_vars => TypeInv'
<1> SUFFICES ASSUME TypeInv, TimerInv, [Next]_vars
             PROVE  TypeInv'
    OBVIOUS
<1>0. TypeOK
    BY DEF TypeInv
<1>1. ASSUME NEW c \in Calls, Begin(c)
      PROVE  TypeInv'
    <2>1. todo' \in Seq(Requests)
        BY <1>1, ProgramType DEF Begin
    <2>2. ftp' = Null /\ strFromFile' = strFromFile /\ strFromFile # 1
        BY <1>1 DEF Begin, TypeInv
    <2>3. isError' \in BOOLEAN /\ undone' \in BOOLEAN /\ call' \in Calls
        BY <1>1 DEF Begin
    <2> QED
        BY <1>0, <1>1, <2>1, <2>2, <2>3 DEF Begin, TypeOK, TypeInv
<1>2. CASE StartRequest
    <2>1. Head(todo) \in Requests /\ ftp' = Commands(Head(todo))
        BY <1>0, <1>2, HeadTailProperties DEF StartRequest, TypeOK
    <2>2. ftp' \in Seq(FtpCommands)
        BY <2>1, CommandsType
    <2>3. strFromFile' = strFromFile /\ strFromFile # 1
        BY <1>2 DEF StartRequest, TypeInv
    <2>4. fileObject' \in {"none", "open", "closed"}
        BY <1>0, <1>2 DEF StartRequest, TypeOK
    <2>5. idGetTextFromFile' \in {"uninitialized", "set"} /\ buffer' \in BOOLEAN
        BY <1>0, <1>2 DEF StartRequest, TypeOK
    <2>6. timer' /\ ~quit' /\ ~isError' /\ ~executed' /\ timer' \in BOOLEAN
          /\ {quit', isError', executed'} \subseteq BOOLEAN
        BY <1>2 DEF StartRequest
    <2>7. UNCHANGED <<call, todo, isPutComplete, answer, undone>> /\ todo # <<>>
        BY <1>2 DEF StartRequest
    <2> QED
        BY <1>0, <2>2, <2>3, <2>4, <2>5, <2>6, <2>7 DEF TypeOK, TypeInv
<1>3. CASE OpenFails
    <2>1. ftp' \in Seq(FtpCommands)
        BY <1>3 DEF OpenFails, FtpCommands
    <2>2. todo' = <<>> /\ call' = "none" /\ todo' \in Seq(Requests)
        BY <1>3 DEF OpenFails, Returns
    <2>3. strFromFile' = strFromFile /\ strFromFile # 1
        BY <1>3 DEF OpenFails, TypeInv
    <2> QED
        BY <1>0, <1>3, <2>1, <2>2, <2>3 DEF OpenFails, Returns, TypeOK, TypeInv
<1>4. CASE DirUnreadable
    BY <1>0, <1>4 DEF DirUnreadable, TypeOK, TypeInv
<1>5. CASE CommandFinished
    <2>1. ftp' \in Seq(FtpCommands)
        BY <1>0, <1>5, HeadTailProperties DEF CommandFinished, TypeOK
    <2>2. executed' \in BOOLEAN
        BY <1>5 DEF CommandFinished
    <2>3. ftp # Null
        BY <1>5 DEF CommandFinished
    <2>4. ftp' # Null
        BY <2>1, NullIsNoSeq
    <2> QED
        BY <1>0, <1>5, <2>1, <2>2, <2>3, <2>4 DEF CommandFinished, TypeOK, TypeInv
<1>6. ASSUME ftp' = <<>>
      PROVE  ftp' \in Seq(FtpCommands) /\ ftp' # Null
    <2>1. ftp' \in Seq(FtpCommands)
        BY <1>6
    <2> QED
        BY <2>1, NullIsNoSeq
<1>7. CASE MistakenForText
    <2>1. executed' \in BOOLEAN /\ quit' \in BOOLEAN /\ ftp' = <<>> /\ ftp # Null
        BY <1>7 DEF MistakenForText, SignalTransferComplete
    <2> QED
        BY <1>0, <1>6, <1>7, <2>1 DEF MistakenForText, TypeOK, TypeInv
<1>8. CASE RequestFinished
    <2>1. /\ executed' \in BOOLEAN /\ quit' \in BOOLEAN /\ isPutComplete' \in BOOLEAN
          /\ buffer' \in BOOLEAN
          /\ ftp' = <<>> /\ ftp # Null /\ call # "none"
        BY <1>8 DEF RequestFinished, SignalTransferComplete, Waits
    <2>2. fileObject' \in {"none", "open", "closed"}
        BY <1>0, <1>8 DEF RequestFinished, TypeOK
    <2>3. /\ strFromFile' \in {0, 1}
          /\ strFromFile' = 1 => Head(todo) = "text" /\ ~buffer'
        <3>1. strFromFile' = IF Head(todo) = "text" /\ buffer THEN strFromFile + 1
                                                              ELSE strFromFile
            BY <1>8 DEF RequestFinished
        <3>2. buffer' = (buffer /\ Head(todo) # "text")
            BY <1>8 DEF RequestFinished
        <3>3. strFromFile \in {0, 1}
            BY <1>0 DEF TypeOK
        <3>4. strFromFile = 1 => Head(todo) = "text" /\ ~buffer
            BY DEF TypeInv
        <3>5. CASE Head(todo) = "text" /\ buffer
            <4>1. strFromFile = 0
                BY <3>3, <3>4, <3>5
            <4>2. strFromFile' = strFromFile + 1
                BY <3>1, <3>5, Zenon
            <4>3. ~buffer'
                BY <3>2, <3>5, Zenon
            <4> QED
                BY <3>5, <4>1, <4>2, <4>3
        <3>6. CASE ~(Head(todo) = "text" /\ buffer)
            BY <3>1, <3>2, <3>3, <3>4, <3>6
        <3> QED
            BY <3>5, <3>6
    <2>4. UNCHANGED <<call, todo>> /\ todo # <<>>
        BY <1>8, <2>1 DEF RequestFinished, TypeInv
    <2> QED
        BY <1>0, <1>6, <1>8, <2>1, <2>2, <2>3, <2>4 DEF RequestFinished, TypeOK, TypeInv
<1>9. CASE CommandFailed
    <2>1. quit' \in BOOLEAN /\ ftp' = <<>> /\ ftp # Null
        BY <1>9 DEF CommandFailed, SignalTransferComplete
    <2> QED
        BY <1>0, <1>6, <1>9, <2>1 DEF CommandFailed, TypeOK, TypeInv
<1>10. CASE EndRequest
    <2> DEFINE r == Head(todo)
               failed == isError \/ (r \in Puts /\ ~isPutComplete)
    <2>1. /\ todo # <<>> /\ ftp' = Null /\ ~quit' /\ quit' \in BOOLEAN
          /\ isError' = failed /\ failed \in BOOLEAN
          /\ undone' = (undone \/ ~executed)
          /\ strFromFile' = Text(r)
          /\ UNCHANGED <<timer, isPutComplete, fileObject, buffer, idGetTextFromFile,
                         executed>>
        BY <1>10 DEF EndRequest, TypeInv
    <2>2. strFromFile' = 0
        BY <1>0, <1>10, <2>1 DEF Text, TypeInv, TypeOK
    <2>3. PICK found \in IF r = "list" THEN Listings ELSE {<<>>} :
              IF found \o Tail(todo) = <<>> \/ (call = "putDir" /\ failed)
              THEN Returns(failed)
              ELSE todo' = found \o Tail(todo) /\ UNCHANGED <<call, answer>>
        BY <1>10 DEF EndRequest
    <2>4. found \in Seq(Requests) /\ Tail(todo) \in Seq(Requests)
        <3>1. found \in Listings => found \in Seq(Requests)
            BY ListingsType
        <3>2. found = <<>> => found \in Seq(Requests)
            OBVIOUS
        <3>3. todo \in Seq(Requests) /\ todo # <<>>
            BY <1>0, <2>1 DEF TypeOK
        <3>4. Tail(todo) \in Seq(Requests)
            BY <3>3
        <3> QED
            BY <2>3, <3>1, <3>2, <3>4
    <2>5. found \o Tail(todo) \in Seq(Requests)
        BY <2>4, ConcatProperties
    <2>6. CASE Returns(failed)
        <3>1. /\ call' \in Calls \cup {"none"} /\ todo' \in Seq(Requests)
              /\ answer' \in BOOLEAN
            BY <2>1, <2>6 DEF Returns
        <3> QED
            BY <1>0, <2>1, <2>2, <3>1 DEF TypeOK, TypeInv
    <2>7. CASE todo' = found \o Tail(todo) /\ UNCHANGED <<call, answer>>
        BY <1>0, <2>1, <2>2, <2>5, <2>7 DEF TypeOK, TypeInv
    <2> QED
        BY <2>3, <2>6, <2>7
<1>11. CASE NothingToDo
    <2>1. todo' = <<>> /\ call' = "none" /\ answer' = isError
        BY <1>11 DEF NothingToDo, Returns
    <2>2. strFromFile # 1
        BY <1>11 DEF NothingToDo, TypeInv
    <2> QED
        BY <1>0, <1>11, <2>1, <2>2 DEF NothingToDo, TypeOK, TypeInv
<1>12. ASSUME NEW c \in Calls, Busy(c)
       PROVE  TypeInv'
    <2>1. isError' \in BOOLEAN
        <3>1. /\ {isError \/ ~isPutComplete} \subseteq BOOLEAN
              /\ {FALSE, ~isPutComplete} \subseteq BOOLEAN
              /\ {isError} \subseteq BOOLEAN
            BY <1>0 DEF TypeOK
        <3>2. \/ isError' \in {isError \/ ~isPutComplete}
              \/ isError' \in {FALSE, ~isPutComplete}
              \/ isError' \in {isError}
            BY <1>12, Zenon DEF Busy
        <3> QED
            BY <3>1, <3>2
    <2>2. strFromFile' \in {0, 1} /\ (strFromFile' = 1 => strFromFile = 1)
        BY <1>0, <1>12 DEF Busy, Text, TypeOK
    <2>3. /\ todo' \in Seq(Requests)
          /\ todo # <<>> => todo' # <<>> /\ Head(todo') = Head(todo)
        <3>1. CASE todo' = todo
            BY <1>0, <3>1 DEF TypeOK
        <3>2. CASE todo # <<>> /\ \E k \in 1..Len(todo) :
                      todo' = <<Head(todo)>> \o SubSeq(todo, k + 1, Len(todo))
            <4>1. PICK k \in 1..Len(todo) :
                      todo' = <<Head(todo)>> \o SubSeq(todo, k + 1, Len(todo))
                BY <3>2
            <4> DEFINE rest == SubSeq(todo, k + 1, Len(todo))
            <4>2. Head(todo) \in Requests /\ Len(todo) \in Nat
                BY <1>0, <3>2, HeadTailProperties, LenProperties DEF TypeOK
            <4>3. rest \in Seq(Requests)
                BY <1>0, <4>2 DEF TypeOK
            <4>4. <<Head(todo)>> \in Seq(Requests) /\ Len(<<Head(todo)>>) = 1
                BY <4>2
            <4> HIDE DEF rest
            <4>5. /\ todo' \in Seq(Requests)
                  /\ Len(todo') = 1 + Len(rest)
                  /\ todo'[1] = <<Head(todo)>>[1]
                BY <4>1, <4>3, <4>4, ConcatProperties DEF rest
            <4>6. Len(todo') # 0
                BY <4>3, <4>5, LenProperties
            <4>7. todo' # <<>> /\ Head(todo') = todo'[1]
                BY <4>5, <4>6, HeadTailProperties, EmptySeq
            <4> QED
                BY <4>5, <4>7
        <3> QED
            BY <1>12, <3>1, <3>2, Zenon DEF Busy
    <2>4. /\ UNCHANGED <<call, ftp, timer, quit, isPutComplete, fileObject, buffer,
                         idGetTextFromFile, executed, undone>>
          /\ answer' = isError' /\ ftp # Null
        BY <1>12 DEF Busy
    <2> QED
        BY <1>0, <2>1, <2>2, <2>3, <2>4 DEF TypeOK, TypeInv
<1>13. CASE TimeOut
    <2>1. ftp # Null /\ ftp \in Seq(FtpCommands)
        BY <1>0, <1>13 DEF TimeOut, TimerInv, TimerHasRequest, TypeOK
    <2>2. ftp' \in Seq(FtpCommands)
        BY <1>13, <2>1, AbortType DEF TimeOut
    <2>3. /\ quit' \in BOOLEAN /\ ~timer' /\ isError' /\ {timer', isError'} \subseteq BOOLEAN
          /\ UNCHANGED <<call, todo, isPutComplete, fileObject, buffer, strFromFile,
                         idGetTextFromFile, answer, executed, undone>>
        BY <1>13 DEF TimeOut, SignalTransferComplete
    <2>4. ftp' # Null
        BY <2>2, NullIsNoSeq
    <2> QED
        BY <1>0, <2>1, <2>2, <2>3, <2>4 DEF TypeOK, TypeInv
<1>14. CASE UNCHANGED vars
    BY <1>14 DEF vars, TypeOK, TypeInv
<1> QED
    BY <1>1, <1>2, <1>3, <1>4, <1>5, <1>7, <1>8, <1>9, <1>10, <1>11, <1>12, <1>13,
       <1>14 DEF Next

-----------------------------------------------------------------------------
(* The timer.                                                              *)

LEMMA TimerInvInit == Init => TimerInv
BY DEF Init, TimerInv, TimerCovers, TimerHasRequest

\* Only a slot stops the timer, and every slot that does tells the loop to quit;
\* only the end of the request takes that back, and then there is no request.
LEMMA TimerInvStep == TypeInv /\ TimerInv /\ [Next]_vars => TimerInv'
<1> SUFFICES ASSUME TypeInv, TimerInv, [Next]_vars
             PROVE  TimerInv'
    OBVIOUS
<1> USE DEF TimerInv, TimerCovers, TimerHasRequest
<1>0. <<>> # Null
    <2>1. <<>> \in Seq(FtpCommands)
        OBVIOUS
    <2> QED
        BY <2>1, NullIsNoSeq
<1>1. ASSUME NEW c \in Calls, Begin(c)
      PROVE  TimerInv'
    BY <1>1 DEF Begin
<1>2. CASE StartRequest
    <2>1. Head(todo) \in Requests
        BY <1>2, HeadTailProperties DEF StartRequest, TypeInv, TypeOK
    <2>2. Commands(Head(todo)) # Null
        BY <2>1, CommandsType, NullIsNoSeq
    <2> QED
        BY <1>2, <2>2 DEF StartRequest
<1>3. CASE OpenFails
    <2>1. <<"connect", "login">> \in Seq(FtpCommands)
        BY DEF FtpCommands
    <2>2. <<"connect", "login">> # Null
        BY <2>1, NullIsNoSeq
    <2> QED
        BY <1>3, <2>2 DEF OpenFails, Returns
<1>4. CASE DirUnreadable
    BY <1>4 DEF DirUnreadable
<1>5. CASE CommandFinished
    <2>1. Tail(ftp) \in Seq(FtpCommands)
        BY <1>5, HeadTailProperties DEF CommandFinished, TypeInv, TypeOK
    <2>2. Tail(ftp) # Null
        BY <2>1, NullIsNoSeq
    <2> QED
        BY <1>5, <2>2 DEF CommandFinished
<1>6. CASE MistakenForText
    BY <1>0, <1>6 DEF MistakenForText, SignalTransferComplete
<1>7. CASE RequestFinished
    BY <1>0, <1>7 DEF RequestFinished, SignalTransferComplete
<1>8. CASE CommandFailed
    BY <1>0, <1>8 DEF CommandFailed, SignalTransferComplete
<1>9. CASE TimeOut
    <2>1. ftp \in Seq(FtpCommands)
        BY <1>9 DEF TimeOut, TypeInv, TypeOK
    <2>2. ftp' # Null
        BY <1>9, <2>1, AbortType, NullIsNoSeq DEF TimeOut
    <2>3. call' = call /\ quit' = (call # "none") /\ ~timer'
        BY <1>9 DEF TimeOut, SignalTransferComplete
    <2> QED
        BY <2>2, <2>3
<1>10. CASE EndRequest
    BY <1>10 DEF EndRequest
<1>11. CASE NothingToDo
    BY <1>11 DEF NothingToDo, Returns
<1>12. ASSUME NEW c \in Calls, Busy(c)
       PROVE  TimerInv'
    <2>1. UNCHANGED <<call, ftp, timer, quit>>
        BY <1>12 DEF Busy
    <2> QED
        BY <2>1
<1>13. CASE UNCHANGED vars
    BY <1>13 DEF vars
<1> QED
    BY <1>1, <1>2, <1>3, <1>4, <1>5, <1>6, <1>7, <1>8, <1>9, <1>10, <1>11, <1>12,
       <1>13 DEF Next

LEMMA Invariants == Spec => [](TypeInv /\ TimerInv)
<1>1. Init => TypeInv /\ TimerInv
    BY TypeInvInit, TimerInvInit
<1>2. TypeInv /\ TimerInv /\ [Next]_vars => TypeInv' /\ TimerInv'
    BY TypeInvStep, TimerInvStep
<1> QED
    BY <1>1, <1>2, PTL DEF Spec

\* The client's state stays within its types; in particular a text never gets longer
\* than one file's (getTextFromFile, slotCheckCommands).
THEOREM TypeCorrect == Spec => []TypeOK
<1>1. TypeInv => TypeOK
    BY DEF TypeInv
<1> QED
    BY <1>1, Invariants, PTL

\* A call that waits is never left without a timer, and the timer never runs without
\* a QFtp, whatever the server does and whatever other calls come
\* (slotCheckCommands, slotTimeOut).
THEOREM WaitsWithTimer == Spec => [](TimerCovers /\ TimerHasRequest)
<1>1. TimerInv => TimerCovers /\ TimerHasRequest
    BY DEF TimerInv
<1> QED
    BY <1>1, Invariants, PTL

\* So slotTimeOut always has a QFtp to abort (slotTimeOut).
THEOREM TimeoutsHaveRequest == Spec => []TimerHasRequest
BY WaitsWithTimer, PTL

-----------------------------------------------------------------------------
(* What "no error" means.                                                  *)

\* No file to receive into fails to open, idGetTextFromFile holds no stray id, and
\* only single requests come while a call runs.
PlainUse ==
    /\ Faults \subseteq {"unreadable"}
    /\ Nested \cap Composite = {}

LEMMA SuccessInvInit == PlainUse /\ Init => SuccessInv
BY DEF PlainUse, Init, SuccessInv

\* A put queues four commands.
LEMMA PutCommands ==
    ASSUME NEW r \in Puts
    PROVE  Commands(r) = <<"connect", "login", "put", "list">>
BY DEF Commands

\* What a running call other than clearFtp has as its current request.
LEMMA CurrentRequest ==
    ASSUME SuccessInv, call \notin {"none", "clear"}, todo # <<>>
    PROVE  /\ Head(todo) \in Simple
           /\ call \in Simple => Head(todo) = call /\ Tail(todo) = <<>>
           /\ call = "putDir" => Head(todo) = "putFile" /\ Tail(todo) \in Seq({"putFile"})
<1>1. CASE call \in Simple /\ todo = <<call>>
    <2>1. Head(todo) = call /\ Tail(todo) = <<>>
        BY <1>1
    <2> QED
        BY <1>1, <2>1 DEF Simple, Puts
<1>2. CASE call = "putDir" /\ todo \in Seq({"putFile"})
    <2>1. Head(todo) = "putFile" /\ Tail(todo) \in Seq({"putFile"})
        BY <1>2, HeadTailProperties
    <2> QED
        BY <1>2, <2>1 DEF Simple, Puts
<1> QED
    BY <1>1, <1>2 DEF SuccessInv

\* What is left of a put's commands.
LEMMA PutTails ==
    /\ Tail(<<"connect", "login", "put", "list">>) = <<"login", "put", "list">>
    /\ Tail(<<"login", "put", "list">>) = <<"put", "list">>
OBVIOUS

LEMMA PutHeads ==
    /\ Head(<<"connect", "login", "put", "list">>) = "connect"
    /\ Head(<<"login", "put", "list">>) = "login"
    /\ Head(<<"put", "list">>) = "put"
OBVIOUS

\* A command of a request in progress finishes, waited for or not.
LEMMA CommandStep ==
    ASSUME NEW r \in Simple, InProgress(r), r = Head(todo), call # "none",
           ftp # Null, ftp # <<>>,
           executed' = (executed \/ Executes(Head(ftp)))
    PROVE  /\ executed => executed'
           /\ Waits(Head(ftp)) => executed'
           /\ r \in Puts => \/ executed'
                            \/ Tail(ftp) = <<"login", "put", "list">>
                            \/ Tail(ftp) = <<"put", "list">>
<1>1. CASE r \in Puts
    <2>1. CASE executed
        BY <2>1
    <2>2. CASE ftp = <<"connect", "login", "put", "list">>
        <3>1. Head(ftp) = "connect" /\ Tail(ftp) = <<"login", "put", "list">>
            BY <2>2, PutTails, PutHeads
        <3> QED
            BY <1>1, <3>1 DEF Waits, Last
    <2>3. CASE ftp = <<"login", "put", "list">>
        <3>1. Head(ftp) = "login" /\ Tail(ftp) = <<"put", "list">>
            BY <2>3, PutTails, PutHeads
        <3> QED
            BY <1>1, <3>1 DEF Waits, Last
    <2>4. CASE ftp = <<"put", "list">>
        <3>1. Head(ftp) = "put"
            BY <2>4, PutHeads
        <3>2. Executes(Head(ftp))
            BY <1>1, <3>1 DEF Executes, Purpose
        <3> QED
            BY <3>2
    <2> QED
        BY <1>1, <2>1, <2>2, <2>3, <2>4 DEF InProgress
<1>2. CASE r \notin Puts
    <2>1. Waits(Head(ftp)) => Head(ftp) = r
        BY <1>2 DEF Waits, Last
    <2>2. Waits(Head(ftp)) => Executes(Head(ftp))
        BY <1>2, <2>1 DEF Executes, Purpose, InProgress
    <2> QED
        BY <1>2, <2>2
<1> QED
    BY <1>1, <1>2

\* What the four queued commands and a file just opened make true.
LEMMA StartProgress ==
    ASSUME PlainUse, SuccessInv, StartRequest, call # "clear"
    PROVE  InProgress(Head(todo))'
<1>1. todo' = todo /\ ~quit' /\ ftp' = Commands(Head(todo))
    BY DEF StartRequest
<1>2. Head(todo) \in Puts => ftp' = <<"connect", "login", "put", "list">>
    BY <1>1, PutCommands
<1>3. Head(todo) = "get" => fileObject' = "open"
    BY DEF StartRequest, PlainUse
<1> QED
    BY <1>1, <1>2, <1>3 DEF InProgress

\* The event loop of a call that goes on after a request: no error was recorded, so
\* the request had done its work.
LEMMA EndProgress ==
    ASSUME SuccessInv, EndRequest, call # "clear"
    PROVE  /\ call' = "none" => answer' \/ ~undone'
           /\ call' # "none" => /\ call' = "putDir" /\ todo' \in Seq({"putFile"})
                               /\ ~undone'
<1> DEFINE r == Head(todo)
           failed == isError \/ (r \in Puts /\ ~isPutComplete)
<1>1. call # "none" /\ ftp # Null /\ quit /\ todo # <<>> /\ ~undone
    BY DEF EndRequest, SuccessInv
<1>2. /\ r \in Simple
      /\ call \in Simple => r = call /\ Tail(todo) = <<>>
      /\ call = "putDir" => r = "putFile" /\ Tail(todo) \in Seq({"putFile"})
      /\ call \in Simple \/ call = "putDir"
    BY <1>1, CurrentRequest DEF SuccessInv
<1>3. r # "list"
    BY <1>2 DEF Simple, Puts
<1>4. undone' = (undone \/ ~executed)
    BY DEF EndRequest
<1>5. ~failed => ~undone'
    <2>1. ~isError => executed
        BY <1>1 DEF SuccessInv, InProgress
    <2> QED
        BY <1>1, <1>4, <2>1
<1>6. IF <<>> \o Tail(todo) = <<>> \/ (call = "putDir" /\ failed)
      THEN Returns(failed)
      ELSE todo' = <<>> \o Tail(todo) /\ UNCHANGED <<call, answer>>
    BY <1>3 DEF EndRequest
<1>7. <<>> \o Tail(todo) = Tail(todo)
    <2>1. Tail(todo) \in Seq({"putFile"})
        <3>1. <<>> \in Seq({"putFile"})
            OBVIOUS
        <3>2. CASE call \in Simple
            BY <1>2, <3>1, <3>2
        <3>3. CASE call = "putDir"
            BY <1>2, <3>3
        <3> QED
            BY <1>2, <3>2, <3>3
    <2> QED
        BY <2>1, ConcatEmptySeq
<1>8. CASE Tail(todo) = <<>> \/ (call = "putDir" /\ failed)
    <2>1. Returns(failed)
        BY <1>6, <1>7, <1>8
    <2> QED
        BY <1>5, <2>1 DEF Returns
<1>9. CASE ~(Tail(todo) = <<>> \/ (call = "putDir" /\ failed))
    <2>1. todo' = Tail(todo) /\ call' = call
        BY <1>6, <1>7, <1>9
    <2>2. call = "putDir" /\ ~failed
        BY <1>2, <1>9
    <2> QED
        BY <1>1, <1>2, <1>5, <2>1, <2>2
<1> QED
    BY <1>8, <1>9

LEMMA ProgramOf ==
    ASSUME NEW c \in Simple \cup {"putDir"}, NEW p \in Program(c)
    PROVE  \/ c \in Simple /\ p = <<c>>
           \/ c = "putDir" /\ p \in Seq({"putFile"})
<1>1. CASE c = "putDir"
    <2>1. PICK n \in 0..MaxFiles : p = [k \in 1..n |-> "putFile"]
        BY <1>1 DEF Program, Repeat
    <2>2. n \in Nat
        BY FtpClientAssumption
    <2>3. p \in [1..n -> {"putFile"}]
        BY <2>1
    <2> QED
        BY <1>1, <2>2, <2>3, SeqDef
<1>2. CASE c \in Simple
    BY <1>2 DEF Program, Simple, Puts
<1> QED
    BY <1>1, <1>2

LEMMA SuccessInvStep == PlainUse /\ TimerInv /\ SuccessInv /\ [Next]_vars => SuccessInv'
<1> SUFFICES ASSUME PlainUse, TimerInv, SuccessInv, [Next]_vars
             PROVE  SuccessInv'
    OBVIOUS
<1>1. ASSUME NEW c \in Calls, Begin(c)
      PROVE  SuccessInv'
    <2>1. idGetTextFromFile' = "set" /\ ftp' = Null /\ ~undone' /\ call' = c
        BY <1>1 DEF Begin, SuccessInv
    <2>2. c \in Simple \cup {"putDir", "clear"}
        BY FtpClientAssumption DEF Composite
    <2>3. c # "clear" => \/ c \in Simple /\ todo' = <<c>>
                         \/ c = "putDir" /\ todo' \in Seq({"putFile"})
        BY <1>1, <2>2, ProgramOf DEF Begin
    <2> QED
        BY <2>1, <2>3 DEF SuccessInv
<1>2. CASE StartRequest
    <2>1. /\ UNCHANGED <<call, todo, undone>>
          /\ todo # <<>>
          /\ idGetTextFromFile' = "set"
        BY <1>2 DEF StartRequest, SuccessInv
    <2>2. call # "clear" => InProgress(Head(todo))'
        BY <1>2, StartProgress
    <2> QED
        BY <2>1, <2>2 DEF SuccessInv
<1>3. CASE OpenFails
    BY <1>3 DEF OpenFails, Returns, SuccessInv
<1>4. CASE DirUnreadable
    BY <1>4 DEF DirUnreadable, SuccessInv
<1>5. CASE CommandFinished
    <2>1. /\ UNCHANGED <<call, todo, quit, isError, fileObject, idGetTextFromFile, undone>>
          /\ ftp # Null /\ ftp # <<>> /\ ftp' = Tail(ftp)
          /\ executed' = (executed \/ Executes(Head(ftp)))
        BY <1>5 DEF CommandFinished
    <2>2. ASSUME call \notin {"none", "clear"}, ~isError
          PROVE  InProgress(Head(todo))'
        <3>1. Head(todo) \in Simple /\ InProgress(Head(todo))
            BY <2>1, <2>2, CurrentRequest DEF SuccessInv
        <3>2. /\ executed => executed'
              /\ Head(todo) \in Puts => \/ executed'
                                        \/ ftp' = <<"login", "put", "list">>
                                        \/ ftp' = <<"put", "list">>
            BY <2>1, <2>2, <3>1, CommandStep
        <3> QED
            BY <2>1, <3>1, <3>2 DEF InProgress
    <2> QED
        BY <2>1, <2>2 DEF SuccessInv
<1>6. CASE MistakenForText
    BY <1>6 DEF MistakenForText, SuccessInv
<1>7. CASE RequestFinished
    <2>1. /\ UNCHANGED <<call, todo, isError, idGetTextFromFile, undone>>
          /\ ftp # Null /\ ftp # <<>> /\ ftp' = <<>>
          /\ Waits(Head(ftp))
          /\ executed' = (executed \/ Executes(Head(ftp)))
        BY <1>7 DEF RequestFinished
    <2>2. ASSUME call \notin {"none", "clear"}, ~isError
          PROVE  InProgress(Head(todo))'
        <3>1. Head(todo) \in Simple /\ InProgress(Head(todo))
            BY <2>1, <2>2, CurrentRequest DEF SuccessInv
        <3>2. executed'
            BY <2>1, <2>2, <3>1, CommandStep
        <3> QED
            BY <2>1, <3>2 DEF InProgress
    <2> QED
        BY <2>1, <2>2 DEF SuccessInv
<1>8. CASE CommandFailed
    BY <1>8 DEF CommandFailed, SuccessInv
<1>9. CASE TimeOut
    <2>1. UNCHANGED <<call, todo, undone, idGetTextFromFile>> /\ isError'
        BY <1>9 DEF TimeOut
    <2>2. ftp # Null
        BY <1>9 DEF TimeOut, TimerInv, TimerHasRequest
    <2> QED
        BY <2>1, <2>2 DEF SuccessInv
<1>10. CASE EndRequest
    <2>1. idGetTextFromFile' = "set" /\ ftp' = Null
        BY <1>10 DEF EndRequest, SuccessInv
    <2>2. call = "clear" => call' \in {"none", "clear"}
        BY <1>10 DEF EndRequest, Returns
    <2> QED
        BY <1>10, <2>1, <2>2, EndProgress DEF SuccessInv
<1>11. CASE NothingToDo
    BY <1>11 DEF NothingToDo, Returns, SuccessInv
<1>12. ASSUME NEW c \in Calls, Busy(c)
       PROVE  SuccessInv'
    <2>1. UNCHANGED <<call, ftp, quit, fileObject, idGetTextFromFile, executed, undone>>
        BY <1>12 DEF Busy
    <2>2. ASSUME call # "none"
          PROVE  todo' = todo /\ (isError => isError')
        <3>1. c \notin Composite
            BY <1>12, <2>2 DEF Busy, PlainUse
        <3> QED
            BY <1>12, <3>1 DEF Busy, Composite
    <2> QED
        BY <2>1, <2>2 DEF SuccessInv, InProgress
<1>13. CASE UNCHANGED vars
    BY <1>13 DEF vars, SuccessInv, InProgress
<1> QED
    BY <1>1, <1>2, <1>3, <1>4, <1>5, <1>6, <1>7, <1>8, <1>9, <1>10, <1>11, <1>12,
       <1>13 DEF Next

\* Only the end of a request or of an empty directory ends a call without an error.
LEMMA SuccessEnds ==
    ASSUME [Next]_vars, Succeeds
    PROVE  EndRequest \/ NothingToDo
<1>1. call # "none" /\ call' = "none" /\ ~answer'
    BY DEF Succeeds
<1>2. ~OpenFails
    BY <1>1 DEF OpenFails, Returns
<1>3. ~(\E c \in Calls : Begin(c)) /\ ~(\E c \in Calls : Busy(c)) /\ ~DirUnreadable
    BY <1>1 DEF Begin, Busy, DirUnreadable
<1>4. ~StartRequest /\ ~CommandFinished /\ ~MistakenForText /\ ~RequestFinished
    BY <1>1 DEF StartRequest, CommandFinished, MistakenForText, RequestFinished
<1>5. ~CommandFailed /\ ~TimeOut /\ ~UNCHANGED vars
    BY <1>1 DEF CommandFailed, TimeOut, vars
<1> QED
    BY <1>2, <1>3, <1>4, <1>5 DEF Next

LEMMA SuccessStep ==
    PlainUse /\ SuccessInv /\ [Next]_vars => (Succeeds /\ call # "clear" => ~undone')
<1> SUFFICES ASSUME PlainUse, SuccessInv, [Next]_vars, Succeeds, call # "clear"
             PROVE  ~undone'
    OBVIOUS
<1>1. call # "none" /\ call' = "none" /\ ~answer'
    BY DEF Succeeds
<1>2. EndRequest \/ NothingToDo
    BY SuccessEnds
<1>3. CASE EndRequest
    BY <1>1, <1>3, EndProgress
<1>4. CASE NothingToDo
    BY <1>1, <1>4 DEF NothingToDo, SuccessInv
<1> QED
    BY <1>2, <1>3, <1>4

\* When only single requests arrive while a call runs: a call that found the client free,
\* clearFtp excepted, and returns "no error" has been done by the server.
THEOREM SuccessfulCallsAreDone == PlainUse => (Spec => SuccessIsReal)
<1> SUFFICES ASSUME PlainUse
             PROVE  Spec => SuccessIsReal
    OBVIOUS
<1>1. Init => SuccessInv
    BY SuccessInvInit
<1>2. TypeInv /\ TimerInv /\ SuccessInv /\ [Next]_vars => SuccessInv'
    BY SuccessInvStep
<1>3. SuccessInv /\ [Next]_vars => [Succeeds /\ call # "clear" => ~undone']_vars
    BY SuccessStep
<1> QED
    BY <1>1, <1>2, <1>3, Invariants, PTL DEF Spec, SuccessIsReal

-----------------------------------------------------------------------------
(* The text.                                                               *)

\* No text is asked for while a call runs.
TextUse == PlainUse /\ "text" \notin Nested

\* A call of getTextFromFile has one request, and begins it without a text.
LEMMA TextRequest ==
    ASSUME SuccessInv, call = "text"
    PROVE  todo = <<"text">> /\ Head(todo) = "text" /\ Tail(todo) = <<>>
<1>1. "text" \in Simple
    BY DEF Simple
<1>2. todo = <<"text">>
    BY <1>1 DEF SuccessInv
<1> QED
    BY <1>2

LEMMA TextInvStep ==
    TextUse /\ TypeInv /\ TimerInv /\ SuccessInv /\ TextInv /\ [Next]_vars => TextInv'
<1> SUFFICES ASSUME TextUse, TypeInv, TimerInv, SuccessInv, TextInv, [Next]_vars,
                    call' = "text", ftp' # Null, ~isError'
             PROVE  IF quit' THEN strFromFile' = 1 ELSE buffer'
    BY DEF TextInv
<1>1. ASSUME NEW c \in Calls, Begin(c)
      PROVE  FALSE
    BY <1>1 DEF Begin
<1>2. CASE StartRequest
    <2>1. call = "text" /\ Head(todo) = "text"
        BY <1>2, TextRequest DEF StartRequest
    <2> QED
        BY <1>2, <2>1 DEF StartRequest
<1>3. CASE OpenFails \/ NothingToDo
    BY <1>3 DEF OpenFails, NothingToDo, Returns
<1>4. CASE DirUnreadable \/ CommandFailed \/ TimeOut
    BY <1>4 DEF DirUnreadable, CommandFailed, TimeOut
<1>5. CASE CommandFinished
    BY <1>5 DEF CommandFinished, TextInv
<1>6. CASE MistakenForText
    BY <1>6 DEF MistakenForText, SuccessInv
<1>7. CASE RequestFinished
    <2>1. call = "text" /\ ftp # Null /\ ~isError
        BY <1>7 DEF RequestFinished
    <2>2. Head(todo) = "text"
        BY <2>1, TextRequest
    <2>3. quit' /\ strFromFile' = IF buffer THEN strFromFile + 1 ELSE strFromFile
        BY <1>7, <2>1, <2>2 DEF RequestFinished, SignalTransferComplete
    <2>4. CASE buffer
        <3>1. strFromFile = 0
            BY <2>4 DEF TypeInv, TypeOK
        <3> QED
            BY <2>3, <2>4, <3>1
    <2>5. CASE ~buffer
        BY <2>1, <2>3, <2>5 DEF TextInv
    <2> QED
        BY <2>4, <2>5
<1>8. CASE EndRequest
    BY <1>8 DEF EndRequest
<1>9. ASSUME NEW c \in Calls, Busy(c)
      PROVE  IF quit' THEN strFromFile' = 1 ELSE buffer'
    <2>1. UNCHANGED <<call, ftp, quit, buffer>> /\ call # "none"
        BY <1>9 DEF Busy
    <2>2. c \notin Composite /\ c # "text"
        BY <1>9, <2>1 DEF Busy, TextUse, PlainUse
    <2>3. (isError => isError') /\ strFromFile' = strFromFile
        BY <1>9, <2>2 DEF Busy, Composite, Text
    <2> QED
        BY <2>1, <2>3 DEF TextInv
<1>10. CASE UNCHANGED vars
    BY <1>10 DEF vars, TextInv
<1> QED
    BY <1>1, <1>2, <1>3, <1>4, <1>5, <1>6, <1>7, <1>8, <1>9, <1>10 DEF Next

\* When only single requests for anything but a text arrive while a call runs, the text
\* returned with "no error" is the one just read (getTextFromFile, slotCheckCommands).
THEOREM TextsAreOwn == TextUse => (Spec => TextIsOwn)
<1> SUFFICES ASSUME TextUse
             PROVE  Spec => TextIsOwn
    OBVIOUS
<1>1. Init => SuccessInv /\ TextInv
    BY SuccessInvInit DEF Init, TextInv, TextUse
<1>2. TypeInv /\ TimerInv /\ SuccessInv /\ TextInv /\ [Next]_vars
         => SuccessInv' /\ TextInv'
    BY SuccessInvStep, TextInvStep DEF TextUse
<1>3. SuccessInv /\ TextInv /\ [Next]_vars
         => [Succeeds /\ call = "text" => strFromFile = 1]_vars
    <2> SUFFICES ASSUME SuccessInv, TextInv, [Next]_vars, Succeeds, call = "text"
                 PROVE  strFromFile = 1
        OBVIOUS
    <2>1. EndRequest
        <3>1. EndRequest \/ NothingToDo
            BY SuccessEnds
        <3>2. todo # <<>>
            BY TextRequest
        <3> QED
            BY <3>1, <3>2 DEF NothingToDo
    <2>2. Head(todo) = "text" /\ Head(todo) \notin Puts
        BY TextRequest DEF Puts
    <2>3. ~isError
        <3>1. \/ answer' = (isError \/ (Head(todo) \in Puts /\ ~isPutComplete))
              \/ call' = call
            BY <2>1 DEF EndRequest, Returns
        <3> QED
            BY <2>2, <3>1 DEF Succeeds
    <2> QED
        BY <2>1, <2>3 DEF EndRequest, Succeeds, TextInv
<1> QED
    BY <1>1, <1>2, <1>3, Invariants, PTL DEF Spec, TextIsOwn
=============================================================================
