-------------------------- MODULE FtpClientSafety --------------------------
(***************************************************************************)
(* What a call of the FTP client can be relied on for.                     *)
(***************************************************************************)
EXTENDS FtpClient

\* Why the types hold: a running event loop has a current request, and the text of
\* a getTextFromFile stays no longer than its request.
TypeInv ==
    /\ TypeOK
    /\ call # "none" /\ ftp # Null => todo # <<>>
    /\ strFromFile = 1 => /\ call # "none" /\ ftp # Null
                         /\ Head(todo) = "text" /\ ~buffer

\* A call that waits in its event loop has the timer running or the loop has been
\* told to quit: whatever the server answers or does not, in whichever order
\* answers and timer come, and whatever other calls arrive meanwhile.
TimerCovers == call # "none" /\ ftp # Null => timer \/ quit

\* The timer never expires without a QFtp object: slotTimeOut and slotCheckCommands
\* use it unasked, and between two requests there is none.
TimerHasRequest == timer => ftp # Null

\* Why: a loop that has been told to quit has no timer left to expire.
TimerInv ==
    /\ TimerCovers
    /\ TimerHasRequest
    /\ quit => ~timer /\ ftp # Null

\* So every call returns, although the server may never answer.
CallReturns == (call # "none") ~> (call = "none")

\* The step with which the running call returns "no error".
Succeeds == call # "none" /\ call' = "none" /\ ~answer'

\* A call that found the client free and returns "no error" has been done by the
\* server, every request of it: a timeout, an error in between, a late answer, the
\* flag left by an earlier put or a call that came meanwhile do not count for it.
\* clearFtp is excepted.
SuccessIsReal == [][Succeeds /\ call # "clear" => ~undone']_vars

\* Why it holds when only single requests come in between: until an error is
\* recorded, a put has its own command still before it or behind it, a file to
\* receive into stays open, and the loop is told to quit only when the request
\* has done its work.
InProgress(r) ==
    /\ quit => executed
    /\ r \in Puts => \/ executed
                    \/ ftp = <<"connect", "login", "put", "list">>
                    \/ ftp = <<"login", "put", "list">>
                    \/ ftp = <<"put", "list">>
    /\ r = "get" => fileObject = "open" \/ ftp = <<>>

SuccessInv ==
    /\ idGetTextFromFile = "set"
    /\ call \notin {"none", "clear"} =>
          /\ \/ call \in Simple /\ todo = <<call>>
             \/ call = "putDir" /\ todo \in Seq({"putFile"})
          /\ ~undone
          /\ ftp # Null => todo # <<>>
          /\ ftp # Null /\ ~isError => InProgress(Head(todo))

\* The same for every call, as its header comment says (cftpclient.h:119): it
\* returns false if it was done and true if there was an error.
FalseMeansDone == [][Succeeds => ~undone']_vars

\* The text getTextFromFile returns with "no error" is the one text it has read,
\* not one left by an earlier call that timed out, nor both.
TextIsOwn == [][Succeeds /\ call = "text" => strFromFile = 1]_vars

\* Why, if no other text is asked for meanwhile: until an error is recorded, the loop
\* has its buffer before it is told to quit, and the text afterwards.
TextInv ==
    call = "text" /\ ftp # Null /\ ~isError => IF quit THEN strFromFile = 1 ELSE buffer
=============================================================================
