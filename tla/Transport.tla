----------------------------- MODULE Transport -----------------------------
(***************************************************************************)
(* The connection of a script to an instrument: CTranspFuncsMics and       *)
(* CTranspFuncsScpi over CTranspFuncsBase (SE3/include/transpfuncs*.cpp).  *)
(* A script holds several such objects, its clients.  Clients of one       *)
(* address share one ICTransport: the first to connect opens it, the       *)
(* others are told that the address is a double.                           *)
(*                                                                         *)
(* ICTransport, its factory and the instrument are external.  Answers come *)
(* back in the order of the commands.  An answer is read as a text, the    *)
(* whole of it at once, or, while MICS translation is suppressed, as it    *)
(* came: a header and a body, of which a read may bring a part.  The model *)
(* counts such parts.  A read brings at least one part, or less than a     *)
(* whole header, or fails; it fails when nothing is left, and it may fail  *)
(* before an answer arrives.  One thread uses the clients, so that calls   *)
(* do not overlap.                                                         *)
(***************************************************************************)
EXTENDS Integers

CONSTANTS
    Clients,    \* the objects of a script that use one address
    Protocols,  \* what the instrument may speak: "mics", "scpi"
    MaxBody,    \* parts of the longest body
    MaxStale,   \* bound: parts left over from earlier commands
    RawSize,    \* parts that m_szRawData has room for
    Null        \* no client

\* How a call reads: send only, a text, header and body, byte by byte, or header and
\* body of the answer to a register command.
Registers == {"readRegister", "writeRegister"}
Binary == {"binary"} \cup Registers
Ways(p) == IF p = "mics" THEN {"none", "text", "bytes"} \cup Binary ELSE {"none", "text"}

ASSUME TransportAssumption ==
    /\ Protocols \subseteq {"mics", "scpi"}
    /\ MaxBody \in Nat /\ MaxStale \in Nat /\ RawSize \in Nat \ {0}
    /\ Null \notin Clients

VARIABLES
    protocol,   \* of the instrument; it never changes
    transport,  \* the ICTransport of the address: "none" or "open"
    link,       \* m_pTransport: "null", "live", or "deleted" by another client
    isAddrDbl,
    termChar,   \* m_cTermChar is not empty
    suppress,   \* the transport does not translate MICS answers
    stale,      \* parts still to come of answers to earlier commands
    head,       \* the header of the answer to the last command is still to come
    body,       \* parts of its body still to come
    size,       \* parts of its body
    phase,      \* what the running call reads next, or "idle"
    caller,     \* the client it belongs to
    how,        \* and how it reads
    nStart,     \* where the next part goes in m_szRawData
    left,       \* parts of the body the call still expects
    nErr,       \* the header told of an error
    stored,     \* parts of the answer that are where they belong in m_szRawData
    answ,       \* what is in m_sAnsw
    result,     \* what the last call returned
    synced      \* the call began with no answer but its own to be read, and its
                \* header, if it reads one, has not come short

connection == <<protocol, transport, link, isAddrDbl, termChar>>
stream == <<stale, head, body, size>>
progress == <<nStart, left, nErr, stored>>
vars == <<connection, suppress, stream, phase, caller, how, progress, answ, result, synced>>

\* 0, -1, and -32748, "LVDS device missing".
Results == {"ok", "error", "missing"}

TypeOK ==
    /\ protocol \in Protocols
    /\ transport \in {"none", "open"}
    /\ link \in [Clients -> {"null", "live", "deleted"}]
    /\ isAddrDbl \in [Clients -> BOOLEAN]
    /\ termChar \in [Clients -> BOOLEAN]
    /\ suppress \in BOOLEAN
    /\ stale \in 0..MaxStale
    /\ head \in BOOLEAN
    /\ body \in 0..size /\ size \in 0..MaxBody
    /\ phase \in {"idle", "text", "head", "body", "bytes"}
    /\ caller \in Clients \cup {Null}
    /\ how \in {"none", "text", "bytes"} \cup Binary
    /\ nStart \in 0..MaxBody + 1 /\ left \in 0..MaxBody /\ stored \in 0..MaxBody + 1
    /\ nErr \in BOOLEAN
    /\ answ \in [Clients -> {"none", "own", "other", "raw"}]
    /\ result \in Results
    /\ synced \in BOOLEAN

Unread == (IF head THEN 1 ELSE 0) + body
-----------------------------------------------------------------------------
Init ==
    /\ protocol \in Protocols
    /\ transport = "none"
    /\ link = [c \in Clients |-> "null"]
    /\ isAddrDbl = [c \in Clients |-> FALSE]
    /\ termChar = [c \in Clients |-> FALSE]
    /\ suppress = FALSE
    /\ stale = 0 /\ head = FALSE /\ body = 0 /\ size = 0
    /\ phase = "idle" /\ caller = Null /\ how = "none"
    /\ nStart = 0 /\ left = 0 /\ nErr = FALSE /\ stored = 0
    /\ answ = [c \in Clients |-> "none"]
    /\ result = "ok"
    /\ synced = FALSE

\* The clients other than c find their transport deleted.
Unlinked(c) ==
    [d \in Clients |-> IF d = c THEN "null"
                       ELSE IF link[d] = "live" THEN "deleted" ELSE link[d]]

\* pDeleteTr
Delete(c) ==
    /\ transport' = "none"
    /\ link' = Unlinked(c)

\* Connect: a double gets the transport as it is, and keeps the terminator it had.
ConnectDouble(c) ==
    /\ phase = "idle" /\ transport = "open"
    /\ link' = [link EXCEPT ![c] = "live"]
    /\ isAddrDbl' = [isAddrDbl EXCEPT ![c] = TRUE]
    /\ result' = "ok"
    /\ UNCHANGED <<protocol, transport, termChar, suppress, stream, phase, caller, how,
                   progress, answ, synced>>

Connect(c) ==
    /\ phase = "idle" /\ transport = "none"
    /\ transport' = "open"
    /\ link' = [link EXCEPT ![c] = "live"]
    /\ isAddrDbl' = [isAddrDbl EXCEPT ![c] = FALSE]
    /\ \E given \in BOOLEAN : termChar' = [termChar EXCEPT ![c] = given]
    /\ suppress' = FALSE
    /\ stale' = 0 /\ head' = FALSE /\ body' = 0 /\ size' = 0
    /\ result' = "ok"
    /\ UNCHANGED <<protocol, phase, caller, how, progress, answ, synced>>

\* Mutant: the pointer is kept, as TranspFuncs::Connect does (transpfuncs.cpp:60).
ConnectFails_Kept(c) ==
    /\ phase = "idle" /\ transport = "none"
    /\ link' = [link EXCEPT ![c] = "live"]
    /\ isAddrDbl' = [isAddrDbl EXCEPT ![c] = FALSE]
    /\ termChar' \in {termChar, [termChar EXCEPT ![c] = TRUE]}
    /\ result' = "error"
    /\ UNCHANGED <<protocol, transport, suppress, stream, phase, caller, how, progress,
                   answ, synced>>

\* InitClass, before the terminator is set, or the transport's Connect behind it fails.
ConnectFails(c) ==
    /\ phase = "idle" /\ transport = "none"
    /\ link' = [link EXCEPT ![c] = "null"]
    /\ isAddrDbl' = [isAddrDbl EXCEPT ![c] = FALSE]
    /\ \/ UNCHANGED termChar
       \/ \E given \in BOOLEAN : termChar' = [termChar EXCEPT ![c] = given]
    /\ result' = "error"
    /\ UNCHANGED <<protocol, transport, suppress, stream, phase, caller, how, progress,
                   answ, synced>>

\* What a client does with a transport that another one has deleted is undefined and
\* not modelled, here and below.
Disconnect(c) ==
    /\ phase = "idle"
    /\ \/ isAddrDbl[c] /\ result' = "ok" /\ UNCHANGED <<transport, link>>
       \/ ~isAddrDbl[c] /\ link[c] = "live" /\ Delete(c) /\ result' = "ok"
       \/ ~isAddrDbl[c] /\ link[c] = "null" /\ result' = "error" /\ UNCHANGED <<transport, link>>
    /\ UNCHANGED <<protocol, isAddrDbl, termChar, suppress, stream, phase, caller, how,
                   progress, answ, synced>>

\* The destructor deletes the transport, a double's too; a new object follows.
Destroy(c) ==
    /\ phase = "idle"
    /\ \/ link[c] = "live" /\ Delete(c)
       \/ link[c] = "null" /\ UNCHANGED <<transport, link>>
    /\ isAddrDbl' = [isAddrDbl EXCEPT ![c] = FALSE]
    /\ termChar' = [termChar EXCEPT ![c] = FALSE]
    /\ answ' = [answ EXCEPT ![c] = "none"]
    /\ UNCHANGED <<protocol, suppress, stream, phase, caller, how, progress, result, synced>>

GetAnsw(c) ==
    /\ phase = "idle"
    /\ answ' = [answ EXCEPT ![c] = "none"]
    /\ UNCHANGED <<connection, suppress, stream, phase, caller, how, progress, result, synced>>

SetSuppressMics(c, bOn) ==
    /\ phase = "idle" /\ link[c] = "live" /\ protocol = "mics"
    /\ suppress' = bOn
    /\ result' = "ok"
    /\ UNCHANGED <<connection, stream, phase, caller, how, progress, answ, synced>>
-----------------------------------------------------------------------------
(* Send and Recv begin.                                                    *)

\* Mutant: translation is suppressed for a text, too.
BeginRecv_AlwaysRaw(c, way) ==
    /\ caller' = c /\ how' = way
    /\ phase' = IF way \in Binary THEN "head" ELSE way
    /\ suppress' = TRUE
    /\ nStart' = 0 /\ left' = 0 /\ nErr' = FALSE /\ stored' = 0

\* What Recv reads first; header and body are read untranslated.
BeginRecv(c, way) ==
    /\ caller' = c /\ how' = way
    /\ phase' = IF way \in Binary THEN "head" ELSE way
    /\ suppress' = (suppress \/ way \in Binary)
    /\ nStart' = 0 /\ left' = 0 /\ nErr' = FALSE /\ stored' = 0

\* A MICS instrument answers every command.  A SCPI instrument answers the queries,
\* the ones that it understands and that end with the terminator.
Answers(c, way) ==
    \/ /\ protocol = "mics" \/ (way = "text" /\ termChar[c])
       /\ head' = TRUE
       /\ size' \in 0..MaxBody /\ body' = size'
    \/ /\ protocol = "scpi"
       /\ head' = FALSE /\ size' = 0 /\ body' = 0

Send(c, way) ==
    /\ phase = "idle" /\ link[c] = "live"
    /\ way \in Ways(protocol)
    /\ stale + Unread <= MaxStale
    /\ stale' = stale + Unread
    /\ Answers(c, way)
    /\ IF way = "none"
       THEN result' = "ok" /\ UNCHANGED <<suppress, phase, caller, how, progress, synced>>
       ELSE /\ BeginRecv(c, way)
            /\ synced' = (stale + Unread = 0 /\ (suppress => way \in Binary))
            /\ UNCHANGED result
    /\ UNCHANGED <<connection, answ>>

\* Recv, which reads the answer to a command that was only sent.
Recv(c, way) ==
    /\ phase = "idle" /\ link[c] = "live"
    /\ way \in Ways(protocol) \cap {"text", "binary"}
    /\ synced' = (/\ stale = 0 /\ (suppress => way = "binary")
                  /\ head => body = size
                  /\ ~head => body = 0)
    /\ BeginRecv(c, way)
    /\ UNCHANGED <<connection, stream, answ, result>>

\* SendData fails, or the client is not connected.  (Without a transport a register
\* command ends in CheckErr, which uses the null pointer: undefined and not modelled.)
SendFails(c) ==
    /\ phase = "idle" /\ link[c] # "deleted"
    /\ result' = "error"
    /\ UNCHANGED <<connection, suppress, stream, phase, caller, how, progress, answ, synced>>
-----------------------------------------------------------------------------
(* The reads of a call.                                                    *)

\* The variables of Send and Recv are gone with the call.
Returns(value) ==
    /\ phase' = "idle"
    /\ caller' = Null
    /\ how' = "none"
    /\ nStart' = 0 /\ left' = 0 /\ nErr' = FALSE /\ stored' = 0
    /\ synced' = FALSE
    /\ result' = value

\* RecvData brings k parts, the oldest first.
Take(k) ==
    /\ k <= stale + Unread
    /\ IF k <= stale
       THEN stale' = stale - k /\ UNCHANGED <<head, body>>
       ELSE stale' = 0 /\ head' = FALSE /\ body' = stale + Unread - k
    /\ UNCHANGED size

\* Mutant: the call goes on when the body cannot be read.
ReadFails_Ignored ==
    /\ phase # "idle"
    /\ phase = "body" => left > 0
    /\ IF phase = "body"
       THEN UNCHANGED <<phase, caller, how, progress, result, synced>>
       ELSE Returns("error")
    /\ suppress' = (suppress \/ phase = "bytes")
    /\ answ' = IF phase = "bytes" THEN [answ EXCEPT ![caller] = "none"] ELSE answ
    /\ UNCHANGED <<connection, stream>>

\* A read fails, and the call with it: what has not been read stays to be read, and
\* suppressed translation stays suppressed.
ReadFails ==
    /\ phase # "idle"
    /\ phase = "body" => left > 0
    /\ suppress' = (suppress \/ phase = "bytes")
    /\ answ' = IF phase = "bytes" THEN [answ EXCEPT ![caller] = "none"] ELSE answ
    /\ Returns("error")
    /\ UNCHANGED <<connection, stream>>

\* A translated answer, of an earlier command if one is left over.
ReadText ==
    /\ phase = "text" /\ ~suppress
    /\ \/ \E k \in 1..stale : Take(k) /\ answ' = [answ EXCEPT ![caller] = "other"]
       \/ /\ stale = 0 /\ Unread > 0
          /\ Take(Unread)
          /\ answ' = [answ EXCEPT ![caller] = IF head THEN "own" ELSE "other"]
    /\ Returns("ok")
    /\ UNCHANGED <<connection, suppress>>

\* A read that asks for a text while translation is suppressed.
ReadTextRaw ==
    /\ phase = "text" /\ suppress
    /\ \E k \in 1..stale + Unread : Take(k)
    /\ answ' = [answ EXCEPT ![caller] = "raw"]
    /\ Returns("ok")
    /\ UNCHANGED <<connection, suppress>>

\* The header tells the length of the body.  Anything may be taken for a header.
ReadHead ==
    /\ phase = "head"
    /\ Take(1)
    /\ answ' = [answ EXCEPT ![caller] = "raw"]
    /\ phase' = "body"
    /\ nStart' = 1
    /\ left' \in IF stale = 0 /\ head THEN {size} ELSE 0..MaxBody
    /\ nErr' \in BOOLEAN
    /\ stored' = IF stale = 0 /\ head THEN 1 ELSE 0
    /\ UNCHANGED <<connection, suppress, caller, how, result, synced>>

\* Nobody asks how much of the header one read has brought.  The length and the status of
\* the body are then what the buffer held, and the rest of the header is still to come.
ReadHeadShort ==
    /\ phase = "head"
    /\ stale + Unread > 0
    /\ answ' = [answ EXCEPT ![caller] = "raw"]
    /\ phase' = "body"
    /\ nStart' = 1
    /\ left' \in 0..MaxBody
    /\ nErr' \in BOOLEAN
    /\ stored' = 0
    /\ synced' = FALSE
    /\ UNCHANGED <<connection, suppress, stream, caller, how, result>>

\* Mutant: the position in the raw data does not follow.
ReadBody_NotAdvanced ==
    /\ phase = "body"
    /\ \E k \in 1..left :
          /\ Take(k)
          /\ left' = left - k
          /\ stored' = IF /\ stale = 0 /\ ~head
                          /\ nStart = 1 + size - body
                          /\ nStart + k <= RawSize
                       THEN stored + k ELSE stored
    /\ UNCHANGED <<connection, suppress, phase, caller, how, nStart, nErr, answ, result,
                   synced>>

\* Mutant: a read is not limited to what is left of the body.
ReadBody_Unlimited ==
    /\ phase = "body" /\ left > 0
    /\ \E k \in 1..MaxBody + 1 :
          /\ Take(k)
          /\ left' = left - k
          /\ nStart' = nStart + k
          /\ stored' = IF /\ stale = 0 /\ ~head
                          /\ nStart = 1 + size - body
                          /\ nStart + k <= RawSize
                       THEN stored + k ELSE stored
    /\ UNCHANGED <<connection, suppress, phase, caller, how, nErr, answ, result, synced>>

\* A part of the body.  SetRawData leaves out a part that does not fit.
ReadBody ==
    /\ phase = "body"
    /\ \E k \in 1..left :
          /\ Take(k)
          /\ left' = left - k
          /\ nStart' = nStart + k
          /\ stored' = IF /\ stale = 0 /\ ~head
                          /\ nStart = 1 + size - body
                          /\ nStart + k <= RawSize
                       THEN stored + k ELSE stored
    /\ UNCHANGED <<connection, suppress, phase, caller, how, nErr, answ, result, synced>>

\* Mutant: translation stays suppressed when the instrument reports an error.
EndBinary_Suppressed ==
    /\ phase = "body" /\ left = 0
    /\ suppress' = nErr
    /\ \/ nErr /\ Returns("error") /\ UNCHANGED answ
       \/ ~nErr /\ how # "readRegister" /\ Returns("ok") /\ UNCHANGED answ
       \/ ~nErr /\ how = "writeRegister" /\ Returns("missing") /\ UNCHANGED answ
       \/ /\ ~nErr /\ how = "readRegister" /\ Returns("ok")
          /\ answ' = [answ EXCEPT ![caller] = IF stored > 1 THEN "own" ELSE "other"]
    /\ UNCHANGED <<connection, stream>>

\* The body is complete.  SetRegLVDS looks for the register behind the header, in what
\* m_szRawData holds.
EndBinary ==
    /\ phase = "body" /\ left = 0
    /\ suppress' = FALSE
    /\ \/ nErr /\ Returns("error") /\ UNCHANGED answ
       \/ ~nErr /\ how # "readRegister" /\ Returns("ok") /\ UNCHANGED answ
       \/ ~nErr /\ how = "writeRegister" /\ Returns("missing") /\ UNCHANGED answ
       \/ /\ ~nErr /\ how = "readRegister" /\ Returns("ok")
          /\ answ' = [answ EXCEPT ![caller] = IF stored > 1 THEN "own" ELSE "other"]
    /\ UNCHANGED <<connection, stream>>

\* Byte by byte: m_sAnsw is compared with the terminator, and cleared by that.  It may
\* begin with the terminator if it holds anything, and does if both are empty.
ReadByte ==
    /\ phase = "bytes"
    /\ answ[caller] # "none" \/ termChar[caller]
    /\ Take(1)
    /\ suppress' = TRUE
    /\ answ' = [answ EXCEPT ![caller] = "none"]
    /\ nStart' = 1
    /\ UNCHANGED <<connection, phase, caller, how, left, nErr, stored, result, synced>>

EndBytes ==
    /\ phase = "bytes"
    /\ answ[caller] # "none" \/ ~termChar[caller]
    /\ answ' = [answ EXCEPT ![caller] = IF nStart = 0 THEN "none" ELSE "raw"]
    /\ Returns("ok")
    /\ UNCHANGED <<connection, suppress, stream>>

Step ==
    \/ ReadFails
    \/ ReadText
    \/ ReadTextRaw
    \/ ReadHead
    \/ ReadHeadShort
    \/ ReadBody
    \/ EndBinary
    \/ ReadByte
    \/ EndBytes

Next ==
    \/ \E c \in Clients :
          \/ ConnectDouble(c)
          \/ Connect(c)
          \/ ConnectFails(c)
          \/ Disconnect(c)
          \/ Destroy(c)
          \/ GetAnsw(c)
          \/ \E bOn \in BOOLEAN : SetSuppressMics(c, bOn)
          \/ \E way \in {"none", "text", "bytes"} \cup Binary : Send(c, way) \/ Recv(c, way)
          \/ SendFails(c)
    \/ Step

\* A read ends, with an answer or with the transport's timeout, and the code goes on.
Spec == Init /\ [][Next]_vars /\ WF_vars(Step)
=============================================================================
