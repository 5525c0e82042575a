-------------------------- MODULE TransportProofs --------------------------
(***************************************************************************)
(* Proofs about the connection, for any number of clients and any length   *)
(* of a body.                                                              *)
(***************************************************************************)
EXTENDS TransportSafety, TLAPS

\* What a client does between its calls.
Outside(c) ==
    \/ ConnectDouble(c)
    \/ Connect(c)
    \/ ConnectFails(c)
    \/ Disconnect(c)
    \/ Destroy(c)
    \/ GetAnsw(c)
    \/ \E bOn \in BOOLEAN : SetSuppressMics(c, bOn)
    \/ SendFails(c)

\* What a client may do: it begins a call, or does something between calls.
LEMMA NextCases ==
    Next <=> \/ \E c \in Clients : Outside(c)
             \/ \E c \in Clients, way \in {"none", "text", "bytes"} \cup Binary :
                   Send(c, way) \/ Recv(c, way)
             \/ Step
BY DEF Next, Outside

\* A read takes its parts from the front and never makes a body longer.
LEMMA TakeTypes ==
    ASSUME TransportAssumption, TypeOK, NEW k \in Nat \ {0}, Take(k)
    PROVE  /\ stale' \in 0..MaxStale
           /\ head' \in BOOLEAN
           /\ size' = size
           /\ body' \in 0..size
<1>1. stale \in 0..MaxStale /\ head \in BOOLEAN /\ body \in 0..size /\ size \in 0..MaxBody
    BY DEF TypeOK
<1>2. MaxStale \in Nat /\ MaxBody \in Nat
    BY DEF TransportAssumption
<1>3. CASE k <= stale
    BY <1>1, <1>2, <1>3 DEF Take
<1>4. CASE ~(k <= stale)
    <2>1. stale' = 0 /\ head' = FALSE /\ body' = stale + Unread - k /\ size' = size
        BY <1>4 DEF Take
    <2>2. k <= stale + Unread
        BY DEF Take
    <2>3. Unread \in Nat /\ Unread <= body + 1
        BY <1>1, <1>2 DEF Unread
    <2>4. head' \in BOOLEAN
        BY <2>1
    <2>5. stale + Unread - k \in 0..size
        BY <1>1, <1>4, <2>2, <2>3
    <2> QED
        BY <1>2, <2>1, <2>4, <2>5
<1> QED
    BY <1>3, <1>4

\* With nothing left over a read takes the header first, and then the body.
LEMMA TakeOwn ==
    ASSUME TypeOK, NEW k \in Nat \ {0}, Take(k), stale = 0
    PROVE  /\ stale' = 0 /\ ~head'
           /\ body' = Unread - k
           /\ k <= Unread
           /\ size' = size
<1>1. ~(k <= stale)
    OBVIOUS
<1>2. Unread \in Int
    BY DEF TypeOK, Unread
<1> QED
    BY <1>1, <1>2 DEF Take

LEMMA TypeInit == TransportAssumption /\ Init => TypeInv
<1> SUFFICES ASSUME TransportAssumption, Init
             PROVE  TypeInv
    OBVIOUS
<1>1. /\ stale \in 0..MaxStale /\ body \in 0..size /\ size \in 0..MaxBody
      /\ nStart \in 0..MaxBody + 1 /\ left \in 0..MaxBody /\ stored \in 0..MaxBody + 1
    BY DEF TransportAssumption, Init
<1>4. head \in BOOLEAN /\ nErr \in BOOLEAN /\ suppress \in BOOLEAN /\ synced \in BOOLEAN
    BY DEF Init
<1>2. /\ link \in [Clients -> {"null", "live", "deleted"}]
      /\ isAddrDbl \in [Clients -> BOOLEAN]
      /\ termChar \in [Clients -> BOOLEAN]
      /\ answ \in [Clients -> {"none", "own", "other", "raw"}]
    BY DEF Init
<1>3. /\ protocol \in Protocols
      /\ transport \in {"none", "open"}
      /\ phase = "idle" /\ how = "none" /\ caller \in Clients \cup {Null}
      /\ result \in Results
    BY DEF Init, Results
<1> QED
    BY <1>1, <1>2, <1>3, <1>4 DEF TypeInv, TypeOK, Binary, Registers

\* The end of a call leaves its variables with their first values.
LEMMA ReturnsTypes ==
    ASSUME TransportAssumption, NEW v \in Results, Returns(v), TypeOK,
           UNCHANGED connection,
           stale' \in 0..MaxStale, head' \in BOOLEAN, size' = size, body' \in 0..size,
           suppress' \in BOOLEAN,
           answ' \in [Clients -> {"none", "own", "other", "raw"}]
    PROVE  TypeInv'
<1>1. /\ nStart' \in 0..MaxBody + 1 /\ left' \in 0..MaxBody /\ stored' \in 0..MaxBody + 1
    BY DEF TransportAssumption, Returns
<1>5. nErr' \in BOOLEAN /\ synced' \in BOOLEAN
    BY DEF Returns
<1>2. /\ phase' = "idle" /\ how' = "none" /\ caller' \in Clients \cup {Null}
      /\ result' \in Results
    BY DEF Returns
<1>3. /\ protocol' \in Protocols
      /\ transport' \in {"none", "open"}
      /\ link' \in [Clients -> {"null", "live", "deleted"}]
      /\ isAddrDbl' \in [Clients -> BOOLEAN]
      /\ termChar' \in [Clients -> BOOLEAN]
    BY DEF TypeOK, connection
<1>4. size' \in 0..MaxBody /\ body' \in 0..size'
    BY DEF TypeOK
<1> QED
    BY <1>1, <1>2, <1>3, <1>4, <1>5 DEF TypeInv, TypeOK, Binary, Registers

\* Between the calls nothing runs, and the stream is left alone or begins anew.
LEMMA OutsideFrame ==
    ASSUME NEW c \in Clients, Outside(c)
    PROVE  /\ phase = "idle"
           /\ UNCHANGED <<protocol, phase, caller, how, progress, synced>>
           /\ \/ UNCHANGED stream
              \/ stale' = 0 /\ head' = FALSE /\ body' = 0 /\ size' = 0
<1>1. CASE Connect(c)
    BY <1>1 DEF Connect
<1>2. CASE ConnectDouble(c) \/ ConnectFails(c)
    BY <1>2 DEF ConnectDouble, ConnectFails
<1>3. CASE Disconnect(c) \/ Destroy(c)
    BY <1>3 DEF Disconnect, Destroy
<1>4. CASE GetAnsw(c) \/ (\E bOn \in BOOLEAN : SetSuppressMics(c, bOn)) \/ SendFails(c)
    BY <1>4 DEF GetAnsw, SetSuppressMics, SendFails, connection
<1> QED
    BY <1>1, <1>2, <1>3, <1>4 DEF Outside

LEMMA OutsideConnection ==
    ASSUME TypeOK, NEW c \in Clients, Outside(c)
    PROVE  /\ transport' \in {"none", "open"}
           /\ link' \in [Clients -> {"null", "live", "deleted"}]
           /\ isAddrDbl' \in [Clients -> BOOLEAN]
           /\ termChar' \in [Clients -> BOOLEAN]
           /\ suppress' \in BOOLEAN
           /\ answ' \in [Clients -> {"none", "own", "other", "raw"}]
           /\ result' \in Results
<1>1. CASE Connect(c)
    BY <1>1 DEF Connect, TypeOK, Results
<1>2. CASE ConnectDouble(c)
    BY <1>2 DEF ConnectDouble, TypeOK, Results
<1>3. CASE ConnectFails(c)
    BY <1>3 DEF ConnectFails, TypeOK, Results
<1>4. CASE Disconnect(c)
    BY <1>4 DEF Disconnect, Delete, Unlinked, TypeOK, Results
<1>5. CASE Destroy(c)
    BY <1>5 DEF Destroy, Delete, Unlinked, TypeOK, Results
<1>6. CASE GetAnsw(c)
    BY <1>6 DEF GetAnsw, connection, TypeOK
<1>7. CASE \E bOn \in BOOLEAN : SetSuppressMics(c, bOn)
    BY <1>7 DEF SetSuppressMics, connection, TypeOK, Results
<1>8. CASE SendFails(c)
    BY <1>8 DEF SendFails, connection, TypeOK, Results
<1> QED
    BY <1>1, <1>2, <1>3, <1>4, <1>5, <1>6, <1>7, <1>8 DEF Outside

\* Which way leads to which first read.
LEMMA FirstRead ==
    ASSUME NEW c \in Clients, NEW way \in {"text", "bytes"} \cup Binary, BeginRecv(c, way)
    PROVE  /\ caller' \in Clients
           /\ how' = way
           /\ phase' \in {"text", "head", "bytes"}
           /\ phase' = "text" <=> how' = "text"
           /\ phase' = "bytes" <=> how' = "bytes"
           /\ phase' = "head" <=> how' \in Binary
BY DEF BeginRecv, Binary, Registers

LEMMA OutsideTypes ==
    ASSUME TransportAssumption, TypeInv, NEW c \in Clients, Outside(c)
    PROVE  TypeInv'
<1>1. /\ phase = "idle"
      /\ UNCHANGED <<protocol, phase, caller, how, nStart, left, nErr, stored, synced>>
    BY OutsideFrame DEF progress
<1>2. stale' \in 0..MaxStale /\ body' \in 0..size' /\ size' \in 0..MaxBody
    <2>1. CASE UNCHANGED stream
        BY <2>1 DEF TypeInv, TypeOK, stream
    <2>2. CASE stale' = 0 /\ head' = FALSE /\ body' = 0 /\ size' = 0
        BY <2>2 DEF TransportAssumption
    <2> QED
        BY <2>1, <2>2, OutsideFrame
<1>3. head' \in BOOLEAN
    <2>1. CASE UNCHANGED stream
        BY <2>1 DEF TypeInv, TypeOK, stream
    <2>2. CASE stale' = 0 /\ head' = FALSE /\ body' = 0 /\ size' = 0
        BY <2>2
    <2> QED
        BY <2>1, <2>2, OutsideFrame
<1>4. /\ transport' \in {"none", "open"}
      /\ link' \in [Clients -> {"null", "live", "deleted"}]
      /\ isAddrDbl' \in [Clients -> BOOLEAN]
      /\ termChar' \in [Clients -> BOOLEAN]
      /\ suppress' \in BOOLEAN
      /\ answ' \in [Clients -> {"none", "own", "other", "raw"}]
      /\ result' \in Results
    BY OutsideConnection DEF TypeInv
<1> QED
    BY <1>1, <1>2, <1>3, <1>4 DEF TypeInv, TypeOK

\* The answer to a command, or the lack of one.
LEMMA AnswersTypes ==
    ASSUME TransportAssumption, NEW c, NEW way, Answers(c, way)
    PROVE  /\ head' \in BOOLEAN
           /\ size' \in 0..MaxBody /\ body' \in 0..size'
           /\ IF head' THEN body' = size' ELSE body' = 0
<1>1. CASE head' = TRUE /\ size' \in 0..MaxBody /\ body' = size'
    BY <1>1 DEF TransportAssumption
<1>2. CASE head' = FALSE /\ size' = 0 /\ body' = 0
    <2>1. head' \in BOOLEAN
        BY <1>2
    <2>2. size' \in 0..MaxBody /\ body' \in 0..size'
        BY <1>2 DEF TransportAssumption
    <2> QED
        BY <1>2, <2>1, <2>2
<1> QED
    BY <1>1, <1>2 DEF Answers

LEMMA BeginTypes ==
    ASSUME TransportAssumption, TypeOK,
           NEW c \in Clients, NEW way \in {"text", "bytes"} \cup Binary, BeginRecv(c, way),
           UNCHANGED <<connection, answ, result>>,
           stale' \in 0..MaxStale, head' \in BOOLEAN, size' \in 0..MaxBody, body' \in 0..size',
           synced' \in BOOLEAN
    PROVE  TypeInv'
<1>1. /\ nStart' \in 0..MaxBody + 1 /\ left' \in 0..MaxBody /\ stored' \in 0..MaxBody + 1
    BY DEF TransportAssumption, BeginRecv
<1>2. nErr' \in BOOLEAN /\ suppress' \in BOOLEAN
    BY DEF BeginRecv, TypeOK
<1>3. /\ protocol' \in Protocols
      /\ transport' \in {"none", "open"}
      /\ link' \in [Clients -> {"null", "live", "deleted"}]
      /\ isAddrDbl' \in [Clients -> BOOLEAN]
      /\ termChar' \in [Clients -> BOOLEAN]
      /\ answ' \in [Clients -> {"none", "own", "other", "raw"}]
      /\ result' \in Results
    BY DEF TypeOK, connection
<1>4. /\ how' \in {"none", "text", "bytes"} \cup Binary
      /\ phase' \in {"idle", "text", "head", "body", "bytes"}
      /\ caller' \in Clients \cup {Null}
    BY FirstRead
<1>5. /\ phase' # "idle" => caller' \in Clients
      /\ phase' = "text" <=> how' = "text"
      /\ phase' = "bytes" <=> how' = "bytes"
      /\ phase' \in {"head", "body"} <=> how' \in Binary
      /\ phase' # "body"
    BY FirstRead
<1> QED
    BY <1>1, <1>2, <1>3, <1>4, <1>5 DEF TypeInv, TypeOK

LEMMA SendTypes ==
    ASSUME TransportAssumption, TypeInv, NEW c \in Clients, NEW way, Send(c, way)
    PROVE  TypeInv'
<1>1. head' \in BOOLEAN /\ size' \in 0..MaxBody /\ body' \in 0..size'
    BY AnswersTypes DEF Send
<1>2. stale' \in 0..MaxStale
    <2>1. stale + Unread \in Nat
        BY DEF TransportAssumption, TypeInv, TypeOK, Unread
    <2> QED
        BY <2>1 DEF Send, TransportAssumption
<1>3. CASE way = "none"
    <2>1. UNCHANGED <<connection, suppress, phase, caller, how, progress, answ, synced>>
        BY <1>3 DEF Send
    <2>2. result' \in Results /\ phase = "idle"
        BY <1>3 DEF Send, Results
    <2> QED
        BY <1>1, <1>2, <2>1, <2>2 DEF TypeInv, TypeOK, connection, progress
<1>4. CASE way # "none"
    <2>1. way \in {"text", "bytes"} \cup Binary
        BY <1>4 DEF Send, Ways
    <2>2. BeginRecv(c, way) /\ UNCHANGED <<connection, answ, result>>
        BY <1>4 DEF Send
    <2>3. synced' \in BOOLEAN
        BY <1>4 DEF Send
    <2> QED
        BY <1>1, <1>2, <2>1, <2>2, <2>3, BeginTypes DEF TypeInv
<1> QED
    BY <1>3, <1>4

LEMMA RecvTypes ==
    ASSUME TransportAssumption, TypeInv, NEW c \in Clients, NEW way, Recv(c, way)
    PROVE  TypeInv'
<1>1. way \in {"text", "bytes"} \cup Binary
    BY DEF Recv, Binary
<1>2. BeginRecv(c, way) /\ UNCHANGED <<connection, answ, result>>
    BY DEF Recv
<1>3. stale' \in 0..MaxStale /\ head' \in BOOLEAN /\ size' \in 0..MaxBody /\ body' \in 0..size'
    BY DEF Recv, stream, TypeInv, TypeOK
<1>4. synced' \in BOOLEAN
    BY DEF Recv
<1> QED
    BY <1>1, <1>2, <1>3, <1>4, BeginTypes DEF TypeInv

\* The reads.
LEMMA ReadFailsTypes ==
    ASSUME TransportAssumption, TypeInv, ReadFails
    PROVE  TypeInv'
<1>1. Returns("error") /\ UNCHANGED <<connection, stream>>
    BY DEF ReadFails
<1>2. suppress' \in BOOLEAN
    BY DEF ReadFails, TypeInv, TypeOK
<1>3. answ' \in [Clients -> {"none", "own", "other", "raw"}]
    BY DEF ReadFails, TypeInv, TypeOK
<1>4. stale' \in 0..MaxStale /\ head' \in BOOLEAN /\ size' = size /\ body' \in 0..size
    BY <1>1 DEF TypeInv, TypeOK, stream
<1> QED
    BY <1>1, <1>2, <1>3, <1>4, ReturnsTypes DEF TypeInv, Results

LEMMA ReadTextTypes ==
    ASSUME TransportAssumption, TypeInv, ReadText \/ ReadTextRaw
    PROVE  TypeInv'
<1>1. Returns("ok") /\ UNCHANGED <<connection, suppress>>
    BY DEF ReadText, ReadTextRaw
<1>2. suppress' \in BOOLEAN
    BY <1>1 DEF TypeInv, TypeOK
<1>3. answ' \in [Clients -> {"none", "own", "other", "raw"}]
    <2>1. CASE ReadText
        BY <2>1 DEF ReadText, TypeInv, TypeOK
    <2>2. CASE ReadTextRaw
        BY <2>2 DEF ReadTextRaw, TypeInv, TypeOK
    <2> QED
        BY <2>1, <2>2
<1>4. \E k \in Nat \ {0} : Take(k)
    <2>1. Unread \in Nat /\ stale \in Nat
        BY DEF TransportAssumption, TypeInv, TypeOK, Unread
    <2>2. CASE ReadText
        BY <2>1, <2>2 DEF ReadText
    <2>3. CASE ReadTextRaw
        BY <2>1, <2>3 DEF ReadTextRaw
    <2> QED
        BY <2>2, <2>3
<1>5. stale' \in 0..MaxStale /\ head' \in BOOLEAN /\ size' = size /\ body' \in 0..size
    BY <1>4, TakeTypes DEF TypeInv
<1> QED
    BY <1>1, <1>2, <1>3, <1>5, ReturnsTypes DEF TypeInv, Results

LEMMA EndTypes ==
    ASSUME TransportAssumption, TypeInv, EndBinary \/ EndBytes
    PROVE  TypeInv'
<1>1. PICK v \in Results : Returns(v)
    BY DEF EndBinary, EndBytes, Results
<1>2. UNCHANGED <<connection, stream>>
    BY DEF EndBinary, EndBytes
<1>3. suppress' \in BOOLEAN
    BY DEF EndBinary, EndBytes, TypeInv, TypeOK
<1>4. answ' \in [Clients -> {"none", "own", "other", "raw"}]
    <2>1. CASE EndBinary
        BY <2>1 DEF EndBinary, TypeInv, TypeOK
    <2>2. CASE EndBytes
        BY <2>2 DEF EndBytes, TypeInv, TypeOK
    <2> QED
        BY <2>1, <2>2
<1>5. stale' \in 0..MaxStale /\ head' \in BOOLEAN /\ size' = size /\ body' \in 0..size
    BY <1>2 DEF TypeInv, TypeOK, stream
<1> QED
    BY <1>1, <1>2, <1>3, <1>4, <1>5, ReturnsTypes DEF TypeInv

LEMMA ReadHeadTypes ==
    ASSUME TransportAssumption, TypeInv, ReadHead
    PROVE  TypeInv'
<1>1. stale' \in 0..MaxStale /\ head' \in BOOLEAN /\ size' = size /\ body' \in 0..size
    BY TakeTypes DEF ReadHead, TypeInv
<1>2. nStart' = 1 /\ left' \in 0..MaxBody /\ stored' \in 0..1
    BY DEF ReadHead, TypeInv, TypeOK
<1>3. nErr' \in BOOLEAN
    BY DEF ReadHead
<1>4. answ' \in [Clients -> {"none", "own", "other", "raw"}]
    BY DEF ReadHead, TypeInv, TypeOK
<1>5. /\ phase = "head" /\ phase' = "body"
      /\ UNCHANGED <<connection, suppress, caller, how, result, synced>>
    BY DEF ReadHead
<1>6. /\ nStart' \in 0..MaxBody + 1 /\ stored' \in 0..MaxBody + 1
      /\ nStart' + left' <= MaxBody + 1 /\ stored' <= nStart'
    <2>1. MaxBody \in Nat
        BY DEF TransportAssumption
    <2>2. nStart' \in 0..MaxBody + 1 /\ stored' \in 0..MaxBody + 1
        BY <1>2, <2>1
    <2>3. nStart' + left' <= MaxBody + 1
        <3>1. PICK l \in 0..MaxBody : left' = l
            BY <1>2
        <3>2. 1 + l <= MaxBody + 1
            BY <2>1
        <3> QED
            BY <1>2, <3>1, <3>2
    <2>4. stored' <= nStart'
        BY <1>2
    <2> QED
        BY <2>2, <2>3, <2>4
<1> QED
    BY <1>1, <1>2, <1>3, <1>4, <1>5, <1>6 DEF TypeInv, TypeOK, connection

LEMMA ReadHeadShortTypes ==
    ASSUME TransportAssumption, TypeInv, ReadHeadShort
    PROVE  TypeInv'
<1>1. /\ phase = "head" /\ phase' = "body"
      /\ UNCHANGED <<connection, suppress, stream, caller, how, result>>
    BY DEF ReadHeadShort
<1>2. nErr' \in BOOLEAN /\ synced' \in BOOLEAN
    BY DEF ReadHeadShort
<1>3. answ' \in [Clients -> {"none", "own", "other", "raw"}]
    BY DEF ReadHeadShort, TypeInv, TypeOK
<1>4. /\ nStart' \in 0..MaxBody + 1 /\ left' \in 0..MaxBody /\ stored' \in 0..MaxBody + 1
      /\ nStart' + left' <= MaxBody + 1 /\ stored' <= nStart'
    <2>1. nStart' = 1 /\ left' \in 0..MaxBody /\ stored' = 0 /\ MaxBody \in Nat
        BY DEF ReadHeadShort, TransportAssumption
    <2>2. PICK l \in 0..MaxBody : left' = l
        BY <2>1
    <2>3. 1 + l <= MaxBody + 1
        BY <2>1
    <2> QED
        BY <2>1, <2>2, <2>3
<1> QED
    BY <1>1, <1>2, <1>3, <1>4 DEF TypeInv, TypeOK, connection, stream

LEMMA ReadBodyTypes ==
    ASSUME TransportAssumption, TypeInv, ReadBody
    PROVE  TypeInv'
<1>1. PICK k \in 1..left :
          /\ Take(k)
          /\ left' = left - k
          /\ nStart' = nStart + k
          /\ stored' \in {stored, stored + k}
    BY DEF ReadBody
<1>2. /\ left \in 0..MaxBody /\ nStart \in 0..MaxBody + 1 /\ stored \in 0..MaxBody + 1
      /\ nStart + left <= MaxBody + 1 /\ stored <= nStart
    BY DEF ReadBody, TypeInv, TypeOK
<1>3. stale' \in 0..MaxStale /\ head' \in BOOLEAN /\ size' = size /\ body' \in 0..size
    BY <1>1, <1>2, TakeTypes DEF TypeInv, TransportAssumption
<1>4. /\ left' \in 0..MaxBody /\ nStart' \in 0..MaxBody + 1 /\ stored' \in 0..MaxBody + 1
      /\ nStart' + left' <= MaxBody + 1 /\ stored' <= nStart'
    BY <1>1, <1>2 DEF TransportAssumption
<1>5. UNCHANGED <<connection, suppress, phase, caller, how, nErr, answ, result, synced>>
    BY DEF ReadBody
<1> QED
    BY <1>3, <1>4, <1>5 DEF TypeInv, TypeOK, connection

LEMMA ReadByteTypes ==
    ASSUME TransportAssumption, TypeInv, ReadByte
    PROVE  TypeInv'
<1>1. stale' \in 0..MaxStale /\ head' \in BOOLEAN /\ size' = size /\ body' \in 0..size
    BY TakeTypes DEF ReadByte, TypeInv
<1>2. nStart' \in 0..MaxBody + 1
    BY DEF ReadByte, TransportAssumption
<1>3. suppress' \in BOOLEAN
    BY DEF ReadByte
<1>4. answ' \in [Clients -> {"none", "own", "other", "raw"}]
    BY DEF ReadByte, TypeInv, TypeOK
<1>5. /\ phase = "bytes"
      /\ UNCHANGED <<connection, phase, caller, how, left, nErr, stored, result, synced>>
    BY DEF ReadByte
<1> QED
    BY <1>1, <1>2, <1>3, <1>4, <1>5 DEF TypeInv, TypeOK, connection

LEMMA TypeStep == TransportAssumption /\ TypeInv /\ [Next]_vars => TypeInv'
<1> SUFFICES ASSUME TransportAssumption, TypeInv, [Next]_vars
             PROVE  TypeInv'
    OBVIOUS
<1>1. ASSUME NEW c \in Clients, Outside(c)
      PROVE  TypeInv'
    BY <1>1, OutsideTypes
<1>2. ASSUME NEW c \in Clients, NEW way, Send(c, way)
      PROVE  TypeInv'
    BY <1>2, SendTypes
<1>3. ASSUME NEW c \in Clients, NEW way, Recv(c, way)
      PROVE  TypeInv'
    BY <1>3, RecvTypes
<1>4. CASE Step
    BY <1>4, ReadFailsTypes, ReadTextTypes, EndTypes, ReadHeadTypes, ReadHeadShortTypes,
       ReadBodyTypes, ReadByteTypes DEF Step
<1>5. CASE UNCHANGED vars
    BY <1>5 DEF vars, connection, stream, progress, TypeInv, TypeOK
<1> QED
    BY <1>1, <1>2, <1>3, <1>4, <1>5, NextCases

\* The types hold for any number of clients and any bounds.
THEOREM TypeCorrect == TransportAssumption => (Spec => []TypeOK)
<1> SUFFICES ASSUME TransportAssumption
             PROVE  Spec => []TypeOK
    OBVIOUS
<1>1. Init => TypeInv
    BY TypeInit
<1>2. TypeInv /\ [Next]_vars => TypeInv'
    BY TypeStep
<1>3. TypeInv => TypeOK
    BY DEF TypeInv
<1> QED
    BY <1>1, <1>2, <1>3, PTL DEF Spec
-----------------------------------------------------------------------------
(* Ownership.                                                              *)

\* A running call does not touch the connection.
LEMMA CallsKeepConnection ==
    ASSUME Step \/ (\E c \in Clients, way \in {"none", "text", "bytes"} \cup Binary :
                       Send(c, way) \/ Recv(c, way))
    PROVE  UNCHANGED <<transport, link, isAddrDbl, termChar>>
<1>1. CASE \E c \in Clients, way \in {"none", "text", "bytes"} \cup Binary :
              Send(c, way) \/ Recv(c, way)
    BY <1>1 DEF Send, Recv, connection
<1>2. CASE Step
    BY <1>2 DEF Step, ReadFails, ReadText, ReadTextRaw, ReadHead, ReadHeadShort, ReadBody, EndBinary,
                ReadByte, EndBytes, connection
<1> QED
    BY <1>1, <1>2

\* When a client deletes the transport, no pointer stays live.
LEMMA DeleteUnlinks ==
    ASSUME TypeOK, NEW c \in Clients, Delete(c)
    PROVE  transport' = "none" /\ \A d \in Clients : link'[d] # "live"
BY DEF Delete, Unlinked, TypeOK

LEMMA OwnershipStep == TypeOK /\ Ownership /\ [Next]_vars => Ownership'
<1> SUFFICES ASSUME TypeOK, Ownership, [Next]_vars
             PROVE  Ownership'
    OBVIOUS
<1>1. CASE UNCHANGED <<transport, link, isAddrDbl>>
    BY <1>1 DEF Ownership, Owner
<1>2. ASSUME NEW c \in Clients, ConnectDouble(c)
      PROVE  Ownership'
    <2>1. /\ transport = "open" /\ transport' = "open"
          /\ link' = [link EXCEPT ![c] = "live"]
          /\ isAddrDbl' = [isAddrDbl EXCEPT ![c] = TRUE]
        BY <1>2 DEF ConnectDouble
    <2> QED
        BY <2>1 DEF Ownership, Owner, TypeOK
<1>3. ASSUME NEW c \in Clients, Connect(c)
      PROVE  Ownership'
    <2>1. /\ transport = "none" /\ transport' = "open"
          /\ link' = [link EXCEPT ![c] = "live"]
        BY <1>3 DEF Connect
    <2>2. \A d \in Clients : link[d] # "live"
        BY <2>1 DEF Ownership
    <2> QED
        BY <2>1, <2>2 DEF Ownership, Owner, TypeOK
<1>4. ASSUME NEW c \in Clients, ConnectFails(c)
      PROVE  Ownership'
    <2>1. /\ transport = "none" /\ transport' = "none"
          /\ link' = [link EXCEPT ![c] = "null"]
        BY <1>4 DEF ConnectFails
    <2>2. \A d \in Clients : link[d] # "live"
        BY <2>1 DEF Ownership
    <2> QED
        BY <2>1, <2>2 DEF Ownership, Owner, TypeOK
<1>5. ASSUME NEW c \in Clients, Delete(c)
      PROVE  Ownership'
    BY <1>5, DeleteUnlinks DEF Ownership, Owner
<1>6. ASSUME NEW c \in Clients, Destroy(c), link[c] = "null", UNCHANGED <<transport, link>>
      PROVE  Ownership'
    <2>1. isAddrDbl' = [isAddrDbl EXCEPT ![c] = FALSE]
        BY <1>6 DEF Destroy
    <2> QED
        BY <1>6, <2>1 DEF Ownership, Owner, TypeOK
<1>7. ASSUME NEW c \in Clients, Outside(c)
      PROVE  Ownership'
    <2>1. CASE Disconnect(c)
        BY <1>1, <1>5, <2>1 DEF Disconnect
    <2>2. CASE Destroy(c)
        BY <1>5, <1>6, <2>2 DEF Destroy
    <2>3. CASE GetAnsw(c) \/ (\E bOn \in BOOLEAN : SetSuppressMics(c, bOn)) \/ SendFails(c)
        BY <1>1, <2>3 DEF GetAnsw, SetSuppressMics, SendFails, connection
    <2> QED
        BY <1>2, <1>3, <1>4, <1>7, <2>1, <2>2, <2>3 DEF Outside
<1>8. CASE UNCHANGED vars
    BY <1>1, <1>8 DEF vars, connection
<1> QED
    BY <1>1, <1>7, <1>8, NextCases, CallsKeepConnection

\* However the clients connect, connect again, leave and are destroyed, a transport
\* exists exactly while some client points to it, and no two may disconnect it.
THEOREM OwnershipHolds == TransportAssumption => (Spec => []Ownership)
<1> SUFFICES ASSUME TransportAssumption
             PROVE  Spec => []Ownership
    OBVIOUS
<1>1. Init => TypeInv /\ Ownership
    BY TypeInit DEF Init, Ownership, Owner
<1>2. TypeInv /\ Ownership /\ [Next]_vars => TypeInv' /\ Ownership'
    BY TypeStep, OwnershipStep DEF TypeInv
<1> QED
    BY <1>1, <1>2, PTL DEF Spec
-----------------------------------------------------------------------------
(* Answers.                                                                *)

\* Outside of a call there is nothing to say.
LEMMA IdleSync == ASSUME phase' = "idle" PROVE SyncInv'
BY DEF SyncInv

\* A call begins in sync only if nothing but its own answer can be read.
LEMMA SendSync ==
    ASSUME TypeInv, NEW c \in Clients, NEW way, Send(c, way)
    PROVE  SyncInv'
<1>1. CASE way = "none"
    <2>1. phase' = "idle"
        BY <1>1 DEF Send
    <2> QED
        BY <2>1, IdleSync
<1>2. CASE way # "none"
    <2>1. BeginRecv(c, way) /\ way \in {"text", "bytes"} \cup Binary
        BY <1>2 DEF Send, Ways
    <2>2. phase' \in {"text", "head", "bytes"} /\ (phase' = "text" => way = "text")
        BY <2>1, FirstRead
    <2>3. stale' = stale + Unread /\ Answers(c, way)
        BY DEF Send
    <2>4. synced' => stale + Unread = 0 /\ (suppress => way \in Binary)
        BY <1>2 DEF Send
    <2>5. IF head' THEN body' = size' ELSE body' = 0
        <3>1. CASE head' = TRUE /\ body' = size'
            BY <3>1
        <3>2. CASE head' = FALSE /\ body' = 0
            BY <3>2
        <3> QED
            BY <2>3, <3>1, <3>2 DEF Answers
    <2>6. ASSUME synced', phase' = "text"
          PROVE  ~suppress'
        BY <2>1, <2>2, <2>4, <2>6 DEF BeginRecv, Binary, Registers
    <2> QED
        BY <2>2, <2>3, <2>4, <2>5, <2>6 DEF SyncInv
<1> QED
    BY <1>1, <1>2

LEMMA RecvSync ==
    ASSUME TypeInv, NEW c \in Clients, NEW way, Recv(c, way)
    PROVE  SyncInv'
<1>1. BeginRecv(c, way) /\ way \in {"text", "binary"}
    BY DEF Recv
<1>2. phase' \in {"text", "head"} /\ (phase' = "text" => way = "text")
    BY <1>1 DEF BeginRecv, Binary, Registers
<1>3. UNCHANGED <<stale, head, body, size>>
    BY DEF Recv, stream
<1>4. synced' => /\ stale = 0 /\ (suppress => way = "binary")
                 /\ head => body = size
                 /\ ~head => body = 0
    BY DEF Recv
<1>5. ASSUME synced', phase' = "text"
      PROVE  ~suppress'
    BY <1>1, <1>2, <1>4, <1>5 DEF BeginRecv, Binary, Registers
<1>6. ASSUME synced'
      PROVE  stale' = 0 /\ (IF head' THEN body' = size' ELSE body' = 0)
    BY <1>3, <1>4, <1>6
<1> QED
    BY <1>2, <1>5, <1>6 DEF SyncInv

\* The header of its own answer tells a synced call how much there is to read.
LEMMA ReadHeadSync ==
    ASSUME TypeInv, SyncInv, ReadHead
    PROVE  SyncInv'
<1>1. phase' = "body" /\ synced' = synced /\ nStart' = 1
    BY DEF ReadHead
<1> SUFFICES ASSUME synced
             PROVE  /\ stale' = 0 /\ ~head'
                    /\ left' = body'
                    /\ nStart' = 1 + size' - body'
                    /\ stored' = nStart'
    BY <1>1 DEF SyncInv
<1>2. stale = 0 /\ (IF head THEN body = size ELSE body = 0)
    BY DEF SyncInv, ReadHead
<1>3. stale' = 0 /\ ~head' /\ body' = Unread - 1 /\ 1 <= Unread /\ size' = size
    BY <1>2, TakeOwn DEF ReadHead, TypeInv
<1>4. size \in Int
    BY DEF TypeInv, TypeOK
<1>5. head /\ body = size
    BY <1>2, <1>3 DEF Unread
<1>6. body' = size
    BY <1>3, <1>4, <1>5 DEF Unread
<1>7. left' = size /\ stored' = 1
    BY <1>2, <1>5 DEF ReadHead
<1>8. nStart' = 1 + size' - body'
    BY <1>1, <1>3, <1>4, <1>6
<1> QED
    BY <1>1, <1>3, <1>6, <1>7, <1>8

\* A header that came short tells nothing, and the call is in sync no longer.
LEMMA ShortSync == ASSUME ReadHeadShort PROVE SyncInv'
BY DEF ReadHeadShort, SyncInv

\* Each part of the body goes behind the one before it.
LEMMA ReadBodySync ==
    ASSUME TransportAssumption, TypeInv, SyncInv, ReadBody
    PROVE  SyncInv'
<1>1. PICK k \in 1..left :
          /\ Take(k)
          /\ left' = left - k
          /\ nStart' = nStart + k
          /\ stored' = IF /\ stale = 0 /\ ~head
                          /\ nStart = 1 + size - body
                          /\ nStart + k <= RawSize
                       THEN stored + k ELSE stored
    BY DEF ReadBody
<1>2. phase = "body" /\ phase' = "body" /\ synced' = synced
    BY DEF ReadBody
<1> SUFFICES ASSUME synced
             PROVE  /\ stale' = 0 /\ ~head'
                    /\ left' = body'
                    /\ nStart' = 1 + size' - body'
                    /\ size' + 1 <= RawSize => stored' = nStart'
    BY <1>2 DEF SyncInv
<1>3. /\ stale = 0 /\ ~head /\ left = body
      /\ nStart = 1 + size - body
      /\ size + 1 <= RawSize => stored = nStart
    BY <1>2 DEF SyncInv
<1>4. size \in Int /\ body \in Int /\ RawSize \in Int
    BY DEF TypeInv, TypeOK, TransportAssumption
<1>5. stale' = 0 /\ ~head' /\ body' = Unread - k /\ size' = size
    BY <1>1, <1>3, <1>4, TakeOwn DEF TypeInv
<1>6. body' = body - k
    BY <1>3, <1>4, <1>5 DEF Unread
<1>7. nStart' = 1 + size' - body'
    BY <1>1, <1>3, <1>4, <1>5, <1>6
<1>8. ASSUME size' + 1 <= RawSize
      PROVE  stored' = nStart'
    <2>1. size + 1 <= RawSize
        BY <1>5, <1>8
    <2>2. nStart + k <= RawSize
        BY <1>1, <1>3, <1>4, <2>1
    <2> QED
        BY <1>1, <1>3, <2>1, <2>2
<1> QED
    BY <1>1, <1>3, <1>5, <1>6, <1>7, <1>8

LEMMA ReadByteSync ==
    ASSUME TypeInv, SyncInv, ReadByte
    PROVE  SyncInv'
<1>1. phase = "bytes" /\ phase' = "bytes" /\ synced' = synced
    BY DEF ReadByte
<1>2. synced => stale = 0
    BY <1>1 DEF SyncInv
<1>3. synced => stale' = 0
    BY <1>2, TakeOwn DEF ReadByte, TypeInv
<1> QED
    BY <1>1, <1>3 DEF SyncInv

\* Every other step of a call is its last.
LEMMA LastSteps ==
    ASSUME ReadFails \/ ReadText \/ ReadTextRaw \/ EndBinary \/ EndBytes
    PROVE  phase' = "idle"
BY DEF ReadFails, ReadText, ReadTextRaw, EndBinary, EndBytes, Returns

LEMMA SyncStep == TransportAssumption /\ TypeInv /\ SyncInv /\ [Next]_vars => SyncInv'
<1> SUFFICES ASSUME TransportAssumption, TypeInv, SyncInv, [Next]_vars
             PROVE  SyncInv'
    OBVIOUS
<1>1. ASSUME NEW c \in Clients, Outside(c)
      PROVE  SyncInv'
    BY <1>1, OutsideFrame, IdleSync
<1>2. ASSUME NEW c \in Clients, NEW way, Send(c, way) \/ Recv(c, way)
      PROVE  SyncInv'
    BY <1>2, SendSync, RecvSync
<1>3. CASE Step
    BY <1>3, LastSteps, IdleSync, ReadHeadSync, ShortSync, ReadBodySync, ReadByteSync DEF Step
<1>4. CASE UNCHANGED vars
    BY <1>4 DEF vars, stream, progress, SyncInv
<1> QED
    BY <1>1, <1>2, <1>3, <1>4, NextCases

\* A call that returns 0 ends with one of four steps, a call at the end of the body
\* with one.
LEMMA EndingSteps ==
    ASSUME [Next]_vars, phase # "idle", phase' = "idle"
    PROVE  /\ result' = "ok" => ReadText \/ ReadTextRaw \/ EndBinary \/ EndBytes
           /\ phase = "body" /\ left = 0 => EndBinary
<1>1. ~ UNCHANGED vars
    BY DEF vars
<1>2. ASSUME NEW c \in Clients
      PROVE  ~ Outside(c)
    BY <1>2, OutsideFrame
<1>3. ASSUME NEW c \in Clients, NEW way
      PROVE  ~ (Send(c, way) \/ Recv(c, way))
    BY <1>3 DEF Send, Recv
<1>4. Step
    BY <1>1, <1>2, <1>3, NextCases
<1>5. ~ (ReadHead \/ ReadHeadShort \/ ReadBody \/ ReadByte)
    BY DEF ReadHead, ReadHeadShort, ReadBody, ReadByte
<1>6. ReadFails => result' = "error" /\ ~(phase = "body" /\ left = 0)
    <2>1. ReadFails => result' = "error"
        BY DEF ReadFails, Returns
    <2>2. ReadFails /\ phase = "body" => left > 0
        BY DEF ReadFails
    <2> QED
        BY <2>1, <2>2
<1>7. phase = "body" => ~(ReadText \/ ReadTextRaw \/ EndBytes)
    BY DEF ReadText, ReadTextRaw, EndBytes
<1> QED
    BY <1>4, <1>5, <1>6, <1>7 DEF Step

\* A synced call that gets a text gets its own, and all of it.
LEMMA SyncedText ==
    ASSUME TypeInv, SyncInv, synced, ReadText \/ ReadTextRaw
    PROVE  /\ how = "text"
           /\ answ' = [answ EXCEPT ![caller] = "own"]
           /\ stale' = 0 /\ ~head' /\ body' = 0 /\ ~suppress'
<1>1. phase = "text" /\ how = "text"
    BY DEF ReadText, ReadTextRaw, TypeInv
<1>2. stale = 0 /\ (IF head THEN body = size ELSE body = 0) /\ ~suppress
    BY <1>1 DEF SyncInv
<1>3. ReadText
    BY <1>2 DEF ReadTextRaw
<1>4. Unread \in Nat
    BY DEF TypeInv, TypeOK, Unread
<1>5. /\ Unread > 0 /\ Take(Unread)
      /\ answ' = [answ EXCEPT ![caller] = IF head THEN "own" ELSE "other"]
    <2>1. ~ \E k \in 1..stale : Take(k)
        BY <1>2
    <2> QED
        BY <1>3, <2>1 DEF ReadText
<1>6. head
    BY <1>2, <1>5 DEF Unread
<1>7. stale' = 0 /\ ~head' /\ body' = 0
    BY <1>2, <1>4, <1>5, TakeOwn DEF TypeInv
<1>8. ~suppress'
    BY <1>2, <1>3 DEF ReadText
<1> QED
    BY <1>1, <1>5, <1>6, <1>7, <1>8

\* A synced call that ends with header and body has read its own, and no more.
LEMMA SyncedBinary ==
    ASSUME TransportAssumption, TypeInv, SyncInv, synced, EndBinary
    PROVE  /\ how \in Binary
           /\ size + 1 <= RawSize => stored = size + 1
           /\ stale' = 0 /\ ~head' /\ body' = 0 /\ ~suppress'
<1>1. phase = "body" /\ left = 0 /\ UNCHANGED stream /\ suppress' = FALSE
    BY DEF EndBinary
<1>2. /\ stale = 0 /\ ~head /\ left = body
      /\ nStart = 1 + size - body
      /\ size + 1 <= RawSize => stored = nStart
    BY <1>1 DEF SyncInv
<1>3. size \in Int /\ how \in Binary
    BY <1>1 DEF TypeInv, TypeOK
<1>4. nStart = size + 1
    BY <1>1, <1>2, <1>3
<1>5. stale' = 0 /\ ~head' /\ body' = 0
    BY <1>1, <1>2 DEF stream
<1> QED
    BY <1>1, <1>2, <1>3, <1>4, <1>5

\* What a synced call that returns 0 hands over is its own answer, for any number of
\* clients of the address, any cut of the answer into parts, and any reads that failed.
LEMMA AnswerIsOwnStep ==
    ASSUME TransportAssumption, TypeInv, SyncInv, [Next]_vars,
           NEW c \in Clients, Ends("ok"), caller = c, synced
    PROVE  /\ how = "text" => answ'[c] = "own"
           /\ how = "readRegister" /\ size \in 1..RawSize - 1 => answ'[c] = "own"
<1>1. answ \in [Clients -> {"none", "own", "other", "raw"}]
    BY DEF TypeInv, TypeOK
<1>2. CASE ReadText \/ ReadTextRaw
    BY <1>1, <1>2, SyncedText
<1>3. CASE EndBinary
    <2>1. how \in Binary /\ (size + 1 <= RawSize => stored = size + 1)
        BY <1>3, SyncedBinary
    <2>2. how # "text"
        BY <2>1 DEF Binary, Registers
    <2>3. ASSUME how = "readRegister", size \in 1..RawSize - 1
          PROVE  answ'[c] = "own"
        <3>1. stored > 1
            BY <2>1, <2>3 DEF TransportAssumption
        <3>2. answ' = [answ EXCEPT ![caller] = IF stored > 1 THEN "own" ELSE "other"]
            BY <1>3, <2>3 DEF EndBinary, Ends, Returns
        <3> QED
            BY <1>1, <3>1, <3>2
    <2> QED
        BY <2>2, <2>3
<1>4. CASE EndBytes
    BY <1>4 DEF EndBytes, TypeInv
<1> QED
    BY <1>2, <1>3, <1>4, EndingSteps DEF Ends

\* A call that began in sync and returns 0 hands over its own answer, for any number
\* of clients, any cut of the answer into parts, and any reads that failed before.
THEOREM AnswersAreOwn == TransportAssumption => (Spec => AnswerIsOwn)
<1> SUFFICES ASSUME TransportAssumption
             PROVE  Spec => AnswerIsOwn
    OBVIOUS
<1>1. Init => TypeInv /\ SyncInv
    BY TypeInit DEF Init, SyncInv
<1>2. TypeInv /\ SyncInv /\ [Next]_vars => TypeInv' /\ SyncInv'
    BY TypeStep, SyncStep
<1>3. ASSUME TypeInv, SyncInv, [Next]_vars
      PROVE  [\A c \in Clients :
                 Ends("ok") /\ caller = c /\ synced =>
                     /\ how = "text" => answ'[c] = "own"
                     /\ how = "readRegister" /\ size \in 1..RawSize - 1
                           => answ'[c] = "own"]_vars
    BY <1>3, AnswerIsOwnStep
<1> QED
    BY <1>1, <1>2, <1>3, PTL DEF Spec, AnswerIsOwn

\* Such a call has the whole answer in the raw data, if there is room for it.
THEOREM AnswersAreWhole == TransportAssumption => (Spec => WholeAnswer)
<1> SUFFICES ASSUME TransportAssumption
             PROVE  Spec => WholeAnswer
    OBVIOUS
<1>1. Init => TypeInv /\ SyncInv
    BY TypeInit DEF Init, SyncInv
<1>2. TypeInv /\ SyncInv /\ [Next]_vars => TypeInv' /\ SyncInv'
    BY TypeStep, SyncStep
<1>3. ASSUME TypeInv, SyncInv, [Next]_vars,
             Ends("ok"), synced, how \in Binary, size + 1 <= RawSize
      PROVE  stored = size + 1
    <2>1. CASE EndBinary
        BY <1>3, <2>1, SyncedBinary
    <2>2. CASE ReadText \/ ReadTextRaw \/ EndBytes
        BY <1>3, <2>2 DEF ReadText, ReadTextRaw, EndBytes, TypeInv, Binary, Registers
    <2> QED
        BY <1>3, <2>1, <2>2, EndingSteps DEF Ends
<1>4. TypeInv /\ SyncInv /\ [Next]_vars =>
          [Ends("ok") /\ synced /\ how \in Binary /\ size + 1 <= RawSize
              => stored = size + 1]_vars
    BY <1>3
<1> QED
    BY <1>1, <1>2, <1>4, PTL DEF Spec, WholeAnswer

\* A call that began in sync leaves the connection in sync, unless a read fails.
THEOREM ConnectionStaysInSync == TransportAssumption => (Spec => StaysInSync)
<1> SUFFICES ASSUME TransportAssumption
             PROVE  Spec => StaysInSync
    OBVIOUS
<1>1. Init => TypeInv /\ SyncInv
    BY TypeInit DEF Init, SyncInv
<1>2. TypeInv /\ SyncInv /\ [Next]_vars => TypeInv' /\ SyncInv'
    BY TypeStep, SyncStep
<1>3. ASSUME TypeInv, SyncInv, [Next]_vars, synced,
             \/ Ends("ok") /\ how # "bytes"
             \/ phase = "body" /\ left = 0 /\ phase' = "idle"
      PROVE  stale' = 0 /\ ~head' /\ body' = 0 /\ ~suppress'
    <2>1. CASE EndBinary
        BY <1>3, <2>1, SyncedBinary
    <2>2. CASE ReadText \/ ReadTextRaw
        BY <1>3, <2>2, SyncedText
    <2>3. EndBytes => how = "bytes" /\ phase = "bytes"
        BY <1>3 DEF EndBytes, TypeInv
    <2> QED
        BY <1>3, <2>1, <2>2, <2>3, EndingSteps DEF Ends
<1>4. TypeInv /\ SyncInv /\ [Next]_vars =>
          [/\ synced
           /\ \/ Ends("ok") /\ how # "bytes"
              \/ phase = "body" /\ left = 0 /\ phase' = "idle"
           => stale' = 0 /\ ~head' /\ body' = 0 /\ ~suppress']_vars
    BY <1>3
<1> QED
    BY <1>1, <1>2, <1>4, PTL DEF Spec, StaysInSync
=============================================================================
