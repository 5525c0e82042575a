-------------------------- MODULE TransportSafety --------------------------
(***************************************************************************)
(* What the answer of an instrument, and the connection, can be relied on. *)
(***************************************************************************)
EXTENDS Transport

\* Why the types hold: the position in the raw data and what is left of the body never
\* add up to more than an answer, and a running call has a client and a way to read.
TypeInv ==
    /\ TypeOK
    /\ phase # "idle" => caller \in Clients
    /\ phase = "text" <=> how = "text"
    /\ phase = "bytes" <=> how = "bytes"
    /\ phase \in {"head", "body"} <=> how \in Binary
    /\ phase = "body" => nStart + left <= MaxBody + 1 /\ stored <= nStart

Owner(c) == link[c] = "live" /\ ~isAddrDbl[c]

\* A client's pointer is live only while its transport exists; the transport exists
\* only while a client points to it, and at most one client may disconnect it.
Ownership ==
    /\ (transport = "open") <=> (\E c \in Clients : link[c] = "live")
    /\ \A c, d \in Clients : Owner(c) /\ Owner(d) => c = d

\* The running call returns the value with this step.
Ends(value) == phase # "idle" /\ phase' = "idle" /\ result' = value

\* A call that began with no other answer in the way, whose header came whole, and that
\* returns 0 hands over its own:
\* neither the late answer of a call that timed out, of the same client or of another
\* one, nor the untranslated bytes of one that broke off.
AnswerIsOwn ==
    [][\A c \in Clients :
          Ends("ok") /\ caller = c /\ synced =>
              /\ how = "text" => answ'[c] = "own"
              /\ how = "readRegister" /\ size \in 1..RawSize - 1 => answ'[c] = "own"]_vars

\* Such a call has put header and body into the raw data, every part where it belongs,
\* however the body was cut up; the raw data must have room for them.
WholeAnswer ==
    [][Ends("ok") /\ synced /\ how \in Binary /\ size + 1 <= RawSize
          => stored = size + 1]_vars

\* Such a call leaves the connection as it should be found by the next one, although
\* the instrument reported an error.  Only a failed read, a header that came short, a
\* command that is not read and byte by byte leave something behind.
StaysInSync ==
    [][/\ synced
       /\ \/ Ends("ok") /\ how # "bytes"
          \/ phase = "body" /\ left = 0 /\ phase' = "idle"
       => stale' = 0 /\ ~head' /\ body' = 0 /\ ~suppress']_vars

\* Why: the parts that a synced call has still to read are those of its own answer, and
\* it is where they say it is.
SyncInv ==
    phase # "idle" /\ synced =>
        /\ stale = 0
        /\ phase \in {"text", "head"} => IF head THEN body = size ELSE body = 0
        /\ phase = "text" => ~suppress
        /\ phase = "body" => /\ ~head
                             /\ left = body
                             /\ nStart = 1 + size - body
                             /\ size + 1 <= RawSize => stored = nStart

\* Every call returns, whatever comes instead of its answer.
CallReturns == (phase # "idle") ~> (phase = "idle")
=============================================================================
