---------------------------- MODULE VaultProofs ----------------------------
(***************************************************************************)
(* The backup archive implements the vault: one running program, which may *)
(* die, and whose files do not fail.  What it tells of a backup is true    *)
(* unless a write is lost.  And, for any number of programs and all        *)
(* faults, an archive that is gone does not come back.                     *)
(***************************************************************************)
EXTENDS BackUperProofs

-----------------------------------------------------------------------------
(* The copies in a sequence of chunks.                                     *)

\* The copy of a path is in any chunk of it, if no path has two.
LEMMA CopyAt ==
    ASSUME NEW s \in Seq(Chunk), UniqueIn(s), NEW k \in 1..Len(s)
    PROVE  Found(s, s[k].path) /\ CopyIn(s, s[k].path) = s[k].ver
<1> DEFINE p == s[k].path
<1>1. DOMAIN s = 1..Len(s)
    BY LenProperties
<1>2. Found(s, p)
    BY <1>1 DEF Found
<1>3. Offset(s, p) \in 1..Len(s) /\ s[Offset(s, p)].path = p
    BY <1>2, OffsetOfFound
<1>4. Offset(s, p) = k
    BY <1>1, <1>3 DEF UniqueIn
<1> QED
    BY <1>2, <1>4 DEF CopyIn

LEMMA CopyIsContent ==
    ASSUME NEW s \in Seq(Chunk), NEW p
    PROVE  /\ Found(s, p) => CopyIn(s, p) \in Content /\ CopyIn(s, p) # NoFile
           /\ ~Found(s, p) => CopyIn(s, p) = NoFile
<1>1. Found(s, p) => s[Offset(s, p)].ver \in Content
    BY OffsetOfFound
<1> QED
    BY <1>1, BackUperAssumption DEF CopyIn

\* Two sequences with the same chunks of a path have the same copy of it.
LEMMA CopiesAgree ==
    ASSUME NEW s \in Seq(Chunk), UniqueIn(s), NEW t \in Seq(Chunk), UniqueIn(t), NEW q,
           \A j \in 1..Len(s) : s[j].path = q => \E k \in 1..Len(t) : t[k] = s[j],
           \A k \in 1..Len(t) : t[k].path = q => \E j \in 1..Len(s) : s[j] = t[k]
    PROVE  CopyIn(s, q) = CopyIn(t, q) /\ (Found(s, q) <=> Found(t, q))
<1>1. DOMAIN s = 1..Len(s) /\ DOMAIN t = 1..Len(t)
    BY LenProperties
<1>2. CASE Found(s, q)
    <2>1. PICK j \in 1..Len(s) : s[j].path = q
        BY <1>1, <1>2 DEF Found
    <2>2. PICK k \in 1..Len(t) : t[k] = s[j]
        BY <2>1
    <2>3. CopyIn(s, q) = s[j].ver
        BY <2>1, CopyAt
    <2>4. Found(t, q) /\ CopyIn(t, q) = t[k].ver
        BY <2>1, <2>2, CopyAt
    <2> QED
        BY <1>2, <2>2, <2>3, <2>4
<1>3. CASE ~Found(s, q)
    <2>1. ~Found(t, q)
        BY <1>1, <1>3 DEF Found
    <2> QED
        BY <1>3, <2>1 DEF CopyIn
<1> QED
    BY <1>2, <1>3

\* A chunk in place of another one of its path changes the copy of that path only.
LEMMA CopyReplaced ==
    ASSUME NEW s \in Seq(Chunk), UniqueIn(s), NEW c \in Chunk, Found(s, c.path)
    PROVE  LET t == [s EXCEPT ![Offset(s, c.path)] = c] IN
           /\ CopyIn(t, c.path) = c.ver
           /\ \A q : q # c.path => CopyIn(t, q) = CopyIn(s, q)
           /\ \A q : Found(t, q) <=> Found(s, q)
           /\ t \in Seq(Chunk) /\ UniqueIn(t)
<1> DEFINE o == Offset(s, c.path)
           t == [s EXCEPT ![o] = c]
<1>1. /\ t \in Seq(Chunk)
      /\ Len(t) = Len(s)
      /\ \A j \in 1..Len(s) : t[j].path = s[j].path
      /\ t[o] = c
    BY ReplacedChunk
<1>2. \A j \in 1..Len(s) : j # o => t[j] = s[j]
    BY LenProperties
<1>3. o \in 1..Len(s) /\ s[o].path = c.path
    BY OffsetOfFound
<1>4. DOMAIN s = 1..Len(s) /\ DOMAIN t = 1..Len(s)
    BY <1>1, LenProperties
<1> HIDE DEF o, t
<1>5. UniqueIn(t)
    BY <1>1, <1>4 DEF UniqueIn
<1>6. CopyIn(t, c.path) = c.ver
    BY <1>1, <1>3, <1>5, CopyAt
<1>7. ASSUME NEW q, q # c.path PROVE CopyIn(t, q) = CopyIn(s, q)
    <2>0. \A j \in 1..Len(s) : s[j].path = q => t[j] = s[j]
        BY <1>2, <1>3, <1>7
    <2>1. \A j \in 1..Len(s) : s[j].path = q => \E k \in 1..Len(t) : t[k] = s[j]
        BY <1>1, <2>0
    <2>2. \A k \in 1..Len(t) : t[k].path = q => \E j \in 1..Len(s) : s[j] = t[k]
        BY <1>1, <2>0
    <2> QED
        BY <1>1, <1>5, <2>1, <2>2, CopiesAgree
<1>8. \A q : Found(t, q) <=> Found(s, q)
    BY <1>1, <1>4 DEF Found
<1> QED
    BY <1>1, <1>5, <1>6, <1>7, <1>8 DEF o, t

\* So does a chunk behind the others, if its path had none.
LEMMA CopyAppended ==
    ASSUME NEW s \in Seq(Chunk), UniqueIn(s), NEW c \in Chunk, ~Found(s, c.path)
    PROVE  LET t == Append(s, c) IN
           /\ CopyIn(t, c.path) = c.ver
           /\ \A q : q # c.path => CopyIn(t, q) = CopyIn(s, q)
           /\ \A q : Found(t, q) <=> Found(s, q) \/ q = c.path
           /\ t \in Seq(Chunk) /\ UniqueIn(t)
<1> DEFINE n == Len(s)
           t == Append(s, c)
<1>1. /\ t \in Seq(Chunk)
      /\ Len(t) = n + 1
      /\ \A j \in 1..n : t[j] = s[j]
      /\ t[n + 1] = c
    BY AppendedChunk
<1>2. n \in Nat /\ DOMAIN s = 1..n /\ DOMAIN t = 1..n + 1
    BY <1>1, LenProperties
<1>3. \A j \in 1..n : s[j].path # c.path
    BY <1>2 DEF Found
<1>4. \A j \in 1..n + 1 : j \in 1..n \/ j = n + 1
    BY <1>2
<1> HIDE DEF n, t
<1>5. UniqueIn(t)
    <2> SUFFICES ASSUME NEW j \in 1..n + 1, NEW k \in 1..n + 1, t[j].path = t[k].path
                 PROVE  j = k
        BY <1>2 DEF UniqueIn
    <2>1. CASE j \in 1..n /\ k \in 1..n
        BY <1>1, <1>2, <2>1 DEF UniqueIn
    <2>2. CASE j = n + 1 \/ k = n + 1
        BY <1>1, <1>3, <1>4, <2>2
    <2> QED
        BY <1>4, <2>1, <2>2
<1>6. CopyIn(t, c.path) = c.ver /\ Found(t, c.path)
    <2>1. n + 1 \in 1..Len(t)
        BY <1>1, <1>2
    <2> QED
        BY <1>1, <1>5, <2>1, CopyAt
<1>7. ASSUME NEW q, q # c.path
      PROVE  CopyIn(t, q) = CopyIn(s, q) /\ (Found(t, q) <=> Found(s, q))
    <2>1. \A j \in 1..Len(s) : s[j].path = q => \E k \in 1..Len(t) : t[k] = s[j]
        BY <1>1, <1>2 DEF n
    <2>2. \A k \in 1..Len(t) : t[k].path = q => \E j \in 1..Len(s) : s[j] = t[k]
        BY <1>1, <1>4, <1>7 DEF n
    <2> QED
        BY <1>1, <1>5, <2>1, <2>2, CopiesAgree
<1> QED
    BY <1>1, <1>5, <1>6, <1>7 DEF t

\* Cutting out the chunk of a path takes its copy and no other.
LEMMA CopyRest ==
    ASSUME NEW s \in Seq(Chunk), UniqueIn(s), NEW p, Found(s, p)
    PROVE  /\ CopyIn(Rest(s, p), p) = NoFile
           /\ \A q : q # p => CopyIn(Rest(s, p), q) = CopyIn(s, q)
           /\ Rest(s, p) \in Seq(Chunk)
<1> DEFINE o == Offset(s, p)
           t == RemoveAt(s, o)
<1>1. o \in 1..Len(s) /\ s[o].path = p
    BY OffsetOfFound
<1>2. /\ t \in Seq(Chunk)
      /\ Len(t) = Len(s) - 1
      /\ \A j \in 1..Len(s) - 1 : t[j] = IF j < o THEN s[j] ELSE s[j + 1]
    BY <1>1, RemoveAtChunk
<1>3. Rest(s, p) = t
    BY DEF Rest
<1>4. UniqueIn(t)
    BY <1>3, RestOfChunks
<1>5. Len(s) \in Nat /\ DOMAIN s = 1..Len(s) /\ DOMAIN t = 1..Len(s) - 1
    BY <1>2, LenProperties
<1> HIDE DEF o, t
<1>6. \A j \in 1..Len(s) : s[j].path = p => j = o
    BY <1>1, <1>5 DEF UniqueIn
<1>7. \A j \in 1..Len(s) - 1 : t[j].path # p
    <2> SUFFICES ASSUME NEW j \in 1..Len(s) - 1 PROVE t[j].path # p
        OBVIOUS
    <2>1. CASE j < o
        BY <1>1, <1>2, <1>5, <1>6, <2>1
    <2>2. CASE ~(j < o)
        <3>1. j + 1 \in 1..Len(s) /\ j + 1 # o /\ t[j] = s[j + 1]
            BY <1>1, <1>2, <1>5, <2>2
        <3> QED
            BY <1>6, <3>1
    <2> QED
        BY <2>1, <2>2
<1>8. CopyIn(t, p) = NoFile
    BY <1>5, <1>7 DEF CopyIn, Found
<1>9. ASSUME NEW q, q # p PROVE CopyIn(t, q) = CopyIn(s, q)
    <2>1. ASSUME NEW j \in 1..Len(s), s[j].path = q
          PROVE  \E k \in 1..Len(t) : t[k] = s[j]
        <3>1. CASE j < o
            <4>1. j \in 1..Len(s) - 1
                BY <1>1, <1>5, <3>1
            <4> QED
                BY <1>2, <3>1, <4>1
        <3>2. CASE j > o
            <4>1. j - 1 \in 1..Len(s) - 1 /\ ~(j - 1 < o) /\ (j - 1) + 1 = j
                BY <1>1, <1>5, <3>2
            <4> QED
                BY <1>2, <4>1
        <3>3. j # o
            BY <1>1, <1>9, <2>1
        <3> QED
            BY <1>1, <1>5, <3>1, <3>2, <3>3
    <2>2. \A k \in 1..Len(t) : \E j \in 1..Len(s) : s[j] = t[k]
        BY <1>3, RestOfChunks
    <2> QED
        BY <1>2, <1>4, <2>1, <2>2, CopiesAgree
<1> QED
    BY <1>2, <1>3, <1>8, <1>9

-----------------------------------------------------------------------------
(* One instance, no file operation failing.                                *)

Calm(me) == Instances = {me} /\ Faults \subseteq {"crash"}

Inv == TypeInv /\ SoloInv /\ ExactInv

\* Inv read at the one instance.
LEMMA InvAt ==
    ASSUME NEW me, Calm(me), Inv
    PROVE  /\ Me = me /\ me \in Instances
           /\ cur[me] \in Paths /\ data[me] \in Seq(Chunk)
           /\ Chunks(archive) \in Seq(Chunk) /\ UniqueIn(Chunks(archive))
           /\ Chunks(data[me]) = data[me]
           /\ Chunks(Chunks(archive)) = Chunks(archive)
<1>1. Me = me /\ me \in Instances
    BY DEF Calm, Me
<1>2. archive \in Seq(Chunk) \cup {NoArchive} /\ cur[me] \in Paths /\ data[me] \in Seq(Chunk)
    BY <1>1 DEF Inv, TypeInv, TypeOK
<1>3. Chunks(archive) \in Seq(Chunk) /\ UniqueIn(Chunks(archive))
    BY <1>2, ChunksType DEF Inv, SoloInv, ChunksUnique
<1> QED
    BY <1>1, <1>2, <1>3, ChunksOfSeq

\* What becomes of the vault depends on what is kept, taken and given.
LEMMA VaultSame ==
    ASSUME NEW me, Calm(me), Inv, scripts' = scripts, Copies' = Copies,
           BeingTaken' = BeingTaken, BeingGiven' = BeingGiven
    PROVE  UNCHANGED V!vars
BY DEF V!vars

\* The steps that keep the chunks and hold nothing.
LEMMA QuietSteps ==
    ASSUME NEW me, Calm(me), Inv, NEW p \in Paths,
           Start(me) \/ FindProccedure(me) \/ BackUpNoScript(me, p)
    PROVE  UNCHANGED V!vars
<1>1. Me = me /\ me \in Instances
    BY InvAt
<1>2. pc \in [Instances -> Labels]
    BY DEF Inv, TypeInv, TypeOK
<1>3. /\ pc[me] \in {"off", "idle", "rescan"} /\ pc'[me] \in {"off", "idle", "rescan"}
      /\ archive' = archive /\ scripts' = scripts
    BY <1>1, <1>2 DEF Start, FindProccedure, BackUpNoScript, BackUpEnds, Off
<1>4. Kept' = Kept /\ BeingTaken' = BeingTaken /\ BeingGiven' = BeingGiven
    BY <1>1, <1>3 DEF Kept, BeingTaken, BeingGiven, Me
<1>5. Copies' = Copies
    BY <1>4 DEF Copies
<1> QED
    BY <1>3, <1>4, <1>5, VaultSame

\* A program that ends between two operations changes nothing.  One that dies in an
\* operation gives up what it has in memory: if the file is not truncated, that is not
\* needed, and if it is, it is all there was.
LEMMA StopSteps ==
    ASSUME NEW me, Calm(me), Inv, Stop(me)
    PROVE  V!Crash \/ UNCHANGED V!vars
<1>1. Me = me /\ me \in Instances
    BY InvAt
<1>2. /\ pc[me] \in Labels /\ pc'[me] = "off" /\ archive' = archive /\ scripts' = scripts
    BY <1>1 DEF Stop, Off, Inv, TypeInv, TypeOK
<1>3. BeingTaken' = NoFile /\ BeingGiven' = NoFile /\ Kept' = Chunks(archive)
    BY <1>1, <1>2 DEF BeingTaken, BeingGiven, Kept, Me
<1>4. CASE pc[me] = "idle"
    <2>1. Kept' = Kept /\ BeingTaken = NoFile /\ BeingGiven = NoFile
        BY <1>1, <1>3, <1>4 DEF Kept, BeingTaken, BeingGiven, Me
    <2>2. Copies' = Copies
        BY <2>1 DEF Copies
    <2> QED
        BY <1>2, <1>3, <2>1, <2>2, VaultSame
<1>5. CASE pc[me] \in {"bkWrite", "rsScript", "rsCreate", "rsDrop"}
    <2>1. "crash" \in Faults
        BY <1>5 DEF Stop
    <2>2. Kept' = <<>>
        BY <1>1, <1>3, <1>5 DEF Inv, ExactInv, Chunks
    <2>3. Copies' = [p \in Paths |-> NoFile]
        BY <2>2 DEF Copies, CopyIn, Found
    <2>4. BeingTaken = NoFile
        BY <1>1, <1>5 DEF BeingTaken, Me
    <2> QED
        BY <1>2, <1>3, <2>1, <2>3, <2>4 DEF V!Crash
<1>6. CASE pc[me] \notin {"idle", "bkWrite", "rsScript", "rsCreate", "rsDrop"}
    <2>1. "crash" \in Faults
        BY <1>6 DEF Stop
    <2>2. Kept' = Kept
        BY <1>1, <1>3, <1>6 DEF Kept, Me
    <2>3. Copies' = Copies
        BY <2>2 DEF Copies
    <2> QED
        BY <1>2, <1>3, <2>1, <2>3 DEF V!Crash
<1> QED
    BY <1>4, <1>5, <1>6

\* Anybody's edit of a script is an edit beside the vault.
LEMMA EditSteps ==
    ASSUME NEW me, Calm(me), Inv, NEW p \in Paths, EditScript(p)
    PROVE  V!Edit(p)
<1>1. \E c \in Content \cup {NoFile} : scripts' = [scripts EXCEPT ![p] = c]
    BY DEF EditScript, Content
<1>2. pc' = pc /\ archive' = archive /\ data' = data /\ cur' = cur
    BY DEF EditScript
<1>3. Kept' = Kept /\ BeingTaken' = BeingTaken /\ BeingGiven' = BeingGiven
    BY <1>2 DEF Kept, BeingTaken, BeingGiven
<1>4. Copies' = Copies
    BY <1>3 DEF Copies
<1> QED
    BY <1>1, <1>3, <1>4 DEF V!Edit

\* BackUp takes a copy ...
LEMMA TakeSteps ==
    ASSUME NEW me, Calm(me), Inv, NEW p \in Paths, BackUpPrepare(me, p)
    PROVE  V!Take(p)
<1>1. Me = me /\ me \in Instances
    BY InvAt
<1>2. /\ scripts[p] \in Content /\ scripts[p] # NoFile
      /\ pc[me] = "idle" /\ pc'[me] \in {"bkRead", "bkTrunc"} /\ cur'[me] = p
      /\ data'[me] = <<[path |-> p, ver |-> scripts[p]]>>
      /\ archive' = archive /\ scripts' = scripts
    BY <1>1 DEF BackUpPrepare, Inv, TypeInv, TypeOK
<1>3. Kept' = Kept
    BY <1>1, <1>2 DEF Kept, Me
<1>4. Copies' = Copies
    BY <1>3 DEF Copies
<1>5. BeingTaken = NoFile /\ BeingGiven = NoFile /\ BeingGiven' = NoFile
    BY <1>1, <1>2 DEF BeingTaken, BeingGiven, Me
<1>6. BeingTaken' = <<p, CopyIn(data'[me], p)>>
    BY <1>1, <1>2 DEF BeingTaken, Me
<1>7. CopyIn(data'[me], p) = scripts[p]
    <2> DEFINE s == <<[path |-> p, ver |-> scripts[p]]>>
    <2>1. s \in Seq(Chunk) /\ Len(s) = 1 /\ s[1].path = p /\ s[1].ver = scripts[p]
        BY <1>2, OneChunk
    <2>2. data'[me] = s
        BY <1>2
    <2> HIDE DEF s
    <2>3. UniqueIn(s) /\ 1 \in 1..Len(s)
        BY <2>1, LenProperties DEF UniqueIn
    <2> QED
        BY <2>1, <2>2, <2>3, CopyAt
<1> QED
    BY <1>2, <1>4, <1>5, <1>6, <1>7 DEF V!Take

LEMMA ListedFound ==
    ASSUME NEW a, NEW p
    PROVE  p \in Listed(a) <=> Found(Chunks(a), p)
BY DEF Listed, Found

\* ... without failing, because the list is exact ...
LEMMA ReadsSucceed ==
    ASSUME NEW me, Calm(me), Inv, BackUpReadFails(me)
    PROVE  FALSE
<1>1. me \in Instances /\ pc[me] = "bkRead"
    BY InvAt DEF BackUpReadFails
<1>2. mArchiveFiles[me] = Listed(archive) /\ mArchiveFiles[me] # {}
    BY <1>1 DEF Inv, ExactInv
<1>3. archive # NoArchive
    BY <1>2 DEF Listed, Chunks
<1>4. cur[me] \in mArchiveFiles[me] => Found(Chunks(archive), cur[me])
    BY <1>2, ListedFound
<1> QED
    BY <1>3, <1>4 DEF BackUpReadFails, Calm

\* ... puts it among the other chunks in memory ...
LEMMA ReadFacts ==
    ASSUME NEW me, Calm(me), Inv, BackUpRead(me)
    PROVE  /\ data'[me] \in Seq(Chunk) /\ UniqueIn(data'[me])
           /\ CopyIn(data'[me], cur[me]) = CopyIn(data[me], cur[me])
           /\ \A q : q # cur[me] => CopyIn(data'[me], q) = CopyIn(Chunks(archive), q)
           /\ \A q : Found(data'[me], q) <=> Found(Chunks(archive), q) \/ q = cur[me]
<1> DEFINE c == data[me][1]
           q == cur[me]
           d == data'[me]
<1>1. /\ me \in Instances /\ pc[me] = "bkRead" /\ archive # NoArchive
      /\ data[me] \in Seq(Chunk) /\ Len(data[me]) = 1 /\ c.path = q
      /\ archive \in Seq(Chunk) /\ UniqueIn(archive) /\ Chunks(archive) = archive
    BY InvAt DEF BackUpRead, Inv, TypeInv, TypeOK, DataInv, Chunks
<1>2. c \in Chunk /\ 1 \in 1..Len(data[me])
    BY <1>1, ElementOfSeq
<1>3. CopyIn(data[me], q) = c.ver
    <2>1. UniqueIn(data[me])
        BY <1>1, LenProperties DEF UniqueIn
    <2> QED
        BY <1>1, <1>2, <2>1, CopyAt
<1>4. mArchiveFiles[me] = Listed(archive)
    BY <1>1 DEF Inv, ExactInv
<1>5. q \in mArchiveFiles[me] <=> Found(archive, q)
    BY <1>1, <1>4, ListedFound
<1>6. \/ Found(archive, q) /\ d = [archive EXCEPT ![Offset(archive, q)] = c]
      \/ ~Found(archive, q) /\ d = Append(archive, c)
    BY <1>1, <1>5 DEF BackUpRead, Inv, TypeInv, TypeOK
<1> HIDE DEF c, d
<1>7. CASE Found(archive, q) /\ d = [archive EXCEPT ![Offset(archive, q)] = c]
    <2> DEFINE t == [archive EXCEPT ![Offset(archive, c.path)] = c]
    <2>1. /\ CopyIn(t, c.path) = c.ver /\ t \in Seq(Chunk) /\ UniqueIn(t)
          /\ \A r : r # c.path => CopyIn(t, r) = CopyIn(archive, r)
          /\ \A r : Found(t, r) <=> Found(archive, r)
        BY <1>1, <1>2, <1>7, CopyReplaced
    <2>2. d = t
        BY <1>1, <1>7
    <2> HIDE DEF t
    <2> QED
        BY <1>1, <1>3, <1>7, <2>1, <2>2 DEF d
<1>8. CASE ~Found(archive, q) /\ d = Append(archive, c)
    <2> DEFINE t == Append(archive, c)
    <2>1. /\ CopyIn(t, c.path) = c.ver /\ t \in Seq(Chunk) /\ UniqueIn(t)
          /\ \A r : r # c.path => CopyIn(t, r) = CopyIn(archive, r)
          /\ \A r : Found(t, r) <=> Found(archive, r) \/ r = c.path
        BY <1>1, <1>2, <1>8, CopyAppended
    <2>2. d = t
        BY <1>8
    <2> HIDE DEF t
    <2> QED
        BY <1>1, <1>3, <1>8, <2>1, <2>2 DEF d
<1> QED
    BY <1>6, <1>7, <1>8

LEMMA ReadSteps ==
    ASSUME NEW me, Calm(me), Inv, BackUpRead(me)
    PROVE  UNCHANGED V!vars
<1>1. Me = me /\ me \in Instances
    BY InvAt
<1>2. /\ pc[me] = "bkRead" /\ pc'[me] = "bkTrunc" /\ cur' = cur
      /\ archive' = archive /\ scripts' = scripts
    BY <1>1 DEF BackUpRead, Inv, TypeInv, TypeOK
<1>3. Kept' = Kept
    BY <1>1, <1>2 DEF Kept, Me
<1>4. Copies' = Copies
    BY <1>3 DEF Copies
<1>5. BeingTaken' = BeingTaken
    BY <1>1, <1>2, ReadFacts DEF BeingTaken, Me
<1>6. BeingGiven' = BeingGiven
    BY <1>1, <1>2 DEF BeingGiven, Me
<1> QED
    BY <1>2, <1>4, <1>5, <1>6, VaultSame

\* ... stores it when the file is truncated, because from then on the chunks in memory
\* count ...
LEMMA StoreSteps ==
    ASSUME NEW me, Calm(me), Inv, BackUpTruncate(me)
    PROVE  V!Store
<1> DEFINE q == cur[me]
<1>1. Me = me /\ me \in Instances /\ q \in Paths
    BY InvAt
<1>2. /\ pc[me] = "bkTrunc" /\ pc'[me] = "bkWrite" /\ cur' = cur /\ data' = data
      /\ scripts' = scripts
    BY <1>1 DEF BackUpTruncate, Inv, TypeInv, TypeOK
<1>3. Kept = Chunks(archive) /\ Kept' = data[me]
    BY <1>1, <1>2 DEF Kept, Me
<1>4. \A p \in Paths \ {q} : CopyIn(data[me], p) = CopyIn(Chunks(archive), p)
    BY <1>1, <1>2 DEF Inv, ExactInv
<1>5. BeingTaken = <<q, CopyIn(data[me], q)>> /\ BeingTaken' = NoFile
    BY <1>1, <1>2 DEF BeingTaken, Me
<1>6. BeingGiven' = BeingGiven
    BY <1>1, <1>2 DEF BeingGiven, Me
<1>7. CopyIn(data[me], q) \in Content
    <2>1. Found(data[me], q)
        BY <1>1, <1>2 DEF Inv, TypeInv, DataInv
    <2> QED
        BY <2>1, InvAt, CopyIsContent
<1>8. BeingTaken # NoFile /\ BeingTaken[1] = q /\ BeingTaken[2] = CopyIn(data[me], q)
    BY <1>1, <1>5, <1>7, BackUperAssumption
<1>9. Copies' = [Copies EXCEPT ![q] = CopyIn(data[me], q)]
    BY <1>3, <1>4 DEF Copies
<1> QED
    BY <1>2, <1>5, <1>6, <1>8, <1>9 DEF V!Store

\* ... and writes it.
LEMMA WriteSteps ==
    ASSUME NEW me, Calm(me), Inv, BackUpWrite(me)
    PROVE  /\ UNCHANGED V!vars
           /\ archive' = data[me]
<1>1. Me = me /\ me \in Instances /\ Chunks(data[me]) = data[me]
    BY InvAt
<1>2. /\ pc[me] = "bkWrite" /\ pc'[me] = "idle" /\ cur' = cur /\ scripts' = scripts
    BY <1>1 DEF BackUpWrite, BackUpEnds, Inv, TypeInv, TypeOK
<1>3. me \in writers
    BY <1>1, <1>2 DEF Inv, ExactInv
<1>4. archive' = data[me]
    BY <1>3 DEF BackUpWrite, Write, Calm
<1>5. Kept = data[me] /\ Kept' = Chunks(archive')
    BY <1>1, <1>2 DEF Kept, Me
<1>6. Copies' = Copies
    BY <1>1, <1>4, <1>5 DEF Copies
<1>7. BeingTaken' = BeingTaken /\ BeingGiven' = BeingGiven
    BY <1>1, <1>2 DEF BeingTaken, BeingGiven, Me
<1> QED
    BY <1>2, <1>4, <1>6, <1>7, VaultSame

\* A restore reads the chunks and truncates the file ...
LEMMA OpenSteps ==
    ASSUME NEW me, Calm(me), Inv, (\E p \in Paths : RestoreOpen(me, p)) \/ RestoreTruncate(me)
    PROVE  UNCHANGED V!vars
<1>1. /\ Me = me /\ me \in Instances
      /\ Chunks(Chunks(archive)) = Chunks(archive)
    BY InvAt
<1>2. scripts' = scripts
    BY DEF RestoreOpen, RestoreTruncate
<1>3. CASE \E p \in Paths : RestoreOpen(me, p)
    <2>1. /\ pc[me] = "idle" /\ pc'[me] = "rsTrunc" /\ archive' = Chunks(archive)
        BY <1>1, <1>3 DEF RestoreOpen, Inv, TypeInv, TypeOK
    <2>2. Kept = Chunks(archive) /\ Kept' = Chunks(archive)
        BY <1>1, <2>1 DEF Kept, Me
    <2>3. BeingTaken' = BeingTaken /\ BeingGiven' = BeingGiven
        BY <1>1, <2>1 DEF BeingTaken, BeingGiven, Me
    <2>4. Copies' = Copies
        BY <2>2 DEF Copies
    <2> QED
        BY <1>2, <2>3, <2>4, VaultSame
<1>4. CASE RestoreTruncate(me)
    <2>1. /\ pc[me] = "rsTrunc" /\ pc'[me] = "rsScript" /\ data' = data
        BY <1>1, <1>4 DEF RestoreTruncate, Inv, TypeInv, TypeOK
    <2>2. data[me] = Chunks(archive)
        BY <1>1, <2>1 DEF Inv, ExactInv
    <2>3. Kept = Chunks(archive) /\ Kept' = Chunks(archive)
        BY <1>1, <2>1, <2>2 DEF Kept, Me
    <2>4. BeingTaken' = BeingTaken /\ BeingGiven' = BeingGiven
        BY <1>1, <2>1 DEF BeingTaken, BeingGiven, Me
    <2>5. Copies' = Copies
        BY <2>3 DEF Copies
    <2> QED
        BY <1>2, <2>4, <2>5, VaultSame
<1> QED
    BY <1>3, <1>4

\* ... may find no chunk, and leaves all of them as they are then ...
LEMMA NothingSteps ==
    ASSUME NEW me, Calm(me), Inv, RestoreNothing(me)
    PROVE  UNCHANGED V!vars
<1>1. Me = me /\ me \in Instances
    BY InvAt
<1>2. /\ pc[me] = "rsScript" /\ pc'[me] = "rsDrop" /\ ~Found(data[me], cur[me])
      /\ data' = data /\ cur' = cur /\ scripts' = scripts
    BY <1>1 DEF RestoreNothing, Inv, TypeInv, TypeOK
<1>3. Kept = data[me] /\ Kept' = data[me]
    BY <1>1, <1>2 DEF Kept, Rest, Me
<1>4. BeingTaken' = BeingTaken /\ BeingGiven' = BeingGiven
    BY <1>1, <1>2 DEF BeingTaken, BeingGiven, Me
<1>5. Copies' = Copies
    BY <1>3 DEF Copies
<1> QED
    BY <1>2, <1>4, <1>5, VaultSame

\* ... removes the script ...
LEMMA RemoveSteps ==
    ASSUME NEW me, Calm(me), Inv, RestoreRemoveScript(me)
    PROVE  \E p \in Paths : V!Edit(p)
<1>1. Me = me /\ me \in Instances /\ cur[me] \in Paths
    BY InvAt
<1>2. /\ pc[me] = "rsScript" /\ pc'[me] = "rsCreate" /\ data' = data
      /\ scripts' = [scripts EXCEPT ![cur[me]] = NoFile]
    BY <1>1 DEF RestoreRemoveScript, Calm, Inv, TypeInv, TypeOK
<1>3. Kept' = Kept /\ BeingTaken' = BeingTaken /\ BeingGiven' = BeingGiven
    BY <1>1, <1>2 DEF Kept, BeingTaken, BeingGiven, Me
<1>4. Copies' = Copies
    BY <1>3 DEF Copies
<1> QED
    BY <1>1, <1>2, <1>3, <1>4 DEF V!Edit

\* ... gives the copy back ...
LEMMA GiveBackSteps ==
    ASSUME NEW me, Calm(me), Inv, RestoreCreateScript(me)
    PROVE  V!GiveBack(cur[me])
<1> DEFINE q == cur[me]
           s == data[me]
<1>1. /\ Me = me /\ me \in Instances /\ q \in Paths /\ s \in Seq(Chunk)
    BY InvAt
<1>2. /\ pc[me] = "rsCreate" /\ pc'[me] = "rsDrop" /\ data' = data /\ cur' = cur
      /\ scripts' = [scripts EXCEPT ![q] = s[Offset(s, q)].ver]
    BY <1>1 DEF RestoreCreateScript, Calm, Inv, TypeInv, TypeOK
<1>3. UniqueIn(s) /\ Found(s, q)
    BY <1>1, <1>2 DEF Inv, SoloInv, TypeInv, DataInv, InRestore
<1>4. Kept = s /\ Kept' = Rest(s, q)
    BY <1>1, <1>2 DEF Kept, Me
<1>5. CopyIn(s, q) = s[Offset(s, q)].ver /\ CopyIn(s, q) # NoFile
    BY <1>1, <1>3, CopyIsContent DEF CopyIn
<1>6. /\ CopyIn(Rest(s, q), q) = NoFile
      /\ \A p : p # q => CopyIn(Rest(s, q), p) = CopyIn(s, p)
    BY <1>1, <1>3, CopyRest
<1>9. Found(data'[me], cur'[me])
    BY <1>2, <1>3
<1> HIDE DEF s
<1>7. Copies' = [Copies EXCEPT ![q] = NoFile] /\ Copies[q] = CopyIn(s, q)
    BY <1>1, <1>4, <1>6 DEF Copies
<1>8. /\ BeingTaken = NoFile /\ BeingTaken' = NoFile
      /\ BeingGiven = NoFile /\ BeingGiven' = q
    BY <1>1, <1>2, <1>9 DEF BeingTaken, BeingGiven, Me
<1> QED
    BY <1>2, <1>5, <1>7, <1>8 DEF V!GiveBack

\* ... and writes the other chunks, if there are any.
LEMMA DropSteps ==
    ASSUME NEW me, Calm(me), Inv, RestoreDrop(me)
    PROVE  (V!Done \/ UNCHANGED V!vars) /\ pc' = [pc EXCEPT ![me] = "rescan"]
<1> DEFINE r == Rest(data[me], cur[me])
<1>1. Me = me /\ me \in Instances /\ cur[me] \in Paths /\ data[me] \in Seq(Chunk)
    BY InvAt
<1>2. r \in Seq(Chunk)
    BY <1>1, RestOfChunks
<1>3. pc[me] = "rsDrop" /\ m_sErrCode[me] = 0 /\ me \in writers
    BY <1>1 DEF RestoreDrop, Inv, ExactInv
<1>4. scripts' = scripts /\ cur' = cur /\ pc' = [pc EXCEPT ![me] = "rescan"]
    BY <1>3 DEF RestoreDrop
<1>5. \/ r = <<>> /\ archive' = NoArchive
      \/ archive' = r
    BY <1>3 DEF RestoreDrop, Write, Calm
<1>6. pc'[me] = "rescan"
    BY <1>1, <1>4 DEF Inv, TypeInv, TypeOK
<1>7. Kept = r /\ Kept' = Chunks(archive')
    BY <1>1, <1>3, <1>6 DEF Kept, Me
<1> HIDE DEF r
<1>8. Chunks(archive') = r
    <2>1. CASE r = <<>> /\ archive' = NoArchive
        BY <2>1 DEF Chunks
    <2>2. CASE archive' = r
        BY <1>2, <2>2, ChunksOfSeq
    <2> QED
        BY <1>5, <2>1, <2>2
<1>9. Copies' = Copies
    BY <1>7, <1>8 DEF Copies
<1>10. /\ BeingTaken = NoFile /\ BeingTaken' = NoFile
       /\ BeingGiven \in {cur[me], NoFile} /\ BeingGiven' = NoFile
    BY <1>1, <1>3, <1>6 DEF BeingTaken, BeingGiven, Me
<1>11. CASE BeingGiven = cur[me]
    BY <1>1, <1>4, <1>9, <1>10, <1>11, BackUperAssumption DEF V!Done
<1>12. CASE BeingGiven = NoFile
    BY <1>4, <1>9, <1>10, <1>12, VaultSame
<1> QED
    BY <1>4, <1>10, <1>11, <1>12

-----------------------------------------------------------------------------
(* The list stays exact.                                                   *)

LEMMA ExactInit ==
    ASSUME NEW me, Calm(me), Init
    PROVE  ExactInv
BY DEF Init, ExactInv, Calm, Off, InRestore

LEMMA ExactSame == ExactInv /\ UNCHANGED vars => ExactInv'
<1> SUFFICES ASSUME ExactInv, UNCHANGED vars PROVE ExactInv'
    OBVIOUS
<1>1. /\ archive' = archive /\ writers' = writers /\ mArchiveFiles' = mArchiveFiles
      /\ m_sErrCode' = m_sErrCode /\ pc' = pc /\ cur' = cur /\ data' = data
    BY DEF vars
<1> QED
    BY <1>1 DEF ExactInv

\* Nothing records an error.
LEMMA NoErrors ==
    ASSUME NEW me, Calm(me), Inv, Next
    PROVE  m_sErrCode'[me] = 0
<1>1. me \in Instances /\ m_sErrCode[me] = 0 /\ m_sErrCode \in [Instances -> {0, 1}]
    BY InvAt DEF Inv, ExactInv, TypeInv, TypeOK
<1>2. CASE \E p \in Paths : EditScript(p)
    BY <1>1, <1>2 DEF EditScript
<1>3. CASE Start(me) \/ FindProccedure(me) \/ Stop(me)
    BY <1>1, <1>3 DEF Start, FindProccedure, Stop, InitArchive
<1>4. CASE \E p \in Paths : BackUpNoScript(me, p) \/ BackUpPrepare(me, p)
    BY <1>1, <1>4 DEF BackUpNoScript, BackUpPrepare, BackUpEnds
<1>5. CASE BackUpReadFails(me) \/ BackUpRead(me) \/ BackUpTruncateFails(me)
    BY <1>1, <1>5 DEF BackUpReadFails, BackUpRead, BackUpTruncateFails, BackUpEnds
<1>6. CASE BackUpTruncate(me) \/ BackUpWrite(me)
    BY <1>1, <1>6 DEF BackUpTruncate, BackUpWrite, BackUpEnds
<1>7. CASE \E p \in Paths : RestoreOpenFails(me, p) \/ RestoreOpen(me, p)
    BY <1>1, <1>7 DEF RestoreOpenFails, RestoreOpen, Calm
<1>8. CASE RestoreTruncate(me) \/ RestoreNothing(me) \/ RestoreRemoveScript(me)
    BY <1>1, <1>8 DEF RestoreTruncate, RestoreNothing, RestoreRemoveScript, Calm
<1>9. CASE RestoreCreateScript(me) \/ RestoreDrop(me)
    BY <1>1, <1>9 DEF RestoreCreateScript, RestoreDrop, Calm
<1> QED
    BY <1>2, <1>3, <1>4, <1>5, <1>6, <1>7, <1>8, <1>9 DEF Next, Calm

\* The rest of ExactInv depends on where the step leads.
LEMMA ExactBecomes ==
    ASSUME NEW me, Calm(me), m_sErrCode'[me] = 0,
           pc'[me] \in {"idle", "bkRead", "rsTrunc"} => mArchiveFiles'[me] = Listed(archive'),
           pc'[me] = "bkRead" => mArchiveFiles'[me] # {},
           pc'[me] \in {"bkTrunc", "bkWrite"} \cup InRestore =>
               mArchiveFiles'[me] = Listed(data'[me]),
           pc'[me] = "bkTrunc" =>
               \A p \in Paths \ {cur'[me]} :
                   CopyIn(data'[me], p) = CopyIn(Chunks(archive'), p),
           pc'[me] = "rsTrunc" => data'[me] = Chunks(archive'),
           pc'[me] = "rsCreate" => Found(data'[me], cur'[me]),
           pc'[me] \in {"bkWrite", "rsScript", "rsCreate", "rsDrop"} =>
               me \in writers' /\ archive' = <<>>
    PROVE  ExactInv'
BY DEF ExactInv, Calm

LEMMA ExactQuiet ==
    ASSUME NEW me, Calm(me), Inv, NEW p \in Paths,
           EditScript(p) \/ Start(me) \/ FindProccedure(me) \/ Stop(me) \/ BackUpNoScript(me, p)
    PROVE  ExactInv'
<1>1. /\ me \in Instances /\ pc \in [Instances -> Labels]
      /\ mArchiveFiles \in [Instances -> SUBSET Paths]
    BY InvAt DEF Inv, TypeInv, TypeOK
<1>2. m_sErrCode'[me] = 0
    BY NoErrors DEF Next, Calm
<1>3. CASE EditScript(p)
    <2>1. /\ archive' = archive /\ writers' = writers /\ mArchiveFiles' = mArchiveFiles
          /\ pc' = pc /\ cur' = cur /\ data' = data /\ m_sErrCode' = m_sErrCode
        BY <1>3 DEF EditScript
    <2> QED
        BY <2>1 DEF Inv, ExactInv
<1>4. CASE Start(me) \/ FindProccedure(me)
    <2>1. /\ pc'[me] = "idle" /\ archive' = archive
          /\ mArchiveFiles'[me] = Listed(archive)
        BY <1>1, <1>4 DEF Start, FindProccedure, InitArchive, Calm
    <2> QED
        BY <1>2, <2>1, ExactBecomes DEF InRestore
<1>5. CASE Stop(me)
    <2>1. pc'[me] = "off"
        BY <1>1, <1>5 DEF Stop, Off
    <2> QED
        BY <1>2, <2>1, ExactBecomes DEF InRestore
<1>6. CASE BackUpNoScript(me, p)
    <2>1. /\ pc[me] = "idle" /\ pc'[me] = "idle" /\ archive' = archive
          /\ mArchiveFiles' = mArchiveFiles
        BY <1>1, <1>6 DEF BackUpNoScript, BackUpEnds
    <2>2. mArchiveFiles[me] = Listed(archive)
        BY <1>1, <2>1 DEF Inv, ExactInv
    <2> QED
        BY <1>2, <2>1, <2>2, ExactBecomes DEF InRestore
<1> QED
    BY <1>3, <1>4, <1>5, <1>6

LEMMA ExactPrepare ==
    ASSUME NEW me, Calm(me), Inv, NEW p \in Paths, BackUpPrepare(me, p)
    PROVE  ExactInv'
<1>1. /\ me \in Instances /\ pc[me] = "idle" /\ archive' = archive /\ cur'[me] = p
      /\ mArchiveFiles[me] = Listed(archive)
      /\ data'[me] = <<[path |-> p, ver |-> scripts[p]]>> /\ scripts[p] \in Content
    BY InvAt DEF BackUpPrepare, Inv, ExactInv, TypeInv, TypeOK
<1>2. m_sErrCode'[me] = 0
    BY NoErrors DEF Next, Calm
<1>3. CASE mArchiveFiles[me] # {}
    <2>1. pc'[me] = "bkRead" /\ mArchiveFiles' = mArchiveFiles
        BY <1>1, <1>3 DEF BackUpPrepare, Inv, TypeInv, TypeOK
    <2> QED
        BY <1>1, <1>2, <1>3, <2>1, ExactBecomes DEF InRestore
<1>4. CASE mArchiveFiles[me] = {}
    <2> DEFINE s == <<[path |-> p, ver |-> scripts[p]]>>
    <2>1. pc'[me] = "bkTrunc" /\ mArchiveFiles'[me] = {p}
        BY <1>1, <1>4 DEF BackUpPrepare, Inv, TypeInv, TypeOK
    <2>2. s \in Seq(Chunk) /\ Len(s) = 1 /\ s[1].path = p /\ data'[me] = s
        BY <1>1, OneChunk
    <2> HIDE DEF s
    <2>3. DOMAIN s = 1..1 /\ Chunks(s) = s
        BY <2>2, LenProperties, ChunksOfSeq
    <2>4. Listed(s) = {p}
        BY <2>2, <2>3 DEF Listed
    <2>5. \A q \in Paths \ {p} : ~Found(s, q) /\ ~Found(Chunks(archive), q)
        <3>1. \A q \in Paths \ {p} : ~Found(s, q)
            BY <2>2, <2>3 DEF Found
        <3>2. \A q : ~Found(Chunks(archive), q)
            BY <1>1, <1>4, ListedFound
        <3> QED
            BY <3>1, <3>2
    <2>6. \A q \in Paths \ {p} : CopyIn(s, q) = CopyIn(Chunks(archive), q)
        BY <2>5 DEF CopyIn
    <2>7. mArchiveFiles'[me] = Listed(data'[me])
        BY <2>1, <2>2, <2>4
    <2>8. \A q \in Paths \ {cur'[me]} : CopyIn(data'[me], q) = CopyIn(Chunks(archive'), q)
        BY <1>1, <2>2, <2>6
    <2> QED
        BY <1>2, <2>1, <2>7, <2>8, ExactBecomes DEF InRestore
<1> QED
    BY <1>3, <1>4

LEMMA ExactRead ==
    ASSUME NEW me, Calm(me), Inv, BackUpRead(me)
    PROVE  ExactInv'
<1>1. /\ me \in Instances /\ pc[me] = "bkRead" /\ archive' = archive /\ cur' = cur
      /\ pc'[me] = "bkTrunc" /\ cur[me] \in Paths
      /\ mArchiveFiles'[me] = mArchiveFiles[me] \cup {cur[me]}
    BY InvAt DEF BackUpRead, Inv, TypeInv, TypeOK
<1>2. m_sErrCode'[me] = 0
    BY NoErrors DEF Next, Calm
<1>3. mArchiveFiles[me] = Listed(archive)
    BY <1>1 DEF Inv, ExactInv
<1>4. \A q : q \in Listed(data'[me]) <=> q \in Listed(archive) \/ q = cur[me]
    <2>1. Chunks(data'[me]) = data'[me]
        BY ReadFacts, ChunksOfSeq
    <2> QED
        BY <2>1, ReadFacts, ListedFound
<1>5. mArchiveFiles'[me] = Listed(data'[me])
    BY <1>1, <1>3, <1>4
<1>6. \A q \in Paths \ {cur'[me]} : CopyIn(data'[me], q) = CopyIn(Chunks(archive'), q)
    BY <1>1, ReadFacts
<1> QED
    BY <1>1, <1>2, <1>5, <1>6, ExactBecomes DEF InRestore

LEMMA ExactWrite ==
    ASSUME NEW me, Calm(me), Inv, BackUpTruncate(me) \/ BackUpWrite(me)
    PROVE  ExactInv'
<1>1. me \in Instances /\ pc \in [Instances -> Labels]
    BY InvAt DEF Inv, TypeInv, TypeOK
<1>2. m_sErrCode'[me] = 0
    BY NoErrors DEF Next, Calm
<1>3. CASE BackUpTruncate(me)
    <2>1. /\ pc[me] = "bkTrunc" /\ pc'[me] = "bkWrite" /\ data' = data
          /\ mArchiveFiles' = mArchiveFiles /\ me \in writers' /\ archive' = <<>>
        BY <1>1, <1>3 DEF BackUpTruncate
    <2>2. mArchiveFiles[me] = Listed(data[me])
        BY <1>1, <2>1 DEF Inv, ExactInv
    <2> QED
        BY <1>2, <2>1, <2>2, ExactBecomes DEF InRestore
<1>4. CASE BackUpWrite(me)
    <2>1. /\ pc[me] = "bkWrite" /\ pc'[me] = "idle" /\ mArchiveFiles' = mArchiveFiles
          /\ archive' = data[me]
        BY <1>1, <1>4, WriteSteps DEF BackUpWrite, BackUpEnds
    <2>2. mArchiveFiles[me] = Listed(data[me])
        BY <1>1, <2>1 DEF Inv, ExactInv
    <2> QED
        BY <1>2, <2>1, <2>2, ExactBecomes DEF InRestore
<1> QED
    BY <1>3, <1>4

LEMMA ExactRestore ==
    ASSUME NEW me, Calm(me), Inv,
           \/ \E p \in Paths : RestoreOpen(me, p)
           \/ RestoreTruncate(me)
           \/ RestoreNothing(me)
           \/ RestoreRemoveScript(me)
           \/ RestoreCreateScript(me)
           \/ RestoreDrop(me)
    PROVE  ExactInv'
<1>1. me \in Instances /\ pc \in [Instances -> Labels] /\ Chunks(Chunks(archive)) = Chunks(archive)
    BY InvAt DEF Inv, TypeInv, TypeOK
<1>2. m_sErrCode'[me] = 0
    BY NoErrors DEF Next, Calm
<1>3. CASE \E p \in Paths : RestoreOpen(me, p)
    <2>1. PICK p \in Paths : RestoreOpen(me, p)
        BY <1>3
    <2>2. /\ pc[me] = "idle" /\ pc'[me] = "rsTrunc"
          /\ archive' = Chunks(archive) /\ cur'[me] = p /\ data'[me] = Chunks(archive)
          /\ mArchiveFiles' = mArchiveFiles
        BY <1>1, <2>1 DEF RestoreOpen, Inv, TypeInv, TypeOK
    <2>3. mArchiveFiles[me] = Listed(archive)
        BY <1>1, <2>2 DEF Inv, ExactInv
    <2>4. Listed(Chunks(archive)) = Listed(archive)
        BY <1>1 DEF Listed
    <2>5. Listed(archive') = Listed(archive)
        BY <1>1, <2>2 DEF Listed
    <2> QED
        BY <1>1, <1>2, <2>2, <2>3, <2>4, <2>5, ExactBecomes
<1>4. CASE \/ RestoreTruncate(me) \/ RestoreNothing(me) \/ RestoreRemoveScript(me)
           \/ RestoreCreateScript(me)
    <2>1. /\ pc[me] \in InRestore /\ pc'[me] \in {"rsScript", "rsCreate", "rsDrop"}
          /\ data' = data /\ cur' = cur /\ mArchiveFiles' = mArchiveFiles
        BY <1>1, <1>4 DEF RestoreTruncate, RestoreNothing, RestoreRemoveScript,
                          RestoreCreateScript, InRestore
    <2>2. mArchiveFiles[me] = Listed(data[me])
        BY <1>1, <2>1 DEF Inv, ExactInv
    <2>4. pc'[me] = "rsCreate" => Found(data[me], cur[me])
        BY <1>1, <1>4 DEF RestoreTruncate, RestoreNothing, RestoreRemoveScript,
                          RestoreCreateScript
    <2>3. me \in writers' /\ archive' = <<>>
        <3>1. CASE RestoreTruncate(me)
            BY <3>1 DEF RestoreTruncate, Calm
        <3>2. CASE RestoreNothing(me) \/ RestoreRemoveScript(me) \/ RestoreCreateScript(me)
            <4>1. /\ pc[me] \in {"rsScript", "rsCreate"}
                  /\ writers' = writers /\ archive' = archive
                BY <3>2 DEF RestoreNothing, RestoreRemoveScript, RestoreCreateScript
            <4> QED
                BY <1>1, <4>1 DEF Inv, ExactInv
        <3> QED
            BY <1>4, <3>1, <3>2
    <2> QED
        BY <1>2, <2>1, <2>2, <2>3, <2>4, ExactBecomes
<1>5. CASE RestoreDrop(me)
    <2>1. pc'[me] = "rescan"
        BY <1>1, <1>5, DropSteps
    <2> QED
        BY <1>2, <2>1, ExactBecomes DEF InRestore
<1> QED
    BY <1>3, <1>4, <1>5

-----------------------------------------------------------------------------
(* The theorems about one instance whose file operations do not fail.      *)

LEMMA InvInit ==
    ASSUME NEW me, Calm(me), Init
    PROVE  Inv
BY TypeInit, SoloInit, ExactInit DEF Inv

LEMMA InvStep ==
    ASSUME NEW me, Calm(me), Inv, [Next]_vars
    PROVE  Inv'
<1>1. TypeInv' /\ SoloInv'
    BY SoloStep DEF Inv, Calm
<1>2. ExactInv'
    <2>1. CASE UNCHANGED vars
        BY <2>1, ExactSame DEF Inv
    <2>2. CASE Next
        <3>1. CASE \E p \in Paths : EditScript(p) \/ BackUpNoScript(me, p)
            BY <3>1, ExactQuiet
        <3>2. CASE Start(me) \/ FindProccedure(me) \/ Stop(me)
            <4>1. cur[me] \in Paths
                BY InvAt
            <4> QED
                BY <3>2, <4>1, ExactQuiet
        <3>3. CASE \E p \in Paths : BackUpPrepare(me, p)
            BY <3>3, ExactPrepare
        <3>4. CASE BackUpReadFails(me)
            BY <3>4, ReadsSucceed
        <3>5. CASE BackUpTruncateFails(me) \/ \E p \in Paths : RestoreOpenFails(me, p)
            BY <3>5 DEF BackUpTruncateFails, RestoreOpenFails, Calm
        <3>6. CASE BackUpRead(me)
            BY <3>6, ExactRead
        <3>7. CASE BackUpTruncate(me) \/ BackUpWrite(me)
            BY <3>7, ExactWrite
        <3>8. CASE \/ \E p \in Paths : RestoreOpen(me, p)
                   \/ RestoreTruncate(me)
                   \/ RestoreNothing(me)
                   \/ RestoreRemoveScript(me)
                   \/ RestoreCreateScript(me)
                   \/ RestoreDrop(me)
            BY <3>8, ExactRestore
        <3> QED
            BY <2>2, <3>1, <3>2, <3>3, <3>4, <3>5, <3>6, <3>7, <3>8 DEF Next, Calm
    <2> QED
        BY <2>1, <2>2
<1> QED
    BY <1>1, <1>2 DEF Inv

LEMMA Invariant ==
    ASSUME NEW me, Calm(me)
    PROVE  Spec => []Inv
<1>1. Init => Inv
    BY InvInit
<1>2. Inv /\ [Next]_vars => Inv'
    BY InvStep
<1> QED
    BY <1>1, <1>2, PTL DEF Spec

\* While no file operation fails, the icon of a script shows between operations whether the
\* archive has a copy of it, also after a crash (InitArchive, BackUp, models.h:115).
THEOREM IconsAreTrue ==
    ASSUME NEW me, Calm(me)
    PROVE  Spec => []IconShowsBackup
<1>1. Inv => IconShowsBackup
    BY DEF Inv, ExactInv, IconShowsBackup
<1>2. Spec => []Inv
    BY Invariant
<1> QED
    BY <1>1, <1>2, PTL

\* The file that a backup has truncated is still the archive when it is written.
OpenInv(me) == pc[me] = "bkWrite" => me \in writers

LEMMA OpenStep ==
    ASSUME NEW me, Instances = {me}, TypeInv, OpenInv(me), [Next]_vars
    PROVE  OpenInv(me)'
<1>1. me \in Instances /\ pc \in [Instances -> Labels]
    BY DEF TypeInv, TypeOK
<1>2. CASE UNCHANGED vars \/ \E p \in Paths : EditScript(p)
    <2>1. pc' = pc /\ writers' = writers
        BY <1>2 DEF vars, EditScript
    <2> QED
        BY <2>1 DEF OpenInv
<1>3. CASE BackUpTruncate(me)
    BY <1>3 DEF BackUpTruncate, OpenInv
<1>4. CASE Start(me) \/ FindProccedure(me) \/ Stop(me)
    BY <1>1, <1>4 DEF Start, FindProccedure, Stop, Off, OpenInv
<1>5. CASE \E p \in Paths : BackUpNoScript(me, p) \/ BackUpPrepare(me, p)
    BY <1>1, <1>5 DEF BackUpNoScript, BackUpPrepare, BackUpEnds, OpenInv
<1>6. CASE BackUpReadFails(me) \/ BackUpRead(me) \/ BackUpTruncateFails(me) \/ BackUpWrite(me)
    BY <1>1, <1>6 DEF BackUpReadFails, BackUpRead, BackUpTruncateFails, BackUpWrite, BackUpEnds,
                      OpenInv
<1>7. CASE \E p \in Paths : RestoreOpenFails(me, p) \/ RestoreOpen(me, p)
    BY <1>1, <1>7 DEF RestoreOpenFails, RestoreOpen, OpenInv
<1>8. CASE \/ RestoreTruncate(me) \/ RestoreNothing(me) \/ RestoreRemoveScript(me)
           \/ RestoreCreateScript(me) \/ RestoreDrop(me)
    BY <1>1, <1>8 DEF RestoreTruncate, RestoreNothing, RestoreRemoveScript,
                      RestoreCreateScript, RestoreDrop, OpenInv
<1> QED
    BY <1>2, <1>3, <1>4, <1>5, <1>6, <1>7, <1>8 DEF Next

\* "Backup is success" is shown with the step that puts the copy into the archive
\* (se3.cpp:448): whatever fails, but for a write that stores nothing.
THEOREM BackUpsAreTold ==
    ASSUME NEW me, Instances = {me}, "write" \notin Faults
    PROVE  Spec => BackUpTellsTruth
<1> DEFINE Told(i) == /\ Found(Chunks(archive'), cur[i])
                      /\ archive'[Offset(archive', cur[i])].ver = latest'[cur[i]]
           Step == \A i \in Instances :
                      outcome[i] # "backedUp" /\ outcome'[i] = "backedUp" => Told(i)
           BackUpInv == TypeInv /\ OpenInv(me)
<1>1. Init => BackUpInv
    BY TypeInit DEF Init, OpenInv, Off
<1>2. BackUpInv /\ [Next]_vars => BackUpInv'
    BY TypeStep, OpenStep
<1>3. BackUpInv /\ [Next]_vars => [Step]_vars
    <2> SUFFICES ASSUME BackUpInv, Next, outcome[me] # "backedUp", outcome'[me] = "backedUp"
                 PROVE  Told(me)
        OBVIOUS
    <2>1. /\ me \in Instances /\ outcome \in [Instances -> Outcomes]
          /\ latest \in [Paths -> Content \cup {NoFile}] /\ cur[me] \in Paths
          /\ data[me] \in Seq(Chunk)
        BY DEF TypeInv, TypeOK
    <2>2. BackUpWrite(me)
        <3>1. ~(\E p \in Paths : EditScript(p))
            BY DEF EditScript
        <3>2. ~(Start(me) \/ FindProccedure(me) \/ Stop(me))
            BY <2>1 DEF Start, FindProccedure, Stop
        <3>3. ~(\E p \in Paths : BackUpNoScript(me, p) \/ BackUpPrepare(me, p))
            BY <2>1 DEF BackUpNoScript, BackUpPrepare, BackUpEnds
        <3>4. ~(BackUpReadFails(me) \/ BackUpRead(me) \/ BackUpTruncateFails(me)
                \/ BackUpTruncate(me))
            BY <2>1 DEF BackUpReadFails, BackUpRead, BackUpTruncateFails, BackUpTruncate,
                        BackUpEnds
        <3>5. ~(\E p \in Paths : RestoreOpenFails(me, p) \/ RestoreOpen(me, p))
            BY <2>1 DEF RestoreOpenFails, RestoreOpen
        <3>6. ~(RestoreTruncate(me) \/ RestoreNothing(me) \/ RestoreRemoveScript(me)
                \/ RestoreCreateScript(me) \/ RestoreDrop(me))
            BY <2>1 DEF RestoreTruncate, RestoreNothing, RestoreRemoveScript,
                        RestoreCreateScript, RestoreDrop
        <3> QED
            BY <3>1, <3>2, <3>3, <3>4, <3>5, <3>6 DEF Next
    <2>3. archive' = data[me] /\ Chunks(data[me]) = data[me]
        <3>1. me \in writers
            BY <2>2 DEF BackUpWrite, OpenInv
        <3> QED
            BY <2>1, <2>2, <3>1, ChunksOfSeq DEF BackUpWrite, Write
    <2>4. Found(data[me], cur[me])
        BY <2>1, <2>2 DEF BackUpWrite, TypeInv, DataInv
    <2>5. latest'[cur[me]] = data[me][Offset(data[me], cur[me])].ver
        BY <2>1, <2>2 DEF BackUpWrite
    <2> QED
        BY <2>3, <2>4, <2>5
<1>4. Spec => [][Step]_vars
    BY <1>1, <1>2, <1>3, PTL DEF Spec
<1> QED
    BY <1>4 DEF BackUpTellsTruth

\* For a script that is listed "The script was successfully restored" is shown only after
\* its copy was found (se3.cpp:470).
THEOREM RestoresAreTold ==
    ASSUME NEW me, Calm(me)
    PROVE  Spec => ListedIsRestored
<1> DEFINE Step == \A i \in Instances :
                      /\ outcome[i] # "restored" /\ outcome'[i] = "restored"
                      /\ cur[i] \in mArchiveFiles[i]
                      => Found(data[i], cur[i])
<1>1. Inv /\ [Next]_vars => [Step]_vars
    <2> SUFFICES ASSUME Inv, Next, outcome[me] # "restored", outcome'[me] = "restored",
                        cur[me] \in mArchiveFiles[me]
                 PROVE  Found(data[me], cur[me])
        BY DEF Calm
    <2>1. me \in Instances /\ outcome \in [Instances -> Outcomes]
        BY InvAt DEF Inv, TypeInv, TypeOK
    <2>2. RestoreDrop(me)
        <3>1. ~(\E p \in Paths : EditScript(p))
            BY DEF EditScript
        <3>2. ~(Start(me) \/ FindProccedure(me) \/ Stop(me))
            BY <2>1 DEF Start, FindProccedure, Stop
        <3>3. ~(\E p \in Paths : BackUpNoScript(me, p) \/ BackUpPrepare(me, p))
            BY <2>1 DEF BackUpNoScript, BackUpPrepare, BackUpEnds
        <3>4. ~(BackUpReadFails(me) \/ BackUpRead(me) \/ BackUpTruncateFails(me)
                \/ BackUpTruncate(me) \/ BackUpWrite(me))
            BY <2>1 DEF BackUpReadFails, BackUpRead, BackUpTruncateFails, BackUpTruncate,
                        BackUpWrite, BackUpEnds
        <3>5. ~(\E p \in Paths : RestoreOpenFails(me, p) \/ RestoreOpen(me, p))
            BY <2>1 DEF RestoreOpenFails, RestoreOpen
        <3>6. ~(RestoreTruncate(me) \/ RestoreNothing(me) \/ RestoreRemoveScript(me)
                \/ RestoreCreateScript(me))
            BY <2>1 DEF RestoreTruncate, RestoreNothing, RestoreRemoveScript,
                        RestoreCreateScript
        <3> QED
            BY <3>1, <3>2, <3>3, <3>4, <3>5, <3>6 DEF Next, Calm
    <2> QED
        <3>1. mArchiveFiles[me] = Listed(data[me])
            BY <2>1, <2>2 DEF RestoreDrop, Inv, ExactInv, InRestore
        <3> QED
            BY <2>1, <3>1, InvAt DEF Listed, Chunks, Found
<1>2. Spec => []Inv
    BY Invariant
<1>3. Spec => [][Step]_vars
    BY <1>1, <1>2, PTL DEF Spec
<1> QED
    BY <1>3 DEF ListedIsRestored

\* The archive of one program, while no file operation fails, is the vault: a backup
\* replaces one copy with what was on the disk, a restore takes one copy out and puts it on
\* the disk, and nothing else changes a copy but a crash, which loses all of them or none
\* (BackUp, RestoreFileFromArchive).
THEOREM ArchiveIsVault ==
    ASSUME NEW me, Calm(me)
    PROVE  Spec => VaultSpec
<1>1. Init => V!Init
    <2> SUFFICES ASSUME Init PROVE V!Init
        OBVIOUS
    <2>1. Me = me /\ me \in Instances
        BY DEF Me, Calm
    <2>2. pc[me] = "off" /\ archive = NoArchive
        BY <2>1 DEF Init, Off
    <2>3. Kept = <<>> /\ BeingTaken = NoFile /\ BeingGiven = NoFile
        BY <2>1, <2>2 DEF Kept, BeingTaken, BeingGiven, Chunks
    <2>4. Copies = [p \in Paths |-> NoFile]
        BY <2>3 DEF Copies, CopyIn, Found
    <2> QED
        BY <2>3, <2>4 DEF V!Init, Init
<1>2. Inv /\ [Next]_vars => [V!Next]_(V!vars)
    <2> SUFFICES ASSUME Inv, [Next]_vars PROVE V!Next \/ UNCHANGED V!vars
        OBVIOUS
    <2>1. CASE UNCHANGED vars
        <3>1. /\ pc' = pc /\ archive' = archive /\ data' = data /\ cur' = cur
              /\ scripts' = scripts
            BY <2>1 DEF vars
        <3>2. Kept' = Kept /\ BeingTaken' = BeingTaken /\ BeingGiven' = BeingGiven
            BY <3>1 DEF Kept, BeingTaken, BeingGiven
        <3>3. Copies' = Copies
            BY <3>2 DEF Copies
        <3> QED
            BY <3>1, <3>2, <3>3, VaultSame
    <2>2. CASE \E p \in Paths : EditScript(p)
        BY <2>2, EditSteps DEF V!Next
    <2>3. CASE \E p \in Paths : BackUpNoScript(me, p)
        BY <2>3, QuietSteps
    <2>4. CASE Start(me) \/ FindProccedure(me)
        <3>1. cur[me] \in Paths
            BY InvAt
        <3> QED
            BY <2>4, <3>1, QuietSteps
    <2>14. CASE Stop(me)
        BY <2>14, StopSteps DEF V!Next
    <2>5. CASE \E p \in Paths : BackUpPrepare(me, p)
        BY <2>5, TakeSteps DEF V!Next
    <2>6. CASE BackUpReadFails(me) \/ RestoreNothing(me)
        BY <2>6, ReadsSucceed, NothingSteps
    <2>7. CASE BackUpTruncateFails(me) \/ \E p \in Paths : RestoreOpenFails(me, p)
        BY <2>7 DEF BackUpTruncateFails, RestoreOpenFails, Calm
    <2>8. CASE BackUpRead(me) \/ BackUpWrite(me)
        BY <2>8, ReadSteps, WriteSteps
    <2>9. CASE BackUpTruncate(me)
        BY <2>9, StoreSteps DEF V!Next
    <2>10. CASE (\E p \in Paths : RestoreOpen(me, p)) \/ RestoreTruncate(me)
        BY <2>10, OpenSteps
    <2>11. CASE RestoreRemoveScript(me)
        BY <2>11, RemoveSteps DEF V!Next
    <2>12. CASE RestoreCreateScript(me)
        BY <2>12, GiveBackSteps, InvAt DEF V!Next
    <2>13. CASE RestoreDrop(me)
        BY <2>13, DropSteps DEF V!Next
    <2> QED
        BY <2>1, <2>2, <2>3, <2>4, <2>5, <2>6, <2>7, <2>8, <2>9, <2>10, <2>11, <2>12, <2>13,
           <2>14 DEF Next, Calm
<1>3. Spec => []Inv
    BY Invariant
<1> QED
    BY <1>1, <1>2, <1>3, PTL DEF Spec, VaultSpec, V!Spec
-----------------------------------------------------------------------------
(* Any number of instances and all faults.                                 *)

\* A removed archive has no writer left.
GoneInv == archive = NoArchive => writers = {}

LEMMA GoneSteps ==
    ASSUME TypeInv, GoneInv, NEW i \in Instances,
           \/ Start(i) \/ FindProccedure(i) \/ Stop(i)
           \/ \E p \in Paths : BackUpNoScript(i, p) \/ BackUpPrepare(i, p)
           \/ BackUpReadFails(i) \/ BackUpRead(i) \/ BackUpTruncateFails(i)
           \/ BackUpTruncate(i) \/ BackUpWrite(i)
           \/ \E p \in Paths : RestoreOpenFails(i, p) \/ RestoreOpen(i, p)
           \/ RestoreTruncate(i) \/ RestoreNothing(i) \/ RestoreRemoveScript(i)
           \/ RestoreCreateScript(i) \/ RestoreDrop(i)
    PROVE  GoneInv' /\ (archive = NoArchive /\ archive' # NoArchive => archive' = <<>>)
<1>1. /\ archive \in Seq(Chunk) \cup {NoArchive} /\ data[i] \in Seq(Chunk)
      /\ <<>> \in Seq(Chunk) /\ <<>> # NoArchive
    BY EmptySeq, BackUperAssumption DEF TypeInv, TypeOK
<1>2. CASE archive' = archive /\ writers' \in {writers, writers \ {i}}
    BY <1>2 DEF GoneInv
<1>3. CASE BackUpTruncate(i) \/ RestoreTruncate(i)
    <2>1. archive' = <<>> \/ (archive' = archive /\ writers' = writers)
        BY <1>3 DEF BackUpTruncate, RestoreTruncate
    <2> QED
        BY <1>1, <2>1 DEF GoneInv
<1>4. CASE \E p \in Paths : RestoreOpen(i, p)
    <2>1. archive' = Chunks(archive)
        BY <1>4 DEF RestoreOpen
    <2>2. archive' # NoArchive
        BY <1>1, <2>1, BackUperAssumption DEF Chunks
    <2>3. archive = NoArchive => archive' = <<>>
        BY <2>1 DEF Chunks
    <2> QED
        BY <2>2, <2>3 DEF GoneInv
<1>5. CASE BackUpWrite(i) \/ RestoreDrop(i)
    <2> DEFINE r == Rest(data[i], cur[i])
    <2>1. r \in Seq(Chunk)
        BY <1>1, RestOfChunks
    <2>2. \/ archive' = NoArchive /\ writers' = {}
          \/ /\ writers' = writers \ {i}
             /\ archive' = archive \/ (i \in writers /\ archive' \in {data[i], r})
        BY <1>5 DEF BackUpWrite, RestoreDrop, Write
    <2> HIDE DEF r
    <2>3. data[i] # NoArchive /\ r # NoArchive
        BY <1>1, <2>1, BackUperAssumption
    <2> QED
        BY <2>2, <2>3 DEF GoneInv
<1>6. CASE \/ Start(i) \/ FindProccedure(i) \/ Stop(i)
           \/ \E p \in Paths : BackUpNoScript(i, p) \/ BackUpPrepare(i, p)
           \/ BackUpReadFails(i) \/ BackUpRead(i) \/ BackUpTruncateFails(i)
           \/ \E p \in Paths : RestoreOpenFails(i, p)
           \/ RestoreNothing(i) \/ RestoreRemoveScript(i) \/ RestoreCreateScript(i)
    <2>1. archive' = archive /\ writers' \in {writers, writers \ {i}}
        BY <1>6 DEF Start, FindProccedure, Stop, BackUpNoScript, BackUpPrepare, BackUpReadFails,
                    BackUpRead, BackUpTruncateFails, RestoreOpenFails, RestoreNothing,
                    RestoreRemoveScript, RestoreCreateScript
    <2> QED
        BY <1>2, <2>1
<1> QED
    BY <1>3, <1>4, <1>5, <1>6

\* However many programs share an archive and whatever fails, one that was removed because
\* its last chunk was given back is made anew, and empty, by an open only
\* (backuper.cpp:287-295).
THEOREM NothingRevives == Spec => NoRevival
<1> DEFINE Step == archive = NoArchive /\ archive' # NoArchive => archive' = <<>>
<1>1. Init => TypeInv /\ GoneInv
    BY TypeInit DEF Init, GoneInv
<1>2. TypeInv /\ GoneInv /\ [Next]_vars => GoneInv' /\ [Step]_archive
    <2> SUFFICES ASSUME TypeInv, GoneInv, [Next]_vars
                 PROVE  GoneInv' /\ (Step \/ archive' = archive)
        OBVIOUS
    <2>1. CASE UNCHANGED vars \/ \E p \in Paths : EditScript(p)
        <3>1. archive' = archive /\ writers' = writers
            BY <2>1 DEF vars, EditScript
        <3> QED
            BY <3>1 DEF GoneInv
    <2>2. CASE ~(UNCHANGED vars \/ \E p \in Paths : EditScript(p))
        BY <2>2, GoneSteps DEF Next
    <2> QED
        BY <2>1, <2>2
<1>3. TypeInv /\ [Next]_vars => TypeInv'
    BY TypeStep
<1>4. Spec => [][Step]_archive
    BY <1>1, <1>2, <1>3, PTL DEF Spec
<1> QED
    BY <1>4 DEF NoRevival
=============================================================================
