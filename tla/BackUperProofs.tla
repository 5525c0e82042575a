--------------------------- MODULE BackUperProofs ---------------------------
(***************************************************************************)
(* Theorems about the backup archive, for every set of instances, paths    *)
(* and versions.  The first part is about sequences of chunks, the second  *)
(* proves the types for any number of instances, the third the safety of   *)
(* the archive for one instance whose listing of the archive never fails.  *)
(***************************************************************************)
EXTENDS BackUperSafety, FiniteSetTheorems, WellFoundedInduction,
        SequenceTheorems, TLAPS

-----------------------------------------------------------------------------
(* Sequences of chunks.                                                    *)

\* Every non-empty set of naturals has a least element.
LEMMA LeastNat ==
    ASSUME NEW K, K \subseteq Nat, K # {}
    PROVE  \E m \in K : \A k \in K : m <= k
<1> DEFINE T == {1..k : k \in K}
<1>1. T \subseteq FiniteSubsetsOf(Nat)
    <2> SUFFICES ASSUME NEW k \in K
                 PROVE  1..k \in FiniteSubsetsOf(Nat)
        OBVIOUS
    <2>1. IsFiniteSet(1..k)
        BY FS_Interval
    <2> QED
        BY <2>1 DEF FiniteSubsetsOf
<1>2. T # {}
    OBVIOUS
<1>3. IsWellFoundedOn(StrictSubsetOrdering(Nat), FiniteSubsetsOf(Nat))
    BY FS_StrictSubsetOrderingWellFounded
<1>4. PICK X \in T : \A Y \in T : ~(<<Y, X>> \in StrictSubsetOrdering(Nat))
    <2> HIDE DEF T
    <2> QED
        BY <1>1, <1>2, <1>3, WFMin
<1>5. PICK m \in K : X = 1..m
    OBVIOUS
<1>6. ASSUME NEW k \in K, k < m
      PROVE  FALSE
    <2>1. 1..k \in T
        OBVIOUS
    <2>2. 1..k \subseteq 1..m /\ 1..k # 1..m
        <3>1. m \in 1..m /\ m \notin 1..k
            BY <1>6
        <3> QED
            BY <1>6, <3>1
    <2>3. <<1..k, 1..m>> \in StrictSubsetOrdering(Nat)
        BY <2>2 DEF StrictSubsetOrdering
    <2> QED
        BY <1>4, <1>5, <2>1, <2>3
<1> QED
    BY <1>6

\* CalcOffsetInArray returns the place of a chunk of p, the first of them.
LEMMA OffsetOfFound ==
    ASSUME NEW s \in Seq(Chunk), NEW p, Found(s, p)
    PROVE  /\ Offset(s, p) \in 1..Len(s)
           /\ s[Offset(s, p)].path = p
           /\ s[Offset(s, p)].ver \in Content
           /\ \A j \in 1..Len(s) : s[j].path = p => Offset(s, p) <= j
<1> DEFINE K == {k \in 1..Len(s) : s[k].path = p}
<1>1. DOMAIN s = 1..Len(s) /\ Len(s) \in Nat
    BY LenProperties
<1>2. K \subseteq Nat /\ K # {}
    BY <1>1 DEF Found
<1>3. PICK m \in K : \A k \in K : m <= k
    BY <1>2, LeastNat
<1>4. \E k \in DOMAIN s : /\ s[k].path = p
                          /\ \A j \in DOMAIN s : s[j].path = p => k <= j
    BY <1>1, <1>3
<1>5. /\ Offset(s, p) \in DOMAIN s
      /\ s[Offset(s, p)].path = p
      /\ \A j \in DOMAIN s : s[j].path = p => Offset(s, p) <= j
    BY <1>4 DEF Offset
<1>6. s[Offset(s, p)] \in Chunk
    BY <1>1, <1>5, ElementOfSeq
<1> QED
    BY <1>1, <1>5, <1>6 DEF Chunk

\* Cutting out chunk k keeps every other chunk, in order.
LEMMA RemoveAtChunk ==
    ASSUME NEW s \in Seq(Chunk), NEW k \in 1..Len(s)
    PROVE  /\ RemoveAt(s, k) \in Seq(Chunk)
           /\ Len(RemoveAt(s, k)) = Len(s) - 1
           /\ \A j \in 1..Len(s) - 1 :
                 RemoveAt(s, k)[j] = IF j < k THEN s[j] ELSE s[j + 1]
<1>1. Len(s) \in Nat /\ \A j \in 1..Len(s) : s[j] \in Chunk
    BY LenProperties, ElementOfSeq
<1> DEFINE a == SubSeq(s, 1, k - 1)
           b == SubSeq(s, k + 1, Len(s))
<1>2. /\ a \in Seq(Chunk)
      /\ Len(a) = k - 1
      /\ \A j \in 1..k - 1 : a[j] = s[j]
    BY <1>1, SubSeqProperties
<1>3. /\ b \in Seq(Chunk)
      /\ Len(b) = Len(s) - k
      /\ \A j \in 1..Len(s) - k : b[j] = s[j + k]
    BY <1>1, SubSeqProperties
<1> HIDE DEF a, b
<1>4. /\ a \o b \in Seq(Chunk)
      /\ Len(a \o b) = Len(s) - 1
      /\ \A j \in 1..Len(s) - 1 :
            (a \o b)[j] = IF j <= k - 1 THEN a[j] ELSE b[j - (k - 1)]
    BY <1>1, <1>2, <1>3, ConcatProperties
<1>5. ASSUME NEW j \in 1..Len(s) - 1
      PROVE  (a \o b)[j] = IF j < k THEN s[j] ELSE s[j + 1]
    <2>1. CASE j < k
        <3>1. j <= k - 1 /\ j \in 1..k - 1
            BY <1>1, <2>1
        <3>2. (a \o b)[j] = a[j]
            BY <1>4, <3>1
        <3> QED
            BY <1>2, <2>1, <3>1, <3>2
    <2>2. CASE ~(j < k)
        <3>1. ~(j <= k - 1) /\ j - (k - 1) \in 1..Len(s) - k
            BY <1>1, <2>2
        <3>2. (a \o b)[j] = b[j - (k - 1)]
            BY <1>4, <3>1
        <3>3. b[j - (k - 1)] = s[j - (k - 1) + k]
            BY <1>3, <3>1
        <3>4. j - (k - 1) + k = j + 1
            BY <1>1
        <3> QED
            BY <2>2, <3>2, <3>3, <3>4
    <2> QED
        BY <2>1, <2>2
<1> QED
    BY <1>4, <1>5 DEF RemoveAt, a, b
\* What is left after the chunk of p is cut out: the other chunks.
LEMMA RestOfChunks ==
    ASSUME NEW s \in Seq(Chunk), NEW p
    PROVE  /\ Rest(s, p) \in Seq(Chunk)
           /\ \A j \in 1..Len(Rest(s, p)) : \E k \in 1..Len(s) : Rest(s, p)[j] = s[k]
           /\ UniqueIn(s) => UniqueIn(Rest(s, p))
<1>1. DOMAIN s = 1..Len(s) /\ Len(s) \in Nat
    BY LenProperties
<1>2. CASE ~Found(s, p)
    BY <1>1, <1>2 DEF Rest
<1>3. CASE Found(s, p)
    <2> DEFINE k == Offset(s, p)
               r == RemoveAt(s, k)
    <2>1. k \in 1..Len(s)
        BY <1>3, OffsetOfFound
    <2>2. /\ r \in Seq(Chunk)
          /\ Len(r) = Len(s) - 1
          /\ \A j \in 1..Len(s) - 1 : r[j] = IF j < k THEN s[j] ELSE s[j + 1]
        <3> HIDE DEF k
        <3> QED
            BY <2>1, RemoveAtChunk
    <2>3. Rest(s, p) = r
        BY <1>3 DEF Rest
    <2> HIDE DEF k, r
    <2>4. DOMAIN r = 1..Len(s) - 1
        BY <2>2, LenProperties
    <2>5. \A j \in 1..Len(s) - 1 : \E m \in 1..Len(s) : r[j] = s[m]
        BY <1>1, <2>1, <2>2
    <2>6. ASSUME UniqueIn(s)
          PROVE  UniqueIn(r)
        <3> SUFFICES ASSUME NEW i \in DOMAIN r, NEW j \in DOMAIN r,
                            r[i].path = r[j].path
                     PROVE  i = j
            BY DEF UniqueIn
        <3> DEFINE at(x) == IF x < k THEN x ELSE x + 1
        <3>1. at(i) \in DOMAIN s /\ at(j) \in DOMAIN s
            BY <1>1, <2>1, <2>4
        <3>2. r[i] = s[at(i)] /\ r[j] = s[at(j)]
            BY <2>2, <2>4
        <3>3. at(i) = at(j)
            BY <2>6, <3>1, <3>2 DEF UniqueIn
        <3> QED
            BY <1>1, <2>1, <2>4, <3>3
    <2> QED
        BY <2>2, <2>3, <2>5, <2>6
<1> QED
    BY <1>2, <1>3

-----------------------------------------------------------------------------
(* Types, for any number of instances and any faults.                      *)

\* An archive file that does not exist reads as a sequence of chunks too.
LEMMA ChunksType ==
    ASSUME NEW a \in Seq(Chunk) \cup {NoArchive}
    PROVE  Chunks(a) \in Seq(Chunk) /\ Listed(a) \subseteq Paths
<1>1. Chunks(a) \in Seq(Chunk)
    BY EmptySeq DEF Chunks
<1>2. DOMAIN Chunks(a) = 1..Len(Chunks(a))
    BY <1>1, LenProperties
<1>3. \A k \in DOMAIN Chunks(a) : Chunks(a)[k] \in Chunk
    BY <1>1, <1>2, ElementOfSeq
<1> QED
    BY <1>1, <1>3 DEF Listed, Chunk
\* A chunk made from a script, alone, is a sequence of chunks that has it.
LEMMA OneChunk ==
    ASSUME NEW p \in Paths, NEW c \in Content
    PROVE  LET s == <<[path |-> p, ver |-> c]>> IN
           /\ s \in Seq(Chunk)
           /\ Len(s) = 1
           /\ s[1] = [path |-> p, ver |-> c]
           /\ Found(s, p)
<1> DEFINE e == [path |-> p, ver |-> c]
<1>1. e \in Chunk
    BY DEF Chunk
<1>2. <<e>> \in Seq(Chunk) /\ Len(<<e>>) = 1 /\ <<e>>[1] = e
    BY <1>1
<1>3. e.path = p
    OBVIOUS
<1>4. DOMAIN <<e>> = 1..1
    BY <1>2, LenProperties
<1> QED
    BY <1>2, <1>3, <1>4 DEF Found

\* BackUp puts the new chunk in the place of the old one of its path.
LEMMA ReplacedChunk ==
    ASSUME NEW s \in Seq(Chunk), NEW c \in Chunk, Found(s, c.path)
    PROVE  LET t == [s EXCEPT ![Offset(s, c.path)] = c] IN
           /\ t \in Seq(Chunk)
           /\ Len(t) = Len(s)
           /\ \A j \in 1..Len(s) : t[j].path = s[j].path
           /\ \A j \in 1..Len(s) : t[j] = s[j] \/ t[j] = c
           /\ t[Offset(s, c.path)] = c
           /\ Found(t, c.path)
<1> DEFINE k == Offset(s, c.path)
           t == [s EXCEPT ![k] = c]
<1>1. k \in 1..Len(s) /\ s[k].path = c.path
    BY OffsetOfFound
<1> HIDE DEF k
<1>2. /\ t \in Seq(Chunk)
      /\ Len(t) = Len(s)
      /\ \A j \in 1..Len(s) : t[j] = IF j = k THEN c ELSE s[j]
    BY <1>1, ExceptSeq
<1> HIDE DEF t
<1>3. DOMAIN t = 1..Len(s)
    BY <1>2, LenProperties
<1>4. Found(t, c.path)
    BY <1>1, <1>2, <1>3 DEF Found
<1> QED
    BY <1>1, <1>2, <1>4 DEF k, t

\* ... or behind the chunks of the other paths.
LEMMA AppendedChunk ==
    ASSUME NEW s \in Seq(Chunk), NEW c \in Chunk
    PROVE  LET t == Append(s, c) IN
           /\ t \in Seq(Chunk)
           /\ Len(t) = Len(s) + 1
           /\ \A j \in 1..Len(s) : t[j] = s[j]
           /\ t[Len(s) + 1] = c
           /\ Found(t, c.path)
<1> DEFINE t == Append(s, c)
<1>1. /\ t \in Seq(Chunk)
      /\ Len(t) = Len(s) + 1
      /\ \A j \in 1..Len(s) : t[j] = s[j]
      /\ t[Len(s) + 1] = c
    BY AppendProperties
<1> HIDE DEF t
<1>2. DOMAIN t = 1..Len(s) + 1 /\ Len(s) \in Nat
    BY <1>1, LenProperties
<1>3. Found(t, c.path)
    BY <1>1, <1>2 DEF Found
<1> QED
    BY <1>1, <1>3 DEF t

\* What an instance holds in memory is what its next step takes it to be.
DataInv ==
    \A i \in Instances :
        /\ pc[i] = "bkRead" =>
              Len(data[i]) = 1 /\ data[i][1].path = cur[i]
        /\ pc[i] \in {"bkTrunc", "bkWrite", "rsCreate"} => Found(data[i], cur[i])

TypeInv == TypeOK /\ DataInv

LEMMA TypeInit == Init => TypeInv
<1> SUFFICES ASSUME Init PROVE TypeInv
    OBVIOUS
<1>1. <<>> \in Seq(Chunk)
    OBVIOUS
<1> QED
    BY <1>1 DEF Init, TypeInv, TypeOK, DataInv, Labels, Off, Outcomes, InBackUp,
                InRestore

\* The actions that leave the instances' memory and the archive alone.
LEMMA TypeQuiet ==
    ASSUME TypeInv, NEW i \in Instances, NEW p \in Paths,
           \/ EditScript(p)
           \/ Start(i)
           \/ FindProccedure(i)
           \/ Stop(i)
           \/ BackUpNoScript(i, p)
           \/ BackUpReadFails(i)
           \/ BackUpTruncateFails(i)
           \/ RestoreOpenFails(i, p)
    PROVE  TypeInv'
<1> USE DEF TypeInv, TypeOK, DataInv, Labels, Off, Outcomes, InBackUp, InRestore
<1>1. CASE EditScript(p)
    <2>1. PICK c \in [of : {p}, n : Versions] \cup {NoFile} :
             scripts' = [scripts EXCEPT ![p] = c]
        BY <1>1 DEF EditScript
    <2>2. c \in Content \cup {NoFile}
        BY DEF Content
    <2>3. scripts' \in [Paths -> Content \cup {NoFile}]
        BY <2>1, <2>2
    <2> QED
        BY <1>1, <2>3 DEF EditScript
<1>2. Listed(archive) \subseteq Paths
    BY ChunksType
<1>3. CASE Start(i)
    BY <1>2, <1>3 DEF Start, InitArchive
<1>4. CASE FindProccedure(i)
    BY <1>2, <1>4 DEF FindProccedure, InitArchive
<1>5. <<>> \in Seq(Chunk)
    OBVIOUS
<1>6. CASE Stop(i)
    BY <1>5, <1>6 DEF Stop
<1>7. CASE BackUpNoScript(i, p)
    BY <1>5, <1>7 DEF BackUpNoScript, BackUpEnds
<1>8. CASE BackUpReadFails(i)
    BY <1>5, <1>8 DEF BackUpReadFails, BackUpEnds
<1>9. CASE BackUpTruncateFails(i)
    BY <1>5, <1>9 DEF BackUpTruncateFails, BackUpEnds
<1>10. CASE RestoreOpenFails(i, p)
    BY <1>10 DEF RestoreOpenFails
<1> QED
    BY <1>1, <1>3, <1>4, <1>6, <1>7, <1>8, <1>9, <1>10
\* BackUp up to the truncation of the archive.
LEMMA TypeBackUpReads ==
    ASSUME TypeInv, NEW i \in Instances, NEW p \in Paths,
           BackUpPrepare(i, p) \/ BackUpRead(i)
    PROVE  TypeInv'
<1> USE DEF TypeInv, TypeOK, DataInv, Labels, Off, Outcomes, InBackUp, InRestore
<1>1. CASE BackUpPrepare(i, p)
    <2>1. scripts[p] \in Content
        BY <1>1 DEF BackUpPrepare
    <2> DEFINE s == <<[path |-> p, ver |-> scripts[p]]>>
    <2>2. s \in Seq(Chunk) /\ Len(s) = 1 /\ s[1].path = p /\ Found(s, p)
        BY <2>1, OneChunk
    <2> HIDE DEF s
    <2>3. data' = [data EXCEPT ![i] = s]
        BY <1>1 DEF BackUpPrepare, s
    <2>4. data' \in [Instances -> Seq(Chunk)]
        BY <2>2, <2>3
    <2>5. TypeOK'
        <3>1. pc' \in [Instances -> Labels]
            BY <1>1 DEF BackUpPrepare
        <3>2. mArchiveFiles' \in [Instances -> SUBSET Paths]
            <4>1. {p} \in SUBSET Paths
                OBVIOUS
            <4>2. \/ mArchiveFiles' = mArchiveFiles
                  \/ mArchiveFiles' = [mArchiveFiles EXCEPT ![i] = {p}]
                BY <1>1 DEF BackUpPrepare
            <4> QED
                BY <4>1, <4>2
        <3>3. cur' \in [Instances -> Paths] /\ outcome' \in [Instances -> Outcomes]
            BY <1>1 DEF BackUpPrepare
        <3> QED
            BY <1>1, <2>4, <3>1, <3>2, <3>3 DEF BackUpPrepare
    <2>6. DataInv'
        BY <1>1, <2>2, <2>3 DEF BackUpPrepare
    <2> QED
        BY <2>5, <2>6
<1>2. CASE BackUpRead(i)
    <2> DEFINE c == data[i][1]
    <2>1. /\ archive \in Seq(Chunk)
          /\ Len(data[i]) = 1 /\ c.path = cur[i]
        BY <1>2 DEF BackUpRead
    <2>2. c \in Chunk
        <3>1. data[i] \in Seq(Chunk) /\ 1 \in 1..Len(data[i])
            BY <2>1
        <3> QED
            BY <3>1, ElementOfSeq
    <2> HIDE DEF c
    <2>3. PICK t \in Seq(Chunk) : /\ Found(t, cur[i])
                                  /\ data' = [data EXCEPT ![i] = t]
        <3>1. CASE /\ Found(archive, cur[i])
                   /\ data' = [data EXCEPT ![i] =
                                [archive EXCEPT ![Offset(archive, cur[i])] = c]]
            BY <2>1, <2>2, <3>1, ReplacedChunk
        <3>2. CASE data' = [data EXCEPT ![i] = Append(archive, c)]
            BY <2>1, <2>2, <3>2, AppendedChunk
        <3> QED
            BY <1>2, <3>1, <3>2 DEF BackUpRead, c
    <2>4. TypeOK'
        BY <1>2, <2>3 DEF BackUpRead
    <2>5. DataInv'
        BY <1>2, <2>3 DEF BackUpRead
    <2> QED
        BY <2>4, <2>5
<1> QED
    BY <1>1, <1>2

\* BackUp from the truncation of the archive on.
LEMMA TypeBackUpWrites ==
    ASSUME TypeInv, NEW i \in Instances, BackUpTruncate(i) \/ BackUpWrite(i)
    PROVE  TypeInv'
<1> USE DEF TypeInv, TypeOK, DataInv, Labels, Off, Outcomes, InBackUp, InRestore
<1>1. <<>> \in Seq(Chunk)
    OBVIOUS
<1>2. CASE BackUpTruncate(i)
    BY <1>1, <1>2 DEF BackUpTruncate
<1>3. CASE BackUpWrite(i)
    <2>1. data[i][Offset(data[i], cur[i])].ver \in Content
        BY <1>3, OffsetOfFound DEF BackUpWrite
    <2>2. latest' \in [Paths -> Content \cup {NoFile}]
        BY <1>3, <2>1 DEF BackUpWrite
    <2>3. archive' \in Seq(Chunk) \cup {NoArchive}
        BY <1>3 DEF BackUpWrite, Write
    <2> QED
        BY <1>1, <1>3, <2>2, <2>3 DEF BackUpWrite, BackUpEnds
<1> QED
    BY <1>2, <1>3

\* RestoreFileFromArchive.
LEMMA TypeRestore ==
    ASSUME TypeInv, NEW i \in Instances, NEW p \in Paths,
           \/ RestoreOpen(i, p)
           \/ RestoreTruncate(i)
           \/ RestoreNothing(i)
           \/ RestoreRemoveScript(i)
           \/ RestoreCreateScript(i)
           \/ RestoreDrop(i)
    PROVE  TypeInv'
<1> USE DEF TypeInv, TypeOK, DataInv, Labels, Off, Outcomes, InBackUp, InRestore
<1>1. <<>> \in Seq(Chunk)
    OBVIOUS
<1>2. Chunks(archive) \in Seq(Chunk)
    BY ChunksType
<1>3. CASE RestoreOpen(i, p)
    BY <1>2, <1>3 DEF RestoreOpen
<1>4. CASE RestoreTruncate(i)
    BY <1>1, <1>4 DEF RestoreTruncate
<1>5. CASE RestoreNothing(i)
    BY <1>5 DEF RestoreNothing
<1>6. CASE RestoreRemoveScript(i)
    BY <1>6 DEF RestoreRemoveScript
<1>7. CASE RestoreCreateScript(i)
    <2>1. data[i][Offset(data[i], cur[i])].ver \in Content
        BY <1>7, OffsetOfFound DEF RestoreCreateScript
    <2>2. Torn \in Content
        BY DEF Content
    <2>3. scripts' \in [Paths -> Content \cup {NoFile}]
        BY <1>7, <2>1, <2>2 DEF RestoreCreateScript
    <2>4. m_sErrCode' \in [Instances -> {0, 1}]
        BY <1>7 DEF RestoreCreateScript
    <2> QED
        BY <1>7, <2>3, <2>4 DEF RestoreCreateScript
<1>8. CASE RestoreDrop(i)
    <2>1. Rest(data[i], cur[i]) \in Seq(Chunk)
        BY RestOfChunks
    <2>2. archive' \in Seq(Chunk) \cup {NoArchive}
        BY <1>8, <2>1 DEF RestoreDrop, Write
    <2>3. writers' \subseteq Instances
        BY <1>8 DEF RestoreDrop
    <2>4. /\ pc' \in [Instances -> Labels]
          /\ outcome' \in [Instances -> Outcomes]
          /\ pc'[i] \in {"idle", "rescan"}
          /\ \A j \in Instances : j # i => pc'[j] = pc[j]
        BY <1>8 DEF RestoreDrop
    <2>5. TypeOK'
        BY <1>1, <1>8, <2>2, <2>3, <2>4 DEF RestoreDrop
    <2>6. DataInv'
        BY <1>8, <2>4 DEF RestoreDrop
    <2> QED
        BY <2>5, <2>6
<1> QED
    BY <1>3, <1>4, <1>5, <1>6, <1>7, <1>8

\* Every step preserves it.
LEMMA TypeStep == TypeInv /\ [Next]_vars => TypeInv'
<1> SUFFICES ASSUME TypeInv, [Next]_vars PROVE TypeInv'
    OBVIOUS
<1>1. CASE UNCHANGED vars
    BY <1>1 DEF vars, TypeInv, TypeOK, DataInv
<1>2. ASSUME NEW p \in Paths, EditScript(p)
      PROVE  TypeInv'
    <2>1. CASE Instances = {}
        <3>1. DataInv'
            BY <2>1 DEF DataInv
        <3>2. PICK c \in [of : {p}, n : Versions] \cup {NoFile} :
                 scripts' = [scripts EXCEPT ![p] = c]
            BY <1>2 DEF EditScript
        <3>3. c \in Content \cup {NoFile}
            BY DEF Content
        <3>4. TypeOK'
            BY <1>2, <3>2, <3>3 DEF EditScript, TypeInv, TypeOK
        <3> QED
            BY <3>1, <3>4 DEF TypeInv
    <2>2. CASE Instances # {}
        BY <1>2, <2>2, TypeQuiet
    <2> QED
        BY <2>1, <2>2
<1>3. ASSUME NEW i \in Instances,
             Start(i) \/ FindProccedure(i) \/ Stop(i)
                      \/ BackUpReadFails(i) \/ BackUpTruncateFails(i)
      PROVE  TypeInv'
    <2>1. cur[i] \in Paths
        BY DEF TypeInv, TypeOK
    <2> QED
        BY <1>3, <2>1, TypeQuiet
<1>4. ASSUME NEW i \in Instances, NEW p \in Paths,
             BackUpNoScript(i, p) \/ RestoreOpenFails(i, p)
      PROVE  TypeInv'
    BY <1>4, TypeQuiet
<1>5. ASSUME NEW i \in Instances, NEW p \in Paths,
             BackUpPrepare(i, p) \/ RestoreOpen(i, p)
      PROVE  TypeInv'
    BY <1>5, TypeBackUpReads, TypeRestore
<1>6. ASSUME NEW i \in Instances,
             \/ BackUpRead(i) \/ BackUpTruncate(i) \/ BackUpWrite(i)
             \/ RestoreTruncate(i) \/ RestoreNothing(i)
             \/ RestoreRemoveScript(i) \/ RestoreCreateScript(i)
             \/ RestoreDrop(i)
      PROVE  TypeInv'
    <2>1. cur[i] \in Paths
        BY DEF TypeInv, TypeOK
    <2> QED
        BY <1>6, <2>1, TypeBackUpReads, TypeBackUpWrites, TypeRestore
<1> QED
    BY <1>1, <1>2, <1>3, <1>4, <1>5, <1>6 DEF Next

\* Every variable keeps its type, and no step takes memory that is not there:
\* the chunk BackUp replaces and the chunk a restore writes are in the data.
THEOREM TypeCorrect == Spec => []TypeOK
<1>1. Init => TypeInv
    BY TypeInit
<1>2. TypeInv /\ [Next]_vars => TypeInv'
    BY TypeStep
<1>3. TypeInv => TypeOK
    BY DEF TypeInv
<1> QED
    BY <1>1, <1>2, <1>3, PTL DEF Spec
-----------------------------------------------------------------------------
(* One instance, any faults but a listing that fails: the archive holds at *)
(* most one chunk of a script, and it is the latest copy taken of it.      *)

\* A sequence of chunks reads as itself.
LEMMA ChunksOfSeq ==
    ASSUME NEW s \in Seq(Chunk)
    PROVE  Chunks(s) = s
BY BackUperAssumption DEF Chunks

\* What the archive lists is what its chunks are within.
LEMMA ListedWithin ==
    ASSUME NEW a, NEW L
    PROVE  Listed(a) \subseteq L <=> PathsWithin(Chunks(a), L)
BY DEF Listed, PathsWithin

\* Nothing is a sequence of chunks with every good property.
LEMMA EmptyIsGood ==
    ASSUME NEW L, NEW known
    PROVE  UniqueIn(<<>>) /\ LatestIn(<<>>, known) /\ PathsWithin(<<>>, L)
BY DEF UniqueIn, LatestIn, PathsWithin

\* The steps that change neither a chunk nor what is known about one.
LEMMA SoloQuiet ==
    ASSUME TypeInv, SoloInv, NEW me \in Instances, Instances = {me},
           "list" \notin Faults, NEW p \in Paths,
           \/ EditScript(p)
           \/ Start(me)
           \/ FindProccedure(me)
           \/ Stop(me)
           \/ BackUpNoScript(me, p)
           \/ BackUpReadFails(me)
           \/ BackUpTruncateFails(me)
           \/ RestoreOpenFails(me, p)
    PROVE  SoloInv'
<1> USE DEF TypeInv, TypeOK, SoloInv, ListCoversArchive, ChunksUnique,
            ChunkIsLatest, Off, InRestore
<1>1. CASE EditScript(p)
    BY <1>1 DEF EditScript, LatestIn, LatestBut
<1>2. CASE Start(me) \/ FindProccedure(me)
    BY <1>2 DEF Start, FindProccedure, InitArchive, LatestIn, LatestBut
<1>3. CASE Stop(me)
    BY <1>3 DEF Stop, LatestIn, LatestBut
<1>4. CASE BackUpNoScript(me, p)
    BY <1>4 DEF BackUpNoScript, BackUpEnds, LatestIn, LatestBut
<1>5. CASE BackUpReadFails(me)
    BY <1>5 DEF BackUpReadFails, BackUpEnds, LatestIn, LatestBut
<1>6. CASE BackUpTruncateFails(me)
    BY <1>6 DEF BackUpTruncateFails, BackUpEnds, LatestIn, LatestBut
<1>7. CASE RestoreOpenFails(me, p)
    BY <1>7 DEF RestoreOpenFails, LatestIn, LatestBut
<1> QED
    BY <1>1, <1>2, <1>3, <1>4, <1>5, <1>6, <1>7

\* SoloInv read at one instance, before a step or after it.
Good(chunks, listed, known) ==
    UniqueIn(chunks) /\ LatestIn(chunks, known) /\ PathsWithin(chunks, listed)

LEMMA SoloGood ==
    ASSUME NEW me \in Instances, SoloInv, pc[me] # "off"
    PROVE  Good(Chunks(archive), mArchiveFiles[me], latest)
BY ListedWithin
   DEF SoloInv, ListCoversArchive, ChunksUnique, ChunkIsLatest, Good, Off

LEMMA SoloBecomes ==
    ASSUME NEW me \in Instances, Instances = {me},
           Good(Chunks(archive'), mArchiveFiles'[me], latest'),
           pc'[me] = "bkWrite" => archive' = <<>>,
           pc'[me] \in {"bkTrunc", "bkWrite"} =>
               /\ UniqueIn(data'[me])
               /\ PathsWithin(data'[me], mArchiveFiles'[me])
               /\ LatestBut(data'[me], cur'[me], latest'),
           pc'[me] \in InRestore => Good(data'[me], mArchiveFiles'[me], latest')
    PROVE  SoloInv'
<1>1. Listed(archive') \subseteq mArchiveFiles'[me]
    BY ListedWithin DEF Good
<1> QED
    BY <1>1 DEF SoloInv, ListCoversArchive, ChunksUnique, ChunkIsLatest, Good

\* Making the new chunk: with an empty list it is all there is to write, and the
\* archive has nothing that would be lost by it.
LEMMA SoloPrepare ==
    ASSUME TypeInv, SoloInv, NEW me \in Instances, Instances = {me},
           NEW p \in Paths, BackUpPrepare(me, p)
    PROVE  SoloInv'
<1>1. /\ scripts[p] \in Content
      /\ pc' \in {[pc EXCEPT ![me] = "bkRead"], [pc EXCEPT ![me] = "bkTrunc"]}
    BY DEF BackUpPrepare, TypeInv, TypeOK
<1>2. pc[me] = "idle" /\ archive' = archive /\ latest' = latest
    BY DEF BackUpPrepare
<1>3. Good(Chunks(archive), mArchiveFiles[me], latest)
    BY <1>2, SoloGood
<1> DEFINE s == <<[path |-> p, ver |-> scripts[p]]>>
<1>4. s \in Seq(Chunk) /\ Len(s) = 1 /\ s[1].path = p
    BY <1>1, OneChunk
<1>5. DOMAIN s = 1..1
    BY <1>4, LenProperties
<1>6. data'[me] = s /\ cur'[me] = p
    BY DEF BackUpPrepare, TypeInv, TypeOK
<1> HIDE DEF s
<1>7. UniqueIn(s) /\ LatestBut(s, p, latest) /\ PathsWithin(s, {p})
    BY <1>4, <1>5 DEF UniqueIn, LatestBut, PathsWithin
<1>8. CASE mArchiveFiles[me] # {}
    <2>1. pc'[me] = "bkRead" /\ mArchiveFiles' = mArchiveFiles
        BY <1>8 DEF BackUpPrepare, TypeInv, TypeOK
    <2> QED
        BY <1>2, <1>3, <2>1, SoloBecomes DEF InRestore
<1>9. CASE mArchiveFiles[me] = {}
    <2>1. pc'[me] = "bkTrunc" /\ mArchiveFiles'[me] = {p}
        BY <1>9 DEF BackUpPrepare, TypeInv, TypeOK
    <2>2. Good(Chunks(archive), {p}, latest)
        BY <1>3, <1>9 DEF Good, PathsWithin
    <2> QED
        BY <1>2, <1>6, <1>7, <2>1, <2>2, SoloBecomes DEF InRestore
<1> QED
    BY <1>8, <1>9

\* Reading the archive and putting the new chunk in: in the place of the only
\* chunk of its path, or behind an archive that has none of its path.
LEMMA SoloRead ==
    ASSUME TypeInv, SoloInv, NEW me \in Instances, Instances = {me},
           BackUpRead(me)
    PROVE  SoloInv'
<1> DEFINE c == data[me][1]
           q == cur[me]
           L == mArchiveFiles[me] \cup {q}
<1>1. archive \in Seq(Chunk) /\ Len(data[me]) = 1 /\ c.path = q
    BY DEF BackUpRead, TypeInv, TypeOK, DataInv
<1>2. c \in Chunk
    <2>1. data[me] \in Seq(Chunk) /\ 1 \in 1..Len(data[me])
        BY <1>1 DEF TypeInv, TypeOK
    <2> QED
        BY <2>1, ElementOfSeq
<1>3. /\ \/ /\ Found(archive, q)
            /\ data'[me] = [archive EXCEPT ![Offset(archive, q)] = c]
         \/ /\ q \notin mArchiveFiles[me]
            /\ data'[me] = Append(archive, c)
      /\ mArchiveFiles'[me] = L /\ pc'[me] = "bkTrunc" /\ cur'[me] = q
      /\ archive' = archive /\ latest' = latest /\ pc[me] = "bkRead"
    BY DEF BackUpRead, TypeInv, TypeOK
<1> HIDE DEF c
<1>4. Good(archive, mArchiveFiles[me], latest)
    BY <1>1, <1>3, ChunksOfSeq, SoloGood
<1>5. DOMAIN archive = 1..Len(archive) /\ Len(archive) \in Nat
    BY <1>1, LenProperties
<1>6. /\ UniqueIn(data'[me])
      /\ LatestBut(data'[me], q, latest)
      /\ PathsWithin(data'[me], L)
    <2>1. CASE /\ Found(archive, q)
               /\ data'[me] = [archive EXCEPT ![Offset(archive, q)] = c]
        <3> DEFINE t == [archive EXCEPT ![Offset(archive, q)] = c]
        <3>1. /\ t \in Seq(Chunk)
              /\ Len(t) = Len(archive)
              /\ \A j \in 1..Len(archive) : t[j].path = archive[j].path
              /\ \A j \in 1..Len(archive) : t[j] = archive[j] \/ t[j] = c
            BY <1>1, <1>2, <2>1, ReplacedChunk
        <3>2. data'[me] = t
            BY <2>1
        <3> HIDE DEF t
        <3>3. DOMAIN t = 1..Len(archive)
            BY <3>1, LenProperties
        <3>4. UniqueIn(t)
            BY <1>4, <1>5, <3>1, <3>3 DEF UniqueIn, Good
        <3>5. LatestBut(t, q, latest)
            BY <1>1, <1>4, <1>5, <3>1, <3>3 DEF LatestIn, LatestBut, Good
        <3>6. PathsWithin(t, L)
            BY <1>4, <1>5, <3>1, <3>3 DEF PathsWithin, Good
        <3> QED
            BY <3>2, <3>4, <3>5, <3>6
    <2>2. CASE q \notin mArchiveFiles[me] /\ data'[me] = Append(archive, c)
        <3> DEFINE t == Append(archive, c)
        <3>1. /\ t \in Seq(Chunk)
              /\ Len(t) = Len(archive) + 1
              /\ \A j \in 1..Len(archive) : t[j] = archive[j]
              /\ t[Len(archive) + 1] = c
            BY <1>1, <1>2, AppendedChunk
        <3>2. data'[me] = t
            BY <2>2
        <3> HIDE DEF t
        <3>3. DOMAIN t = 1..Len(archive) + 1
            BY <3>1, LenProperties
        <3>4. \A j \in 1..Len(archive) : archive[j].path # q
            BY <1>4, <1>5, <2>2 DEF PathsWithin, Good
        <3>5. UniqueIn(t)
            BY <1>1, <1>4, <1>5, <3>1, <3>3, <3>4 DEF UniqueIn, Good
        <3>6. LatestBut(t, q, latest)
            BY <1>1, <1>4, <1>5, <3>1, <3>3 DEF LatestIn, LatestBut, Good
        <3>7. PathsWithin(t, L)
            BY <1>1, <1>4, <1>5, <3>1, <3>3 DEF PathsWithin, Good
        <3> QED
            BY <3>2, <3>5, <3>6, <3>7
    <2> QED
        BY <1>3, <2>1, <2>2
<1>7. Good(Chunks(archive'), L, latest')
    BY <1>1, <1>3, <1>4, ChunksOfSeq DEF Good, PathsWithin
<1> QED
    BY <1>3, <1>6, <1>7, SoloBecomes DEF InRestore

\* Truncating the archive and writing it: the chunk of the path becomes its
\* latest copy.
LEMMA SoloWrite ==
    ASSUME TypeInv, SoloInv, NEW me \in Instances, Instances = {me},
           BackUpTruncate(me) \/ BackUpWrite(me)
    PROVE  SoloInv'
<1> DEFINE s == data[me]
           q == cur[me]
           L == mArchiveFiles[me]
<1>1. Chunks(<<>>) = <<>>
    BY ChunksOfSeq, EmptySeq
<1>2. /\ s \in Seq(Chunk) /\ Found(s, q) /\ q \in Paths
      /\ UniqueIn(s) /\ LatestBut(s, q, latest) /\ PathsWithin(s, L)
      /\ pc[me] = "bkWrite" => archive = <<>>
    BY DEF BackUpTruncate, BackUpWrite, SoloInv, TypeInv, TypeOK, DataInv
<1>3. CASE BackUpTruncate(me)
    <2>1. /\ archive' = <<>> /\ data' = data /\ cur' = cur /\ latest' = latest
          /\ mArchiveFiles' = mArchiveFiles /\ pc'[me] = "bkWrite"
        BY <1>3 DEF BackUpTruncate, TypeInv, TypeOK
    <2>2. Good(Chunks(archive'), L, latest)
        BY <1>1, <2>1, EmptyIsGood DEF Good
    <2> QED
        BY <1>2, <2>1, <2>2, SoloBecomes DEF InRestore
<1>4. CASE BackUpWrite(me)
    <2>1. /\ archive' = s \/ archive' = <<>>
          /\ latest' = [latest EXCEPT ![q] = s[Offset(s, q)].ver]
          /\ pc'[me] = "idle" /\ mArchiveFiles' = mArchiveFiles
        BY <1>2, <1>4 DEF BackUpWrite, Write, BackUpEnds, TypeInv, TypeOK
    <2>2. latest \in [Paths -> Content \cup {NoFile}]
        BY DEF TypeInv, TypeOK
    <2> HIDE DEF s, q, L
    <2>3. DOMAIN s = 1..Len(s) /\ \A k \in DOMAIN s : s[k] \in Chunk
        BY <1>2, LenProperties, ElementOfSeq
    <2>4. Offset(s, q) \in DOMAIN s /\ s[Offset(s, q)].path = q
        BY <1>2, <2>3, OffsetOfFound
    <2>5. ASSUME NEW k \in DOMAIN s
          PROVE  s[k].ver = latest'[s[k].path]
        <3>1. s[k].path \in Paths
            BY <2>3 DEF Chunk
        <3>2. CASE s[k].path = q
            <4>1. k = Offset(s, q)
                BY <1>2, <2>4, <3>2 DEF UniqueIn
            <4> QED
                BY <1>2, <2>1, <2>2, <3>2, <4>1
        <3>3. CASE s[k].path # q
            BY <1>2, <2>1, <2>2, <3>1, <3>3 DEF LatestBut
        <3> QED
            BY <3>2, <3>3
    <2>6. Good(s, L, latest')
        BY <1>2, <2>5 DEF Good, LatestIn
    <2>7. Good(Chunks(archive'), L, latest')
        BY <1>1, <1>2, <2>1, <2>6, ChunksOfSeq, EmptyIsGood DEF Good
    <2> QED
        BY <2>1, <2>7, SoloBecomes DEF InRestore, L
<1> QED
    BY <1>3, <1>4

\* What is good stays good when one chunk is cut out of it.
LEMMA RestIsGood ==
    ASSUME NEW s \in Seq(Chunk), NEW p, NEW L, NEW known, Good(s, L, known)
    PROVE  Rest(s, p) \in Seq(Chunk) /\ Good(Rest(s, p), L, known)
<1> DEFINE r == Rest(s, p)
<1> HIDE DEF r
<1>1. /\ r \in Seq(Chunk)
      /\ \A j \in 1..Len(r) : \E k \in 1..Len(s) : r[j] = s[k]
      /\ UniqueIn(s) => UniqueIn(r)
    BY RestOfChunks DEF r
<1>2. DOMAIN r = 1..Len(r) /\ DOMAIN s = 1..Len(s)
    BY <1>1, LenProperties
<1>3. LatestIn(r, known) /\ PathsWithin(r, L)
    BY <1>1, <1>2 DEF Good, LatestIn, PathsWithin
<1> QED
    BY <1>1, <1>3 DEF Good, r

\* Restoring: what is in memory is as good as the archive was, and so is what is
\* left of it when one chunk is cut out.
LEMMA SoloRestore ==
    ASSUME TypeInv, SoloInv, NEW me \in Instances, Instances = {me},
           \/ \E p \in Paths : RestoreOpen(me, p)
           \/ RestoreTruncate(me)
           \/ RestoreNothing(me)
           \/ RestoreRemoveScript(me)
           \/ RestoreCreateScript(me)
           \/ RestoreDrop(me)
    PROVE  SoloInv'
<1> DEFINE L == mArchiveFiles[me]
<1>1. Good(Chunks(archive), L, latest)
    <2>1. pc[me] # "off"
        BY DEF RestoreOpen, RestoreTruncate, RestoreNothing,
               RestoreRemoveScript, RestoreCreateScript, RestoreDrop
    <2> QED
        BY <2>1, SoloGood
<1>2. pc[me] \in InRestore => Good(data[me], L, latest)
    BY DEF SoloInv, Good, InRestore
<1>3. Chunks(<<>>) = <<>> /\ Chunks(NoArchive) = <<>>
    BY ChunksOfSeq, EmptySeq DEF Chunks
<1>4. Good(<<>>, L, latest)
    BY EmptyIsGood DEF Good
<1>5. data[me] \in Seq(Chunk)
    BY DEF TypeInv, TypeOK
<1>6. mArchiveFiles' = mArchiveFiles /\ latest' = latest
    BY DEF RestoreOpen, RestoreTruncate, RestoreNothing,
           RestoreRemoveScript, RestoreCreateScript, RestoreDrop
<1>7. CASE \E p \in Paths : RestoreOpen(me, p)
    <2>1. /\ archive' = Chunks(archive) /\ data'[me] = Chunks(archive)
          /\ pc'[me] = "rsTrunc"
        BY <1>7 DEF RestoreOpen, TypeInv, TypeOK
    <2>2. Chunks(archive) \in Seq(Chunk)
        BY ChunksType DEF TypeInv, TypeOK
    <2>3. Chunks(archive') = Chunks(archive)
        BY <2>1, <2>2, ChunksOfSeq
    <2> QED
        BY <1>1, <1>6, <2>1, <2>3, SoloBecomes
<1>8. CASE RestoreTruncate(me)
    <2>1. /\ pc[me] \in InRestore /\ data' = data /\ pc'[me] = "rsScript"
          /\ archive' = <<>> \/ archive' = archive
        BY <1>8 DEF RestoreTruncate, TypeInv, TypeOK, InRestore
    <2>2. Good(Chunks(archive'), L, latest)
        BY <1>1, <1>3, <1>4, <2>1
    <2> QED
        BY <1>2, <1>6, <2>1, <2>2, SoloBecomes
<1>9. CASE \/ RestoreNothing(me)
           \/ RestoreRemoveScript(me)
           \/ RestoreCreateScript(me)
    <2>1. /\ pc[me] \in InRestore /\ data' = data /\ archive' = archive
          /\ pc'[me] \in {"rsCreate", "rsDrop"}
        BY <1>9 DEF RestoreNothing, RestoreRemoveScript, RestoreCreateScript,
                    TypeInv, TypeOK, InRestore
    <2> QED
        BY <1>1, <1>2, <1>6, <2>1, SoloBecomes
<1>10. CASE RestoreDrop(me)
    <2> DEFINE s == data[me]
               r == Rest(s, cur[me])
    <2>1. /\ pc[me] \in InRestore /\ pc'[me] \in {"rescan", "idle"}
          /\ archive' = r \/ archive' = archive \/ archive' = NoArchive
        BY <1>10 DEF RestoreDrop, Write, TypeInv, TypeOK, InRestore
    <2>2. r \in Seq(Chunk) /\ Good(r, L, latest)
        <3> HIDE DEF s, r
        <3> QED
            BY <1>2, <1>5, <2>1, RestIsGood DEF s, r
    <2>3. Good(Chunks(archive'), L, latest)
        BY <1>1, <1>3, <1>4, <2>1, <2>2, ChunksOfSeq
    <2> QED
        BY <1>6, <2>1, <2>3, SoloBecomes DEF InRestore
<1> QED
    BY <1>7, <1>8, <1>9, <1>10

\* Before anything runs there is no archive.
LEMMA SoloInit == Init => SoloInv
<1> SUFFICES ASSUME Init PROVE SoloInv
    OBVIOUS
<1>1. Chunks(archive) = <<>>
    BY DEF Init, Chunks
<1>2. Listed(archive) = {}
    BY <1>1 DEF Listed
<1> QED
    BY <1>1, <1>2 DEF Init, SoloInv, ListCoversArchive, ChunksUnique,
                      ChunkIsLatest, UniqueIn, LatestIn, Off, InRestore

\* A step that changes nothing changes nothing of it.
LEMMA SoloSame == SoloInv /\ UNCHANGED vars => SoloInv'
<1> SUFFICES ASSUME SoloInv, UNCHANGED vars PROVE SoloInv'
    OBVIOUS
<1>1. /\ archive' = archive /\ mArchiveFiles' = mArchiveFiles /\ pc' = pc
      /\ data' = data /\ cur' = cur /\ latest' = latest
    BY DEF vars
<1> QED
    BY <1>1 DEF SoloInv, ListCoversArchive, ChunksUnique, ChunkIsLatest

LEMMA SoloStep ==
    ASSUME NEW me, Instances = {me}, "list" \notin Faults,
           TypeInv, SoloInv, [Next]_vars
    PROVE  TypeInv' /\ SoloInv'
<1>1. TypeInv'
    BY TypeStep
<1>2. me \in Instances
    OBVIOUS
<1>3. SoloInv'
    <2>1. CASE UNCHANGED vars
        BY <2>1, SoloSame
    <2>2. ASSUME NEW p \in Paths, EditScript(p)
          PROVE  SoloInv'
        BY <1>2, <2>2, SoloQuiet
    <2>3. ASSUME Start(me) \/ FindProccedure(me) \/ Stop(me)
                           \/ BackUpReadFails(me) \/ BackUpTruncateFails(me)
          PROVE  SoloInv'
        <3>1. cur[me] \in Paths
            BY <1>2 DEF TypeInv, TypeOK
        <3> QED
            BY <1>2, <2>3, <3>1, SoloQuiet
    <2>4. ASSUME NEW p \in Paths, BackUpNoScript(me, p) \/ RestoreOpenFails(me, p)
          PROVE  SoloInv'
        BY <1>2, <2>4, SoloQuiet
    <2>5. ASSUME NEW p \in Paths, BackUpPrepare(me, p)
          PROVE  SoloInv'
        BY <1>2, <2>5, SoloPrepare
    <2>6. ASSUME BackUpRead(me) \/ BackUpTruncate(me) \/ BackUpWrite(me)
          PROVE  SoloInv'
        BY <1>2, <2>6, SoloRead, SoloWrite
    <2>7. ASSUME \/ \E p \in Paths : RestoreOpen(me, p)
                 \/ RestoreTruncate(me)
                 \/ RestoreNothing(me)
                 \/ RestoreRemoveScript(me)
                 \/ RestoreCreateScript(me)
                 \/ RestoreDrop(me)
          PROVE  SoloInv'
        BY <1>2, <2>7, SoloRestore
    <2> QED
        BY <2>1, <2>2, <2>3, <2>4, <2>5, <2>6, <2>7 DEF Next
<1> QED
    BY <1>1, <1>3

\* One running program, listings that do not fail, and any other fault: opens
\* and writes that fail, scripts that cannot be touched, a crash anywhere.  The
\* list covers the archive, the archive holds at most one chunk of a script and
\* every chunk is the latest copy taken of its script.
THEOREM SoloSafe ==
    ASSUME NEW me, Instances = {me}, "list" \notin Faults
    PROVE  Spec => [](ListCoversArchive /\ ChunksUnique /\ ChunkIsLatest)
<1> DEFINE Inv == TypeInv /\ SoloInv
<1>1. Init => Inv
    BY TypeInit, SoloInit
<1>2. Inv /\ [Next]_vars => Inv'
    BY SoloStep
<1>3. Inv => ListCoversArchive /\ ChunksUnique /\ ChunkIsLatest
    BY DEF SoloInv
<1> QED
    BY <1>1, <1>2, <1>3, PTL DEF Spec

\* So a backup replaces the chunk that an instance's list promises: the list of the one
\* running program covers the archive (InitArchive, BackUp).
THEOREM ListIsComplete ==
    ASSUME NEW me, Instances = {me}, "list" \notin Faults
    PROVE  Spec => []ListCoversArchive
<1>1. Spec => [](ListCoversArchive /\ ChunksUnique /\ ChunkIsLatest)
    BY SoloSafe
<1> QED
    BY <1>1, PTL

\* No chunk of the archive is hidden behind another one of its script (CalcOffsetInArray).
THEOREM NoSecondChunk ==
    ASSUME NEW me, Instances = {me}, "list" \notin Faults
    PROVE  Spec => []ChunksUnique
<1>1. Spec => [](ListCoversArchive /\ ChunksUnique /\ ChunkIsLatest)
    BY SoloSafe
<1> QED
    BY <1>1, PTL

\* A restore creates a script again only with a chunk of it in memory.
HasChunk == \A i \in Instances : pc[i] = "rsCreate" => Found(data[i], cur[i])

LEMMA HasChunkStep ==
    ASSUME NEW me, Instances = {me}, TypeInv, HasChunk, [Next]_vars
    PROVE  HasChunk'
<1> SUFFICES ASSUME pc'[me] = "rsCreate"
             PROVE  Found(data'[me], cur'[me])
    BY DEF HasChunk, Found
<1>1. /\ pc \in [Instances -> Labels] /\ me \in Instances
      /\ pc[me] = "rsCreate" => Found(data[me], cur[me])
    BY DEF TypeInv, TypeOK, HasChunk
<1>2. CASE UNCHANGED <<pc, data, cur>>
    BY <1>1, <1>2
<1>3. CASE RestoreRemoveScript(me)
    BY <1>3 DEF RestoreRemoveScript
<1>4. CASE Start(me) \/ FindProccedure(me) \/ Stop(me)
    BY <1>1, <1>4 DEF Start, FindProccedure, Stop, Off
<1>5. ASSUME NEW p \in Paths,
             \/ BackUpNoScript(me, p) \/ BackUpPrepare(me, p)
             \/ RestoreOpenFails(me, p) \/ RestoreOpen(me, p)
      PROVE  FALSE
    BY <1>1, <1>5 DEF BackUpNoScript, BackUpPrepare, RestoreOpenFails, RestoreOpen, BackUpEnds
<1>6. CASE BackUpReadFails(me) \/ BackUpRead(me) \/ BackUpTruncateFails(me)
           \/ BackUpTruncate(me) \/ BackUpWrite(me)
    BY <1>1, <1>6 DEF BackUpReadFails, BackUpRead, BackUpTruncateFails, BackUpTruncate,
       BackUpWrite, BackUpEnds
<1>7. CASE RestoreTruncate(me) \/ RestoreNothing(me) \/ RestoreCreateScript(me)
           \/ RestoreDrop(me)
    BY <1>1, <1>7 DEF RestoreTruncate, RestoreNothing, RestoreCreateScript, RestoreDrop
<1>8. ASSUME NEW p \in Paths, EditScript(p)
      PROVE  UNCHANGED <<pc, data, cur>>
    BY <1>8 DEF EditScript
<1>9. CASE UNCHANGED vars
    BY <1>2, <1>9 DEF vars
<1> QED
    BY <1>2, <1>3, <1>4, <1>5, <1>6, <1>7, <1>8, <1>9 DEF Next

\* Only RestoreCreateScript leaves rsCreate for rsDrop, with the first chunk of the path.
LEMMA CreateGivesLatest ==
    ASSUME NEW me, Instances = {me}, TypeInv, SoloInv, HasChunk, [Next]_vars,
           NEW i \in Instances,
           pc[i] = "rsCreate", scripts'[cur[i]] # scripts[cur[i]], pc'[i] = "rsDrop"
    PROVE  scripts'[cur[i]] \in {latest[cur[i]], Torn}
<1>1. i = me /\ me \in Instances
    OBVIOUS
<1>2. /\ pc \in [Instances -> Labels] /\ cur[me] \in Paths /\ data[me] \in Seq(Chunk)
      /\ scripts \in [Paths -> Content \cup {NoFile}]
    BY <1>1 DEF TypeInv, TypeOK
<1>3. RestoreCreateScript(me)
    <2>1. \A p \in Paths : ~EditScript(p) /\ ~BackUpNoScript(me, p) /\ ~BackUpPrepare(me, p)
                           /\ ~RestoreOpenFails(me, p) /\ ~RestoreOpen(me, p)
        BY <1>1 DEF EditScript, BackUpNoScript, BackUpPrepare, RestoreOpenFails, RestoreOpen
    <2>2. ~Start(me) /\ ~FindProccedure(me) /\ ~Stop(me)
        BY <1>1, <1>2 DEF Start, FindProccedure, Stop, Off
    <2>3. ~BackUpReadFails(me) /\ ~BackUpRead(me) /\ ~BackUpTruncateFails(me)
          /\ ~BackUpTruncate(me) /\ ~BackUpWrite(me)
        BY <1>1 DEF BackUpReadFails, BackUpRead, BackUpTruncateFails, BackUpTruncate,
           BackUpWrite
    <2>4. ~RestoreTruncate(me) /\ ~RestoreNothing(me) /\ ~RestoreRemoveScript(me)
          /\ ~RestoreDrop(me)
        BY <1>1 DEF RestoreTruncate, RestoreNothing, RestoreRemoveScript, RestoreDrop
    <2>5. ~UNCHANGED vars
        BY <1>1 DEF vars
    <2> QED
        BY <2>1, <2>2, <2>3, <2>4, <2>5 DEF Next
<1> DEFINE k == Offset(data[me], cur[me])
<1>4. k \in DOMAIN data[me] /\ data[me][k].path = cur[me]
    BY <1>1, <1>2, OffsetOfFound, LenProperties DEF HasChunk
<1>5. data[me][k].ver = latest[cur[me]]
    <2>1. LatestIn(data[me], latest)
        BY <1>1 DEF SoloInv, InRestore
    <2> HIDE DEF k
    <2> QED
        BY <1>4, <2>1 DEF LatestIn
<1>6. \/ scripts' = [scripts EXCEPT ![cur[me]] = data[me][k].ver]
      \/ scripts' = [scripts EXCEPT ![cur[me]] = Torn]
      \/ UNCHANGED scripts
    BY <1>3 DEF RestoreCreateScript
<1> HIDE DEF k
<1> QED
    BY <1>1, <1>2, <1>5, <1>6

\* What such a program restores is the latest copy taken of the script.
THEOREM RestoresGiveLatest ==
    ASSUME NEW me, Instances = {me}, "list" \notin Faults
    PROVE  Spec => RestoreGivesLatest
<1> DEFINE Inv == TypeInv /\ SoloInv /\ HasChunk
<1>1. Init => Inv
    <2>1. Init => HasChunk
        BY DEF Init, HasChunk, Off
    <2> QED
        BY <2>1, TypeInit, SoloInit
<1>2. Inv /\ [Next]_vars => Inv'
    BY SoloStep, HasChunkStep
<1>3. Inv /\ [Next]_vars =>
          [\A i \in Instances :
              pc[i] = "rsCreate" /\ scripts'[cur[i]] # scripts[cur[i]] /\ pc'[i] = "rsDrop" =>
                  scripts'[cur[i]] \in {latest[cur[i]], Torn}]_vars
    BY CreateGivesLatest
<1> QED
    BY <1>1, <1>2, <1>3, PTL DEF Spec, RestoreGivesLatest
-----------------------------------------------------------------------------
(* Any number of instances and any faults: no script gets another's text.  *)

OwnInv ==
    /\ NoForeignContent
    /\ \A i \in Instances : OwnIn(data[i])

\* The chunk of a path, found, has the text of that path, or none.
LEMMA OwnFound ==
    ASSUME NEW s \in Seq(Chunk), NEW p, OwnIn(s), Found(s, p)
    PROVE  LET c == s[Offset(s, p)].ver IN
           c \in Content /\ (c # Torn => c.of = p)
<1> DEFINE k == Offset(s, p)
<1>1. k \in 1..Len(s) /\ s[k].path = p
    BY OffsetOfFound
<1>2. DOMAIN s = 1..Len(s) /\ s[k] \in Chunk
    BY <1>1, LenProperties, ElementOfSeq
<1> HIDE DEF k
<1> QED
    BY <1>1, <1>2 DEF OwnIn, Chunk, k

\* The steps in which an instance reads what is on the disk.
LEMMA OwnReads ==
    ASSUME TypeInv, OwnInv, NEW i \in Instances, NEW p \in Paths,
           BackUpPrepare(i, p) \/ BackUpRead(i) \/ RestoreOpen(i, p)
    PROVE  OwnIn(data'[i])
<1>1. OwnIn(Chunks(archive)) /\ Chunks(archive) \in Seq(Chunk)
    BY ChunksType DEF OwnInv, NoForeignContent, TypeInv, TypeOK
<1>2. CASE BackUpPrepare(i, p)
    <2> DEFINE s == <<[path |-> p, ver |-> scripts[p]]>>
    <2>1. scripts[p] \in Content /\ (scripts[p] # Torn => scripts[p].of = p)
        BY <1>2 DEF BackUpPrepare, TypeInv, TypeOK, OwnInv, NoForeignContent
    <2>2. s \in Seq(Chunk) /\ Len(s) = 1 /\ s[1].path = p /\ s[1].ver = scripts[p]
        BY <2>1, OneChunk
    <2>3. data'[i] = s
        BY <1>2 DEF BackUpPrepare, TypeInv, TypeOK
    <2> HIDE DEF s
    <2>4. DOMAIN s = 1..1
        BY <2>2, LenProperties
    <2> QED
        BY <2>1, <2>2, <2>3, <2>4 DEF OwnIn
<1>3. CASE BackUpRead(i)
    <2> DEFINE c == data[i][1]
               q == cur[i]
    <2>1. archive \in Seq(Chunk) /\ Len(data[i]) = 1 /\ c.path = q
        BY <1>3 DEF BackUpRead, TypeInv, TypeOK, DataInv
    <2>2. data[i] \in Seq(Chunk) /\ 1 \in 1..Len(data[i]) /\ OwnIn(data[i])
        BY <2>1 DEF TypeInv, TypeOK, OwnInv
    <2>3. c \in Chunk /\ (c.ver # Torn => c.ver.of = c.path)
        BY <2>2, ElementOfSeq, LenProperties DEF OwnIn
    <2>4. \/ /\ Found(archive, q)
             /\ data'[i] = [archive EXCEPT ![Offset(archive, q)] = c]
          \/ data'[i] = Append(archive, c)
        BY <1>3 DEF BackUpRead, TypeInv, TypeOK
    <2> HIDE DEF c
    <2>5. OwnIn(archive) /\ DOMAIN archive = 1..Len(archive) /\ Len(archive) \in Nat
        BY <1>1, <2>1, ChunksOfSeq, LenProperties
    <2>6. CASE /\ Found(archive, q)
               /\ data'[i] = [archive EXCEPT ![Offset(archive, q)] = c]
        <3> DEFINE t == [archive EXCEPT ![Offset(archive, q)] = c]
        <3>1. /\ t \in Seq(Chunk)
              /\ Len(t) = Len(archive)
              /\ \A j \in 1..Len(archive) : t[j] = archive[j] \/ t[j] = c
            BY <2>1, <2>3, <2>6, ReplacedChunk
        <3>2. data'[i] = t
            BY <2>6
        <3> HIDE DEF t
        <3>3. DOMAIN t = 1..Len(archive)
            BY <3>1, LenProperties
        <3> QED
            BY <2>3, <2>5, <3>1, <3>2, <3>3 DEF OwnIn
    <2>7. CASE data'[i] = Append(archive, c)
        <3> DEFINE t == Append(archive, c)
        <3>1. /\ t \in Seq(Chunk)
              /\ Len(t) = Len(archive) + 1
              /\ \A j \in 1..Len(archive) : t[j] = archive[j]
              /\ t[Len(archive) + 1] = c
            BY <2>1, <2>3, AppendedChunk
        <3>2. data'[i] = t
            BY <2>7
        <3> HIDE DEF t
        <3>3. DOMAIN t = 1..Len(archive) + 1
            BY <3>1, LenProperties
        <3> QED
            BY <2>3, <2>5, <3>1, <3>2, <3>3 DEF OwnIn
    <2> QED
        BY <2>4, <2>6, <2>7
<1>4. CASE RestoreOpen(i, p)
    BY <1>1, <1>4 DEF RestoreOpen, TypeInv, TypeOK
<1> QED
    BY <1>2, <1>3, <1>4

\* The steps in which an instance writes the archive.
LEMMA OwnWrites ==
    ASSUME TypeInv, OwnInv, NEW i \in Instances,
           BackUpTruncate(i) \/ BackUpWrite(i) \/ RestoreTruncate(i) \/ RestoreDrop(i)
    PROVE  /\ OwnIn(Chunks(archive'))
           /\ scripts' = scripts
           /\ data' \in {data, [data EXCEPT ![i] = <<>>]}
<1>1. /\ OwnIn(Chunks(archive)) /\ OwnIn(data[i]) /\ data[i] \in Seq(Chunk)
      /\ Chunks(<<>>) = <<>> /\ Chunks(NoArchive) = <<>> /\ OwnIn(<<>>)
    BY ChunksOfSeq, EmptySeq DEF OwnInv, NoForeignContent, TypeInv, TypeOK, Chunks, OwnIn
<1> DEFINE r == Rest(data[i], cur[i])
<1>2. /\ archive' \in {archive, <<>>, NoArchive, data[i], r}
      /\ scripts' = scripts
      /\ data' \in {data, [data EXCEPT ![i] = <<>>]}
    BY DEF BackUpTruncate, BackUpWrite, BackUpEnds, RestoreTruncate, RestoreDrop, Write
<1> HIDE DEF r
<1>3. r \in Seq(Chunk) /\ \A j \in 1..Len(r) : \E k \in 1..Len(data[i]) : r[j] = data[i][k]
    BY <1>1, RestOfChunks DEF r
<1>4. OwnIn(r)
    BY <1>1, <1>3, LenProperties DEF OwnIn
<1> QED
    BY <1>1, <1>2, <1>3, <1>4, ChunksOfSeq

\* However many programs share the archive and whatever fails, no script and no
\* chunk ever has the text of another script.
THEOREM OwnContent == Spec => []NoForeignContent
<1> DEFINE Inv == TypeInv /\ OwnInv
<1>1. Init => Inv
    <2> SUFFICES ASSUME Init PROVE OwnInv
        BY TypeInit
    <2> QED
        BY DEF Init, OwnInv, NoForeignContent, OwnIn, Chunks
<1>2. Inv /\ [Next]_vars => Inv'
    <2> SUFFICES ASSUME TypeInv, OwnInv, [Next]_vars
                 PROVE  OwnInv'
        BY TypeStep
    <2>1. CASE UNCHANGED vars
        BY <2>1 DEF vars, OwnInv, NoForeignContent
    <2>2. ASSUME NEW p \in Paths, EditScript(p)
          PROVE  OwnInv'
        <3>1. PICK c \in [of : {p}, n : Versions] \cup {NoFile} :
                 scripts' = [scripts EXCEPT ![p] = c]
            BY <2>2 DEF EditScript
        <3>2. archive' = archive /\ data' = data
            BY <2>2 DEF EditScript
        <3>3. c # NoFile => c.of = p
            OBVIOUS
        <3> QED
            BY <3>1, <3>2, <3>3 DEF OwnInv, NoForeignContent, TypeInv, TypeOK
    <2>3. ASSUME NEW i \in Instances, NEW p \in Paths,
                 BackUpPrepare(i, p) \/ BackUpRead(i) \/ RestoreOpen(i, p)
          PROVE  OwnInv'
        <3>1. OwnIn(data'[i])
            BY <2>3, OwnReads
        <3>2. /\ Chunks(archive') = Chunks(archive) /\ scripts' = scripts
              /\ \A j \in Instances : j # i => data'[j] = data[j]
            <4>1. Chunks(Chunks(archive)) = Chunks(archive)
                BY ChunksType, ChunksOfSeq DEF TypeInv, TypeOK
            <4> QED
                BY <2>3, <4>1 DEF BackUpPrepare, BackUpRead, RestoreOpen, TypeInv, TypeOK
        <3> QED
            BY <3>1, <3>2 DEF OwnInv, NoForeignContent
    <2>4. ASSUME NEW i \in Instances,
                 BackUpTruncate(i) \/ BackUpWrite(i) \/ RestoreTruncate(i) \/ RestoreDrop(i)
          PROVE  OwnInv'
        <3>1. /\ OwnIn(Chunks(archive'))
              /\ scripts' = scripts
              /\ data' \in {data, [data EXCEPT ![i] = <<>>]}
            BY <2>4, OwnWrites
        <3>2. \A j \in Instances : data'[j] = data[j] \/ data'[j] = <<>>
            BY <3>1 DEF TypeInv, TypeOK
        <3> QED
            BY <3>1, <3>2 DEF OwnInv, NoForeignContent, OwnIn
    <2>5. ASSUME NEW i \in Instances, RestoreRemoveScript(i) \/ RestoreCreateScript(i)
          PROVE  OwnInv'
        <3>1. /\ archive' = archive /\ data' = data
              /\ data[i] \in Seq(Chunk) /\ OwnIn(data[i]) /\ cur[i] \in Paths
            BY <2>5 DEF RestoreRemoveScript, RestoreCreateScript, TypeInv, TypeOK, OwnInv
        <3>2. \A p \in Paths : scripts'[p] \notin {NoFile, Torn} => scripts'[p].of = p
            <4>1. CASE RestoreRemoveScript(i)
                BY <4>1 DEF RestoreRemoveScript, OwnInv, NoForeignContent, TypeInv, TypeOK
            <4>2. CASE RestoreCreateScript(i)
                <5> DEFINE c == data[i][Offset(data[i], cur[i])].ver
                <5>1. Found(data[i], cur[i])
                    BY <4>2 DEF RestoreCreateScript, TypeInv, DataInv
                <5>2. c # Torn => c.of = cur[i]
                    BY <3>1, <5>1, OwnFound
                <5>3. \/ scripts' \in {[scripts EXCEPT ![cur[i]] = c],
                                      [scripts EXCEPT ![cur[i]] = Torn]}
                      \/ scripts' = scripts
                    BY <4>2 DEF RestoreCreateScript
                <5> HIDE DEF c
                <5> QED
                    BY <5>2, <5>3 DEF OwnInv, NoForeignContent, TypeInv, TypeOK
            <4> QED
                BY <2>5, <4>1, <4>2
        <3> QED
            BY <3>1, <3>2 DEF OwnInv, NoForeignContent
    <2>6. ASSUME NEW i \in Instances, NEW p \in Paths,
                 \/ Start(i) \/ FindProccedure(i) \/ Stop(i)
                 \/ BackUpNoScript(i, p) \/ BackUpReadFails(i)
                 \/ BackUpTruncateFails(i) \/ RestoreOpenFails(i, p)
                 \/ RestoreNothing(i)
          PROVE  OwnInv'
        <3>1. /\ archive' = archive /\ scripts' = scripts
              /\ data' \in {data, [data EXCEPT ![i] = <<>>]}
            BY <2>6 DEF Start, FindProccedure, Stop, BackUpNoScript, BackUpReadFails,
                        BackUpTruncateFails, RestoreOpenFails, RestoreNothing, BackUpEnds
        <3>2. \A j \in Instances : data'[j] = data[j] \/ data'[j] = <<>>
            BY <3>1 DEF TypeInv, TypeOK
        <3> QED
            BY <3>1, <3>2 DEF OwnInv, NoForeignContent, OwnIn
    <2>7. \A i \in Instances : cur[i] \in Paths
        BY DEF TypeInv, TypeOK
    <2> QED
        BY <2>1, <2>2, <2>3, <2>4, <2>5, <2>6, <2>7 DEF Next
<1>3. Inv => NoForeignContent
    BY DEF OwnInv
<1> QED
    BY <1>1, <1>2, <1>3, PTL DEF Spec
=============================================================================
