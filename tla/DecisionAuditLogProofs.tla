----------------------- MODULE DecisionAuditLogProofs -----------------------
(***************************************************************************)
(* Proofs about DecisionAuditLog, for any number of writers, any set of     *)
(* verdicts, any faults and any amount of damage to the archived file.     *)
(***************************************************************************)
EXTENDS DecisionAuditLog, TLAPS

Line == Entry \cup {Torn}

LEMMA GenesisType == GENESIS \in Digest
BY DEF GENESIS, Digest

(* A digest determines the content and the digest it was computed from. *)
LEMMA DigestDetermines ==
    ASSUME NEW d \in Entry, NEW e \in Entry,
           Recomputed(d), Recomputed(e), d.entry_hash = e.entry_hash
    PROVE  d = e
<1> DEFINE c(x) == [seq |-> x.seq, verdict |-> x.verdict]
<1>1. c(d) \in Content /\ c(e) \in Content /\ d.prev_hash \in Digest /\ e.prev_hash \in Digest
  BY DEF Entry, Content
<1> HIDE DEF c
<1>2. Append(d.prev_hash, c(d)) = Append(e.prev_hash, c(e))
  BY DEF Recomputed, EntryHash, c
<1>3. d.prev_hash = e.prev_hash /\ c(d) = c(e)
  BY <1>1, <1>2 DEF Digest
<1> QED
  BY <1>3 DEF c, Entry

LEMMA NewEntryType ==
    ASSUME TypeOK, NEW w \in Writer, NEW v \in Verdict
    PROVE  /\ NewEntry(w, v) \in Entry
           /\ NewEntry(w, v).entry_hash \in Digest
           /\ Recomputed(NewEntry(w, v))
<1>1. seq[w] \in Nat /\ last_hash[w] \in Digest
  BY DEF TypeOK
<1>2. [seq |-> seq[w], verdict |-> v] \in Content
  BY <1>1 DEF Content
<1>3. EntryHash(seq[w], v, last_hash[w]) \in Digest
  BY <1>1, <1>2 DEF EntryHash, Digest
<1> QED
  BY <1>1, <1>3 DEF NewEntry, Entry, Recomputed

(* What writing a line does to the file. *)
LEMMA PutType ==
    ASSUME TypeOK, NEW line \in Line, NEW ended \in BOOLEAN, Put(line, ended), ~archived
    PROVE  file' \in Seq(Line) /\ unterminated' = ~ended /\ file' # <<>>
<1>1. file \in Seq(Line) /\ unterminated \in BOOLEAN /\ (unterminated => file # <<>>)
  BY DEF TypeOK, Line
<1>2. CASE unterminated
  <2>1. file' = [file EXCEPT ![Len(file)] = Torn]
    BY <1>2 DEF Put
  <2>2. Len(file) \in DOMAIN file /\ Torn \in Line
    BY <1>1, <1>2 DEF Line
  <2> QED
    BY <1>1, <2>1, <2>2 DEF Put
<1>3. CASE ~unterminated
  <2>1. file' = Append(file, line)
    BY <1>3 DEF Put
  <2> QED
    BY <1>1, <2>1 DEF Put
<1> QED
  BY <1>1, <1>2, <1>3

LEMMA StopType ==
    ASSUME TypeOK, NEW S \in SUBSET Writer, Stop(S)
    PROVE  /\ running' \in [Writer -> BOOLEAN]
           /\ seq' \in [Writer -> Nat]
           /\ last_hash' \in [Writer -> Digest]
           /\ last_logged' \in [Writer -> Verdict \cup {NoVerdict}]
BY GenesisType DEF TypeOK, Stop

-----------------------------------------------------------------------------
(* The types of the log, whatever fails (property TypeOK). *)
THEOREM TypeCorrect == Spec => []TypeOK
<1>1. Init => TypeOK
  <2> SUFFICES ASSUME Init
               PROVE  TypeOK
    OBVIOUS
  <2>1. file \in Seq(Entry \cup {Torn}) /\ original \in Seq(Entry \cup {Torn})
    BY DEF Init
  <2>2. last_hash \in [Writer -> Digest]
    BY GenesisType DEF Init
  <2>3. seq \in [Writer -> Nat] /\ damage \in Nat
    BY DEF Init
  <2>4. running \in [Writer -> BOOLEAN] /\ last_logged \in [Writer -> Verdict \cup {NoVerdict}]
    BY DEF Init
  <2> QED
    BY <2>1, <2>2, <2>3, <2>4 DEF Init, TypeOK
<1>2. TypeOK /\ [Next]_vars => TypeOK'
  <2> SUFFICES ASSUME TypeOK, [Next]_vars
               PROVE  TypeOK'
    OBVIOUS
  <2>0. file \in Seq(Line) /\ original \in Seq(Line) /\ Torn \in Line /\ Entry \subseteq Line
    BY DEF TypeOK, Line
  <2>1. ASSUME NEW w \in Writer, NEW n \in Nat, NEW h \in Digest, Open(w, n, h), disturbed' \in BOOLEAN
        PROVE  TypeOK'
    <3>1. /\ running' = [running EXCEPT ![w] = TRUE]
          /\ seq' = [seq EXCEPT ![w] = n]
          /\ last_hash' = [last_hash EXCEPT ![w] = h]
          /\ last_logged' = [last_logged EXCEPT ![w] = NoVerdict]
          /\ UNCHANGED <<file, unterminated, archived, damage, original>>
      BY <2>1 DEF Open, logVars, archiveVars
    <3> QED
      BY <2>1, <3>1 DEF TypeOK
  <2>2. ASSUME NEW w \in Writer, Start(w)
        PROVE  TypeOK'
    <3>1. disturbed' \in BOOLEAN
      BY <2>2 DEF Start, TypeOK, Alone
    <3>2. CASE file = <<>>
      <4>1. Open(w, 0, GENESIS)
        BY <2>2, <3>2 DEF Start
      <4> QED
        BY <2>1, <3>1, <4>1, GenesisType
    <3>3. CASE file # <<>>
      <4> DEFINE last == file[Len(file)]
      <4>1. last # Torn /\ Open(w, NextSeq(last), last.entry_hash)
        BY <2>2, <3>3 DEF Start
      <4>2. last \in Entry
        <5>1. Len(file) \in DOMAIN file
          BY <2>0, <3>3
        <5>2. last \in Line
          BY <2>0, <5>1
        <5> QED
          BY <4>1, <5>2 DEF Line
      <4>3. NextSeq(last) \in Nat /\ last.entry_hash \in Digest
        BY <4>2 DEF NextSeq, Entry
      <4> QED
        BY <2>1, <3>1, <4>1, <4>3
    <3> QED
      BY <3>2, <3>3
  <2>3. ASSUME NEW w \in Writer, StartOver(w)
        PROVE  TypeOK'
    BY <2>1, <2>3, GenesisType DEF StartOver
  <2>4. ASSUME NEW w \in Writer, Crash(w)
        PROVE  TypeOK'
    <3>1. {w} \in SUBSET Writer
      OBVIOUS
    <3> QED
      BY <2>4, <3>1, StopType DEF Crash, TypeOK, logVars, archiveVars
  <2>5. ASSUME NEW w \in Writer, NEW v \in Verdict, Record(w, v)
        PROVE  TypeOK'
    <3>1. NewEntry(w, v) \in Line /\ NewEntry(w, v).entry_hash \in Digest /\ ~archived
      BY <2>0, <2>5, NewEntryType DEF Record, Changes
    <3>2. file' \in Seq(Line) /\ unterminated' \in BOOLEAN /\ file' # <<>>
      BY <2>5, <3>1, PutType DEF Record
    <3> QED
      BY <2>5, <3>1, <3>2 DEF Record, Note, TypeOK, archiveVars, Line
  <2>6. ASSUME NEW w \in Writer, NEW v \in Verdict, RecordFails(w, v)
        PROVE  TypeOK'
    BY <2>6 DEF RecordFails, Note, TypeOK, logVars, archiveVars
  <2>7. ASSUME NEW w \in Writer, NEW v \in Verdict, RecordCutShort(w, v)
        PROVE  TypeOK'
    <3>1. file' \in Seq(Line) /\ unterminated' \in BOOLEAN /\ file' # <<>>
      <4>1. ~archived /\ \E line \in {Torn, NewEntry(w, v)} : Put(line, FALSE)
        BY <2>7 DEF RecordCutShort, Changes
      <4>2. {Torn, NewEntry(w, v)} \subseteq Line
        BY <2>0, NewEntryType DEF Line
      <4> QED
        BY <4>1, <4>2, <2>0, PutType
    <3> QED
      BY <2>7, <3>1 DEF RecordCutShort, Note, TypeOK, archiveVars, Line
  <2>8. ASSUME NEW w \in Writer, NEW v \in Verdict, CrashTearsLine(w, v)
        PROVE  TypeOK'
    <3>1. file' \in Seq(Line) /\ unterminated' \in BOOLEAN /\ file' # <<>>
      BY <2>0, <2>8, PutType DEF CrashTearsLine, Changes
    <3>2. {w} \in SUBSET Writer /\ Stop({w})
      BY <2>8 DEF CrashTearsLine
    <3> QED
      BY <2>8, <3>1, <3>2, StopType DEF CrashTearsLine, TypeOK, archiveVars, Line
  <2>9. ASSUME NEW w \in Writer, NEW v \in Verdict, CrashBeforeNewline(w, v)
        PROVE  TypeOK'
    <3>1. NewEntry(w, v) \in Line /\ ~archived
      BY <2>0, <2>9, NewEntryType DEF CrashBeforeNewline, Changes
    <3>2. file' \in Seq(Line) /\ unterminated' \in BOOLEAN /\ file' # <<>>
      BY <2>9, <3>1, PutType DEF CrashBeforeNewline
    <3>3. {w} \in SUBSET Writer /\ Stop({w})
      BY <2>9 DEF CrashBeforeNewline
    <3> QED
      BY <2>9, <3>2, <3>3, StopType DEF CrashBeforeNewline, TypeOK, archiveVars, Line
  <2>10. CASE PowerFailure
    <3>1. PICK k \in 0..Len(file) : file' = SubSeq(file, 1, k)
      BY <2>10 DEF PowerFailure
    <3>2. file' \in Seq(Line)
      BY <2>0, <3>1
    <3> QED
      BY <2>10, <3>2, StopType DEF PowerFailure, TypeOK, archiveVars, Line
  <2>11. CASE Archive
    BY <2>11, StopType DEF Archive, TypeOK, logVars
  <2>12. ASSUME Damaged, file' \in Seq(Line)
         PROVE  TypeOK'
    BY <2>12 DEF Damaged, writerVars, TypeOK, Line
  <2>13. ASSUME NEW i \in DOMAIN file, DeleteLine(i) \/ RepeatLine(i)
         PROVE  TypeOK'
    <3>1. i \in 1..Len(file) /\ file[i] \in Line
      BY <2>0
    <3>2. SubSeq(file, 1, i - 1) \in Seq(Line) /\ SubSeq(file, i + 1, Len(file)) \in Seq(Line)
      BY <2>0, <3>1
    <3>3. file' \in Seq(Line)
      <4>1. SubSeq(file, 1, i - 1) \o SubSeq(file, i + 1, Len(file)) \in Seq(Line)
        BY <3>2
      <4>2. Append(file, file[i]) \in Seq(Line)
        BY <2>0, <3>1
      <4> QED
        BY <2>13, <4>1, <4>2 DEF DeleteLine, RepeatLine
    <3> QED
      BY <2>12, <2>13, <3>3 DEF DeleteLine, RepeatLine
  <2>14. ASSUME NEW i \in DOMAIN file, NEW j \in DOMAIN file, SwapLines(i, j)
         PROVE  TypeOK'
    <3>1. file' \in Seq(Line)
      BY <2>0, <2>14 DEF SwapLines
    <3> QED
      BY <2>12, <2>14, <3>1 DEF SwapLines
  <2>15. ASSUME NEW i \in DOMAIN file, NEW v \in Verdict, AlterLine(i, v)
         PROVE  TypeOK'
    <3>1. file[i] \in Entry
      BY <2>0, <2>15 DEF AlterLine, Line
    <3>2. [file[i] EXCEPT !.verdict = v] \in Entry
      BY <3>1 DEF Entry
    <3>3. file' = [file EXCEPT ![i] = [file[i] EXCEPT !.verdict = v]]
      BY <2>15 DEF AlterLine
    <3>4. file' \in Seq(Line)
      BY <2>0, <3>2, <3>3
    <3> QED
      BY <2>12, <2>15, <3>4 DEF AlterLine
  <2>16. CASE UNCHANGED vars
    BY <2>16 DEF vars, TypeOK
  <2> QED
    BY <2>2, <2>3, <2>4, <2>5, <2>6, <2>7, <2>8, <2>9, <2>10, <2>11, <2>13, <2>14, <2>15, <2>16
       DEF Next
<1> QED
  BY <1>1, <1>2, PTL DEF Spec

-----------------------------------------------------------------------------
(* The strengthening.  A live log that was not disturbed is a chain but for *)
(* a torn line at its end, is open for one writer at most, and that writer  *)
(* stands at its end.  Disturbed or not, each line carries the digest of    *)
(* its content; an archived file carries no other digests than the log it   *)
(* was made from.                                                          *)
Genuine(f) == \A i \in DOMAIN f : f[i] # Torn => Recomputed(f[i])

Chained(f) == \A i \in DOMAIN f : LineOK(f, i) \/ (i = Len(f) /\ f[i] = Torn)

Undisturbed ==
    /\ Chained(file)
    /\ unterminated => file[Len(file)] = Torn
    /\ \A w, u \in Writer : running[w] /\ running[u] => w = u
    /\ \A w \in Writer : running[w] =>
          /\ Verified(file) /\ ~unterminated
          /\ seq[w] = Len(file) /\ last_hash[w] = Hash(file, Len(file))

LiveInv == ~archived => Genuine(file) /\ (~disturbed => Undisturbed)

SameDigests(f, g) ==
    \A i \in DOMAIN f : f[i] # Torn =>
        \E k \in DOMAIN g : g[k] # Torn /\ g[k].entry_hash = f[i].entry_hash

ArchiveInv == archived =>
    /\ Genuine(original)
    /\ ~disturbed => Chained(original)
    /\ \A w \in Writer : ~running[w]
    /\ SameDigests(file, original)

AuditInv == LiveInv /\ ArchiveInv

(* A chain grows by an entry that continues it... *)
LEMMA ChainGrows ==
    ASSUME NEW f \in Seq(Line), NEW e \in Entry, Verified(f),
           e.seq = Len(f), e.prev_hash = Hash(f, Len(f)), Recomputed(e)
    PROVE  /\ Verified(Append(f, e))
           /\ Hash(Append(f, e), Len(f) + 1) = e.entry_hash
<1> DEFINE g == Append(f, e)
<1>1. /\ g \in Seq(Line) /\ DOMAIN g = 1..(Len(f) + 1) /\ DOMAIN f = 1..Len(f)
      /\ g[Len(f) + 1] = e /\ \A i \in 1..Len(f) : g[i] = f[i]
      /\ Len(f) \in Nat
  BY DEF Line
<1> HIDE DEF g
<1>2. \A i \in 0..Len(f) : Hash(g, i) = Hash(f, i)
  BY <1>1 DEF Hash
<1>3. ASSUME NEW i \in 1..Len(f)
      PROVE  LineOK(g, i)
  <2>1. LineOK(f, i) /\ i - 1 \in 0..Len(f) /\ g[i] = f[i]
    BY <1>1 DEF Verified
  <2> QED
    BY <1>2, <2>1 DEF LineOK, Follows
<1>4. LineOK(g, Len(f) + 1)
  <2>1. e # Torn
    BY DistinctAssumption
  <2> QED
    BY <1>1, <1>2, <2>1 DEF LineOK, Follows
<1>5. \A i \in 1..(Len(f) + 1) : i \in 1..Len(f) \/ i = Len(f) + 1
  BY <1>1
<1>6. Verified(g)
  BY <1>1, <1>3, <1>4, <1>5 DEF Verified
<1> QED
  BY <1>1, <1>6 DEF Hash, g

(* ... may end in a torn line ... *)
LEMMA TornTail ==
    ASSUME NEW f \in Seq(Line), Verified(f)
    PROVE  Chained(Append(f, Torn)) /\ Append(f, Torn)[Len(Append(f, Torn))] = Torn
<1> DEFINE g == Append(f, Torn)
<1>1. /\ DOMAIN g = 1..(Len(f) + 1) /\ DOMAIN f = 1..Len(f) /\ Len(g) = Len(f) + 1
      /\ g[Len(f) + 1] = Torn /\ \A i \in 1..Len(f) : g[i] = f[i]
      /\ Len(f) \in Nat
  BY DEF Line
<1> HIDE DEF g
<1>2. \A i \in 0..Len(f) : Hash(g, i) = Hash(f, i)
  BY <1>1 DEF Hash
<1>3. ASSUME NEW i \in 1..Len(f)
      PROVE  LineOK(g, i)
  <2>1. LineOK(f, i) /\ i - 1 \in 0..Len(f) /\ g[i] = f[i]
    BY <1>1 DEF Verified
  <2> QED
    BY <1>2, <2>1 DEF LineOK, Follows
<1>4. \A i \in 1..(Len(f) + 1) : i \in 1..Len(f) \/ i = Len(f) + 1
  BY <1>1
<1>5. Chained(g)
  BY <1>1, <1>3, <1>4 DEF Chained
<1> QED
  BY <1>1, <1>5 DEF g

(* ... and what is left of it when its end is lost is a chain. *)
LEMMA LostTail ==
    ASSUME NEW f \in Seq(Line), Chained(f), NEW k \in 0..Len(f), k < Len(f)
    PROVE  Verified(SubSeq(f, 1, k))
<1> DEFINE g == SubSeq(f, 1, k)
<1>1. /\ DOMAIN g = 1..k /\ DOMAIN f = 1..Len(f) /\ Len(f) \in Nat /\ k \in Nat
      /\ \A i \in 1..k : g[i] = f[i]
  OBVIOUS
<1> HIDE DEF g
<1>2. \A i \in 0..k : Hash(g, i) = Hash(f, i)
  BY <1>1 DEF Hash
<1>3. ASSUME NEW i \in 1..k
      PROVE  LineOK(g, i)
  <2>0. i \in Nat /\ 1 <= i /\ i <= k
    BY <1>1
  <2>1. i - 1 \in 0..k /\ g[i] = f[i]
    BY <1>1, <2>0
  <2>2. i \in DOMAIN f /\ i # Len(f)
    BY <1>1, <2>0
  <2>3. LineOK(f, i)
    BY <2>2 DEF Chained
  <2> QED
    BY <1>2, <2>1, <2>3 DEF LineOK, Follows
<1>4. Verified(g)
  BY <1>1, <1>3 DEF Verified
<1> QED
  BY <1>4 DEF g

LEMMA GenuinePart ==
    ASSUME NEW f \in Seq(Line), Genuine(f), NEW k \in 0..Len(f)
    PROVE  Genuine(SubSeq(f, 1, k))
<1>1. /\ DOMAIN SubSeq(f, 1, k) = 1..k /\ 1..k \subseteq DOMAIN f
      /\ \A i \in 1..k : SubSeq(f, 1, k)[i] = f[i]
  OBVIOUS
<1> QED
  BY <1>1 DEF Genuine

(* Every line a writer puts into the file carries the digest of its content. *)
LEMMA GenuinePut ==
    ASSUME TypeOK, Genuine(file), NEW line \in Line, line # Torn => Recomputed(line),
           NEW ended \in BOOLEAN, Put(line, ended)
    PROVE  Genuine(file')
<1>1. file \in Seq(Line)
  BY DEF TypeOK, Line
<1>2. CASE unterminated
  <2>1. file' = [file EXCEPT ![Len(file)] = Torn]
    BY <1>2 DEF Put
  <2>2. DOMAIN file' = DOMAIN file /\ \A i \in DOMAIN file : file'[i] = file[i] \/ file'[i] = Torn
    BY <1>1, <2>1
  <2> QED
    BY <2>2 DEF Genuine
<1>3. CASE ~unterminated
  <2>1. file' = Append(file, line)
    BY <1>3 DEF Put
  <2>2. /\ DOMAIN file' = 1..(Len(file) + 1) /\ DOMAIN file = 1..Len(file) /\ Len(file) \in Nat
        /\ file'[Len(file) + 1] = line /\ \A i \in 1..Len(file) : file'[i] = file[i]
    BY <1>1, <2>1
  <2>3. \A i \in DOMAIN file' : i \in DOMAIN file \/ i = Len(file) + 1
    BY <2>2
  <2> QED
    BY <2>2, <2>3 DEF Genuine
<1> QED
  BY <1>2, <1>3 DEF TypeOK

-----------------------------------------------------------------------------
(* One lemma for each way the log is used. *)

(* Opening the log: nobody else is writing, and the tail can be read. *)
LEMMA StartKeepsInv ==
    ASSUME TypeOK, AuditInv, NEW w \in Writer, Start(w)
    PROVE  AuditInv'
<1>0. file \in Seq(Line)
  BY DEF TypeOK, Line
<1>1. /\ ~archived /\ ~archived' /\ UNCHANGED <<file, unterminated>>
      /\ running' = [running EXCEPT ![w] = TRUE]
  BY DEF Start, Open, logVars, archiveVars
<1>2. Genuine(file')
  BY <1>1 DEF AuditInv, LiveInv
<1>3. ASSUME ~disturbed'
      PROVE  Undisturbed'
  <2>1. ~disturbed /\ Alone(w)
    BY <1>3 DEF Start
  <2>2. Chained(file) /\ (unterminated => file[Len(file)] = Torn)
    BY <1>1, <2>1 DEF AuditInv, LiveInv, Undisturbed
  <2>3. ~running[w]
    BY DEF Start, Open
  <2>4. \A u \in Writer : running'[u] => u = w
    BY <1>1, <2>1, <2>3 DEF Alone, TypeOK
  <2>5. Verified(file) /\ ~unterminated /\ seq'[w] = Len(file) /\ last_hash'[w] = Hash(file, Len(file))
    <3>1. CASE file = <<>>
      <4>1. Open(w, 0, GENESIS)
        BY <3>1 DEF Start
      <4>2. seq'[w] = 0 /\ last_hash'[w] = GENESIS
        BY <4>1 DEF Open, TypeOK
      <4>3. Verified(file) /\ Len(file) = 0
        BY <3>1 DEF Verified
      <4>4. ~unterminated
        BY <1>1, <3>1 DEF TypeOK
      <4> QED
        BY <4>2, <4>3, <4>4 DEF Hash
    <3>2. CASE file # <<>>
      <4> DEFINE n == Len(file)
      <4>1. n \in Nat /\ n # 0 /\ n \in DOMAIN file /\ DOMAIN file = 1..n
        BY <1>0, <3>2
      <4>2. file[n] # Torn /\ Open(w, NextSeq(file[n]), file[n].entry_hash)
        BY <3>2 DEF Start
      <4>3. seq'[w] = file[n].seq + 1 /\ last_hash'[w] = file[n].entry_hash
        BY <4>2 DEF Open, TypeOK, NextSeq
      <4>4. Verified(file)
        BY <2>2, <4>2 DEF Chained, Verified
      <4>5. file[n].seq = n - 1
        BY <4>1, <4>4 DEF Verified, LineOK, Follows
      <4>6. seq'[w] = n
        BY <4>1, <4>3, <4>5
      <4> QED
        BY <2>2, <4>1, <4>2, <4>3, <4>4, <4>6 DEF Hash
    <3> QED
      BY <3>1, <3>2
  <2> QED
    BY <1>1, <2>2, <2>4, <2>5 DEF Undisturbed
<1> QED
  BY <1>1, <1>2, <1>3 DEF AuditInv, LiveInv, ArchiveInv

(* A record that is written whole continues the chain. *)
LEMMA RecordKeepsInv ==
    ASSUME TypeOK, AuditInv, NEW w \in Writer, NEW v \in Verdict, Record(w, v)
    PROVE  AuditInv'
<1> DEFINE e == NewEntry(w, v)
<1>0. file \in Seq(Line) /\ e \in Entry /\ e \in Line /\ Recomputed(e)
  BY NewEntryType DEF TypeOK, Line
<1>1. /\ ~archived /\ ~archived' /\ running[w] /\ UNCHANGED <<running, disturbed>>
      /\ Put(e, TRUE)
      /\ seq' = [seq EXCEPT ![w] = @ + 1]
      /\ last_hash' = [last_hash EXCEPT ![w] = e.entry_hash]
      /\ e.seq = seq[w] /\ e.prev_hash = last_hash[w]
  BY DEF Record, Changes, archiveVars, NewEntry
<1> HIDE DEF e
<1>2. Genuine(file')
  BY <1>0, <1>1, GenuinePut DEF AuditInv, LiveInv
<1>3. ASSUME ~disturbed'
      PROVE  Undisturbed'
  <2>1. Undisturbed
    BY <1>1, <1>3 DEF AuditInv, LiveInv
  <2>2. Verified(file) /\ ~unterminated /\ seq[w] = Len(file) /\ last_hash[w] = Hash(file, Len(file))
    BY <1>1, <2>1 DEF Undisturbed
  <2>3. file' = Append(file, e) /\ ~unterminated'
    BY <1>1, <2>2 DEF Put
  <2>4. Verified(file') /\ Hash(file', Len(file) + 1) = e.entry_hash
    BY <1>0, <1>1, <2>2, <2>3, ChainGrows
  <2>5. Len(file') = Len(file) + 1
    BY <1>0, <2>3
  <2>6. seq'[w] = Len(file') /\ last_hash'[w] = Hash(file', Len(file'))
    BY <1>1, <2>2, <2>4, <2>5 DEF TypeOK
  <2>7. Chained(file')
    BY <2>4 DEF Chained, Verified
  <2>8. \A u \in Writer : running'[u] => u = w
    BY <1>1, <2>1 DEF Undisturbed
  <2> QED
    BY <2>3, <2>4, <2>6, <2>7, <2>8 DEF Undisturbed
<1> QED
  BY <1>1, <1>2, <1>3 DEF AuditInv, LiveInv, ArchiveInv

(* A line that is torn as its writer dies ends the chain. *)
LEMMA TearKeepsInv ==
    ASSUME TypeOK, AuditInv, NEW w \in Writer, NEW v \in Verdict, CrashTearsLine(w, v)
    PROVE  AuditInv'
<1>0. file \in Seq(Line) /\ Torn \in Line
  BY DEF TypeOK, Line
<1>1. /\ ~archived /\ ~archived' /\ running[w] /\ UNCHANGED disturbed
      /\ Put(Torn, FALSE)
      /\ running' = [u \in Writer |-> running[u] /\ u \notin {w}]
  BY DEF CrashTearsLine, Changes, Stop, archiveVars
<1>2. Genuine(file')
  BY <1>0, <1>1, GenuinePut DEF AuditInv, LiveInv
<1>3. ASSUME ~disturbed'
      PROVE  Undisturbed'
  <2>1. Undisturbed
    BY <1>1, <1>3 DEF AuditInv, LiveInv
  <2>2. Verified(file) /\ ~unterminated
    BY <1>1, <2>1 DEF Undisturbed
  <2>3. file' = Append(file, Torn)
    BY <1>1, <2>2 DEF Put
  <2>4. Chained(file') /\ file'[Len(file')] = Torn
    BY <1>0, <2>2, <2>3, TornTail
  <2>5. \A u \in Writer : ~running'[u]
    BY <1>1, <2>1 DEF Undisturbed
  <2> QED
    BY <2>4, <2>5 DEF Undisturbed
<1> QED
  BY <1>1, <1>2, <1>3 DEF AuditInv, LiveInv, ArchiveInv

(* A log that lost its end can be continued. *)
LEMMA PowerFailureKeepsInv ==
    ASSUME TypeOK, AuditInv, PowerFailure
    PROVE  AuditInv'
<1>0. file \in Seq(Line)
  BY DEF TypeOK, Line
<1>1. /\ ~archived /\ ~archived' /\ UNCHANGED disturbed /\ ~unterminated'
      /\ \A u \in Writer : ~running'[u]
  BY DEF PowerFailure, Stop, archiveVars
<1>2. PICK k \in 0..Len(file) : k < Len(file) /\ file' = SubSeq(file, 1, k)
  BY DEF PowerFailure
<1>3. Genuine(file')
  BY <1>0, <1>1, <1>2, GenuinePart DEF AuditInv, LiveInv
<1>4. ASSUME ~disturbed'
      PROVE  Undisturbed'
  <2>1. Chained(file)
    BY <1>1, <1>4 DEF AuditInv, LiveInv, Undisturbed
  <2>2. Verified(file')
    BY <1>0, <1>2, <2>1, LostTail
  <2> QED
    BY <1>1, <2>2 DEF Undisturbed, Chained, Verified
<1> QED
  BY <1>1, <1>3, <1>4 DEF AuditInv, LiveInv, ArchiveInv

(* A log with two chains, or with a line its writer cut off and left open:  *)
(* nothing but the digests is promised any more.                           *)
LEMMA DisturbedKeepsInv ==
    ASSUME AuditInv, ~archived, ~archived', disturbed', Genuine(file')
    PROVE  AuditInv'
BY DEF AuditInv, LiveInv, ArchiveInv

LEMMA PutDisturbedKeepsInv ==
    ASSUME TypeOK, AuditInv, NEW w \in Writer, NEW v \in Verdict,
           RecordCutShort(w, v) \/ CrashBeforeNewline(w, v)
    PROVE  AuditInv'
<1>1. ~archived /\ ~archived' /\ disturbed'
  <2>1. CASE RecordCutShort(w, v)
    BY <2>1 DEF RecordCutShort, Changes, archiveVars
  <2>2. CASE CrashBeforeNewline(w, v)
    BY <2>2 DEF CrashBeforeNewline, Changes, archiveVars
  <2> QED
    BY <2>1, <2>2
<1>2. NewEntry(w, v) \in Line /\ Recomputed(NewEntry(w, v)) /\ Torn \in Line
  BY NewEntryType DEF Line
<1>3. Put(Torn, FALSE) \/ Put(NewEntry(w, v), FALSE)
  BY DEF RecordCutShort, CrashBeforeNewline
<1>4. Genuine(file)
  BY <1>1 DEF AuditInv, LiveInv
<1>5. Genuine(file')
  <2>1. CASE Put(Torn, FALSE)
    BY <1>2, <1>4, <2>1, GenuinePut
  <2>2. CASE Put(NewEntry(w, v), FALSE)
    BY <1>2, <1>4, <2>2, GenuinePut
  <2> QED
    BY <1>3, <2>1, <2>2
<1> QED
  BY <1>1, <1>5, DisturbedKeepsInv

(* Steps of a live log that leave the file alone and open it for nobody. *)
LEMMA QuietKeepsInv ==
    ASSUME AuditInv, ~archived, ~archived', UNCHANGED <<file, unterminated, disturbed>>,
           \A u \in Writer : running'[u] =>
               running[u] /\ seq'[u] = seq[u] /\ last_hash'[u] = last_hash[u]
    PROVE  AuditInv'
<1>1. ASSUME ~disturbed'
      PROVE  Undisturbed'
  <2>1. Undisturbed
    BY <1>1 DEF AuditInv, LiveInv
  <2> QED
    BY <2>1 DEF Undisturbed
<1> QED
  BY <1>1 DEF AuditInv, LiveInv, ArchiveInv

(* The file is archived as it is. *)
LEMMA ArchiveKeepsInv ==
    ASSUME AuditInv, Archive
    PROVE  AuditInv'
<1>1. /\ ~archived /\ archived' /\ original' = file /\ file' = file /\ disturbed' = disturbed
      /\ \A u \in Writer : ~running'[u]
  BY DEF Archive, Stop, logVars
<1>2. Genuine(file) /\ (~disturbed => Chained(file))
  BY <1>1 DEF AuditInv, LiveInv, Undisturbed
<1>3. SameDigests(file, file)
  BY DEF SameDigests
<1> QED
  BY <1>1, <1>2, <1>3 DEF AuditInv, LiveInv, ArchiveInv

(* Damage moves digests about and makes none. *)
LEMMA DamageKeepsInv ==
    ASSUME AuditInv, Damaged,
           \A i \in DOMAIN file' : file'[i] # Torn =>
               \E k \in DOMAIN file :
                   file[k] # Torn /\ file[k].entry_hash = file'[i].entry_hash
    PROVE  AuditInv'
<1>1. archived /\ archived' /\ UNCHANGED <<running, original, disturbed>>
  BY DEF Damaged, writerVars
<1>2. SameDigests(file', original)
  BY <1>1 DEF AuditInv, ArchiveInv, SameDigests
<1> QED
  BY <1>1, <1>2 DEF AuditInv, LiveInv, ArchiveInv

LEMMA DeletedOrRepeated ==
    ASSUME TypeOK, AuditInv, NEW i \in DOMAIN file, DeleteLine(i) \/ RepeatLine(i)
    PROVE  AuditInv'
<1>1. /\ file \in Seq(Line) /\ DOMAIN file = 1..Len(file) /\ Len(file) \in Nat
      /\ i \in 1..Len(file) /\ i \in Nat
  BY DEF TypeOK, Line
<1>2. \A n \in DOMAIN file' : \E k \in DOMAIN file : file'[n] = file[k]
  <2>1. CASE DeleteLine(i)
    <3> DEFINE f == SubSeq(file, 1, i - 1)
               g == SubSeq(file, i + 1, Len(file))
    <3>1. /\ f \in Seq(Line) /\ g \in Seq(Line)
          /\ Len(f) = i - 1 /\ Len(g) = Len(file) - i
          /\ \A n \in 1..(i - 1) : f[n] = file[n]
          /\ \A n \in 1..(Len(file) - i) : g[n] = file[i + n]
      BY <1>1
    <3>2. file' = f \o g
      BY <2>1 DEF DeleteLine
    <3> HIDE DEF f, g
    <3>3. /\ DOMAIN file' = 1..(Len(file) - 1)
          /\ \A n \in 1..(i - 1) : file'[n] = file[n]
          /\ \A n \in i..(Len(file) - 1) : file'[n] = file[n + 1]
      <4>1. /\ DOMAIN file' = 1..(Len(f) + Len(g))
            /\ \A n \in 1..Len(f) : file'[n] = f[n]
            /\ \A n \in (Len(f) + 1)..(Len(f) + Len(g)) : file'[n] = g[n - Len(f)]
        BY <3>1, <3>2
      <4>2. \A n \in i..(Len(file) - 1) :
               /\ n \in (Len(f) + 1)..(Len(f) + Len(g))
               /\ n - Len(f) \in 1..(Len(file) - i) /\ i + (n - Len(f)) = n + 1
        BY <1>1, <3>1
      <4>3. Len(f) + Len(g) = Len(file) - 1
        BY <1>1, <3>1
      <4> QED
        BY <3>1, <4>1, <4>2, <4>3
    <3>4. \A n \in 1..(Len(file) - 1) :
             \/ n \in 1..(i - 1) /\ n \in 1..Len(file)
             \/ n \in i..(Len(file) - 1) /\ n + 1 \in 1..Len(file)
      BY <1>1
    <3> QED
      BY <1>1, <3>3, <3>4
  <2>2. CASE RepeatLine(i)
    <3>1. /\ DOMAIN file' = 1..(Len(file) + 1)
          /\ file'[Len(file) + 1] = file[i] /\ \A n \in 1..Len(file) : file'[n] = file[n]
      BY <1>1, <2>2 DEF RepeatLine
    <3> QED
      BY <1>1, <3>1
  <2> QED
    BY <2>1, <2>2
<1>3. Damaged
  BY DEF DeleteLine, RepeatLine
<1> QED
  BY <1>2, <1>3, DamageKeepsInv

LEMMA SwappedOrAltered ==
    ASSUME TypeOK, AuditInv, NEW i \in DOMAIN file,
           (\E j \in DOMAIN file : SwapLines(i, j)) \/ (\E v \in Verdict : AlterLine(i, v))
    PROVE  AuditInv'
<1>0. file \in Seq(Line)
  BY DEF TypeOK, Line
<1>1. CASE \E j \in DOMAIN file : SwapLines(i, j)
  <2>1. PICK j \in DOMAIN file : SwapLines(i, j)
    BY <1>1
  <2>2. /\ DOMAIN file' = DOMAIN file
        /\ \A n \in DOMAIN file : file'[n] \in {file[n], file[i], file[j]}
    BY <1>0, <2>1 DEF SwapLines
  <2> QED
    BY <2>1, <2>2, DamageKeepsInv DEF SwapLines
<1>2. CASE \E v \in Verdict : AlterLine(i, v)
  <2>1. PICK v \in Verdict : AlterLine(i, v)
    BY <1>2
  <2>2. file[i] \in Entry /\ file[i] # Torn
    BY <1>0, <2>1 DEF AlterLine, Line
  <2>3. [file[i] EXCEPT !.verdict = v].entry_hash = file[i].entry_hash
    BY <2>2 DEF Entry
  <2>4. /\ DOMAIN file' = DOMAIN file
        /\ \A n \in DOMAIN file : n # i => file'[n] = file[n]
        /\ file'[i] = [file[i] EXCEPT !.verdict = v]
    BY <1>0, <2>1 DEF AlterLine
  <2>5. \A n \in DOMAIN file' : file'[n] # Torn =>
           file[n] # Torn /\ file[n].entry_hash = file'[n].entry_hash
    BY <2>2, <2>3, <2>4
  <2> QED
    BY <2>1, <2>4, <2>5, DamageKeepsInv DEF AlterLine
<1> QED
  BY <1>1, <1>2

-----------------------------------------------------------------------------
THEOREM AuditInvHolds == Spec => []AuditInv
<1>1. Init => AuditInv
  <2> SUFFICES ASSUME Init PROVE AuditInv
    OBVIOUS
  <2>1. file = <<>> /\ ~archived /\ ~unterminated /\ \A w \in Writer : ~running[w]
    BY DEF Init
  <2>2. Genuine(file) /\ Chained(file)
    BY <2>1 DEF Genuine, Chained
  <2> QED
    BY <2>1, <2>2 DEF AuditInv, LiveInv, ArchiveInv, Undisturbed
<1>2. TypeOK /\ AuditInv /\ [Next]_vars => AuditInv'
  <2> SUFFICES ASSUME TypeOK, AuditInv, [Next]_vars PROVE AuditInv'
    OBVIOUS
  <2>1. ASSUME NEW w \in Writer, Start(w)
        PROVE  AuditInv'
    BY <2>1, StartKeepsInv
  <2>2. ASSUME NEW w \in Writer, StartOver(w)
        PROVE  AuditInv'
    <3>1. ~archived /\ ~archived' /\ disturbed' /\ file' = file
      BY <2>2 DEF StartOver, Open, logVars, archiveVars
    <3>2. Genuine(file')
      BY <3>1 DEF AuditInv, LiveInv
    <3> QED
      BY <3>1, <3>2, DisturbedKeepsInv
  <2>3. ASSUME NEW w \in Writer, Crash(w)
        PROVE  AuditInv'
    <3>1. ~archived /\ ~archived' /\ UNCHANGED <<file, unterminated, disturbed>>
      BY <2>3 DEF Crash, logVars, archiveVars
    <3>2. \A u \in Writer : running'[u] =>
             running[u] /\ seq'[u] = seq[u] /\ last_hash'[u] = last_hash[u]
      BY <2>3 DEF Crash, Stop
    <3> QED
      BY <3>1, <3>2, QuietKeepsInv
  <2>4. ASSUME NEW w \in Writer, NEW v \in Verdict, RecordFails(w, v)
        PROVE  AuditInv'
    <3>1. ~archived /\ ~archived'
          /\ UNCHANGED <<file, unterminated, disturbed, running, seq, last_hash>>
      BY <2>4 DEF RecordFails, Changes, logVars, archiveVars
    <3> QED
      BY <3>1, QuietKeepsInv
  <2>5. ASSUME NEW w \in Writer, NEW v \in Verdict, Record(w, v)
        PROVE  AuditInv'
    BY <2>5, RecordKeepsInv
  <2>6. ASSUME NEW w \in Writer, NEW v \in Verdict, CrashTearsLine(w, v)
        PROVE  AuditInv'
    BY <2>6, TearKeepsInv
  <2>7. ASSUME NEW w \in Writer, NEW v \in Verdict,
               RecordCutShort(w, v) \/ CrashBeforeNewline(w, v)
        PROVE  AuditInv'
    BY <2>7, PutDisturbedKeepsInv
  <2>8. CASE PowerFailure
    BY <2>8, PowerFailureKeepsInv
  <2>9. CASE Archive
    BY <2>9, ArchiveKeepsInv
  <2>10. ASSUME NEW i \in DOMAIN file, DeleteLine(i) \/ RepeatLine(i)
         PROVE  AuditInv'
    BY <2>10, DeletedOrRepeated
  <2>11. ASSUME NEW i \in DOMAIN file, NEW j \in DOMAIN file, SwapLines(i, j)
         PROVE  AuditInv'
    BY <2>11, SwappedOrAltered
  <2>12. ASSUME NEW i \in DOMAIN file, NEW v \in Verdict, AlterLine(i, v)
         PROVE  AuditInv'
    BY <2>12, SwappedOrAltered
  <2>13. CASE UNCHANGED vars
    BY <2>13 DEF vars, AuditInv, LiveInv, ArchiveInv, Undisturbed
  <2> QED
    BY <2>1, <2>2, <2>3, <2>4, <2>5, <2>6, <2>7, <2>8, <2>9, <2>10, <2>11, <2>12, <2>13 DEF Next
<1> QED
  BY <1>1, <1>2, TypeCorrect, PTL DEF Spec

(* While the log is undisturbed every running writer stands at the end of a *)
(* file that verifies (audit_log.py:96-149).                               *)
THEOREM IntactAppends == Spec => []AppendsToIntactChain
<1>1. AuditInv => AppendsToIntactChain
  BY DEF AuditInv, LiveInv, ArchiveInv, Undisturbed, AppendsToIntactChain
<1> QED
  BY <1>1, AuditInvHolds, PTL

(* A line of an archived file that verifies is a line of the original: its  *)
(* digest is there, and the digest determines the line.                    *)
LEMMA VerifiedLineIsOriginal ==
    ASSUME TypeOK, AuditInv, archived, Verified(file), NEW i \in DOMAIN file
    PROVE  \E k \in DOMAIN original : original[k] # Torn /\ file[i] = original[k]
<1>1. file \in Seq(Line) /\ original \in Seq(Line)
  BY DEF TypeOK, Line
<1>2. file[i] # Torn /\ Recomputed(file[i])
  BY DEF Verified, LineOK
<1>3. PICK k \in DOMAIN original :
         original[k] # Torn /\ original[k].entry_hash = file[i].entry_hash
  BY <1>2 DEF AuditInv, ArchiveInv, SameDigests
<1>4. Recomputed(original[k])
  BY <1>3 DEF AuditInv, ArchiveInv, Genuine
<1>5. file[i] \in Entry /\ original[k] \in Entry
  BY <1>1, <1>2, <1>3 DEF Line
<1> QED
  BY <1>2, <1>3, <1>4, <1>5, DigestDetermines

(* verify_file accepts no line that was not written (audit_log.py:185-214). *)
THEOREM GenuineLog == Spec => []VerifiedIsGenuine
<1>1. TypeOK /\ AuditInv => VerifiedIsGenuine
  BY VerifiedLineIsOriginal DEF VerifiedIsGenuine
<1> QED
  BY <1>1, TypeCorrect, AuditInvHolds, PTL

(* ... and, of a log that was written in turn, only a beginning: a line of  *)
(* the chain carries its own place (audit_log.py:185-214).                 *)
THEOREM PrefixLog == Spec => []VerifiedIsPrefix
<1>1. ASSUME TypeOK, AuditInv, archived, ~disturbed, Verified(file), NEW i \in DOMAIN file
      PROVE  i \in DOMAIN original /\ file[i] = original[i]
  <2>1. PICK k \in DOMAIN original : original[k] # Torn /\ file[i] = original[k]
    BY <1>1, VerifiedLineIsOriginal
  <2>2. original[k].seq = k - 1
    BY <1>1, <2>1 DEF AuditInv, ArchiveInv, Chained, LineOK, Follows
  <2>3. file[i].seq = i - 1
    BY <1>1 DEF Verified, LineOK, Follows
  <2>4. i \in Int /\ k \in Int
    BY <1>1, <2>1 DEF TypeOK
  <2>5. i = k
    BY <2>1, <2>2, <2>3, <2>4
  <2> QED
    BY <2>1, <2>5
<1>2. TypeOK /\ AuditInv => VerifiedIsPrefix
  <2> SUFFICES ASSUME TypeOK, AuditInv, archived, ~disturbed, Verified(file)
               PROVE  Len(file) <= Len(original) /\ \A i \in DOMAIN file : file[i] = original[i]
    BY DEF VerifiedIsPrefix
  <2>1. \A i \in DOMAIN file : i \in DOMAIN original /\ file[i] = original[i]
    BY <1>1
  <2>2. /\ DOMAIN file = 1..Len(file) /\ DOMAIN original = 1..Len(original)
        /\ Len(file) \in Nat /\ Len(original) \in Nat
    BY DEF TypeOK
  <2> QED
    BY <2>1, <2>2
<1> QED
  BY <1>2, TypeCorrect, AuditInvHolds, PTL
=============================================================================
