-------------------------- MODULE DecisionAuditLog --------------------------
(***************************************************************************)
(* The tamper-evident log of decisions (src/common/audit_log.py) and the   *)
(* correlation engine's use of it (src/host_control_plane/                 *)
(* control_center.py).                                                     *)
(*                                                                         *)
(* Every CorrelationEngine opens the log: the control center's, and the    *)
(* engines of verify.py and attack_replay.py when they run beside it.  A   *)
(* writer's lock orders its own threads, not the processes, so a record is *)
(* one action of one writer.  The file can then be archived and reviewed   *)
(* offline, where lines may have been changed (the edits of                *)
(* tests/test_upgrades.py).                                                *)
(*                                                                         *)
(* SHA-256 is collision free: the digest of an entry is its content         *)
(* appended to the previous digest, so that digests are equal only if all   *)
(* they cover is equal.  An entry's content is its number and its verdict,  *)
(* the other fields vary like the verdict.  The signature repeats the       *)
(* digest under a key and is left out.                                     *)
(***************************************************************************)
EXTENDS Integers, Sequences, TLC

CONSTANTS
    Writer,      \* the engines that open the log
    Verdict,     \* BOUND: the verdicts that are decided
    NoVerdict,   \* no verdict has been logged yet
    Torn,        \* a line that is not JSON
    AllowReset,  \* GANGLION_AUDIT_ALLOW_RESET may be set when a writer starts
    Faults,      \* which faults the environment injects
    MaxLines,    \* BOUND: lines of the file
    MaxDamage    \* BOUND: lines changed in the archived file

Fault == {"open_fails", "partial_write", "torn_write", "unterminated", "lost_tail"}

Content == [seq : Nat, verdict : Verdict]
Digest == Seq(Content)
Entry == [seq : Nat, verdict : Verdict, prev_hash : Digest, entry_hash : Digest]

ASSUME ConfigAssumption == AllowReset \in BOOLEAN /\ Faults \subseteq Fault
ASSUME BoundsAssumption == MaxLines \in Nat /\ MaxDamage \in Nat
ASSUME DistinctAssumption == NoVerdict \notin Verdict /\ Torn \notin Entry

VARIABLES
    file,          \* the lines of the log
    unterminated,  \* the last line lacks its newline
    running,       \* which writers have the log open
    seq,           \* DecisionAuditLog._seq of a writer
    last_hash,     \* DecisionAuditLog._last_hash of a writer
    last_logged,   \* CorrelationEngine._last_logged_verdict of the VM
    archived,      \* the log is reviewed offline
    damage,        \* number of changes made to the archived file
    original,      \* history: the file when it was archived
    disturbed      \* history: two writers were open at once, a writer started a
                   \* second chain, or a record was cut off and its line not ended

logVars == <<file, unterminated>>
writerVars == <<running, seq, last_hash, last_logged>>
archiveVars == <<archived, damage, original>>
vars == <<file, unterminated, running, seq, last_hash, last_logged, archived, damage, original,
          disturbed>>

GENESIS == <<>>

EntryHash(n, v, prev) == Append(prev, [seq |-> n, verdict |-> v])

Init ==
    /\ file = <<>>
    /\ unterminated = FALSE
    /\ running = [w \in Writer |-> FALSE]
    /\ seq = [w \in Writer |-> 0]
    /\ last_hash = [w \in Writer |-> GENESIS]
    /\ last_logged = [w \in Writer |-> NoVerdict]
    /\ archived = FALSE
    /\ damage = 0
    /\ original = <<>>
    /\ disturbed = FALSE

-----------------------------------------------------------------------------
(* Opening the log.                                                        *)

Open(w, n, h) ==
    /\ ~archived /\ ~running[w]
    /\ running' = [running EXCEPT ![w] = TRUE]
    /\ seq' = [seq EXCEPT ![w] = n]
    /\ last_hash' = [last_hash EXCEPT ![w] = h]
    /\ last_logged' = [last_logged EXCEPT ![w] = NoVerdict]
    /\ UNCHANGED <<logVars, archiveVars>>

Alone(w) == \A u \in Writer : running[u] => u = w

(* Mutants of NextSeq: off by one, each way. *)
SameSeq(e) == e.seq
PreviousSeq(e) == e.seq - 1

NextSeq(e) == e.seq + 1

(* _resume: an empty log starts a chain, a readable tail continues it.  *)
Start(w) ==
    /\ IF file = <<>> THEN Open(w, 0, GENESIS)
       ELSE LET last == file[Len(file)] IN
            last # Torn /\ Open(w, NextSeq(last), last.entry_hash)
    /\ disturbed' = (disturbed \/ ~Alone(w))

(* ... an unreadable tail raises AuditIntegrityError, and the engine does   *)
(* not start, unless the operator allows a second chain.                   *)
StartOver(w) ==
    /\ AllowReset
    /\ file # <<>> /\ file[Len(file)] = Torn
    /\ Open(w, 0, GENESIS)
    /\ disturbed' = TRUE

-----------------------------------------------------------------------------
(* Recording a decision.                                                   *)

NewEntry(w, v) ==
    [seq |-> seq[w], verdict |-> v, prev_hash |-> last_hash[w],
     entry_hash |-> EntryHash(seq[w], v, last_hash[w])]

(* Writing a line at the end of the file: without a newline before it the   *)
(* line runs into the last one and neither can be read.                    *)
Put(line, ended) ==
    /\ file' = IF unterminated THEN [file EXCEPT ![Len(file)] = Torn] ELSE Append(file, line)
    /\ unterminated' = ~ended

(* process_batch: only a change of verdict is logged, and it counts as      *)
(* logged before it is written.                                            *)
Changes(w, v) ==
    ~archived /\ running[w] /\ Len(file) < MaxLines /\ last_logged[w] # v

Note(w, v) == last_logged' = [last_logged EXCEPT ![w] = v]

(* record. *)
Record(w, v) ==
    /\ Changes(w, v)
    /\ Note(w, v)
    /\ Put(NewEntry(w, v), TRUE)
    /\ seq' = [seq EXCEPT ![w] = @ + 1]
    /\ last_hash' = [last_hash EXCEPT ![w] = NewEntry(w, v).entry_hash]
    /\ UNCHANGED <<running, archiveVars, disturbed>>

(* ... open raises: nothing is written, and process_batch goes on. *)
RecordFails(w, v) ==
    /\ "open_fails" \in Faults
    /\ Changes(w, v)
    /\ Note(w, v)
    /\ UNCHANGED <<logVars, running, seq, last_hash, archiveVars, disturbed>>

(* ... the disk is full in the middle of the line, or at its newline. *)
RecordCutShort(w, v) ==
    /\ "partial_write" \in Faults
    /\ Changes(w, v)
    /\ Note(w, v)
    /\ \E line \in {Torn, NewEntry(w, v)} : Put(line, FALSE)
    /\ disturbed' = TRUE
    /\ UNCHANGED <<running, seq, last_hash, archiveVars>>

(* The writers in S are gone, and what they held in memory with them. *)
Stop(S) ==
    /\ running' = [w \in Writer |-> running[w] /\ w \notin S]
    /\ seq' = [w \in Writer |-> IF w \in S THEN 0 ELSE seq[w]]
    /\ last_hash' = [w \in Writer |-> IF w \in S THEN GENESIS ELSE last_hash[w]]
    /\ last_logged' = [w \in Writer |-> IF w \in S THEN NoVerdict ELSE last_logged[w]]

(* A process ends, between records or in the middle of one: the line is     *)
(* torn, or whole but for its newline.                                     *)
Crash(w) ==
    /\ ~archived /\ running[w]
    /\ Stop({w})
    /\ UNCHANGED <<logVars, archiveVars, disturbed>>

CrashTearsLine(w, v) ==
    /\ "torn_write" \in Faults
    /\ Changes(w, v)
    /\ Put(Torn, FALSE)
    /\ Stop({w})
    /\ UNCHANGED <<archiveVars, disturbed>>

CrashBeforeNewline(w, v) ==
    /\ "unterminated" \in Faults
    /\ Changes(w, v)
    /\ Put(NewEntry(w, v), FALSE)
    /\ Stop({w})
    /\ disturbed' = TRUE
    /\ UNCHANGED archiveVars

(* The power fails: lines that were never synced are lost. *)
PowerFailure ==
    /\ "lost_tail" \in Faults
    /\ ~archived
    /\ \E k \in 0..Len(file) : k < Len(file) /\ file' = SubSeq(file, 1, k)
    /\ unterminated' = FALSE
    /\ Stop(Writer)
    /\ UNCHANGED <<archiveVars, disturbed>>

-----------------------------------------------------------------------------
(* The archived log.                                                       *)

Archive ==
    /\ ~archived
    /\ archived' = TRUE
    /\ original' = file
    /\ Stop(Writer)
    /\ UNCHANGED <<logVars, damage, disturbed>>

Damaged ==
    /\ archived /\ damage < MaxDamage
    /\ damage' = damage + 1
    /\ UNCHANGED <<unterminated, writerVars, archived, original, disturbed>>

DeleteLine(i) ==
    /\ Damaged
    /\ file' = SubSeq(file, 1, i - 1) \o SubSeq(file, i + 1, Len(file))

SwapLines(i, j) ==
    /\ Damaged
    /\ file' = [file EXCEPT ![i] = file[j], ![j] = file[i]]

RepeatLine(i) ==
    /\ Damaged
    /\ file' = Append(file, file[i])

AlterLine(i, v) ==
    /\ Damaged
    /\ file[i] # Torn
    /\ file' = [file EXCEPT ![i].verdict = v]

Next ==
    \/ \E w \in Writer : Start(w) \/ StartOver(w) \/ Crash(w)
    \/ \E w \in Writer, v \in Verdict :
          \/ Record(w, v) \/ RecordFails(w, v) \/ RecordCutShort(w, v)
          \/ CrashTearsLine(w, v) \/ CrashBeforeNewline(w, v)
    \/ PowerFailure \/ Archive
    \/ \E i \in DOMAIN file : DeleteLine(i) \/ RepeatLine(i)
    \/ \E i, j \in DOMAIN file : SwapLines(i, j)
    \/ \E i \in DOMAIN file, v \in Verdict : AlterLine(i, v)

Spec == Init /\ [][Next]_vars

-----------------------------------------------------------------------------
(* verify_file.                                                            *)

Hash(f, i) == IF i = 0 THEN GENESIS ELSE f[i].entry_hash

Follows(f, i) == f[i].seq = i - 1 /\ f[i].prev_hash = Hash(f, i - 1)

Recomputed(e) == e.entry_hash = EntryHash(e.seq, e.verdict, e.prev_hash)

(* Mutants of LineOK: the digest is taken as it stands; a line is looked at *)
(* by itself.                                                              *)
LineFollows(f, i) == f[i] # Torn /\ Follows(f, i)
LineConsistent(f, i) == f[i] # Torn /\ Recomputed(f[i])

LineOK(f, i) == f[i] # Torn /\ Follows(f, i) /\ Recomputed(f[i])

Verified(f) == \A i \in DOMAIN f : LineOK(f, i)

-----------------------------------------------------------------------------
(* Every variable has its type.                                            *)
TypeOK ==
    /\ file \in Seq(Entry \cup {Torn})
    /\ original \in Seq(Entry \cup {Torn})
    /\ unterminated \in BOOLEAN /\ archived \in BOOLEAN /\ disturbed \in BOOLEAN
    /\ running \in [Writer -> BOOLEAN]
    /\ seq \in [Writer -> Nat]
    /\ last_hash \in [Writer -> Digest]
    /\ last_logged \in [Writer -> Verdict \cup {NoVerdict}]
    /\ damage \in Nat
    /\ (unterminated /\ ~archived) => file # <<>>

(* A writer only ever appends to a log it may trust: the file of a running  *)
(* writer verifies and the writer continues its chain, through crashes that *)
(* tear a line, lost tails, failed writes and restarts (audit_log.py:44-45, *)
(* 96-125, 131-149), as long as writers take turns and no cut-off line is   *)
(* written to.                                                             *)
AppendsToIntactChain ==
    \A w \in Writer : (running[w] /\ ~disturbed) =>
        /\ Verified(file) /\ ~unterminated
        /\ seq[w] = Len(file) /\ last_hash[w] = Hash(file, Len(file))

(* verify_file accepts only what was written: whatever lines were deleted,  *)
(* moved, repeated or altered, each line of an archived log that verifies   *)
(* is a line of the log as it was archived, unaltered.  This needs no       *)
(* discipline of the writers (audit_log.py:9-12, 185-214).                 *)
VerifiedIsGenuine ==
    (archived /\ Verified(file)) =>
        \A i \in DOMAIN file : \E k \in DOMAIN original : file[i] = original[k]

(* ... and nothing but the end can be missing: an archived log that         *)
(* verifies is a beginning of the log as it was archived (audit_log.py:     *)
(* 9-17, 185-214).                                                         *)
VerifiedIsPrefix ==
    (archived /\ ~disturbed /\ Verified(file)) =>
        Len(file) <= Len(original) /\ \A i \in DOMAIN file : file[i] = original[i]

-----------------------------------------------------------------------------
(* Symmetry of the runs that check no liveness: writers are interchangeable *)
(* and so are verdicts, of which the log only asks whether they changed.    *)
WriterAndVerdictSymmetry == Permutations(Writer) \cup Permutations(Verdict)
=============================================================================
