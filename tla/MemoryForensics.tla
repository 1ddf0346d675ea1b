-------------------------- MODULE MemoryForensics --------------------------
(***************************************************************************)
(* The memory scanner over live processes, whose ids are used again, and   *)
(* its reader of core dumps.                                               *)
(***************************************************************************)
EXTENDS Naturals, Sequences, FiniteSets

CONSTANTS ScanPid, Program,    \* what may run under an id: sets of regions [start, perms, name, holds]
          MemoryBound,         \* bound: scans and changes of processes
          CoreDump             \* dumps: [words, table_at, entry_size, segments]

VARIABLES mem_procs,           \* pid -> [owner, regions]
          mem_owners,          \* how many processes there have been
          mem_reported, mem_findings,
          mem_steps,
          mem_scanned          \* history: the last process scanned under each id

memVars == <<mem_procs, mem_owners, mem_reported, mem_findings, mem_steps, mem_scanned>>

MemoryInit == /\ mem_procs = [p \in {} |-> 0] /\ mem_owners = 0 /\ mem_steps = 0
              /\ mem_reported = {} /\ mem_findings = {} /\ mem_scanned = [p \in {} |-> 0]

Acts == mem_steps < MemoryBound /\ mem_steps' = mem_steps + 1
Running(pid, proc) == [p \in DOMAIN mem_procs \cup {pid} |-> IF p = pid THEN proc ELSE mem_procs[p]]

Start(pid, regions) ==
  /\ Acts /\ pid \notin DOMAIN mem_procs
  /\ mem_procs' = Running(pid, [owner |-> mem_owners + 1, regions |-> regions]) /\ mem_owners' = mem_owners + 1
  /\ UNCHANGED <<mem_reported, mem_findings, mem_scanned>>

(* A process maps something new, or writes into what it has.               *)
Rewrite(pid, regions) ==
  /\ Acts /\ pid \in DOMAIN mem_procs
  /\ mem_procs' = Running(pid, [mem_procs[pid] EXCEPT !.regions = regions])
  /\ UNCHANGED <<mem_owners, mem_reported, mem_findings, mem_scanned>>

End(pid) ==
  /\ Acts /\ pid \in DOMAIN mem_procs
  /\ mem_procs' = [p \in DOMAIN mem_procs \ {pid} |-> mem_procs[p]]
  /\ UNCHANGED <<mem_owners, mem_reported, mem_findings, mem_scanned>>

-----------------------------------------------------------------------------
(* What a region shows and the key under which it is told once: most by    *)
(* the id of the process and the address, a string of malware and an       *)
(* address of the net by the id alone.                                     *)
InHeap(r) == r.name \in {"heap", "scratch"}
ImageName(r) == r.name \in {"program", "library"}
FileBacked(r) == r.name \in {"program", "library", "scratch", "file"}

(* Mutant of RegionKeys: injected code is told once per process.           *)
RegionKeysOfProcess(pid, r) ==
  (IF "x" \in r.perms /\ InHeap(r) THEN {<<"exec", pid, "any">>} ELSE {})
  \cup {<<h, pid, "any">> : h \in r.holds \cap {"malware", "url", "known"}}
RegionKeys(pid, r) ==
  (IF "x" \in r.perms /\ InHeap(r) THEN {<<"exec", pid, r.start>>} ELSE {})
  \cup (IF "pe" \in r.holds /\ ~ImageName(r) THEN {<<"pe", pid, r.start>>} ELSE {})
  \cup (IF "elf" \in r.holds /\ ~FileBacked(r) THEN {<<"elf", pid, r.start>>} ELSE {})
  \cup {<<h, pid, r.start>> : h \in r.holds \cap {"nops", "password"}}
  \cup {<<h, pid, "any">> : h \in r.holds \cap {"malware", "url", "known"}}

Keys(pid, proc) == UNION {RegionKeys(pid, r) : r \in {q \in proc.regions : "r" \in q.perms /\ ~q.huge}}

(* The address of a well-known site is remembered and not told.            *)
ScanProcess(pid) ==
  /\ Acts /\ pid \in DOMAIN mem_procs
  /\ LET proc == mem_procs[pid]
         fresh == Keys(pid, proc) \ mem_reported
     IN /\ mem_reported' = mem_reported \cup fresh
        /\ mem_findings' = mem_findings \cup {[key |-> k, owner |-> proc.owner] : k \in {j \in fresh : j[1] # "known"}}
        /\ mem_scanned' = [p \in DOMAIN mem_scanned \cup {pid} |-> IF p = pid THEN proc ELSE mem_scanned[p]]
  /\ UNCHANGED <<mem_procs, mem_owners>>

MemoryNext == \E pid \in ScanPid : \/ End(pid) \/ ScanProcess(pid)
                                   \/ \E regions \in Program : Start(pid, regions) \/ Rewrite(pid, regions)

-----------------------------------------------------------------------------
(* The header of a dump in words of two bytes. The format that is unpacked *)
(* is the one after e_ident, 16 bytes into the file, and it is applied at  *)
(* the beginning: every field is another one.                              *)
FieldBytes == <<2, 2, 4, 8, 8, 8, 4, 2, 2, 2, 2, 2, 2>>
FieldAt == <<0, 2, 4, 8, 16, 24, 32, 36, 38, 40, 42, 44, 46>>

(* Mutant of HeaderStart: the format begins where its fields do.           *)
HeaderStartOfFields == 16
HeaderStart == 0

FieldWords(words, field) ==
  LET at == HeaderStart + FieldAt[field]
  IN SubSeq(words, at \div 2 + 1, (at + FieldBytes[field]) \div 2)

(* The table is where e_phoff, the fifth field, says; an entry beyond the  *)
(* end of the file is skipped, and so is every one unless both the place   *)
(* and the size of an entry (the ninth field) are right.                   *)
Segments(dump) ==
  IF FieldWords(dump.words, 5) = dump.table_at /\ FieldWords(dump.words, 9) = dump.entry_size
  THEN SelectSeq(SubSeq(dump.segments, 1, FieldWords(dump.words, 10)[1]), LAMBDA s : s.load /\ s.size > 0)
  ELSE <<>>

AnalyzedCore(dump) == UNION {Segments(dump)[i].holds : i \in DOMAIN Segments(dump)}

-----------------------------------------------------------------------------
(* What a scan has seen is told, once: every key of the process last       *)
(* scanned under an id has been found, of that process or of one that had  *)
(* its id before and hides it now, and no key is found twice. Of a core    *)
(* dump, however full, nothing is told.                                    *)
MemoryToldOnce ==
  /\ \A pid \in DOMAIN mem_scanned : LET proc == mem_scanned[pid] IN
       \A r \in proc.regions : ("r" \in r.perms /\ ~r.huge) =>
         /\ ("x" \in r.perms /\ InHeap(r)) =>
              \E f \in mem_findings : f.key = <<"exec", pid, r.start>> /\ f.owner <= proc.owner
         /\ "malware" \in r.holds => \E f \in mem_findings : f.key = <<"malware", pid, "any">> /\ f.owner <= proc.owner
  /\ \A f, g \in mem_findings : f.key = g.key => f = g
  /\ \A dump \in CoreDump : AnalyzedCore(dump) = {}
=============================================================================
