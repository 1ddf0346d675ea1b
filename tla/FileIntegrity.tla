--------------------------- MODULE FileIntegrity ---------------------------
(***************************************************************************)
(* The file integrity monitor: a baseline of the files below a root, the   *)
(* drift of a later scan from it, and the verdict.                         *)
(***************************************************************************)
EXTENDS Integers, Sequences, FiniteSets

CONSTANTS Path,           \* monitored paths, with their criticality (a function)
          FileRecord,     \* [content, mode, owner, link_target]: content "unhashed" for a file
                          \* over hash_max_bytes, unreadable or a link; mode a set of bits;
                          \* link_target "none" for what is no link
          FimBound        \* bound: changes on the disk

VARIABLES disk,           \* path -> record, for the files there are
          fim_baseline,   \* the records saved by --init
          touched,        \* history: paths changed since then
          fim_changes

fimVars == <<disk, fim_baseline, touched, fim_changes>>

Files(paths) == [p \in paths |-> CHOOSE r \in FileRecord : r.link_target = "none"]

FimInit == /\ \E paths \in SUBSET DOMAIN Path : disk = Files(paths)
           /\ fim_baseline = disk /\ touched = {} /\ fim_changes = 0

Touch(p) == /\ fim_changes < FimBound /\ fim_changes' = fim_changes + 1
            /\ touched' = touched \cup {p} /\ UNCHANGED fim_baseline

Write(p, r) == Touch(p) /\ disk' = [q \in DOMAIN disk \cup {p} |-> IF q = p THEN r ELSE disk[q]]
Remove(p) == p \in DOMAIN disk /\ Touch(p) /\ disk' = [q \in DOMAIN disk \ {p} |-> disk[q]]

(* --init: scan and save.                                                  *)
SaveRecords == /\ touched # {} /\ fim_baseline' = disk /\ touched' = {}
               /\ UNCHANGED <<disk, fim_changes>>

FimNext == \/ \E p \in DOMAIN Path, r \in FileRecord : Write(p, r)
           \/ \E p \in DOMAIN Path : Remove(p)
           \/ SaveRecords

-----------------------------------------------------------------------------
Severity(p, critical, high, otherwise) ==
  IF Path[p] >= critical THEN "critical" ELSE IF Path[p] >= high THEN "high" ELSE otherwise

Found(p, type, severity) == [path |-> p, change_type |-> type, severity |-> severity]

ContentChanged(b, c) == b.content # "unhashed" /\ c.content # "unhashed" /\ b.content # c.content

(* A change of content hides the others of the same file.                  *)
Changes(p, b, c) ==
  IF ContentChanged(b, c) THEN {Found(p, "MODIFIED", Severity(p, 70, 40, "medium"))}
  ELSE {f \in {Found(p, "PERM_CHANGED", IF {"suid", "ww"} \cap (c.mode \ b.mode) # {}
                                        THEN "critical" ELSE "low"),
               Found(p, "OWNER_CHANGED", IF Path[p] >= 50 THEN "high" ELSE "low"),
               Found(p, "SYMLINK_CHANGED", "high")} :
          CASE f.change_type = "PERM_CHANGED"    -> b.mode # c.mode
            [] f.change_type = "OWNER_CHANGED"   -> b.owner # c.owner
            [] f.change_type = "SYMLINK_CHANGED" ->
                 "none" \notin {b.link_target, c.link_target} /\ b.link_target # c.link_target}

(* Mutant of Drift: what is gone from the disk is not looked for.          *)
DriftOfCurrent(baseline, current) ==
  {Found(p, "NEW", Severity(p, 80, 50, "low")) : p \in DOMAIN current \ DOMAIN baseline}
  \cup UNION {Changes(p, baseline[p], current[p]) : p \in DOMAIN baseline \cap DOMAIN current}

(* DriftEngine.diff.                                                       *)
Drift(baseline, current) ==
  {Found(p, "NEW", Severity(p, 80, 50, "low")) : p \in DOMAIN current \ DOMAIN baseline}
  \cup {Found(p, "DELETED", Severity(p, 80, 50, "medium")) : p \in DOMAIN baseline \ DOMAIN current}
  \cup UNION {Changes(p, baseline[p], current[p]) : p \in DOMAIN baseline \cap DOMAIN current}

OverallVerdict(found) ==
  IF \E f \in found : f.severity = "critical" THEN "COMPROMISED"
  ELSE IF \E f \in found : f.severity = "high" THEN "DRIFTED"
  ELSE IF found # {} THEN "MINOR_DRIFT" ELSE "TRUSTED"

-----------------------------------------------------------------------------
(* What diff cannot see: content that was not hashed on either side, and a *)
(* file that became a link, or back.                                       *)
LooksSame(b, c) ==
  /\ b.mode = c.mode /\ b.owner = c.owner
  /\ b.content = c.content \/ "unhashed" \in {b.content, c.content}
  /\ b.link_target = c.link_target \/ "none" \in {b.link_target, c.link_target}

(* However the files were changed, changed back, removed or made again     *)
(* since the baseline: it is trusted only when every path looks the same,  *)
(* a path nobody touched is never reported, a file is reported once per    *)
(* kind of change, and a credential store or persistence path that came,   *)
(* went or changed its content means compromised.                          *)
VerdictCoversDrift ==
  LET found == Drift(fim_baseline, disk)
      both == DOMAIN fim_baseline \cap DOMAIN disk
  IN /\ OverallVerdict(found) = "TRUSTED" <=>
          DOMAIN fim_baseline = DOMAIN disk /\ \A p \in both : LooksSame(fim_baseline[p], disk[p])
     /\ \A f \in found : f.path \in touched
     /\ \A f, g \in found : (f.path = g.path /\ f.change_type = g.change_type) => f = g
     /\ (\E p \in DOMAIN Path : Path[p] >= 80 /\
           \/ p \in (DOMAIN disk \ DOMAIN fim_baseline) \cup (DOMAIN fim_baseline \ DOMAIN disk)
           \/ p \in both /\ ContentChanged(fim_baseline[p], disk[p]))
          => OverallVerdict(found) = "COMPROMISED"
=============================================================================
