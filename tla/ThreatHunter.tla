---------------------------- MODULE ThreatHunter ----------------------------
(***************************************************************************)
(* A run of the threat hunter: playbooks one after the other over a host   *)
(* that goes on changing, and over its logs, read once per run.            *)
(***************************************************************************)
EXTENDS Integers, Sequences, FiniteSets, SequencesExt

CONSTANTS HuntPid,       \* process ids; 1 is always there
          Program,       \* what a process looks like: a set of traits
          HuntUser,      \* users of processes; "root" is one of the excused
          Connection,    \* [public, port: "web"|"mail"|"smb"|"odd", trusted, writes]
          LogFiles,      \* the *.log files in the order they are read
          AuthFiles,     \* the auth.log* files, those of them that are *.log too
          Topic,         \* what a line of a log speaks of
          HuntLogs,      \* the logs a run may begin with: file -> [fresh, lines]
          HuntPlan,      \* sequences of playbooks asked for
          MaxLogLines, CommandBurst, LineBurst,
          HuntChanges    \* bound: changes of the host

VARIABLES hunt_procs,    \* pid -> [traits, user, parent, born, parent_born]
          hunt_conns, hunt_units, hunt_logs, hunt_root,
          log_cache,     \* the lines of the run, once they are read
          hunt_ids, hunt_results, hunt_changes,
          read_logs      \* history: the logs when they were read

hostVars == <<hunt_procs, hunt_conns, hunt_units, hunt_logs, hunt_root, hunt_changes>>
hunterVars == <<hostVars, log_cache, hunt_ids, hunt_results, read_logs>>

Files == ToSet(LogFiles) \cup ToSet(AuthFiles)

HunterInit ==
  /\ hunt_procs = [pid \in {1} |-> [traits |-> {}, user |-> "root", parent |-> 0, born |-> 0, parent_born |-> 0]]
  /\ hunt_conns = {} /\ hunt_units = {} /\ hunt_changes = 0 /\ hunt_root \in BOOLEAN
  /\ hunt_logs \in HuntLogs
  /\ log_cache = <<>> /\ read_logs = <<>> /\ hunt_results = <<>> /\ hunt_ids \in HuntPlan

-----------------------------------------------------------------------------
(* The host. A parent a process names was there when the process began,    *)
(* its own or another; ids are used again, and no process is reparented.   *)
Changes == hunt_changes < HuntChanges /\ hunt_changes' = hunt_changes + 1
Elsewhere == UNCHANGED <<hunt_root, log_cache, hunt_ids, hunt_results, read_logs>>

Spawn(pid, traits, user, parent) ==
  /\ Changes /\ Elsewhere /\ pid \notin DOMAIN hunt_procs /\ parent \in DOMAIN hunt_procs
  /\ hunt_procs' = [p \in DOMAIN hunt_procs \cup {pid} |->
       IF p = pid THEN [traits |-> traits, user |-> user, parent |-> parent, born |-> hunt_changes + 1,
                        parent_born |-> hunt_procs[parent].born]
       ELSE hunt_procs[p]]
  /\ UNCHANGED <<hunt_conns, hunt_units, hunt_logs>>

Exit(pid) == /\ Changes /\ Elsewhere /\ pid \in DOMAIN hunt_procs \ {1}
             /\ hunt_procs' = [p \in DOMAIN hunt_procs \ {pid} |-> hunt_procs[p]]
             /\ UNCHANGED <<hunt_conns, hunt_units, hunt_logs>>

Connect(c) == /\ Changes /\ Elsewhere /\ hunt_conns' = hunt_conns \cup {c}
              /\ UNCHANGED <<hunt_procs, hunt_units, hunt_logs>>

Install(suspicious) == /\ Changes /\ Elsewhere /\ hunt_units' = hunt_units \cup {suspicious}
                       /\ UNCHANGED <<hunt_procs, hunt_conns, hunt_logs>>

WriteLine(f, topic) == /\ Changes /\ Elsewhere
                       /\ hunt_logs' = [hunt_logs EXCEPT ![f] = [fresh |-> TRUE, lines |-> Append(@.lines, topic)]]
                       /\ UNCHANGED <<hunt_procs, hunt_conns, hunt_units>>

-----------------------------------------------------------------------------
(* Files too old are left out, except those of auth.log*; auth.log itself  *)
(* is read by both loops.                                                  *)
ReadFile(lines, log) == IF Len(lines) < MaxLogLines /\ log.fresh THEN lines \o log.lines ELSE lines
ReadAuth(lines, log) == lines \o log.lines

LoadedLogs(logs) ==
  LET listed[i \in 0 .. Len(LogFiles)] ==
        IF i = 0 THEN <<>> ELSE ReadFile(listed[i - 1], logs[LogFiles[i]])
      read[i \in 0 .. Len(AuthFiles)] ==
        IF i = 0 THEN listed[Len(LogFiles)] ELSE ReadAuth(read[i - 1], logs[AuthFiles[i]])
      lines == read[Len(AuthFiles)]
  IN SubSeq(lines, 1, IF Len(lines) > MaxLogLines THEN MaxLogLines ELSE Len(lines))

Unread == read_logs = <<>>
Lines == IF Unread THEN LoadedLogs(hunt_logs) ELSE log_cache
GrepLogs(topic) == Cardinality({i \in DOMAIN Lines : Lines[i] = topic})

-----------------------------------------------------------------------------
Procs(Test(_)) == Cardinality({pid \in DOMAIN hunt_procs : Test(hunt_procs[pid])})
Having(trait) == Procs(LAMBDA p : trait \in p.traits)
Lesser(a, b) == IF a < b THEN a ELSE b
Result(status, confidence) == [status |-> status, confidence |-> confidence]

(* A dumping tool is one hit, whatever else speaks against the process.    *)
Cred01 ==
  LET hits == Having("dump_tool")
              + Procs(LAMBDA p : {"dump_tool", "encoded"} \cap p.traits = {"encoded"})
              + Procs(LAMBDA p : {"dump_tool", "lsass"} \cap p.traits = {"lsass"}) + GrepLogs("cred")
  IN IF hits = 0 THEN Result("NEGATIVE", 85) ELSE Result("CONFIRMED", 90)

Exec01 == LET hits == Having("lolbin") + GrepLogs("exec")
          IN IF hits = 0 THEN Result("NEGATIVE", 85) ELSE Result("CONFIRMED", Lesser(95, 40 * hits))

Exec03 == IF Procs(LAMBDA p : "shell" \in p.traits /\ p.user # "root") = 0
          THEN Result("NEGATIVE", 80) ELSE Result("SUSPECT", 65)

Pers01 == IF hunt_units = {} THEN Result("NEGATIVE", 80)
          ELSE IF TRUE \in hunt_units THEN Result("CONFIRMED", 85) ELSE Result("SUSPECT", 50)

Burst(user) == user # "root" /\ Procs(LAMBDA p : "discovery" \in p.traits /\ p.user = user) >= CommandBurst
Disc01 == IF (\E u \in HuntUser : Burst(u)) \/ GrepLogs("disc") >= LineBurst
          THEN Result("SUSPECT", 70) ELSE Result("NEGATIVE", 80)

(* A parent that is gone counts for the scripting shells only.             *)
GhostParent(p) == p.parent # 0 /\ p.parent \notin DOMAIN hunt_procs /\ "script" \in p.traits
NewerParent(p) == p.parent \in DOMAIN hunt_procs /\ hunt_procs[p.parent].born > p.born
Evad01 == IF Procs(GhostParent) + Procs(NewerParent) = 0 THEN Result("NEGATIVE", 85) ELSE Result("CONFIRMED", 80)

C201 == LET hits == Cardinality({c \in hunt_conns : c.port \notin {"web", "mail"} /\ c.public /\ ~c.trusted})
        IN IF ~hunt_root THEN Result("INSUFFICIENT_DATA", 0)
           ELSE IF hits = 0 THEN Result("NEGATIVE", 80) ELSE Result("SUSPECT", Lesser(85, 30 * hits))

Lmov01 == LET logs == GrepLogs("smb") > 0
              smb == hunt_root /\ \E c \in hunt_conns : c.port = "smb"
          IN IF logs /\ smb THEN Result("CONFIRMED", 80)
             ELSE IF logs \/ smb THEN Result("SUSPECT", 55) ELSE Result("NEGATIVE", 80)

Exfil01 == IF hunt_root /\ \E c \in hunt_conns : c.port # "web" /\ c.writes
           THEN Result("SUSPECT", 55) ELSE Result("NEGATIVE", 60)

Verdict(hunt) == CASE hunt = "CRED-01" -> Cred01 [] hunt = "EXEC-01" -> Exec01 [] hunt = "EXEC-03" -> Exec03
                   [] hunt = "PERS-01" -> Pers01 [] hunt = "DISC-01" -> Disc01 [] hunt = "EVAD-01" -> Evad01
                   [] hunt = "C2-01" -> C201 [] hunt = "LMOV-01" -> Lmov01 [] hunt = "EXFIL-01" -> Exfil01

Greps(hunt) == hunt \in {"CRED-01", "EXEC-01", "DISC-01", "LMOV-01"}

StatusOrder == [CONFIRMED |-> 0, SUSPECT |-> 1, INSUFFICIENT_DATA |-> 2, NEGATIVE |-> 3]
Before(r, s) == \/ StatusOrder[r.found.status] < StatusOrder[s.found.status]
                \/ r.found.status = s.found.status /\ r.found.confidence > s.found.confidence

(* The results are ranked when the last playbook is through; equal ones    *)
(* stay in their order.                                                    *)
Rank(results, i) ==
  Cardinality({j \in DOMAIN results : \/ Before(results[j], results[i])
                                      \/ ~Before(results[i], results[j]) /\ j <= i})
Ranked(results) == [n \in DOMAIN results |-> results[CHOOSE i \in DOMAIN results : Rank(results, i) = n]]

RunHunt ==
  /\ hunt_ids # <<>> /\ hunt_ids' = Tail(hunt_ids)
  /\ LET hunt == Head(hunt_ids)
         all == Append(hunt_results, [hunt |-> hunt, found |-> Verdict(hunt), procs |-> hunt_procs])
     IN /\ hunt_results' = IF Tail(hunt_ids) = <<>> THEN Ranked(all) ELSE all
        /\ IF Greps(hunt) /\ Unread THEN log_cache' = LoadedLogs(hunt_logs) /\ read_logs' = hunt_logs
           ELSE UNCHANGED <<log_cache, read_logs>>
  /\ UNCHANGED hostVars

HunterNext ==
  \/ \E pid, parent \in HuntPid, traits \in Program, u \in HuntUser : Spawn(pid, traits, u, parent)
  \/ \E pid \in HuntPid : Exit(pid)
  \/ \E c \in Connection : Connect(c)
  \/ \E suspicious \in BOOLEAN : Install(suspicious)
  \/ \E f \in Files, topic \in Topic : WriteLine(f, topic)
  \/ RunHunt

-----------------------------------------------------------------------------
(* What the hunts say holds together. Once the lines are read, a playbook  *)
(* that is negative has no line against it in a file that counts, unless   *)
(* the lines were cut; a parent is younger than its child exactly when its *)
(* id was used again, so that no parent named falsely is ever found that   *)
(* way; and in the end no result stands before a graver one.               *)
HuntsHoldTogether ==
  /\ \A i \in DOMAIN hunt_results : LET r == hunt_results[i] IN
       /\ \A t \in {<<"CRED-01", "cred">>, <<"EXEC-01", "exec">>, <<"LMOV-01", "smb">>} :
            (r.hunt = t[1] /\ r.found.status = "NEGATIVE" /\ Len(log_cache) < MaxLogLines) =>
              \A f \in Files : (read_logs[f].fresh \/ f \in ToSet(AuthFiles)) => t[2] \notin ToSet(read_logs[f].lines)
       /\ r.hunt = "EVAD-01" =>
            (r.found.status = "CONFIRMED" <=>
               \E pid \in DOMAIN r.procs : LET p == r.procs[pid] IN
                 \/ p.parent \in DOMAIN r.procs /\ r.procs[p.parent].born # p.parent_born
                 \/ p.parent \notin DOMAIN r.procs \cup {0} /\ "script" \in p.traits)
  /\ hunt_ids = <<>> => \A i, j \in DOMAIN hunt_results : i < j => ~Before(hunt_results[j], hunt_results[i])
=============================================================================
