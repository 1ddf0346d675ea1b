---------------------------- MODULE AgentSensors ----------------------------
(***************************************************************************)
(* The agent's sensors. Those of files: the filesystem monitor, which      *)
(* looks for files whose modification time changed since its last scan,    *)
(* and the crypto spike detector it feeds, which compares the high-entropy *)
(* writes of the last few seconds with the host's own baseline. Those of   *)
(* processes, connections and of the agent itself: the process and the     *)
(* socket monitor remember what they reported for as long as the agent     *)
(* lives, while the system reuses pids. The two share no state.            *)
(***************************************************************************)
EXTENDS Integers, Sequences, FiniteSets, SequencesExt

-----------------------------------------------------------------------------
\* Files.
CONSTANTS File,
          VelocityWindow,
          BaselineWindow, SpikeWindow,   \* CRYPTO_BASELINE_WINDOW, CRYPTO_SPIKE_WINDOW, in ticks
          SpikeMinFiles, SpikeSigma,     \* CRYPTO_SPIKE_MIN_FILES, CRYPTO_SPIKE_SIGMA
          MaxFileClock, MaxWrites        \* bounds

(* The detector counts windows of baseline: BaselineWindow - SpikeWindow   *)
(* is a positive multiple of SpikeWindow (300 and 15 in the code).         *)

VARIABLES now, mtime,          \* the wall clock and the files (external)
          encrypted,           \* per file, whether its content has high entropy (external)
          seen_mtimes,         \* _seen_mtimes; Absent before the first scan
          modification_times, alerted_files,
          events,              \* the detector's deque: high-entropy writes [ts, n]
          writes,              \* how many it was given; numbers them
          fired_at,            \* _fired_at
          spikes               \* history: the writes each crypto_spike event was based on

fileVars == <<now, mtime, encrypted, seen_mtimes, modification_times, alerted_files,
              events, writes, fired_at, spikes>>

Absent == -1

FileInit == /\ now = 0 /\ mtime = [f \in File |-> 0] /\ encrypted = [f \in File |-> FALSE]
            /\ seen_mtimes = [f \in File |-> Absent]
            /\ modification_times = <<>> /\ alerted_files = {}
            /\ events = <<>> /\ writes = 0
            /\ fired_at = -BaselineWindow        \* 0.0 in the code: long ago
            /\ spikes = {}

(* The environment: time passes, and a file is written.                    *)
FileTick == now < MaxFileClock /\ now' = now + 1
            /\ UNCHANGED <<mtime, encrypted, seen_mtimes, modification_times, alerted_files,
                           events, writes, fired_at, spikes>>

Write(f, high) ==
  /\ mtime' = [mtime EXCEPT ![f] = now + 1]
  /\ encrypted' = [encrypted EXCEPT ![f] = high]
  /\ UNCHANGED <<now, seen_mtimes, modification_times, alerted_files, events, writes,
                 fired_at, spikes>>

-----------------------------------------------------------------------------
(* Where a deque of times starts once its old entries have been popped.    *)
FirstFresh(times, cutoff) ==
  LET fresh == {i \in DOMAIN times : times[i] >= cutoff}
  IN IF fresh = {} THEN Len(times) + 1 ELSE Min(fresh)

(* z >= SpikeSigma without division or root: with n windows of baseline    *)
(* and b writes in them, the rate is b/n and std = sqrt(max(b/n, 1)).      *)
Deviates(recent, b) ==
  LET n == (BaselineWindow - SpikeWindow) \div SpikeWindow
      excess == recent * n - b
      variance == IF b > n THEN b * n ELSE n * n
  IN excess >= 0 /\ excess * excess >= SpikeSigma * SpikeSigma * variance

(* Mutant of Rested: the last write of a spike may open the next.          *)
RestedAtEnd == now - fired_at >= SpikeWindow

Rested == now - fired_at > SpikeWindow

(* evaluate, on the deque as record left it. The mean entropy of the       *)
(* recent writes is over 7.0: each of them was at least the threshold 7.2. *)
Evaluate(recorded) ==
  LET first == FirstFresh([i \in DOMAIN recorded |-> recorded[i].ts], now - BaselineWindow)
      kept == SubSeq(recorded, first, Len(recorded))
      recent == {i \in DOMAIN kept : kept[i].ts >= now - SpikeWindow}
      spike == /\ Cardinality(recent) >= SpikeMinFiles
               /\ Deviates(Cardinality(recent), Len(kept) - Cardinality(recent))
               /\ Rested
  IN /\ events' = kept
     /\ fired_at' = IF spike THEN now ELSE fired_at
     /\ spikes' = IF spike THEN spikes \cup {{kept[i].n : i \in recent}} ELSE spikes

(* scan: a file is modified when it was seen before with another time. The *)
(* velocity events it sends change no state of the sensor.                 *)
Scan ==
  LET modified == {f \in File : seen_mtimes[f] \notin {Absent, mtime[f]}}
      high == {f \in modified : encrypted[f]}
      times == modification_times \o [i \in 1..Cardinality(modified) |-> now]
  IN /\ writes + Cardinality(high) <= MaxWrites
     /\ seen_mtimes' = mtime
     /\ modification_times' = SubSeq(times, FirstFresh(times, now - VelocityWindow), Len(times))
     /\ alerted_files' = alerted_files \cup high
     /\ writes' = writes + Cardinality(high)
     /\ Evaluate(events \o [i \in 1..Cardinality(high) |-> [ts |-> now, n |-> writes + i]])
     /\ UNCHANGED <<now, mtime, encrypted>>

FileNext == FileTick \/ Scan \/ \E f \in File, high \in BOOLEAN : Write(f, high)

-----------------------------------------------------------------------------
(* The strongest signal of the agent is not sent twice for one burst: no   *)
(* write counts toward two crypto_spike events, though the deque keeps it  *)
(* for many windows; and a spike rests on enough writes.                   *)
SpikesAreDisjoint ==
  /\ \A s, t \in spikes : s # t => s \cap t = {}
  /\ \A s \in spikes : Cardinality(s) >= SpikeMinFiles

-----------------------------------------------------------------------------
\* Processes, connections and the agent itself.
CONSTANTS Pid,
          Remote,             \* remote ends whose port alone is suspicious
          MaxProcesses,       \* bound: processes started in a behaviour
          MaxBeats            \* bound: heartbeats

VARIABLES procs,              \* per pid, the process that has it (external), or None
          started,            \* how many were started; numbers them
          conns,              \* established connections <<pid, remote>> (external)
          alerted_pids, alerted_conns,
          agent_seq,          \* of the heartbeat
          reported            \* history: <<process number, event type>> of each report

procVars == <<procs, started, conns, alerted_pids, alerted_conns, agent_seq, reported>>

(* What a scan can find of a process: an executable in a suspicious path,  *)
(* a shell whose parent is a server, a command line that destroys backups, *)
(* a name that excuses its connections.                                    *)
Trait == {"suspicious_path", "server_child", "backup_kill", "benign_name"}
None == [n |-> 0, traits |-> {}]
Live == {p \in Pid : procs[p] # None}

ProcInit == /\ procs = [p \in Pid |-> None] /\ started = 0 /\ conns = {}
            /\ alerted_pids = {} /\ alerted_conns = {} /\ agent_seq = 0
            /\ reported = <<>>

(* The environment: processes start, connect and end.                      *)
Start(p, traits) ==
  /\ p \notin Live /\ started < MaxProcesses
  /\ started' = started + 1
  /\ procs' = [procs EXCEPT ![p] = [n |-> started + 1, traits |-> traits]]
  /\ UNCHANGED <<conns, alerted_pids, alerted_conns, agent_seq, reported>>

Connect(p, r) ==
  /\ p \in Live /\ conns' = conns \cup {<<p, r>>}
  /\ UNCHANGED <<procs, started, alerted_pids, alerted_conns, agent_seq, reported>>

Exit(p) ==
  /\ p \in Live
  /\ procs' = [procs EXCEPT ![p] = None]
  /\ conns' = {c \in conns : c[1] # p}
  /\ UNCHANGED <<started, alerted_pids, alerted_conns, agent_seq, reported>>

-----------------------------------------------------------------------------
(* Mutant of Findings: the rules do not look at what the one before found. *)
FindingsOfEach(traits) ==
  (IF "suspicious_path" \in traits THEN {"process"} ELSE {}) \cup
  (IF "server_child" \in traits THEN {"shell"} ELSE {}) \cup
  (IF "backup_kill" \in traits THEN {"shadow"} ELSE {})

(* The three rules of a scan, in order; each that matches marks the pid,   *)
(* and the next ones pass over a marked pid.                               *)
Findings(traits) ==
  CASE "suspicious_path" \in traits -> {"process"}
    [] "server_child" \in traits /\ "suspicious_path" \notin traits -> {"shell"}
    [] "backup_kill" \in traits /\ traits \cap {"suspicious_path", "server_child"} = {} -> {"shadow"}
    [] OTHER -> {}

(* A scan sees the processes of one moment.                                *)
ProcScan ==
  LET hits == {p \in Live \ alerted_pids : Findings(procs[p].traits) # {}}
      found == UNION {{<<procs[p].n, e>> : e \in Findings(procs[p].traits)} : p \in hits}
  IN /\ alerted_pids' = alerted_pids \cup hits
     /\ reported' = reported \o SetToSeq(found)
     /\ UNCHANGED <<procs, started, conns, alerted_conns, agent_seq>>

SocketScan ==
  LET hits == {c \in conns \ alerted_conns : "benign_name" \notin procs[c[1]].traits}
  IN /\ alerted_conns' = alerted_conns \cup hits
     /\ reported' = reported \o SetToSeq({<<procs[c[1]].n, c[2]>> : c \in hits})
     /\ UNCHANGED <<procs, started, conns, alerted_pids, agent_seq>>

Heartbeat ==
  /\ agent_seq < MaxBeats /\ agent_seq' = agent_seq + 1
  /\ UNCHANGED <<procs, started, conns, alerted_pids, alerted_conns, reported>>

ProcNext == \/ \E p \in Pid : Exit(p) \/ \E t \in SUBSET Trait : Start(p, t)
            \/ \E p \in Pid, r \in Remote : Connect(p, r)
            \/ ProcScan \/ SocketScan \/ Heartbeat

-----------------------------------------------------------------------------
(* A process is reported once, as the first thing it was found to be, and  *)
(* each of its connections once, however often the scans see them; what    *)
(* the scans have seen and not reported shared its pid with a reported     *)
(* process (the sets are never cleared).                                   *)
ReportedOnce ==
  /\ \A i, j \in DOMAIN reported : i # j => reported[i] # reported[j]
  /\ \A i, j \in DOMAIN reported :
       i # j /\ reported[i][1] = reported[j][1] =>
         \E k \in {i, j} : reported[k][2] \in Remote
=============================================================================
