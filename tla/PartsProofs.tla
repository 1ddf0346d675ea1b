----------------------------- MODULE PartsProofs -----------------------------
(***************************************************************************)
(* The properties of the parts that run on their own, for every value of   *)
(* the constants. One section per part: its inductive invariant, that the  *)
(* steps of the part keep it, and that it gives the property.              *)
(***************************************************************************)
EXTENDS Parts, InductionLemmas, SequenceTheorems, FunctionTheorems, TLAPS

-----------------------------------------------------------------------------
\* The hypervisor.

(* From the report of an isolation to the return of the clean disk, no     *)
(* command and no kill switch brings the production NIC back.              *)
HeldOffline == held => nic # "production"

LEMMA HeldOfflineStep ==
  HeldOffline /\ [Next]_partVars => HeldOffline'
<1> SUFFICES ASSUME HeldOffline, [Next]_partVars PROVE HeldOffline'
  OBVIOUS
<1>1. CASE HyperStep
  <2> USE DEF HeldOffline
  <2>1. CASE Hypervisor!StartResponse
    BY <2>1 DEF Hypervisor!StartResponse
  <2>2. CASE Hypervisor!Infect
    BY <2>2 DEF Hypervisor!Infect
  <2>3. ASSUME NEW fails \in BOOLEAN, Hypervisor!BlockNetwork(fails) PROVE HeldOffline'
    BY <2>3 DEF Hypervisor!BlockNetwork
  <2>4. ASSUME NEW fails \in BOOLEAN, Hypervisor!RunCommand(fails) PROVE HeldOffline'
    <3> DEFINE cmd == Head(pending)
               ok == ~fails /\ Hypervisor!Possible(cmd)
    <3>1. CASE ~ok
      <4>1. nic' = nic /\ (held' => held)
        BY <2>4, <3>1 DEF Hypervisor!RunCommand, Hypervisor!Checked, Hypervisor!StepOf
      <4> QED BY <4>1
    <3>2. CASE ok
      <4>1. Hypervisor!Execute(cmd)
        BY <2>4, <3>2 DEF Hypervisor!RunCommand
      <4>2. CASE cmd \in {"nic quarantine", "put quarantine"}
        BY <4>1, <4>2 DEF Hypervisor!Execute
      <4>3. CASE cmd = "restore"
        BY <2>4, <3>2, <4>3 DEF Hypervisor!RunCommand, Hypervisor!StepOf
      <4>4. CASE cmd \notin {"nic quarantine", "put quarantine", "restore"}
        <5>1. held' => held
          BY <2>4, <3>2, <4>4 DEF Hypervisor!RunCommand, Hypervisor!StepOf
        <5>2. nic' = nic \/ nic' \in {"none", "sandbox"}
          BY <4>1, <4>4 DEF Hypervisor!Execute
        <5> QED BY <5>1, <5>2
      <4> QED BY <4>2, <4>3, <4>4
    <3> QED BY <3>1, <3>2
  <2> QED BY <1>1, <2>1, <2>2, <2>3, <2>4 DEF HyperStep, Hypervisor!HyperNext
<1>2. CASE UNCHANGED hyperVars
  BY <1>2 DEF HeldOffline, hyperVars
<1> QED
  BY <1>1, <1>2 DEF Next, PipelineStep, FileStep, ProcStep, HostStep, LibvirtStep, partVars

-----------------------------------------------------------------------------
\* Libvirt.

LibvirtOp == {"detach", "attach", "snapshot", "revert", "dump", "domstate", "start"}
LibvirtSetup == [dry_run : BOOLEAN, force : {"none", "dryrun", "api", "virsh"}, module : BOOLEAN, virsh : BOOLEAN]

LibvirtTypes == /\ lv_setup \in LibvirtSetup
                /\ lv_nics \in [Domain -> Nat]
                /\ lv_todo \in Seq(LibvirtOp \X Domain)
                /\ lv_isolated \subseteq Domain

(* The property, and that only a mode that acts touches anything.          *)
LibvirtInv ==
  /\ LibvirtTypes
  /\ lv_touched # {} => Libvirt!Mode # "dry-run"
  /\ lv_touched \subseteq lv_actions
  /\ Libvirt!Mode # "dry-run" => \A d \in lv_isolated : lv_nics[d] = 0

LEMMA LibvirtCommandKeeps ==
  ASSUME LibvirtInv, NEW op1 \in LibvirtOp, NEW d \in Domain, NEW fails \in BOOLEAN,
         Libvirt!Command(op1, d, fails), lv_todo' \in Seq(LibvirtOp \X Domain)
  PROVE  LibvirtInv'
<1> DEFINE acts == Libvirt!Mode # "dry-run"
           ok == acts => ~fails /\ Libvirt!Possible(op1, d) /\ (Libvirt!ThroughApi(op1) \/ lv_setup.virsh)
<1>0. /\ lv_setup' = lv_setup
      /\ Libvirt!Mode' = Libvirt!Mode
  BY DEF Libvirt!Command, Libvirt!Mode, Libvirt!Unforced
<1>1. lv_actions' = lv_actions \cup (IF Libvirt!Logged(op1, ok) THEN {<<op1, d>>} ELSE {})
  BY DEF Libvirt!Command
<1>2. lv_isolated' = IF op1 = "detach" /\ ok THEN lv_isolated \cup {d}
                     ELSE IF op1 \in {"attach", "revert"} /\ ok THEN lv_isolated \ {d} ELSE lv_isolated
  BY DEF Libvirt!Command
<1>3. CASE ~(acts /\ ok)
  <2>1. UNCHANGED <<lv_power, lv_nics, lv_touched>>
    BY <1>3 DEF Libvirt!Command
  <2>2. acts => lv_isolated' = lv_isolated \/ lv_isolated' = lv_isolated \ {d}
    BY <1>2, <1>3
  <2>3. LibvirtTypes'
    BY <1>0, <1>2, <2>1 DEF LibvirtInv, LibvirtTypes
  <2> QED BY <1>0, <1>1, <2>1, <2>2, <2>3 DEF LibvirtInv
<1>4. CASE acts /\ ok
  <2>1. Libvirt!Execute(op1, d)
    BY <1>4 DEF Libvirt!Command
  <2>2. Libvirt!Possible(op1, d)
    BY <1>4
  <2>3. lv_touched' \subseteq lv_touched \cup ({<<op1, d>>} \ {<<"domstate", d>>})
    BY <2>1 DEF Libvirt!Execute
  <2>4. Libvirt!Logged(op1, ok) \/ op1 = "domstate"
    BY <1>4 DEF Libvirt!Logged, Libvirt!ThroughApi
  <2>5. lv_touched' \subseteq lv_actions'
    BY <2>3, <2>4, <1>1 DEF LibvirtInv
  <2>6. lv_nics' \in [Domain -> Nat] /\ lv_isolated' \subseteq Domain
    BY <2>1, <2>2, <1>2 DEF Libvirt!Execute, Libvirt!Possible, LibvirtInv, LibvirtTypes, LibvirtOp
  <2>7. \A x \in lv_isolated' : lv_nics'[x] = 0
    <3> SUFFICES ASSUME NEW x \in lv_isolated' PROVE lv_nics'[x] = 0
      OBVIOUS
    <3>1. lv_nics \in [Domain -> Nat] /\ (x \in lv_isolated => lv_nics[x] = 0) /\ x \in Domain
      BY <1>4, <2>6 DEF LibvirtInv, LibvirtTypes
    <3>2. CASE op1 = "detach"
      BY <2>1, <2>2, <3>1, <3>2, <1>2, <1>4 DEF Libvirt!Execute, Libvirt!Possible
    <3>3. CASE op1 \in {"attach", "revert"}
      BY <2>1, <3>1, <3>3, <1>2, <1>4 DEF Libvirt!Execute
    <3>4. CASE op1 \in LibvirtOp \ {"detach", "attach", "revert"}
      BY <2>1, <3>1, <3>4, <1>2 DEF Libvirt!Execute, LibvirtOp
    <3> QED BY <3>2, <3>3, <3>4
  <2> QED BY <1>0, <1>4, <2>5, <2>6, <2>7 DEF LibvirtInv, LibvirtTypes
<1> QED BY <1>3, <1>4

LEMMA LibvirtInvStep ==
  LibvirtInv /\ [Next]_partVars => LibvirtInv'
<1> SUFFICES ASSUME LibvirtInv, [Next]_partVars PROVE LibvirtInv'
  OBVIOUS
<1>1. CASE LibvirtStep
  <2>1. ASSUME NEW d \in Domain, Libvirt!Redirect(d) PROVE LibvirtInv'
    BY <2>1 DEF Libvirt!Redirect, LibvirtInv, LibvirtTypes, Libvirt!Mode, Libvirt!Unforced
  <2>2. ASSUME NEW d \in Domain, Libvirt!StartIncidentResponse(d) PROVE LibvirtInv'
    <3>1. lv_todo' \in Seq(LibvirtOp \X Domain)
      BY <2>2 DEF Libvirt!StartIncidentResponse, LibvirtOp
    <3> QED
      BY <2>2, <3>1 DEF Libvirt!StartIncidentResponse, LibvirtInv, LibvirtTypes, Libvirt!Mode, Libvirt!Unforced
  <2>3. ASSUME NEW d \in Domain, NEW fails \in BOOLEAN, Libvirt!Call(d, fails) PROVE LibvirtInv'
    <3>1. PICK op1 \in LibvirtOp : Libvirt!Command(op1, d, fails)
      BY <2>3 DEF Libvirt!Call, LibvirtOp
    <3>2. lv_todo' \in Seq(LibvirtOp \X Domain)
      BY <2>3 DEF Libvirt!Call, LibvirtInv, LibvirtTypes
    <3> QED BY <3>1, <3>2, LibvirtCommandKeeps
  <2>4. ASSUME NEW fails \in BOOLEAN, Libvirt!NextOfResponse(fails) PROVE LibvirtInv'
    <3>1. lv_todo \in Seq(LibvirtOp \X Domain) /\ lv_todo # <<>>
      BY <2>4 DEF Libvirt!NextOfResponse, LibvirtInv, LibvirtTypes
    <3>2. Head(lv_todo) \in LibvirtOp \X Domain /\ Tail(lv_todo) \in Seq(LibvirtOp \X Domain)
      BY <3>1
    <3>3. Libvirt!Command(Head(lv_todo)[1], Head(lv_todo)[2], fails) /\ lv_todo' = Tail(lv_todo)
      BY <2>4 DEF Libvirt!NextOfResponse
    <3>4. Head(lv_todo)[1] \in LibvirtOp /\ Head(lv_todo)[2] \in Domain
      BY <3>2
    <3> QED BY <3>2, <3>3, <3>4, LibvirtCommandKeeps
  <2> QED BY <1>1, <2>1, <2>2, <2>3, <2>4 DEF LibvirtStep, Libvirt!LibvirtNext
<1>2. CASE UNCHANGED lvVars
  BY <1>2 DEF LibvirtInv, LibvirtTypes, lvVars, Libvirt!Mode, Libvirt!Unforced
<1> QED
  BY <1>1, <1>2 DEF Next, PipelineStep, FileStep, ProcStep, HostStep, HyperStep, partVars

LEMMA LibvirtInvInit == Init => LibvirtInv
BY DEF Init, Libvirt!LibvirtInit, LibvirtInv, LibvirtTypes, LibvirtSetup

LEMMA LibvirtInvGives == LibvirtInv => Libvirt!LibvirtDoesAsTold
BY DEF LibvirtInv, LibvirtTypes, LibvirtSetup, Libvirt!LibvirtDoesAsTold, Libvirt!Mode, Libvirt!Unforced

-----------------------------------------------------------------------------
\* The process and the socket monitor.

LEMMA SensorsCount == \A S : Sensors!Cardinality(S) = Cardinality(S)
BY DEF Sensors!Cardinality, Cardinality

(* What a finite set adds to a sequence: each of its members once.         *)
LEMMA SetToSeqOnce ==
  ASSUME NEW S, IsFiniteSet(S)
  PROVE  /\ Sensors!SetToSeq(S) \in Seq(S)
         /\ \A i, j \in DOMAIN Sensors!SetToSeq(S) : Sensors!SetToSeq(S)[i] = Sensors!SetToSeq(S)[j] => i = j
<1> DEFINE n == Cardinality(S)
<1>1. n \in Nat /\ \E f : ExistsBijection(1..n, S)
  BY FS_CardinalityType
<1>2. PICK f : f \in Bijection(1..n, S)
  BY <1>1 DEF ExistsBijection
<1>3. f \in [1..n -> S] /\ Sensors!IsInjective(f)
  BY <1>2 DEF Sensors!IsInjective, Bijection, Injection, IsInjective
<1>4. Sensors!SetToSeq(S) \in [1..n -> S] /\ Sensors!IsInjective(Sensors!SetToSeq(S))
  BY <1>3, SensorsCount DEF Sensors!SetToSeq
<1> QED
  BY <1>1, <1>4 DEF Sensors!IsInjective

FindingKind == {"process", "shell", "shadow"}
Report == Nat \X (Remote \cup FindingKind)

(* That the marks of a sensor remember report x of the process with pid p. *)
Remembered(p, x, pids, cons) == IF x[2] \in Remote THEN <<p, x[2]>> \in cons ELSE p \in pids

(* Processes have numbers of their own, none newer than the last started,  *)
(* and what was reported of a process that lives is remembered.            *)
ProcInv ==
  /\ procs \in [Pid -> [n : Nat, traits : SUBSET Sensors!Trait]] /\ started \in Nat
  /\ reported \in Seq(Report)
  /\ \A p \in Sensors!Live : procs[p].n \in 1..started
  /\ \A p, q \in Sensors!Live : procs[p].n = procs[q].n => p = q
  /\ conns \subseteq Sensors!Live \X Remote
  /\ \A i \in DOMAIN reported : reported[i][1] <= started
  /\ \A i \in DOMAIN reported, p \in Sensors!Live :
       procs[p].n = reported[i][1] => Remembered(p, reported[i], alerted_pids, alerted_conns)
  /\ Sensors!ReportedOnce

(* What a scan may add to the reports.                                     *)
NewReports(found) ==
  /\ IsFiniteSet(found) /\ found \subseteq Report
  /\ reported' = reported \o Sensors!SetToSeq(found)
  /\ UNCHANGED <<procs, started, conns>>
  /\ alerted_pids \subseteq alerted_pids' /\ alerted_conns \subseteq alerted_conns'
  /\ \A x \in found : \E p \in Sensors!Live :
       /\ procs[p].n = x[1] /\ ~Remembered(p, x, alerted_pids, alerted_conns)
       /\ Remembered(p, x, alerted_pids', alerted_conns')
  /\ \A x, y \in found : x[1] = y[1] => x = y \/ x[2] \in Remote \/ y[2] \in Remote

LEMMA NewReportsKeep ==
  ASSUME ProcInv, NEW found, NewReports(found)
  PROVE  ProcInv'
<1> DEFINE new == Sensors!SetToSeq(found)
           D == DOMAIN reported
<1>0. Sensors!Live' = Sensors!Live
  BY DEF NewReports, Sensors!Live, Sensors!None
<1>1. /\ new \in Seq(found) /\ new \in Seq(Report)
      /\ \A i, j \in DOMAIN new : new[i] = new[j] => i = j
  BY SetToSeqOnce DEF NewReports
<1>2. /\ reported' \in Seq(Report)
      /\ D \subseteq DOMAIN reported'
      /\ \A i \in D : reported'[i] = reported[i]
      /\ \A i \in DOMAIN reported' \ D : /\ i - Len(reported) \in DOMAIN new
                                         /\ reported'[i] = new[i - Len(reported)]
                                         /\ i \in Nat
  <2>1. reported \in Seq(Report) /\ reported' = reported \o new
    BY DEF ProcInv, NewReports
  <2> HIDE DEF new
  <2> QED BY <1>1, <2>1
<1>3. \A i \in DOMAIN reported' \ D : reported'[i] \in found
  BY <1>1, <1>2
<1>4. \A i, j \in DOMAIN reported' \ D : reported'[i] = reported'[j] => i = j
  <2>1. Len(reported) \in Nat
    BY DEF ProcInv
  <2> HIDE DEF new
  <2> QED BY <1>1, <1>2, <2>1
<1> HIDE DEF new, D
<1>5. \A i \in D, x \in found : reported[i][1] = x[1] => reported[i] # x /\ (reported[i][2] \in Remote \/ x[2] \in Remote)
  <2> SUFFICES ASSUME NEW i \in D, NEW x \in found, reported[i][1] = x[1]
               PROVE reported[i] # x /\ (reported[i][2] \in Remote \/ x[2] \in Remote)
    OBVIOUS
  <2>1. PICK p \in Sensors!Live : procs[p].n = x[1] /\ ~Remembered(p, x, alerted_pids, alerted_conns)
    BY DEF NewReports
  <2>2. Remembered(p, reported[i], alerted_pids, alerted_conns)
    BY <2>1 DEF ProcInv, D
  <2>3. reported[i][2] = x[2] => reported[i] = x
    <3>1. reported[i] \in Report /\ x \in Report
      BY DEF D, ProcInv, NewReports
    <3> QED BY <3>1 DEF Report
  <2> QED BY <2>1, <2>2, <2>3 DEF Remembered
<1>6. \A i \in DOMAIN reported' : reported'[i][1] <= started
  <2>1. \A x \in found : x[1] <= started
    BY DEF NewReports, ProcInv
  <2> QED BY <2>1, <1>2, <1>3 DEF ProcInv, D
<1>7. \A i \in DOMAIN reported', p \in Sensors!Live :
        procs[p].n = reported'[i][1] => Remembered(p, reported'[i], alerted_pids', alerted_conns')
  <2> SUFFICES ASSUME NEW i \in DOMAIN reported', NEW p \in Sensors!Live, procs[p].n = reported'[i][1]
               PROVE  Remembered(p, reported'[i], alerted_pids', alerted_conns')
    OBVIOUS
  <2>1. CASE i \in D
    BY <2>1, <1>2 DEF ProcInv, D, Remembered, NewReports
  <2>2. CASE i \notin D
    <3>1. PICK q \in Sensors!Live : procs[q].n = reported'[i][1] /\ Remembered(q, reported'[i], alerted_pids', alerted_conns')
      BY <2>2, <1>3 DEF NewReports
    <3> QED BY <3>1 DEF ProcInv
  <2> QED BY <2>1, <2>2
<1>8. Sensors!ReportedOnce'
  <2>1. \A i, j \in DOMAIN reported' : i # j => reported'[i] # reported'[j]
    <3> SUFFICES ASSUME NEW i \in DOMAIN reported', NEW j \in DOMAIN reported', i # j, reported'[i] = reported'[j]
                 PROVE  FALSE
      OBVIOUS
    <3>1. CASE i \in D /\ j \in D
      BY <3>1, <1>2 DEF ProcInv, D, Sensors!ReportedOnce
    <3>2. CASE i \notin D /\ j \notin D
      BY <3>2, <1>4
    <3>3. CASE i \in D /\ j \notin D
      BY <3>3, <1>2, <1>3, <1>5
    <3>4. CASE i \notin D /\ j \in D
      BY <3>4, <1>2, <1>3, <1>5
    <3> QED BY <3>1, <3>2, <3>3, <3>4
  <2>2. \A i, j \in DOMAIN reported' : i # j /\ reported'[i][1] = reported'[j][1] =>
          reported'[i][2] \in Remote \/ reported'[j][2] \in Remote
    <3> SUFFICES ASSUME NEW i \in DOMAIN reported', NEW j \in DOMAIN reported', i # j,
                        reported'[i][1] = reported'[j][1]
                 PROVE  reported'[i][2] \in Remote \/ reported'[j][2] \in Remote
      OBVIOUS
    <3>1. CASE i \in D /\ j \in D
      BY <3>1, <1>2 DEF ProcInv, D, Sensors!ReportedOnce
    <3>2. CASE i \notin D /\ j \notin D
      BY <3>2, <1>3, <1>4 DEF NewReports
    <3>3. CASE i \in D /\ j \notin D
      BY <3>3, <1>2, <1>3, <1>5
    <3>4. CASE i \notin D /\ j \in D
      BY <3>4, <1>2, <1>3, <1>5
    <3> QED BY <3>1, <3>2, <3>3, <3>4
  <2> QED BY <2>1, <2>2 DEF Sensors!ReportedOnce
<1> QED
  BY <1>0, <1>2, <1>6, <1>7, <1>8 DEF ProcInv, NewReports

LEMMA ProcInvStep ==
  ProcInv /\ [Next]_partVars => ProcInv'
<1> SUFFICES ASSUME ProcInv, [Next]_partVars PROVE ProcInv'
  OBVIOUS
<1>1. CASE ProcStep
  <2>1. ASSUME NEW p \in Pid, Sensors!Exit(p) PROVE ProcInv'
    <3>1. procs' = [procs EXCEPT ![p] = Sensors!None] /\ procs' \in [Pid -> [n : Nat, traits : SUBSET Sensors!Trait]]
      BY <2>1 DEF Sensors!Exit, ProcInv, Sensors!None
    <3>2. Sensors!Live' = Sensors!Live \ {p} /\ \A q \in Sensors!Live' : procs'[q] = procs[q]
      BY <3>1 DEF ProcInv, Sensors!Live, Sensors!None
    <3>3. conns' \subseteq Sensors!Live' \X Remote
      BY <2>1, <3>2 DEF Sensors!Exit, ProcInv
    <3>4. UNCHANGED <<started, alerted_pids, alerted_conns, reported>>
      BY <2>1 DEF Sensors!Exit
    <3>5. Sensors!ReportedOnce'
      BY <3>4 DEF ProcInv, Sensors!ReportedOnce
    <3> QED BY <3>1, <3>2, <3>3, <3>4, <3>5 DEF ProcInv
  <2>2. ASSUME NEW p \in Pid, NEW t \in SUBSET Sensors!Trait, Sensors!Start(p, t) PROVE ProcInv'
    <3>1. /\ procs' = [procs EXCEPT ![p] = [n |-> started + 1, traits |-> t]] /\ started \in Nat
          /\ procs' \in [Pid -> [n : Nat, traits : SUBSET Sensors!Trait]]
      BY <2>2 DEF Sensors!Start, ProcInv
    <3>2. /\ Sensors!Live' = Sensors!Live \cup {p} /\ p \notin Sensors!Live
          /\ \A q \in Sensors!Live : procs'[q] = procs[q]
      BY <2>2, <3>1 DEF Sensors!Start, ProcInv, Sensors!Live, Sensors!None
    <3>3. p \in Sensors!Live' /\ procs'[p].n = started + 1 /\ started' = started + 1
      BY <2>2, <3>1, <3>2 DEF ProcInv, Sensors!Start
    <3>4. UNCHANGED <<conns, alerted_pids, alerted_conns, reported>>
      BY <2>2 DEF Sensors!Start
    <3>5. /\ \A q \in Sensors!Live' : procs'[q].n \in 1..started'
          /\ \A q, r \in Sensors!Live' : procs'[q].n = procs'[r].n => q = r
      <4>1. \A q \in Sensors!Live : procs'[q].n \in 1..started
        BY <3>2 DEF ProcInv
      <4>2. \A q, r \in Sensors!Live : procs'[q].n = procs'[r].n => q = r
        BY <3>2 DEF ProcInv
      <4>3. started \in Nat
        BY <3>1
      <4> QED BY <3>2, <3>3, <4>1, <4>2, <4>3
    <3>6. \A i \in DOMAIN reported : reported[i][1] \in Nat /\ reported[i][1] <= started
      BY DEF ProcInv, Report
    <3>7. \A i \in DOMAIN reported, q \in Sensors!Live' :
            procs'[q].n = reported[i][1] => Remembered(q, reported[i], alerted_pids, alerted_conns)
      <4> SUFFICES ASSUME NEW i \in DOMAIN reported, NEW q \in Sensors!Live', procs'[q].n = reported[i][1]
                   PROVE  Remembered(q, reported[i], alerted_pids, alerted_conns)
        OBVIOUS
      <4>1. q # p
        BY <3>1, <3>3, <3>6
      <4>2. q \in Sensors!Live /\ procs[q].n = reported[i][1]
        BY <4>1, <3>2
      <4> QED BY <4>2 DEF ProcInv
    <3> QED BY <3>1, <3>2, <3>3, <3>4, <3>5, <3>6, <3>7 DEF ProcInv, Sensors!ReportedOnce
  <2>3. ASSUME NEW p \in Pid, NEW r \in Remote, Sensors!Connect(p, r) PROVE ProcInv'
    BY <2>3 DEF Sensors!Connect, ProcInv, Sensors!ReportedOnce, Sensors!Live
  <2>4. CASE Sensors!Heartbeat
    BY <2>4 DEF Sensors!Heartbeat, ProcInv, Sensors!ReportedOnce, Sensors!Live
  <2>5. CASE Sensors!ProcScan
    <3> DEFINE hits == {p \in Sensors!Live \ alerted_pids : Sensors!Findings(procs[p].traits) # {}}
               found == UNION {{<<procs[p].n, e>> : e \in Sensors!Findings(procs[p].traits)} : p \in hits}
    <3>1. /\ alerted_pids' = alerted_pids \cup hits
          /\ reported' = reported \o Sensors!SetToSeq(found)
          /\ UNCHANGED <<procs, started, conns, alerted_conns>>
      BY <2>5 DEF Sensors!ProcScan
    <3>2. \A x \in found : \E p \in hits, e \in FindingKind :
            x = <<procs[p].n, e>> /\ e \in Sensors!Findings(procs[p].traits)
      BY DEF Sensors!Findings, FindingKind
    <3>3. IsFiniteSet(found)
      <4>1. IsFiniteSet(hits)
        BY SeenAssumption, FS_Subset DEF Sensors!Live
      <4> DEFINE one == [p \in hits |-> IF Sensors!Findings(procs[p].traits) = {"process"} THEN <<procs[p].n, "process">>
                                        ELSE IF Sensors!Findings(procs[p].traits) = {"shell"} THEN <<procs[p].n, "shell">>
                                        ELSE <<procs[p].n, "shadow">>]
      <4>2. found \subseteq {one[p] : p \in hits}
        <5> SUFFICES ASSUME NEW x \in found PROVE x \in {one[p] : p \in hits}
          OBVIOUS
        <5>1. PICK p \in hits, e \in FindingKind : x = <<procs[p].n, e>> /\ e \in Sensors!Findings(procs[p].traits)
          BY <3>2
        <5>2. Sensors!Findings(procs[p].traits) = {e}
          BY <5>1 DEF Sensors!Findings
        <5>3. x = one[p]
          BY <5>1, <5>2 DEF FindingKind
        <5> QED BY <5>3
      <4>3. IsFiniteSet({one[p] : p \in hits})
        <5> HIDE DEF hits, one
        <5> QED BY <4>1, FiniteImage
      <4> QED BY <4>2, <4>3, FS_Subset
    <3>4. found \subseteq Report
      <4>1. \A p \in hits : procs[p].n \in Nat
        BY DEF ProcInv
      <4> QED BY <3>2, <4>1 DEF Report
    <3>5. \A x \in found : \E p \in Sensors!Live :
            /\ procs[p].n = x[1] /\ ~Remembered(p, x, alerted_pids, alerted_conns)
            /\ Remembered(p, x, alerted_pids', alerted_conns')
      <4> SUFFICES ASSUME NEW x \in found
                   PROVE  \E p \in Sensors!Live :
                            /\ procs[p].n = x[1] /\ ~Remembered(p, x, alerted_pids, alerted_conns)
                            /\ Remembered(p, x, alerted_pids', alerted_conns')
        OBVIOUS
      <4>1. PICK p \in hits, e \in FindingKind : x = <<procs[p].n, e>>
        BY <3>2
      <4>2. x[1] = procs[p].n /\ x[2] \notin Remote
        BY <4>1, SeenAssumption DEF FindingKind
      <4>3. p \in Sensors!Live /\ p \notin alerted_pids /\ p \in alerted_pids'
        BY <3>1
      <4> QED BY <4>2, <4>3 DEF Remembered
    <3>6. \A x, y \in found : x[1] = y[1] => x = y
      <4> SUFFICES ASSUME NEW x \in found, NEW y \in found, x[1] = y[1] PROVE x = y
        OBVIOUS
      <4>1. PICK p \in hits, e \in FindingKind : x = <<procs[p].n, e>> /\ e \in Sensors!Findings(procs[p].traits)
        BY <3>2
      <4>2. PICK q \in hits, f \in FindingKind : y = <<procs[q].n, f>> /\ f \in Sensors!Findings(procs[q].traits)
        BY <3>2
      <4>3. p = q
        BY <4>1, <4>2 DEF ProcInv
      <4>4. e = f
        BY <4>1, <4>2, <4>3 DEF Sensors!Findings
      <4> QED BY <4>1, <4>2, <4>3, <4>4
    <3> HIDE DEF hits, found
    <3>7. NewReports(found)
      BY <3>1, <3>3, <3>4, <3>5, <3>6 DEF NewReports
    <3> QED BY <3>7, NewReportsKeep
  <2>6. CASE Sensors!SocketScan
    <3> DEFINE hits == {c \in conns \ alerted_conns : "benign_name" \notin procs[c[1]].traits}
               found == {<<procs[c[1]].n, c[2]>> : c \in hits}
    <3>1. /\ alerted_conns' = alerted_conns \cup hits
          /\ reported' = reported \o Sensors!SetToSeq(found)
          /\ UNCHANGED <<procs, started, conns, alerted_pids>>
      BY <2>6 DEF Sensors!SocketScan
    <3>2. hits \subseteq Sensors!Live \X Remote
      BY DEF ProcInv
    <3>3. IsFiniteSet(found)
      <4>1. IsFiniteSet(Sensors!Live)
        BY SeenAssumption, FS_Subset DEF Sensors!Live
      <4>2. IsFiniteSet(Sensors!Live \X Remote)
        BY <4>1, SeenAssumption, FS_Product
      <4>3. IsFiniteSet(hits)
        BY <3>2, <4>2, FS_Subset
      <4> DEFINE one == [c \in hits |-> <<procs[c[1]].n, c[2]>>]
      <4>4. IsFiniteSet({one[c] : c \in hits})
        <5> HIDE DEF hits, one
        <5> QED BY <4>3, FiniteImage
      <4>5. found = {one[c] : c \in hits}
        OBVIOUS
      <4> QED BY <4>4, <4>5
    <3>4. \A x \in found : \E p \in Sensors!Live, r \in Remote : <<p, r>> \in hits /\ x = <<procs[p].n, r>>
      <4> SUFFICES ASSUME NEW c \in hits
                   PROVE  \E p \in Sensors!Live, r \in Remote : <<p, r>> \in hits /\ <<procs[c[1]].n, c[2]>> = <<procs[p].n, r>>
        OBVIOUS
      <4>1. c = <<c[1], c[2]>> /\ c[1] \in Sensors!Live /\ c[2] \in Remote
        BY <3>2
      <4> QED BY <4>1
    <3>5. found \subseteq Report
      <4>1. \A p \in Sensors!Live : procs[p].n \in Nat
        BY DEF ProcInv
      <4>2. \A x \in found : x \in Nat \X Remote
        <5> SUFFICES ASSUME NEW x \in found PROVE x \in Nat \X Remote
          OBVIOUS
        <5>1. PICK p \in Sensors!Live, r \in Remote : x = <<procs[p].n, r>>
          BY <3>4
        <5> QED BY <4>1, <5>1
      <4> QED BY <4>2 DEF Report
    <3>6. \A x \in found : \E p \in Sensors!Live :
            /\ procs[p].n = x[1] /\ ~Remembered(p, x, alerted_pids, alerted_conns)
            /\ Remembered(p, x, alerted_pids', alerted_conns')
      <4> SUFFICES ASSUME NEW x \in found
                   PROVE  \E p \in Sensors!Live :
                            /\ procs[p].n = x[1] /\ ~Remembered(p, x, alerted_pids, alerted_conns)
                            /\ Remembered(p, x, alerted_pids', alerted_conns')
        OBVIOUS
      <4>1. PICK p \in Sensors!Live, r \in Remote : <<p, r>> \in hits /\ x = <<procs[p].n, r>>
        BY <3>4
      <4>2. x[1] = procs[p].n /\ x[2] = r
        BY <4>1
      <4>3. <<p, r>> \notin alerted_conns /\ <<p, r>> \in alerted_conns'
        BY <3>1, <4>1
      <4> QED BY <4>2, <4>3 DEF Remembered
    <3>7. \A x \in found : x[2] \in Remote
      <4> SUFFICES ASSUME NEW x \in found PROVE x[2] \in Remote
        OBVIOUS
      <4>1. PICK p \in Sensors!Live, r \in Remote : x = <<procs[p].n, r>>
        BY <3>4
      <4> QED BY <4>1
    <3> HIDE DEF hits, found
    <3>8. NewReports(found)
      BY <3>1, <3>3, <3>5, <3>6, <3>7 DEF NewReports
    <3> QED BY <3>8, NewReportsKeep
  <2> QED BY <1>1, <2>1, <2>2, <2>3, <2>4, <2>5, <2>6 DEF ProcStep, Sensors!ProcNext
<1>2. CASE UNCHANGED procVars
  BY <1>2 DEF ProcInv, procVars, Sensors!Live, Sensors!ReportedOnce
<1> QED
  BY <1>1, <1>2 DEF Next, PipelineStep, FileStep, HostStep, HyperStep, LibvirtStep, partVars

LEMMA ProcInvInit == Init => ProcInv
BY DEF Init, Sensors!ProcInit, ProcInv, Sensors!None, Sensors!Live, Sensors!Trait, Sensors!ReportedOnce

-----------------------------------------------------------------------------
\* The filesystem monitor and the crypto spike detector.

LEMMA SensorsMin ==
  ASSUME NEW S \in SUBSET Nat, S # {}
  PROVE  Sensors!Min(S) \in S
BY NatLeast DEF Sensors!Min

LEMMA FirstFreshRange ==
  ASSUME NEW s \in Seq(Int), NEW cutoff \in Int
  PROVE  Sensors!FirstFresh(s, cutoff) \in 1..(Len(s) + 1)
<1> DEFINE fresh == {i \in DOMAIN s : s[i] >= cutoff}
<1>1. fresh \in SUBSET Nat /\ fresh \subseteq 1..Len(s) /\ Len(s) \in Nat
  OBVIOUS
<1>2. fresh # {} => Sensors!Min(fresh) \in fresh
  <2> HIDE DEF fresh
  <2> QED BY <1>1, SensorsMin
<1> QED BY <1>1, <1>2 DEF Sensors!FirstFresh

LoggedWrite == [ts : Nat, n : Nat]

(* A deque of writes that happened by t, with numbers of their own up to w. *)
Numbered(deque, w, t) ==
  /\ deque \in Seq(LoggedWrite)
  /\ \A i \in DOMAIN deque : deque[i].n \in 1..w /\ deque[i].ts <= t
  /\ \A i, j \in DOMAIN deque : deque[i].n = deque[j].n => i = j

(* What counted toward one of the spikes ss happened by the time at.       *)
CountedBefore(deque, w, ss, at) ==
  /\ \A s \in ss : s \subseteq 1..w
  /\ \A s \in ss, i \in DOMAIN deque : deque[i].n \in s => deque[i].ts <= at

FileInv == /\ now \in Nat /\ writes \in Nat /\ fired_at \in Int
           /\ Numbered(events, writes, now) /\ CountedBefore(events, writes, spikes, fired_at)
           /\ Sensors!SpikesAreDisjoint

LEMMA EvaluateKeeps ==
  ASSUME FileInv, NEW recorded, writes' \in Nat, now' = now,
         Numbered(recorded, writes', now), CountedBefore(recorded, writes', spikes, fired_at),
         Sensors!Evaluate(recorded)
  PROVE  FileInv'
<1> DEFINE first == Sensors!FirstFresh([i \in DOMAIN recorded |-> recorded[i].ts], now - BaselineWindow)
           kept == SubSeq(recorded, first, Len(recorded))
           recent == {i \in DOMAIN kept : kept[i].ts >= now - SpikeWindow}
           spike == /\ Sensors!Cardinality(recent) >= SpikeMinFiles
                    /\ Sensors!Deviates(Sensors!Cardinality(recent), Len(kept) - Sensors!Cardinality(recent))
                    /\ Sensors!Rested
           new == {kept[i].n : i \in recent}
<1>1. /\ events' = kept
      /\ fired_at' = IF spike THEN now ELSE fired_at
      /\ spikes' = IF spike THEN spikes \cup {new} ELSE spikes
  BY DEF Sensors!Evaluate
<1>2. /\ now \in Nat /\ fired_at \in Int /\ recorded \in Seq(LoggedWrite) /\ Len(recorded) \in Nat
      /\ \A i \in 1..Len(recorded) : recorded[i] \in LoggedWrite
  BY DEF FileInv, Numbered
<1>3. first \in 1..(Len(recorded) + 1)
  <2> DEFINE times == [i \in DOMAIN recorded |-> recorded[i].ts]
  <2>0. \A i \in 1..Len(recorded) : recorded[i].ts \in Int
    BY <1>2 DEF LoggedWrite
  <2>1. times \in Seq(Int) /\ Len(times) = Len(recorded)
    <3>1. DOMAIN recorded = 1..Len(recorded) /\ times \in [1..Len(recorded) -> Int]
      BY <1>2, <2>0
    <3> QED BY <1>2, <3>1
  <2>2. now - BaselineWindow \in Int
    BY <1>2, WindowAssumption
  <2> HIDE DEF times
  <2>3. Sensors!FirstFresh(times, now - BaselineWindow) \in 1..(Len(times) + 1)
    BY <2>1, <2>2, FirstFreshRange
  <2> QED BY <2>1, <2>3 DEF times
<1> HIDE DEF first
<1>4. /\ kept \in Seq(LoggedWrite)
      /\ \A i \in DOMAIN kept : i + first - 1 \in DOMAIN recorded /\ kept[i] = recorded[i + first - 1] /\ i \in Nat
      /\ \A i \in DOMAIN kept : kept[i].ts \in Nat /\ kept[i].n \in Nat
  <2>1. /\ kept \in Seq(LoggedWrite)
        /\ \A i \in DOMAIN kept : i + first - 1 \in DOMAIN recorded /\ kept[i] = recorded[i + first - 1] /\ i \in Nat
    BY <1>2, <1>3
  <2> HIDE DEF kept
  <2>2. \A i \in DOMAIN kept : kept[i] \in LoggedWrite
    BY <2>1
  <2> QED BY <2>1, <2>2 DEF LoggedWrite
<1> HIDE DEF kept
<1>5. Numbered(kept, writes', now)
  <2>1. \A i \in DOMAIN kept : kept[i].n \in 1..writes' /\ kept[i].ts <= now
    BY <1>4 DEF Numbered
  <2>2. ASSUME NEW i \in DOMAIN kept, NEW j \in DOMAIN kept, kept[i].n = kept[j].n
        PROVE  i = j
    <3>1. i + first - 1 = j + first - 1
      BY <1>4, <2>2 DEF Numbered
    <3> QED BY <1>3, <1>4, <3>1
  <2> QED BY <1>4, <2>1, <2>2 DEF Numbered
<1>6. CountedBefore(kept, writes', spikes, fired_at)
  BY <1>3, <1>4 DEF CountedBefore
<1>7. CASE ~spike
  BY <1>1, <1>2, <1>5, <1>6, <1>7 DEF FileInv, Numbered, CountedBefore, Sensors!SpikesAreDisjoint
<1>8. CASE spike
  <2>1. now - fired_at > SpikeWindow
    BY <1>8 DEF Sensors!Rested
  <2>2. new \subseteq 1..writes'
    BY <1>5 DEF Numbered
  <2>3. \A s \in spikes : s \cap new = {}
    <3> SUFFICES ASSUME NEW s \in spikes, NEW i \in recent, kept[i].n \in s PROVE FALSE
      OBVIOUS
    <3>1. kept[i].ts <= fired_at /\ kept[i].ts >= now - SpikeWindow /\ kept[i].ts \in Nat
      BY <1>4, <1>6 DEF CountedBefore
    <3> QED BY <2>1, <3>1, <1>2, WindowAssumption
  <2>4. Sensors!Cardinality(new) >= SpikeMinFiles
    <3> DEFINE g == [i \in recent |-> kept[i].n]
    <3>1. IsFiniteSet(recent)
      <4>1. IsFiniteSet(1..Len(kept))
        BY <1>4, FS_Interval
      <4> QED BY <4>1, <1>4, FS_Subset
    <3>2. g \in [recent -> new] /\ (\A t \in new : \E i \in recent : g[i] = t)
          /\ (\A i, j \in recent : g[i] = g[j] => i = j)
      BY <1>5 DEF Numbered
    <3> HIDE DEF g, recent, new
    <3>3. g \in Surjection(recent, new) /\ g \in Injection(recent, new)
      BY <3>2 DEF Surjection, Injection, IsInjective
    <3>4. Cardinality(new) = Cardinality(recent)
      BY <3>1, <3>3, FS_Surjection
    <3> QED BY <1>8, <3>4, SensorsCount
  <2>5. \A i \in DOMAIN kept : kept[i].ts <= now /\ kept[i].ts \in Nat
    BY <1>4, <1>5 DEF Numbered
  <2> HIDE DEF new, recent, spike
  <2>6. spikes' = spikes \cup {new} /\ fired_at' = now
    BY <1>1, <1>8
  <2>7. CountedBefore(kept, writes', spikes', fired_at')
    BY <1>2, <1>6, <2>1, <2>2, <2>5, <2>6, WindowAssumption DEF CountedBefore
  <2>8. Sensors!SpikesAreDisjoint'
    BY <2>3, <2>4, <2>6 DEF FileInv, Sensors!SpikesAreDisjoint
  <2> QED BY <1>1, <1>2, <1>5, <2>6, <2>7, <2>8 DEF FileInv
<1> QED BY <1>7, <1>8

LEMMA FileInvStep ==
  FileInv /\ [Next]_partVars => FileInv'
<1> SUFFICES ASSUME FileInv, [Next]_partVars PROVE FileInv'
  OBVIOUS
<1>1. CASE FileStep
  <2>1. CASE Sensors!FileTick
    <3>1. now \in Nat /\ now' = now + 1 /\ UNCHANGED <<events, writes, fired_at, spikes>>
      BY <2>1 DEF Sensors!FileTick, FileInv
    <3>2. \A i \in DOMAIN events : events[i].ts \in Nat /\ events[i].ts <= now'
      <4>1. \A i \in DOMAIN events : events[i] \in LoggedWrite /\ events[i].ts <= now
        BY DEF FileInv, Numbered
      <4>2. \A i \in DOMAIN events : events[i].ts \in Nat
        BY <4>1 DEF LoggedWrite
      <4> QED BY <3>1, <4>1, <4>2
    <3>3. Numbered(events, writes, now')
      BY <3>2 DEF FileInv, Numbered
    <3> QED BY <3>1, <3>3 DEF FileInv, Sensors!SpikesAreDisjoint
  <2>2. ASSUME NEW f \in File, NEW high \in BOOLEAN, Sensors!Write(f, high) PROVE FileInv'
    BY <2>2 DEF Sensors!Write, FileInv, Numbered, CountedBefore, Sensors!SpikesAreDisjoint
  <2>3. CASE Sensors!Scan
    <3> DEFINE modified == {f \in File : seen_mtimes[f] \notin {Sensors!Absent, mtime[f]}}
               high == {f \in modified : encrypted[f]}
               n == Sensors!Cardinality(high)
               logged == [i \in 1..n |-> [ts |-> now, n |-> writes + i]]
    <3>1. writes' = writes + n /\ now' = now /\ Sensors!Evaluate(events \o logged)
      BY <2>3 DEF Sensors!Scan
    <3>2. n \in Nat
      <4>1. IsFiniteSet(high)
        BY SeenAssumption, FS_Subset
      <4> QED BY <4>1, FS_CardinalityType, SensorsCount
    <3>3. now \in Nat /\ writes \in Nat /\ events \in Seq(LoggedWrite)
      BY DEF FileInv, Numbered
    <3> HIDE DEF n
    <3>4. logged \in Seq(LoggedWrite) /\ Len(logged) = n
          /\ \A i \in 1..n : logged[i].ts = now /\ logged[i].n = writes + i
      BY <3>2, <3>3 DEF LoggedWrite
    <3> HIDE DEF logged
    <3> DEFINE recorded == events \o logged
    <3>5. /\ recorded \in Seq(LoggedWrite) /\ Len(recorded) = Len(events) + n /\ Len(events) \in Nat
          /\ \A i \in 1..Len(events) : recorded[i] = events[i]
          /\ \A i \in DOMAIN recorded : i \notin 1..Len(events) =>
               i - Len(events) \in 1..n /\ recorded[i] = logged[i - Len(events)]
      BY <3>2, <3>3, <3>4
    <3> HIDE DEF recorded
    <3>6. \A i \in DOMAIN recorded :
            \/ /\ i \in 1..Len(events) /\ recorded[i] = events[i] /\ events[i].n \in 1..writes
               /\ events[i].ts <= now
            \/ /\ i \notin 1..Len(events) /\ recorded[i].ts = now
               /\ i \in Nat /\ recorded[i].n = writes + (i - Len(events)) /\ i - Len(events) \in 1..n
      BY <3>3, <3>4, <3>5 DEF FileInv, Numbered
    <3>7. Numbered(recorded, writes', now)
      <4>1. \A i \in DOMAIN recorded : recorded[i].n \in 1..writes' /\ recorded[i].ts <= now
        BY <3>1, <3>2, <3>3, <3>6
      <4>2. ASSUME NEW i \in DOMAIN recorded, NEW j \in DOMAIN recorded, recorded[i].n = recorded[j].n
            PROVE  i = j
        <5>1. CASE i \in 1..Len(events) /\ j \in 1..Len(events)
          BY <4>2, <5>1, <3>3, <3>6 DEF FileInv, Numbered
        <5>2. CASE ~(i \in 1..Len(events) /\ j \in 1..Len(events))
          <6>1. i \in Nat /\ j \in Nat /\ Len(events) \in Nat
            BY <3>5
          <6>2. CASE i \in 1..Len(events) \/ j \in 1..Len(events)
            BY <4>2, <5>2, <6>1, <6>2, <3>3, <3>6
          <6>3. CASE i \notin 1..Len(events) /\ j \notin 1..Len(events)
            BY <4>2, <6>1, <6>3, <3>3, <3>6
          <6> QED BY <6>2, <6>3
        <5> QED BY <5>1, <5>2
      <4> QED BY <3>5, <4>1, <4>2 DEF Numbered
    <3>8. CountedBefore(recorded, writes', spikes, fired_at)
      <4>1. \A s \in spikes : s \subseteq 1..writes /\ 1..writes \subseteq 1..writes'
        BY <3>1, <3>2, <3>3 DEF FileInv, CountedBefore
      <4>2. ASSUME NEW s \in spikes, NEW i \in DOMAIN recorded, recorded[i].n \in s
            PROVE  recorded[i].ts <= fired_at
        <5>1. recorded[i].n \in 1..writes
          BY <4>1, <4>2
        <5>2. i \in 1..Len(events) /\ recorded[i] = events[i]
          BY <5>1, <3>3, <3>6
        <5>3. i \in DOMAIN events
          BY <5>2, <3>3
        <5> QED BY <4>2, <5>2, <5>3 DEF FileInv, CountedBefore
      <4> QED BY <4>1, <4>2 DEF CountedBefore
    <3>9. writes' \in Nat
      BY <3>1, <3>2, <3>3
    <3>10. Sensors!Evaluate(recorded)
      BY <3>1 DEF recorded
    <3> QED BY <3>1, <3>7, <3>8, <3>9, <3>10, EvaluateKeeps
  <2> QED BY <1>1, <2>1, <2>2, <2>3 DEF FileStep, Sensors!FileNext
<1>2. CASE UNCHANGED fileVars
  BY <1>2 DEF FileInv, fileVars, Numbered, CountedBefore, Sensors!SpikesAreDisjoint
<1> QED
  BY <1>1, <1>2 DEF Next, PipelineStep, ProcStep, HostStep, HyperStep, LibvirtStep, partVars

LEMMA FileInvInit == Init => FileInv
BY WindowAssumption DEF Init, Sensors!FileInit, FileInv, Numbered, CountedBefore, Sensors!SpikesAreDisjoint

-----------------------------------------------------------------------------
\* The scorecard.

Tally == [monitor : Int, alert : Int, contain : Int, failover : Int, heal : Int, escalate : Int]
Place == 1..6
At(t, j) == t[Scorecard!Verdict[j]]

LEMMA AtIs ==
  ASSUME NEW t \in Tally
  PROVE  /\ At(t, 1) = t.monitor /\ At(t, 2) = t.alert /\ At(t, 3) = t.contain
         /\ At(t, 4) = t.failover /\ At(t, 5) = t.heal /\ At(t, 6) = t.escalate
         /\ \A j \in Place : At(t, j) \in Int
         /\ DOMAIN Scorecard!Verdict = Place
         /\ \A j \in Place : j = 1 \/ j = 2 \/ j = 3 \/ j = 4 \/ j = 5 \/ j = 6
<1>1. /\ At(t, 1) = t.monitor /\ At(t, 2) = t.alert /\ At(t, 3) = t.contain
      /\ At(t, 4) = t.failover /\ At(t, 5) = t.heal /\ At(t, 6) = t.escalate
  BY DEF At, Scorecard!Verdict
<1>2. \A j \in Place : j = 1 \/ j = 2 \/ j = 3 \/ j = 4 \/ j = 5 \/ j = 6
  BY DEF Place
<1>3. DOMAIN Scorecard!Verdict = Place
  BY DEF Place, Scorecard!Verdict
<1>4. /\ t.monitor \in Int /\ t.alert \in Int /\ t.contain \in Int
      /\ t.failover \in Int /\ t.heal \in Int /\ t.escalate \in Int
  BY DEF Tally
<1> QED BY <1>1, <1>2, <1>3, <1>4

(* The leader is the first greatest, and the margin is wide exactly when   *)
(* it is that far from every other.                                        *)
LEMMA LeaderIs ==
  ASSUME NEW t \in Tally
  PROVE  /\ Scorecard!Leader(t) \in Place
         /\ \A j \in Place : \/ At(t, j) < At(t, Scorecard!Leader(t))
                             \/ At(t, j) = At(t, Scorecard!Leader(t)) /\ Scorecard!Leader(t) <= j
<1> DEFINE v == [j \in 1..6 |-> At(t, j)]
<1>1. v \in [1..6 -> Int]
  BY AtIs DEF Place
<1>2. \E i \in 1..6 : \A j \in 1..6 : v[j] < v[i] \/ (v[j] = v[i] /\ i <= j)
  <2> HIDE DEF v
  <2> QED BY <1>1, FirstGreatest
<1>3. \E i \in Place : \A j \in Place : At(t, j) < At(t, i) \/ (At(t, j) = At(t, i) /\ i <= j)
  BY <1>2 DEF Place
<1> QED BY <1>3, AtIs DEF Scorecard!Leader, At

Wins(t, i) == \A j \in Place \ {i} : At(t, j) + 15 <= At(t, i)

LEMMA MarginIs ==
  ASSUME NEW t \in Tally
  PROVE  Scorecard!Margin(t) < 15 <=> ~Wins(t, Scorecard!Leader(t))
<1> DEFINE i == Scorecard!Leader(t)
           others == {At(t, j) : j \in Place \ {i}}
<1>1. i \in Place
  BY LeaderIs
<1>2. \A x \in others : x \in Int
  BY AtIs
<1>3. others # {}
  BY <1>1 DEF Place
<1>4. IsFiniteSet(others)
  <2> DEFINE f == [j \in Place |-> At(t, j)]
  <2>1. IsFiniteSet(Place \ {i})
    <3>1. IsFiniteSet(1..6)
      <4>1. 1 \in Int /\ 6 \in Int
        OBVIOUS
      <4> QED BY <4>1, FS_Interval
    <3> QED BY <3>1, FS_Subset DEF Place
  <2>2. others = {f[j] : j \in Place \ {i}}
    OBVIOUS
  <2> HIDE DEF f, others, i
  <2>3. IsFiniteSet({f[j] : j \in Place \ {i}})
    BY <2>1, FiniteImage
  <2> QED BY <2>2, <2>3
<1>5. Scorecard!Margin(t) = At(t, i) - Scorecard!Max(others)
  BY AtIs DEF Scorecard!Margin, At
<1>6. Scorecard!Max(others) \in others /\ \A x \in others : Scorecard!Max(others) >= x
  <2> HIDE DEF others
  <2>1. \E x \in others : \A y \in others : x >= y
    BY <1>2, <1>3, <1>4, FiniteGreatest
  <2> QED BY <2>1 DEF Scorecard!Max
<1>7. PICK k \in Place \ {i} : Scorecard!Max(others) = At(t, k)
  BY <1>6
<1>8. \A j \in Place \ {i} : At(t, k) >= At(t, j)
  BY <1>6, <1>7
<1> HIDE DEF others, i
<1>9. \A j \in Place : At(t, j) \in Int
  BY AtIs
<1> QED BY <1>1, <1>5, <1>7, <1>8, <1>9 DEF Wins, i

Outcome(t) == IF Scorecard!Margin(t) < Scorecard!ESCALATE_MARGIN THEN "escalate"
              ELSE Scorecard!Verdict[Scorecard!Leader(t)]

LEMMA OutcomeIs ==
  ASSUME NEW t \in Tally
  PROVE  /\ Outcome(t) = "monitor" <=> Wins(t, 1)
         /\ Outcome(t) = "alert" <=> Wins(t, 2)
         /\ (\A j \in Place \ {3} : At(t, j) < At(t, 3)) => Outcome(t) \in {"contain", "escalate"}
<1> DEFINE i == Scorecard!Leader(t)
<1>1. /\ i \in Place
      /\ \A j \in Place : At(t, j) < At(t, i) \/ (At(t, j) = At(t, i) /\ i <= j)
      /\ \A j \in Place : At(t, j) \in Int
  BY LeaderIs, AtIs
<1>2. Outcome(t) = IF ~Wins(t, i) THEN "escalate" ELSE Scorecard!Verdict[i]
  BY MarginIs DEF Outcome, Scorecard!ESCALATE_MARGIN
<1> HIDE DEF i
<1>3. ASSUME NEW k \in Place, \A j \in Place \ {k} : At(t, j) < At(t, k) PROVE i = k
  BY <1>1, <1>3
<1>4. \A k \in Place : Wins(t, k) => i = k
  <2> SUFFICES ASSUME NEW k \in Place, Wins(t, k) PROVE i = k
    OBVIOUS
  <2>1. \A j \in Place \ {k} : At(t, j) < At(t, k)
    BY <1>1 DEF Wins
  <2> QED BY <1>3, <2>1
<1>5. /\ 1 \in Place /\ 2 \in Place /\ 3 \in Place
      /\ Scorecard!Verdict[i] = "monitor" <=> i = 1
      /\ Scorecard!Verdict[i] = "alert" <=> i = 2
      /\ Scorecard!Verdict[3] = "contain"
  BY <1>1, AtIs DEF Place, Scorecard!Verdict
<1> QED BY <1>2, <1>3, <1>4, <1>5

(* What a fact must have to be answered with more than a ticket.           *)
Rank(f) == Scorecard!SevRank(f.severity)
Strong(f) == \/ Rank(f) = 4 \/ ~f.reversible \/ f.event_type = "agent_silence" \/ f.score >= 100
             \/ Rank(f) = 3 /\ \/ f.repeat_offender /\ ~f.business_hours
                               \/ f.has_standby \/ f.asset_criticality = "crown_jewel"

LEMMA DecideIs ==
  ASSUME NEW f \in Scorecard!Fact
  PROVE  /\ Scorecard!Strength(Scorecard!Decide(f)) =
              IF Strong(f) THEN 2 ELSE IF Rank(f) <= 1 THEN 0 ELSE 1
         /\ Rank(f) = Scorecard!SEV[f.severity] /\ Rank(f) \in 0..4
<1> DEFINE t == Scorecard!Totals(f)
<1>1. /\ f.event_type \in {"crypto_spike", "agent_silence", "network"} /\ f.score \in {0, 100}
      /\ f.severity \in DOMAIN Scorecard!SEV /\ f.asset_criticality \in {"normal", "crown_jewel"}
      /\ f.has_standby \in BOOLEAN /\ f.reversible \in BOOLEAN
      /\ f.business_hours \in BOOLEAN /\ f.repeat_offender \in BOOLEAN
  BY DEF Scorecard!Fact
<1>2. Rank(f) = Scorecard!SEV[f.severity] /\ Rank(f) \in 0..4
  BY <1>1 DEF Rank, Scorecard!SevRank, Scorecard!SEV
<1>3. t \in Tally
  BY <1>1, <1>2 DEF Scorecard!Totals, Tally
<1>4. /\ t.monitor = IF Rank(f) <= 1 THEN 40 ELSE 0
      /\ t.alert = 5 + (IF Rank(f) >= 3 THEN 30 ELSE 0) + (IF Rank(f) = 2 THEN 35 ELSE 0)
      /\ t.contain = (IF Rank(f) >= 4 THEN 60 ELSE 0) + (IF f.score >= 100 THEN 50 ELSE 0)
                     + (IF Rank(f) >= 3 /\ f.repeat_offender THEN 20 ELSE 0)
                     + (IF Rank(f) >= 3 /\ ~f.business_hours THEN 15 ELSE 0)
      /\ t.failover = (IF Rank(f) >= 3 /\ f.has_standby THEN 45 ELSE 0)
                      + (IF Rank(f) >= 3 /\ f.asset_criticality = "crown_jewel" THEN 25 ELSE 0)
      /\ t.heal = IF f.event_type = "agent_silence" THEN 30 ELSE 0
      /\ t.escalate = 0
  BY <1>1, <1>2 DEF Scorecard!Totals, Rank
<1> HIDE DEF t
<1>5. Wins(t, 1) <=> /\ t.alert + 15 <= t.monitor /\ t.contain + 15 <= t.monitor
                     /\ t.failover + 15 <= t.monitor /\ t.heal + 15 <= t.monitor /\ t.escalate + 15 <= t.monitor
  BY <1>3, AtIs DEF Wins, Place
<1>6. Wins(t, 2) <=> /\ t.monitor + 15 <= t.alert /\ t.contain + 15 <= t.alert
                     /\ t.failover + 15 <= t.alert /\ t.heal + 15 <= t.alert /\ t.escalate + 15 <= t.alert
  BY <1>3, AtIs DEF Wins, Place
<1>7. Wins(t, 1) <=> Rank(f) <= 1 /\ ~(f.event_type = "agent_silence" \/ f.score >= 100)
  BY <1>1, <1>2, <1>4, <1>5
<1>8. Wins(t, 2) <=> \/ Rank(f) = 2 /\ ~(f.event_type = "agent_silence" \/ f.score >= 100)
                     \/ Rank(f) = 3 /\ ~(\/ f.event_type = "agent_silence" \/ f.score >= 100
                                         \/ f.repeat_offender /\ ~f.business_hours
                                         \/ f.has_standby \/ f.asset_criticality = "crown_jewel")
  BY <1>1, <1>2, <1>4, <1>6
<1>9. Scorecard!Decide(f) = IF Scorecard!G1(f) THEN "contain"
                            ELSE IF Scorecard!G2(f) THEN "escalate" ELSE Outcome(t)
  BY DEF Scorecard!Decide, Outcome, t
<1>10. /\ Outcome(t) = "monitor" <=> Wins(t, 1)
       /\ Outcome(t) = "alert" <=> Wins(t, 2)
  BY <1>3, OutcomeIs
<1>11. /\ Scorecard!G1(f) => Rank(f) = 4
       /\ Scorecard!G2(f) <=> ~f.reversible /\ Rank(f) < 4
  BY <1>1, <1>2 DEF Scorecard!G1, Scorecard!G2, Rank
<1>12. \A x : Scorecard!Strength(x) = IF x = "monitor" THEN 0 ELSE IF x = "alert" THEN 1 ELSE 2
  BY DEF Scorecard!Strength
<1>13. Scorecard!Strength(Scorecard!Decide(f)) =
         IF Strong(f) THEN 2 ELSE IF Rank(f) <= 1 THEN 0 ELSE 1
  <2> DEFINE d == Scorecard!Decide(f)
  <2>1. d = "monitor" <=> ~Scorecard!G1(f) /\ ~Scorecard!G2(f) /\ Wins(t, 1)
    BY <1>9, <1>10
  <2>2. d = "alert" <=> ~Scorecard!G1(f) /\ ~Scorecard!G2(f) /\ Wins(t, 2)
    BY <1>9, <1>10
  <2> HIDE DEF d
  <2>3. d = "monitor" <=> ~Strong(f) /\ Rank(f) <= 1
    BY <2>1, <1>1, <1>2, <1>7, <1>11 DEF Strong
  <2>4. d = "alert" <=> ~Strong(f) /\ Rank(f) > 1
    BY <2>2, <1>1, <1>2, <1>8, <1>11 DEF Strong
  <2> QED BY <2>3, <2>4, <1>2, <1>12 DEF d
<1> QED BY <1>2, <1>13

LEMMA NeverWeakerHolds ==
  ASSUME NEW f \in Scorecard!Fact
  PROVE  Scorecard!NeverWeaker(f)
<1>1. /\ f.event_type \in {"crypto_spike", "agent_silence", "network"} /\ f.score \in {0, 100}
      /\ f.severity \in DOMAIN Scorecard!SEV
  BY DEF Scorecard!Fact
<1>2. ASSUME NEW s \in DOMAIN Scorecard!SEV, Scorecard!SEV[s] >= Scorecard!SEV[f.severity]
      PROVE  Scorecard!Strength(Scorecard!Decide([f EXCEPT !.severity = s])) >=
               Scorecard!Strength(Scorecard!Decide(f))
  <2> DEFINE g == [f EXCEPT !.severity = s]
  <2>1. g \in Scorecard!Fact
    BY DEF Scorecard!Fact
  <2>2. /\ g.severity = s /\ g.reversible = f.reversible /\ g.event_type = f.event_type
        /\ g.score = f.score /\ g.repeat_offender = f.repeat_offender
        /\ g.business_hours = f.business_hours /\ g.has_standby = f.has_standby
        /\ g.asset_criticality = f.asset_criticality
    BY DEF Scorecard!Fact
  <2> HIDE DEF g
  <2>3. Rank(g) >= Rank(f) /\ Rank(g) \in 0..4 /\ Rank(f) \in 0..4
    BY <1>2, <2>1, <2>2, DecideIs
  <2>4. Strong(f) => Strong(g)
    BY <2>2, <2>3 DEF Strong
  <2>5. Scorecard!Strength(Scorecard!Decide(g)) >= Scorecard!Strength(Scorecard!Decide(f))
    BY <2>1, <2>3, <2>4, DecideIs
  <2> QED BY <2>5 DEF g
<1>3. Scorecard!Strength(Scorecard!Decide([f EXCEPT !.score = 100])) >= Scorecard!Strength(Scorecard!Decide(f))
  <2> DEFINE g == [f EXCEPT !.score = 100]
  <2>1. g \in Scorecard!Fact /\ g.score = 100
    BY DEF Scorecard!Fact
  <2> HIDE DEF g
  <2>2. Scorecard!Strength(Scorecard!Decide(g)) = 2
    BY <2>1, DecideIs DEF Strong
  <2>3. Scorecard!Strength(Scorecard!Decide(f)) \in {0, 1, 2}
    BY DecideIs
  <2> QED BY <2>2, <2>3 DEF g
<1>4. Scorecard!SEV[f.severity] >= 3 => Scorecard!Decide(f) # "monitor"
  BY DecideIs DEF Scorecard!Strength
<1> QED BY <1>2, <1>3, <1>4 DEF Scorecard!NeverWeaker

-----------------------------------------------------------------------------
\* Verdicts of the pipeline.

(* The pipeline's scorecard is the scorecard.                              *)
LEMMA SameScorecard ==
  \A f : Pipeline!Decisions!Decide(f) = Scorecard!Decide(f)
<1>1. \A x : Pipeline!Decisions!SevRank(x) = Scorecard!SevRank(x)
  BY DEF Pipeline!Decisions!SevRank, Scorecard!SevRank, Pipeline!Decisions!SEV, Scorecard!SEV
<1>2. \A f : /\ Pipeline!Decisions!G1(f) = Scorecard!G1(f) /\ Pipeline!Decisions!G2(f) = Scorecard!G2(f)
             /\ Pipeline!Decisions!Totals(f) = Scorecard!Totals(f)
  BY <1>1 DEF Pipeline!Decisions!G1, Scorecard!G1, Pipeline!Decisions!G2, Scorecard!G2,
              Pipeline!Decisions!Totals, Scorecard!Totals, Pipeline!Decisions!REFLEX, Scorecard!REFLEX
<1>3. Pipeline!Decisions!Verdict = Scorecard!Verdict
  BY DEF Pipeline!Decisions!Verdict, Scorecard!Verdict
<1>4. \A t : Pipeline!Decisions!Leader(t) = Scorecard!Leader(t)
  BY <1>3 DEF Pipeline!Decisions!Leader, Scorecard!Leader
<1>5. \A S : Pipeline!Decisions!Max(S) = Scorecard!Max(S)
  BY DEF Pipeline!Decisions!Max, Scorecard!Max
<1>6. \A t : Pipeline!Decisions!Margin(t) = Scorecard!Margin(t)
  BY <1>3, <1>4, <1>5 DEF Pipeline!Decisions!Margin, Scorecard!Margin
<1> QED
  BY <1>2, <1>3, <1>4, <1>6 DEF Pipeline!Decisions!Decide, Scorecard!Decide,
     Pipeline!Decisions!ESCALATE_MARGIN, Scorecard!ESCALATE_MARGIN

LEMMA IsolatingScoreActs ==
  ASSUME NEW w, Pipeline!Score(w) >= Pipeline!ISOLATION_THRESHOLD
  PROVE  Pipeline!Decisions!Decide(Pipeline!FactOf(w)) \in {"contain", "escalate"}
<1> DEFINE f == Pipeline!FactOf(w)
           t == Scorecard!Totals(f)
<1>1. /\ f.score >= 100 /\ f.asset_criticality = "normal" /\ f.has_standby = FALSE
      /\ f.reversible = TRUE /\ f.business_hours = TRUE /\ f.repeat_offender = FALSE
  BY DEF Pipeline!FactOf, Pipeline!ISOLATION_THRESHOLD
<1> HIDE DEF f
<1>2. Rank(f) \in 0..4
  BY DEF Rank, Scorecard!SevRank, Scorecard!SEV
<1>3. /\ t.monitor = IF Rank(f) <= 1 THEN 40 ELSE 0
      /\ t.alert = 5 + (IF Rank(f) >= 3 THEN 30 ELSE 0) + (IF Rank(f) = 2 THEN 35 ELSE 0)
      /\ t.contain = (IF Rank(f) >= 4 THEN 60 ELSE 0) + 50
      /\ t.failover = 0
      /\ t.heal = IF f.event_type = "agent_silence" THEN 30 ELSE 0
      /\ t.escalate = 0
  BY <1>1, <1>2 DEF Scorecard!Totals, Rank
<1>4. t \in Tally
  BY <1>1, <1>2 DEF Scorecard!Totals, Tally, Rank
<1> HIDE DEF t
<1>5. \A j \in Place \ {3} : At(t, j) < At(t, 3)
  <2>1. /\ t.monitor < t.contain /\ t.alert < t.contain /\ t.failover < t.contain
        /\ t.heal < t.contain /\ t.escalate < t.contain
    BY <1>2, <1>3
  <2> QED BY <1>4, <2>1, AtIs
<1>6. Outcome(t) \in {"contain", "escalate"}
  BY <1>4, <1>5, OutcomeIs
<1>7. Scorecard!Decide(f) = IF Scorecard!G1(f) THEN "contain"
                            ELSE IF Scorecard!G2(f) THEN "escalate" ELSE Outcome(t)
  BY DEF Scorecard!Decide, Outcome, t
<1>8. Scorecard!Decide(f) \in {"contain", "escalate"}
  BY <1>6, <1>7
<1> QED BY <1>8, SameScorecard DEF f

VerdictInv == /\ \E X : decision \in [Vm -> X]
              /\ Pipeline!VerdictMatchesIsolation

LEMMA VerdictInvStep ==
  VerdictInv /\ [Next]_partVars => VerdictInv'
<1> SUFFICES ASSUME VerdictInv, [Next]_partVars PROVE VerdictInv'
  OBVIOUS
<1>1. ASSUME NEW v \in Vm, NEW b, Pipeline!ProcessBatch(v, b) PROVE VerdictInv'
  <2>1. PICK kept : decision' = [decision EXCEPT ![v] =
                                [verdict |-> Pipeline!Decisions!Decide(Pipeline!FactOf(kept)),
                                 isolates |-> Pipeline!Score(kept) >= Pipeline!ISOLATION_THRESHOLD]]
                       \/ decision' = decision
    BY <1>1 DEF Pipeline!ProcessBatch
  <2>2. CASE decision' = decision
    BY <2>2 DEF VerdictInv, Pipeline!VerdictMatchesIsolation
  <2>3. CASE decision' # decision
    <3> DEFINE newest == [verdict |-> Pipeline!Decisions!Decide(Pipeline!FactOf(kept)),
                        isolates |-> Pipeline!Score(kept) >= Pipeline!ISOLATION_THRESHOLD]
    <3>1. newest.isolates => newest.verdict \in {"contain", "escalate"}
      BY IsolatingScoreActs
    <3>2. decision' = [decision EXCEPT ![v] = newest]
      BY <2>1, <2>3
    <3> HIDE DEF newest
    <3>3. PICK Y : decision \in [Vm -> Y]
      BY DEF VerdictInv
    <3>4. decision' \in [Vm -> Y \cup {newest}]
      BY <3>2, <3>3
    <3>5. \A u \in Vm : decision'[u] = IF u = v THEN newest ELSE decision[u]
      BY <3>2, <3>3
    <3>6. Pipeline!VerdictMatchesIsolation'
      BY <3>1, <3>5 DEF VerdictInv, Pipeline!VerdictMatchesIsolation
    <3> QED BY <3>4, <3>6 DEF VerdictInv
  <2> QED BY <2>2, <2>3
<1>2. CASE UNCHANGED decision
  BY <1>2 DEF VerdictInv, Pipeline!VerdictMatchesIsolation
<1>3. CASE PipelineStep
  BY <1>1, <1>2, <1>3 DEF PipelineStep, Pipeline!PipelineNext, Pipeline!WatchdogSweep, Pipeline!TimePasses
<1> QED
  BY <1>2, <1>3 DEF Next, FileStep, ProcStep, HostStep, HyperStep, LibvirtStep, partVars, pipelineVars

LEMMA VerdictInvInit == Init => VerdictInv
<1> SUFFICES ASSUME Init PROVE VerdictInv
  OBVIOUS
<1>1. decision = [v \in Vm |-> [verdict |-> "none", isolates |-> FALSE]]
  BY DEF Init, Pipeline!PipelineInit
<1>2. decision \in [Vm -> {[verdict |-> "none", isolates |-> FALSE]}]
  BY <1>1
<1> QED BY <1>1, <1>2 DEF VerdictInv, Pipeline!VerdictMatchesIsolation

-----------------------------------------------------------------------------
\* Alerts of the pipeline.

AlertRecord == [vm_id : Vm, event_type : EventType, created_ts : Nat,
                status : TriageStatus \cup {"OPEN", "ACKNOWLEDGED"}]
ScoredEvent == [event_type : EventType \cup {"agent_silence"}, severity : {e.severity : e \in EventInput} \cup {"high"},
                score_delta : Nat, timestamp : Nat]
PipelineState == [window : Seq(ScoredEvent),
                  queue : [alerts : Seq(AlertRecord), dedupe : [Pipeline!Key -> Int]]]

KeyOf(a) == <<a.vm_id, a.event_type>>

(* A queue at time t: dedupe has the latest alert of each key, and the     *)
(* alerts of a key are a window apart.                                     *)
QueueOk(q, t) ==
  /\ \A i \in DOMAIN q.alerts : q.alerts[i].created_ts <= q.dedupe[KeyOf(q.alerts[i])]
  /\ \A k \in Pipeline!Key :
       /\ q.dedupe[k] <= t
       /\ \/ q.dedupe[k] = Pipeline!Never
          \/ \E i \in DOMAIN q.alerts : KeyOf(q.alerts[i]) = k /\ q.alerts[i].created_ts = q.dedupe[k]
  /\ \A i, j \in DOMAIN q.alerts :
       i < j /\ KeyOf(q.alerts[i]) = KeyOf(q.alerts[j]) =>
         q.alerts[j].created_ts - q.alerts[i].created_ts >= DedupeWindow

(* An event of a window of v has its alert.                                *)
Covered(v, e, al) ==
  e.score_delta >= Pipeline!ALERT_MIN_DELTA /\ e.event_type # "agent_silence" =>
    \E i \in DOMAIN al : /\ KeyOf(al[i]) = <<v, e.event_type>>
                         /\ e.timestamp - al[i].created_ts \in 0..(DedupeWindow - 1)

(* A later queue has the earlier alerts where they were.                   *)
Extends(later, earlier) ==
  \A i \in DOMAIN earlier : i \in DOMAIN later /\ later[i] = earlier[i]

AlertInv ==
  /\ clock \in Nat
  /\ alerts \in Seq(AlertRecord) /\ dedupe \in [Pipeline!Key -> Int]
  /\ window \in [Vm -> Seq(ScoredEvent)]
  /\ QueueOk([alerts |-> alerts, dedupe |-> dedupe], clock)
  /\ \A v \in Vm : \A i \in DOMAIN window[v] : Covered(v, window[v][i], alerts)

LEMMA CoveredLonger ==
  ASSUME NEW v, NEW e, NEW later, NEW earlier, Extends(later, earlier), Covered(v, e, earlier)
  PROVE  Covered(v, e, later)
BY DEF Covered, Extends

LEMMA AlertInvGives == AlertInv => Pipeline!AlertCoversEvents
<1> SUFFICES ASSUME AlertInv PROVE Pipeline!AlertCoversEvents
  OBVIOUS
<1>1. ASSUME NEW v \in Vm, NEW i \in DOMAIN window[v],
             window[v][i].score_delta >= Pipeline!ALERT_MIN_DELTA, window[v][i].event_type # "agent_silence"
      PROVE  \E k \in DOMAIN alerts :
                /\ alerts[k].vm_id = v /\ alerts[k].event_type = window[v][i].event_type
                /\ window[v][i].timestamp - alerts[k].created_ts \in 0..(DedupeWindow - 1)
  BY <1>1 DEF AlertInv, Covered, KeyOf
<1>2. ASSUME NEW i \in DOMAIN alerts, NEW j \in DOMAIN alerts, i < j,
             alerts[i].vm_id = alerts[j].vm_id, alerts[i].event_type = alerts[j].event_type
      PROVE  alerts[j].created_ts - alerts[i].created_ts >= DedupeWindow
  BY <1>2 DEF AlertInv, QueueOk, KeyOf
<1> QED BY <1>1, <1>2 DEF Pipeline!AlertCoversEvents

LEMMA ResolveDeltaNat == \A e : Pipeline!ResolveDelta(e) \in Nat
BY DEF Pipeline!ResolveDelta, Pipeline!SCORE_WEIGHTS

(* What is left of a sequence was in it.                                   *)
PartOf(s, t) == \A i \in DOMAIN s : \E j \in DOMAIN t : s[i] = t[j]

LEMMA SubSeqPartOf ==
  ASSUME NEW S, NEW t \in Seq(S), NEW first \in 1..(Len(t) + 1)
  PROVE  SubSeq(t, first, Len(t)) \in Seq(S) /\ PartOf(SubSeq(t, first, Len(t)), t)
<1> DEFINE s == SubSeq(t, first, Len(t))
<1>1. s \in Seq(S) /\ \A i \in DOMAIN s : i + first - 1 \in DOMAIN t /\ s[i] = t[i + first - 1]
  OBVIOUS
<1> HIDE DEF s
<1>2. s \in Seq(S) /\ PartOf(s, t)
  BY <1>1 DEF PartOf
<1> QED BY <1>2 DEF s

LEMMA LastOfPart ==
  ASSUME NEW S, NEW t \in Seq(S), NEW n \in Nat
  PROVE  Pipeline!LastOf(t, n) \in Seq(S) /\ PartOf(Pipeline!LastOf(t, n), t)
<1>1. Len(t) \in Nat /\ (IF Len(t) > n THEN Len(t) - n + 1 ELSE 1) \in 1..(Len(t) + 1)
  OBVIOUS
<1> QED BY <1>1, SubSeqPartOf DEF Pipeline!LastOf

LEMMA PurgePart ==
  ASSUME NEW S, NEW t \in Seq(S)
  PROVE  Pipeline!PurgeExpired(t) \in Seq(S) /\ PartOf(Pipeline!PurgeExpired(t), t)
<1> DEFINE fresh == {i \in DOMAIN t : t[i].timestamp >= clock - RollingWindow}
<1>1. fresh \in SUBSET Nat /\ fresh \subseteq 1..Len(t) /\ Len(t) \in Nat
  OBVIOUS
<1>2. CASE fresh = {}
  <2>1. Pipeline!PurgeExpired(t) = <<>>
    BY <1>2 DEF Pipeline!PurgeExpired
  <2> QED BY <2>1 DEF PartOf
<1>3. CASE fresh # {}
  <2>1. Pipeline!Min(fresh) \in fresh
    <3> HIDE DEF fresh
    <3> QED BY <1>1, <1>3, NatLeast DEF Pipeline!Min
  <2>2. Pipeline!PurgeExpired(t) = SubSeq(t, Pipeline!Min(fresh), Len(t))
    BY <1>3 DEF Pipeline!PurgeExpired
  <2>3. Pipeline!Min(fresh) \in 1..(Len(t) + 1)
    BY <1>1, <2>1
  <2> HIDE DEF fresh
  <2> QED BY <2>2, <2>3, SubSeqPartOf
<1> QED BY <1>2, <1>3

LEMMA ScoredPart ==
  ASSUME NEW t \in Seq(ScoredEvent), NEW type \in EventType \cup {"agent_silence"},
         NEW sev \in {e.severity : e \in EventInput} \cup {"high"}, NEW delta \in Nat, clock \in Nat
  PROVE  /\ Pipeline!Scored(t, type, sev, delta) \in Seq(ScoredEvent)
         /\ PartOf(Pipeline!Scored(t, type, sev, delta),
                   Append(t, [event_type |-> type, severity |-> sev, score_delta |-> delta, timestamp |-> clock]))
<1> DEFINE e == [event_type |-> type, severity |-> sev, score_delta |-> delta, timestamp |-> clock]
<1>1. e \in ScoredEvent
  BY DEF ScoredEvent
<1> HIDE DEF e
<1>2. Append(t, e) \in Seq(ScoredEvent)
  BY <1>1
<1>3. Pipeline!Scored(t, type, sev, delta) = Pipeline!LastOf(Append(t, e), MaxEventsPerVm)
  BY DEF Pipeline!Scored, e
<1>4. /\ Pipeline!LastOf(Append(t, e), MaxEventsPerVm) \in Seq(ScoredEvent)
      /\ PartOf(Pipeline!LastOf(Append(t, e), MaxEventsPerVm), Append(t, e))
  BY <1>2, LastOfPart, DedupeAssumption
<1> QED BY <1>3, <1>4 DEF e

Queue == [alerts : Seq(AlertRecord), dedupe : [Pipeline!Key -> Int]]

(* Raising an alert keeps the queue in order, loses no alert, and leaves   *)
(* one that covers the event.                                              *)
LEMMA RaiseAlertKeeps ==
  ASSUME clock \in Nat, NEW q \in Queue, QueueOk(q, clock),
         NEW v \in Vm, NEW type \in EventType, NEW delta \in Nat
  PROVE  /\ Pipeline!RaiseAlert(q, v, type, delta) \in Queue
         /\ QueueOk(Pipeline!RaiseAlert(q, v, type, delta), clock)
         /\ Extends(Pipeline!RaiseAlert(q, v, type, delta).alerts, q.alerts)
         /\ delta >= Pipeline!ALERT_MIN_DELTA =>
              \E i \in DOMAIN Pipeline!RaiseAlert(q, v, type, delta).alerts :
                 /\ KeyOf(Pipeline!RaiseAlert(q, v, type, delta).alerts[i]) = <<v, type>>
                 /\ clock - Pipeline!RaiseAlert(q, v, type, delta).alerts[i].created_ts \in 0..(DedupeWindow - 1)
<1> DEFINE k == <<v, type>>
           new == [vm_id |-> v, event_type |-> type, created_ts |-> clock, status |-> "OPEN"]
           r == [alerts |-> Append(q.alerts, new), dedupe |-> [q.dedupe EXCEPT ![k] = clock]]
           raised == Pipeline!RaiseAlert(q, v, type, delta)
<1>1. /\ q.alerts \in Seq(AlertRecord) /\ q.dedupe \in [Pipeline!Key -> Int] /\ Len(q.alerts) \in Nat
      /\ DedupeWindow \in Nat /\ DedupeWindow # 0
  BY DedupeAssumption DEF Queue
<1>2. k \in Pipeline!Key /\ q.dedupe[k] \in Int
  BY <1>1 DEF Pipeline!Key
<1>3. \A i \in DOMAIN q.alerts : /\ q.alerts[i] \in AlertRecord /\ q.alerts[i].created_ts \in Nat
                                 /\ KeyOf(q.alerts[i]) \in Pipeline!Key
  <2>1. \A i \in DOMAIN q.alerts : q.alerts[i] \in AlertRecord
    BY <1>1
  <2> QED BY <2>1 DEF AlertRecord, KeyOf, Pipeline!Key
<1>4. CASE delta < Pipeline!ALERT_MIN_DELTA
  <2>1. raised = q
    BY <1>4 DEF Pipeline!RaiseAlert
  <2>2. ~(delta >= Pipeline!ALERT_MIN_DELTA)
    BY <1>4 DEF Pipeline!ALERT_MIN_DELTA
  <2> QED BY <2>1, <2>2 DEF Extends
<1>5. CASE delta >= Pipeline!ALERT_MIN_DELTA /\ Pipeline!IsRepeat(q.dedupe[k])
  <2>1. raised = q
    BY <1>5 DEF Pipeline!RaiseAlert
  <2>2. clock - q.dedupe[k] < DedupeWindow
    BY <1>5 DEF Pipeline!IsRepeat
  <2>3. q.dedupe[k] # Pipeline!Never
    BY <1>1, <2>2 DEF Pipeline!Never
  <2>4. PICK i \in DOMAIN q.alerts : KeyOf(q.alerts[i]) = k /\ q.alerts[i].created_ts = q.dedupe[k]
    BY <1>2, <2>3 DEF QueueOk
  <2>5. clock - q.alerts[i].created_ts \in 0..(DedupeWindow - 1)
    BY <1>1, <1>2, <2>2, <2>4 DEF QueueOk
  <2> QED BY <2>1, <2>4, <2>5 DEF Extends
<1>6. CASE delta >= Pipeline!ALERT_MIN_DELTA /\ ~Pipeline!IsRepeat(q.dedupe[k])
  <2>1. raised = r
    BY <1>6 DEF Pipeline!RaiseAlert, Pipeline!ALERT_MIN_DELTA
  <2>2. q.dedupe[k] <= clock - DedupeWindow
    BY <1>1, <1>2, <1>6 DEF Pipeline!IsRepeat
  <2>3. new \in AlertRecord /\ KeyOf(new) = k /\ new.created_ts = clock
    BY DEF AlertRecord, KeyOf
  <2>4. r.dedupe \in [Pipeline!Key -> Int] /\ \A l \in Pipeline!Key : r.dedupe[l] = IF l = k THEN clock ELSE q.dedupe[l]
    BY <1>1, <1>2
  <2> HIDE DEF new
  <2>5. /\ r.alerts \in Seq(AlertRecord) /\ DOMAIN r.alerts = 1..(Len(q.alerts) + 1)
        /\ DOMAIN q.alerts = 1..Len(q.alerts)
        /\ \A i \in DOMAIN q.alerts : r.alerts[i] = q.alerts[i]
        /\ r.alerts[Len(q.alerts) + 1] = new
    BY <1>1, <2>3
  <2>6. r \in Queue
    BY <2>4, <2>5 DEF Queue
  <2> HIDE DEF r
  <2>7. /\ \A i \in DOMAIN r.alerts : i \in DOMAIN q.alerts \/ i = Len(q.alerts) + 1
        /\ Len(q.alerts) + 1 \in DOMAIN r.alerts
        /\ Extends(r.alerts, q.alerts)
    BY <1>1, <2>5 DEF Extends
  <2>8. \A i \in DOMAIN r.alerts : r.alerts[i].created_ts <= r.dedupe[KeyOf(r.alerts[i])]
    <3> SUFFICES ASSUME NEW i \in DOMAIN r.alerts PROVE r.alerts[i].created_ts <= r.dedupe[KeyOf(r.alerts[i])]
      OBVIOUS
    <3>1. CASE i = Len(q.alerts) + 1
      BY <1>2, <2>3, <2>4, <2>5, <3>1
    <3>2. CASE i \in DOMAIN q.alerts
      <4>1. /\ r.alerts[i] = q.alerts[i] /\ q.alerts[i].created_ts <= q.dedupe[KeyOf(q.alerts[i])]
            /\ KeyOf(q.alerts[i]) \in Pipeline!Key
        BY <1>3, <2>5, <3>2 DEF QueueOk
      <4> DEFINE l == KeyOf(q.alerts[i])
      <4>2. r.dedupe[l] >= q.dedupe[l] /\ q.dedupe[l] \in Int /\ r.dedupe[l] \in Int
        <5>1. l \in Pipeline!Key
          BY <4>1
        <5> HIDE DEF l
        <5>2. q.dedupe[l] \in Int /\ r.dedupe[l] = IF l = k THEN clock ELSE q.dedupe[l]
          BY <1>1, <2>4, <5>1
        <5> QED BY <1>1, <2>2, <5>2
      <4> QED BY <1>3, <3>2, <4>1, <4>2
    <3> QED BY <2>7, <3>1, <3>2
  <2>9. \A l \in Pipeline!Key :
          /\ r.dedupe[l] <= clock
          /\ \/ r.dedupe[l] = Pipeline!Never
             \/ \E i \in DOMAIN r.alerts : KeyOf(r.alerts[i]) = l /\ r.alerts[i].created_ts = r.dedupe[l]
    <3> SUFFICES ASSUME NEW l \in Pipeline!Key
                 PROVE  /\ r.dedupe[l] <= clock
                        /\ \/ r.dedupe[l] = Pipeline!Never
                           \/ \E i \in DOMAIN r.alerts : KeyOf(r.alerts[i]) = l /\ r.alerts[i].created_ts = r.dedupe[l]
      OBVIOUS
    <3>1. CASE l = k
      BY <2>3, <2>4, <2>5, <2>7, <3>1
    <3>2. CASE l # k
      <4>1. r.dedupe[l] = q.dedupe[l]
        BY <2>4, <3>2
      <4>2. \A i \in DOMAIN q.alerts : i \in DOMAIN r.alerts /\ r.alerts[i] = q.alerts[i]
        BY <2>7 DEF Extends
      <4> QED BY <4>1, <4>2 DEF QueueOk
    <3> QED BY <3>1, <3>2
  <2>10. ASSUME NEW i \in DOMAIN r.alerts, NEW j \in DOMAIN r.alerts, i < j,
                KeyOf(r.alerts[i]) = KeyOf(r.alerts[j])
         PROVE  r.alerts[j].created_ts - r.alerts[i].created_ts >= DedupeWindow
    <3>1. i \in DOMAIN q.alerts /\ r.alerts[i] = q.alerts[i]
      BY <1>1, <2>5, <2>7, <2>10
    <3>2. CASE j \in DOMAIN q.alerts
      BY <2>5, <2>10, <3>1, <3>2 DEF QueueOk
    <3>3. CASE j = Len(q.alerts) + 1
      <4>1. r.alerts[j] = new /\ KeyOf(q.alerts[i]) = k
        BY <2>3, <2>5, <2>10, <3>1, <3>3
      <4>2. q.alerts[i].created_ts <= q.dedupe[k] /\ q.alerts[i].created_ts \in Nat
        BY <1>3, <3>1, <4>1 DEF QueueOk
      <4> QED BY <1>1, <1>2, <2>2, <2>3, <3>1, <4>1, <4>2
    <3> QED BY <2>7, <3>2, <3>3
  <2>11. QueueOk(r, clock)
    BY <2>8, <2>9, <2>10 DEF QueueOk
  <2>12. clock - r.alerts[Len(q.alerts) + 1].created_ts \in 0..(DedupeWindow - 1)
    BY <1>1, <2>3, <2>5
  <2> QED BY <2>1, <2>3, <2>5, <2>6, <2>7, <2>11, <2>12
<1>7. delta < Pipeline!ALERT_MIN_DELTA \/ delta >= Pipeline!ALERT_MIN_DELTA
  BY DEF Pipeline!ALERT_MIN_DELTA
<1> QED BY <1>4, <1>5, <1>6, <1>7

(* In the middle of a batch from v: the alerts from before it are there,   *)
(* and what the window has is covered.                                     *)
Sound(v, s) == /\ QueueOk(s.queue, clock) /\ Extends(s.queue.alerts, alerts)
               /\ \A i \in DOMAIN s.window : Covered(v, s.window[i], s.queue.alerts)
SoundState(v) == {s \in PipelineState : Sound(v, s)}

LEMMA AbsorbKeeps ==
  ASSUME clock \in Nat, NEW v \in Vm, NEW s \in SoundState(v), NEW ev \in EventInput
  PROVE  Pipeline!Absorb(v, s, ev) \in SoundState(v)
<1> DEFINE delta == Pipeline!ResolveDelta(ev)
           type == ev.event_type
           e == [event_type |-> type, severity |-> ev.severity, score_delta |-> delta, timestamp |-> clock]
           w == Pipeline!Scored(s.window, type, ev.severity, delta)
           q == Pipeline!RaiseAlert(s.queue, v, type, delta)
<1>1. CASE type = "heartbeat"
  BY <1>1 DEF Pipeline!Absorb
<1>2. CASE type # "heartbeat"
  <2>1. Pipeline!Absorb(v, s, ev) = [window |-> w, queue |-> q]
    BY <1>2 DEF Pipeline!Absorb
  <2>2. /\ delta \in Nat /\ type \in EventType /\ ev.severity \in {x.severity : x \in EventInput}
        /\ s.window \in Seq(ScoredEvent) /\ s.queue \in Queue /\ QueueOk(s.queue, clock)
    BY ResolveDeltaNat, EventAssumption DEF SoundState, Sound, PipelineState, Queue
  <2> HIDE DEF delta, type
  <2>3. /\ q \in Queue /\ QueueOk(q, clock) /\ Extends(q.alerts, s.queue.alerts)
        /\ delta >= Pipeline!ALERT_MIN_DELTA =>
              \E i \in DOMAIN q.alerts : KeyOf(q.alerts[i]) = <<v, type>>
                                         /\ clock - q.alerts[i].created_ts \in 0..(DedupeWindow - 1)
    BY <2>2, RaiseAlertKeeps
  <2>4. w \in Seq(ScoredEvent) /\ PartOf(w, Append(s.window, e))
    BY <2>2, ScoredPart
  <2> HIDE DEF w, q
  <2>5. Covered(v, e, q.alerts)
    BY <2>3 DEF Covered
  <2>6. \A i \in DOMAIN s.window : Covered(v, s.window[i], q.alerts)
    BY <2>3, CoveredLonger DEF SoundState, Sound
  <2> HIDE DEF e
  <2>7. \A j \in DOMAIN Append(s.window, e) : Covered(v, Append(s.window, e)[j], q.alerts)
    <3>1. \A j \in DOMAIN Append(s.window, e) :
            \/ j \in DOMAIN s.window /\ Append(s.window, e)[j] = s.window[j]
            \/ Append(s.window, e)[j] = e
      BY <2>2
    <3> QED BY <3>1, <2>5, <2>6
  <2>8. \A i \in DOMAIN w : Covered(v, w[i], q.alerts)
    BY <2>4, <2>7 DEF PartOf
  <2>9. Extends(q.alerts, alerts)
    BY <2>3 DEF Extends, SoundState, Sound
  <2>10. [window |-> w, queue |-> q] \in PipelineState
    BY <2>3, <2>4 DEF PipelineState, Queue
  <2> QED BY <2>1, <2>3, <2>8, <2>9, <2>10 DEF SoundState, Sound
<1> QED BY <1>1, <1>2

LEMMA AbsorbedKeeps ==
  ASSUME AlertInv, NEW v \in Vm, NEW b \in Seq(EventInput)
  PROVE  Pipeline!Absorbed(v, b) \in SoundState(v)
<1> DEFINE S == SoundState(v)
           before == [window |-> window[v], queue |-> [alerts |-> alerts, dedupe |-> dedupe]]
           n == Len(b)
           step == [i \in Nat |-> [s \in S |-> IF i \in 1..n THEN Pipeline!Absorb(v, s, b[i]) ELSE s]]
           Defines(f) == f = [i \in 0..n |-> IF i = 0 THEN before ELSE Pipeline!Absorb(v, f[i - 1], b[i])]
<1>1. n \in Nat /\ \A i \in 1..n : b[i] \in EventInput
  OBVIOUS
<1>2. before \in S
  <2>1. before \in PipelineState
    BY DEF AlertInv, PipelineState
  <2> QED BY <2>1 DEF AlertInv, SoundState, Sound, Extends
<1>3. step \in [Nat -> [S -> S]]
  BY <1>1, AbsorbKeeps DEF AlertInv
<1> HIDE DEF S, before
<1>4. PICK h : IsRecursive(h, n, S, before, step)
  <2> HIDE DEF step, n
  <2> QED BY <1>1, <1>2, <1>3, PrimRec
<1>5. h \in [0..n -> S] /\ h[0] = before /\ \A i \in 1..n : h[i] = step[i][h[i - 1]]
  BY <1>4 DEF IsRecursive
<1>6. Defines(h)
  <2>1. \A i \in 1..n : h[i] = Pipeline!Absorb(v, h[i - 1], b[i])
    <3> TAKE i \in 1..n
    <3>1. i \in Nat /\ i - 1 \in 0..n
      BY <1>1
    <3>2. h[i - 1] \in S
      BY <1>5, <3>1
    <3> QED BY <1>5, <3>1, <3>2
  <2>2. \A i \in 0..n : h[i] = IF i = 0 THEN before ELSE Pipeline!Absorb(v, h[i - 1], b[i])
    <3> HIDE DEF step
    <3> QED BY <1>1, <1>5, <2>1
  <2> HIDE DEF step
  <2> QED BY <1>5, <2>2
<1> DEFINE st == CHOOSE f : Defines(f)
<1>7. Defines(st)
  <2> HIDE DEF Defines
  <2> QED BY <1>6
<1>8. st[0] = before /\ \A i \in 1..n : st[i] = Pipeline!Absorb(v, st[i - 1], b[i])
  <2> HIDE DEF st
  <2> QED BY <1>1, <1>7
<1> HIDE DEF st
<1> DEFINE D == {i \in Nat : i \in 0..n => st[i] \in S}
<1>10. \A i \in D : i + 1 \in D
  <2> SUFFICES ASSUME NEW i \in D, i + 1 \in 0..n PROVE st[i + 1] \in S
    OBVIOUS
  <2>1. i \in Nat /\ i \in 0..n /\ i + 1 \in 1..n /\ (i + 1) - 1 = i
    BY <1>1
  <2>2. st[i] \in S
    BY <2>1
  <2>3. st[i + 1] = Pipeline!Absorb(v, st[i], b[i + 1])
    BY <1>8, <2>1
  <2>4. b[i + 1] \in EventInput
    BY <1>1, <2>1
  <2> QED BY <2>2, <2>3, <2>4, AbsorbKeeps DEF AlertInv, S
<1>11. D = Nat
  <2>1. D \in SUBSET Nat /\ 0 \in D
    BY <1>2, <1>8
  <2> HIDE DEF D
  <2> QED BY <1>10, <2>1, NatSetInduction
<1>12. st[n] \in S
  BY <1>1, <1>11
<1>13. Pipeline!Absorbed(v, b) = st[n]
  BY DEF Pipeline!Absorbed, st, before
<1> QED BY <1>12, <1>13 DEF S

(* The status of an alert is not part of what the queue promises.          *)
LEMMA SameAlerts ==
  ASSUME NEW al, NEW new, NEW d, NEW t, DOMAIN new = DOMAIN al,
         \A i \in DOMAIN al : KeyOf(new[i]) = KeyOf(al[i]) /\ new[i].created_ts = al[i].created_ts
  PROVE  /\ QueueOk([alerts |-> al, dedupe |-> d], t) => QueueOk([alerts |-> new, dedupe |-> d], t)
         /\ \A v, e : Covered(v, e, al) => Covered(v, e, new)
<1> DEFINE p == [alerts |-> al, dedupe |-> d]
           q == [alerts |-> new, dedupe |-> d]
<1>1. p.alerts = al /\ q.alerts = new /\ p.dedupe = d /\ q.dedupe = d
  OBVIOUS
<1> HIDE DEF p, q
<1>2. ASSUME QueueOk(p, t) PROVE QueueOk(q, t)
  <2>1. \A i \in DOMAIN new : new[i].created_ts <= d[KeyOf(new[i])]
    BY <1>1, <1>2 DEF QueueOk
  <2>2. \A k \in Pipeline!Key :
         /\ d[k] <= t
         /\ \/ d[k] = Pipeline!Never
            \/ \E i \in DOMAIN new : KeyOf(new[i]) = k /\ new[i].created_ts = d[k]
    BY <1>1, <1>2 DEF QueueOk
  <2>3. ASSUME NEW i \in DOMAIN new, NEW j \in DOMAIN new, i < j, KeyOf(new[i]) = KeyOf(new[j])
        PROVE  new[j].created_ts - new[i].created_ts >= DedupeWindow
    BY <1>1, <1>2, <2>3 DEF QueueOk
  <2> QED BY <1>1, <2>1, <2>2, <2>3 DEF QueueOk
<1>3. \A v, e : Covered(v, e, al) => Covered(v, e, new)
  BY DEF Covered
<1> QED BY <1>2, <1>3 DEF p, q

LEMMA AlertInvStep ==
  AlertInv /\ [Next]_partVars => AlertInv'
<1> SUFFICES ASSUME AlertInv, [Next]_partVars PROVE AlertInv'
  OBVIOUS
<1>0. /\ clock \in Nat /\ alerts \in Seq(AlertRecord) /\ dedupe \in [Pipeline!Key -> Int]
      /\ window \in [Vm -> Seq(ScoredEvent)]
      /\ QueueOk([alerts |-> alerts, dedupe |-> dedupe], clock)
      /\ \A v \in Vm : \A i \in DOMAIN window[v] : Covered(v, window[v][i], alerts)
  BY DEF AlertInv
<1>1. ASSUME NEW v \in Vm, NEW b \in Pipeline!Batches, Pipeline!ProcessBatch(v, b) PROVE AlertInv'
  <2> DEFINE read == Pipeline!Readable(b)
             after == Pipeline!Absorbed(v, read)
             kept == Pipeline!PurgeExpired(after.window)
  <2>1. b \in Seq(EventInput)
    <3>1. PICK n \in 1..BatchBound : b \in [1..n -> EventInput]
      BY DEF Pipeline!Batches
    <3>2. n \in Nat
      OBVIOUS
    <3> QED BY <3>1, <3>2
  <2>2. read \in Seq(EventInput)
    <3> DEFINE bad == {i \in DOMAIN b : b[i].reason = "malformed"}
               cut == IF bad = {} THEN Len(b) ELSE (CHOOSE i \in bad : \A j \in bad : i <= j) - 1
    <3>1. bad \in SUBSET Nat /\ bad \subseteq 1..Len(b) /\ Len(b) \in Nat
      BY <2>1
    <3>2. cut \in 0..Len(b)
      <4>1. CASE bad = {}
        BY <3>1, <4>1
      <4>2. CASE bad # {}
        <5> HIDE DEF bad
        <5> DEFINE c == CHOOSE i \in bad : \A j \in bad : i <= j
        <5>1. c \in bad
          BY <3>1, <4>2, NatLeast
        <5> HIDE DEF c
        <5>2. c \in 1..Len(b) /\ Len(b) \in Nat
          BY <3>1, <5>1
        <5>3. cut = c - 1
          BY <4>2 DEF c
        <5> QED BY <5>2, <5>3
      <4> QED BY <4>1, <4>2
    <3>3. read = SubSeq(b, 1, cut)
      BY DEF Pipeline!Readable
    <3> HIDE DEF cut
    <3> QED BY <2>1, <3>2, <3>3
  <2>3. after \in SoundState(v)
    BY <2>2, AbsorbedKeeps
  <2> HIDE DEF read
  <2>4. /\ alerts' = after.queue.alerts /\ dedupe' = after.queue.dedupe /\ clock' = clock
        /\ \/ window' = [window EXCEPT ![v] = kept]
           \/ window' = [window EXCEPT ![v] = after.window]
    BY <1>1 DEF Pipeline!ProcessBatch, read
  <2> HIDE DEF after
  <2>5. /\ after.window \in Seq(ScoredEvent) /\ after.queue \in Queue
        /\ QueueOk(after.queue, clock) /\ Extends(after.queue.alerts, alerts)
        /\ \A i \in DOMAIN after.window : Covered(v, after.window[i], after.queue.alerts)
    BY <2>3 DEF SoundState, Sound, PipelineState, Queue
  <2>6. kept \in Seq(ScoredEvent) /\ PartOf(kept, after.window)
    BY <2>5, PurgePart
  <2> HIDE DEF kept
  <2>7. PICK w \in Seq(ScoredEvent) : window' = [window EXCEPT ![v] = w] /\ PartOf(w, after.window)
    <3>1. PartOf(after.window, after.window)
      BY DEF PartOf
    <3> QED BY <2>4, <2>5, <2>6, <3>1
  <2>8. \A i \in DOMAIN w : Covered(v, w[i], alerts')
    BY <2>4, <2>5, <2>7 DEF PartOf
  <2>9. /\ window' \in [Vm -> Seq(ScoredEvent)]
        /\ \A u \in Vm : window'[u] = IF u = v THEN w ELSE window[u]
    BY <1>0, <2>7
  <2>10. \A u \in Vm : \A i \in DOMAIN window'[u] : Covered(u, window'[u][i], alerts')
    <3> SUFFICES ASSUME NEW u \in Vm, NEW i \in DOMAIN window'[u] PROVE Covered(u, window'[u][i], alerts')
      OBVIOUS
    <3>1. CASE u = v
      BY <2>8, <2>9, <3>1
    <3>2. CASE u # v
      <4>1. window'[u] = window[u]
        BY <2>9, <3>2
      <4>2. Covered(u, window[u][i], alerts)
        BY <1>0, <4>1
      <4>3. Extends(alerts', alerts)
        BY <2>4, <2>5
      <4> QED BY <4>1, <4>2, <4>3, CoveredLonger
    <3> QED BY <3>1, <3>2
  <2>11. /\ alerts' \in Seq(AlertRecord) /\ dedupe' \in [Pipeline!Key -> Int]
         /\ [alerts |-> alerts', dedupe |-> dedupe'] = after.queue
    BY <2>4, <2>5 DEF Queue
  <2> QED BY <1>0, <2>4, <2>5, <2>9, <2>10, <2>11 DEF AlertInv
<1>2. ASSUME NEW v \in Vm, Pipeline!WatchdogSweep(v) PROVE AlertInv'
  <2> DEFINE delta == Pipeline!SCORE_WEIGHTS.agent_silence
             e == [event_type |-> "agent_silence", severity |-> "high", score_delta |-> delta, timestamp |-> clock]
             scored == Pipeline!Scored(window[v], "agent_silence", "high", delta)
             w == Pipeline!PurgeExpired(scored)
  <2>1. /\ window' = [window EXCEPT ![v] = w]
        /\ UNCHANGED <<clock, alerts, dedupe>>
    BY <1>2 DEF Pipeline!WatchdogSweep
  <2>2. delta \in Nat /\ window[v] \in Seq(ScoredEvent)
    BY <1>0 DEF Pipeline!SCORE_WEIGHTS
  <2> HIDE DEF delta
  <2>3. scored \in Seq(ScoredEvent) /\ PartOf(scored, Append(window[v], e))
    BY <1>0, <2>2, ScoredPart
  <2> HIDE DEF scored
  <2>4. w \in Seq(ScoredEvent) /\ PartOf(w, scored)
    BY <2>3, PurgePart
  <2> HIDE DEF w
  <2>5. Covered(v, e, alerts)
    BY DEF Covered
  <2> HIDE DEF e
  <2>6. \A j \in DOMAIN Append(window[v], e) : Covered(v, Append(window[v], e)[j], alerts)
    <3>1. \A j \in DOMAIN Append(window[v], e) :
            \/ j \in DOMAIN window[v] /\ Append(window[v], e)[j] = window[v][j]
            \/ Append(window[v], e)[j] = e
      BY <2>2
    <3> QED BY <1>0, <3>1, <2>5
  <2>7. \A i \in DOMAIN w : Covered(v, w[i], alerts)
    BY <2>3, <2>4, <2>6 DEF PartOf
  <2>8. window' \in [Vm -> Seq(ScoredEvent)] /\ \A u \in Vm : window'[u] = IF u = v THEN w ELSE window[u]
    BY <1>0, <2>1, <2>4
  <2>9. \A u \in Vm : \A i \in DOMAIN window'[u] : Covered(u, window'[u][i], alerts')
    BY <1>0, <2>1, <2>7, <2>8
  <2> QED BY <1>0, <2>1, <2>8, <2>9 DEF AlertInv
<1>3. ASSUME Pipeline!TriageStep, UNCHANGED <<window, silent, decision>> PROVE AlertInv'
  <2>1. PICK i \in DOMAIN alerts, s \in TriageStatus \cup {"ACKNOWLEDGED"} :
          alerts' = [alerts EXCEPT ![i].status = s] /\ UNCHANGED <<clock, dedupe>>
    BY <1>3 DEF Pipeline!TriageStep, Pipeline!Assign, Pipeline!Triage
  <2>2. \A j \in DOMAIN alerts : alerts[j] \in AlertRecord
    BY <1>0
  <2>3. [alerts[i] EXCEPT !.status = s] \in AlertRecord
    BY <2>2 DEF AlertRecord
  <2>4. /\ DOMAIN alerts' = DOMAIN alerts
        /\ \A j \in DOMAIN alerts : alerts'[j] = IF j = i THEN [alerts[i] EXCEPT !.status = s] ELSE alerts[j]
    BY <2>1
  <2>5. alerts' \in Seq(AlertRecord)
    BY <1>0, <2>1, <2>3
  <2>6. \A j \in DOMAIN alerts : KeyOf(alerts'[j]) = KeyOf(alerts[j]) /\ alerts'[j].created_ts = alerts[j].created_ts
    BY <2>2, <2>4 DEF KeyOf, AlertRecord
  <2>7. QueueOk([alerts |-> alerts', dedupe |-> dedupe'], clock')
    <3>1. QueueOk([alerts |-> alerts', dedupe |-> dedupe], clock)
      BY <1>0, <2>4, <2>6, SameAlerts
    <3> QED BY <2>1, <3>1
  <2>8. \A v \in Vm : \A j \in DOMAIN window[v] : Covered(v, window[v][j], alerts')
    <3> SUFFICES ASSUME NEW v \in Vm, NEW j \in DOMAIN window[v] PROVE Covered(v, window[v][j], alerts')
      OBVIOUS
    <3>1. Covered(v, window[v][j], alerts)
      BY <1>0
    <3> QED BY <2>4, <2>6, <3>1, SameAlerts
  <2> QED BY <1>0, <1>3, <2>1, <2>5, <2>7, <2>8 DEF AlertInv
<1>4. CASE Pipeline!TimePasses
  <2>1. clock' = clock + 1 /\ UNCHANGED <<alerts, dedupe, window>>
    BY <1>4 DEF Pipeline!TimePasses
  <2>2. \A k \in Pipeline!Key : dedupe[k] \in Int
    BY <1>0
  <2>3. QueueOk([alerts |-> alerts', dedupe |-> dedupe'], clock')
    BY <1>0, <2>1, <2>2 DEF QueueOk
  <2> QED BY <1>0, <2>1, <2>3 DEF AlertInv
<1>5. CASE UNCHANGED <<clock, alerts, dedupe, window>>
  BY <1>0, <1>5 DEF AlertInv
<1>6. CASE PipelineStep
  BY <1>1, <1>2, <1>3, <1>4, <1>6 DEF PipelineStep, Pipeline!PipelineNext
<1> QED
  BY <1>5, <1>6 DEF Next, FileStep, ProcStep, HostStep, HyperStep, LibvirtStep, partVars, pipelineVars

LEMMA AlertInvInit == Init => AlertInv
<1> SUFFICES ASSUME Init PROVE AlertInv
  OBVIOUS
<1>1. /\ clock = 0 /\ alerts = <<>> /\ dedupe = [k \in Pipeline!Key |-> Pipeline!Never]
      /\ window = [v \in Vm |-> <<>>]
  BY DEF Init, Pipeline!PipelineInit, Pipeline!AlertInit
<1>2. Pipeline!Never \in Int /\ Pipeline!Never <= 0
  BY DedupeAssumption DEF Pipeline!Never
<1> QED BY <1>1, <1>2 DEF AlertInv, QueueOk

-----------------------------------------------------------------------------
\* The firewall of the host.

Backend == {"iptables", "nftables", "netsh", "pf", "null"}

(* The commands of a call, and those that must have had their effect for   *)
(* it to be what it was called for.                                        *)
IsolateSet ==
  CASE backend = "iptables" -> {<<"new">>, <<"append", "established">>, <<"append", "mgmt">>, <<"append", "drop">>,
                                <<"hook", "FORWARD">>, <<"hook", "OUTPUT">>}
    [] backend = "nftables" -> {<<"table">>, <<"chain">>, <<"append", "established">>, <<"append", "mgmt">>}
    [] backend = "netsh" -> {<<"add", "block_out">>, <<"add", "block_in">>, <<"add", "mgmt">>}
    [] backend = "pf" -> {<<"load">>}
    [] OTHER -> {<<"nothing">>}
IsolateNeeds ==
  CASE backend = "iptables" -> {<<"new">>, <<"append", "established">>, <<"append", "drop">>, <<"hook", "FORWARD">>}
    [] backend = "nftables" -> {<<"table">>, <<"chain">>}
    [] backend = "netsh" -> {<<"add", "block_out">>}
    [] OTHER -> {}
LiftSet ==
  CASE backend = "iptables" -> {<<"unhook", "OUTPUT">>, <<"unhook", "FORWARD">>, <<"flush">>, <<"remove">>}
    [] backend = "nftables" -> {<<"delete_table">>}
    [] backend = "netsh" -> {<<"delete", "block_out">>, <<"delete", "block_in">>, <<"delete", "mgmt">>}
    [] backend = "pf" -> {<<"flush">>}
    [] OTHER -> {<<"nothing">>}
LiftNeeds ==
  CASE backend = "iptables" -> {<<"flush">>}
    [] backend = "nftables" -> {<<"delete_table">>}
    [] backend = "netsh" -> {<<"delete", "block_out">>, <<"delete", "block_in">>}
    [] OTHER -> {}

Rule == {"established", "mgmt", "drop", "block_out", "block_in"}
Firewall == [exists : BOOLEAN, policy_drop : BOOLEAN, rules : Seq(Rule), named : SUBSET Rule,
             hooks : [Host!Hook -> Nat]]
HasRule(f, r) == \E i \in DOMAIN f.rules : f.rules[i] = r

(* What a needed command leaves behind in firewall f.                      *)
Effect(c, f) == /\ c \in {<<"new">>, <<"table">>} => f.exists
                /\ c = <<"append", "established">> => HasRule(f, "established")
                /\ c = <<"append", "drop">> => HasRule(f, "drop")
                /\ c = <<"hook", "FORWARD">> => f.hooks["FORWARD"] > 0
                /\ c = <<"chain">> => f.policy_drop
                /\ c = <<"add", "block_out">> => "block_out" \in f.named
                /\ c = <<"flush">> => f.rules = <<>>
                /\ c = <<"delete_table">> => ~f.policy_drop
                /\ c = <<"delete", "block_out">> => "block_out" \notin f.named
                /\ c = <<"delete", "block_in">> => "block_in" \notin f.named

Waits(c, s) == \E i \in DOMAIN s : s[i] = c

(* The chain comes first, and the established sessions before the drop.    *)
InOrder(s) == \A i, j \in DOMAIN s : i < j =>
                /\ s[j] \notin {<<"new">>, <<"table">>}
                /\ ~(s[i] = <<"append", "drop">> /\ s[j] = <<"append", "established">>)

HostTypes ==
  /\ backend \in Backend /\ dry_run \in BOOLEAN
  /\ fw \in Firewall
  /\ op \in [Caller -> {"none", "isolate", "lift"}]
  /\ DOMAIN todo = Caller
  /\ \A t \in Caller : /\ op[t] = "isolate" => todo[t] \in Seq(IsolateSet) /\ InOrder(todo[t])
                       /\ op[t] = "lift" => todo[t] \in Seq(LiftSet)
                       /\ op[t] # "none" => todo[t] # <<>>
  /\ contained \in BOOLEAN /\ disturbed \in BOOLEAN

(* A call that met no other is alone, and so is a lift that disturbed      *)
(* none.                                                                   *)
AloneInv ==
  \A t \in Caller : op[t] # "none" =>
    /\ last = "none"
    /\ t \notin overlapped \/ (op[t] = "lift" /\ ~disturbed) => \A r \in Caller \ {t} : op[r] = "none"

(* What a call has executed has had its effect, unless another call or a   *)
(* fault may have come between.                                            *)
EffectInv ==
  ~dry_run => \A t \in Caller :
    /\ op[t] = "isolate" /\ (t \notin overlapped \/ ~disturbed) =>
         \A c \in IsolateNeeds : Waits(c, todo[t]) \/ Effect(c, fw)
    /\ op[t] = "lift" /\ t \notin overlapped =>
         \A c \in LiftNeeds : Waits(c, todo[t]) \/ Effect(c, fw)

HostInv ==
  /\ HostTypes /\ AloneInv /\ EffectInv
  /\ fw.policy_drop => backend = "nftables"
  /\ dry_run => fw = Host!Clean
  /\ Host!ContainedAsTold /\ Host!SessionsSurvive

LEMMA Joined ==
  /\ \A a, b, c : <<a, b>> \o <<c>> = <<a, b, c>> /\ <<a, b>> \o <<>> = <<a, b>>
  /\ \A a, b, c, d : <<a, b, c>> \o <<d>> = <<a, b, c, d>> /\ <<a, b, c>> \o <<>> = <<a, b, c>>
  /\ \A a, b, d, e, f : <<a, b>> \o <<d, e, f>> = <<a, b, d, e, f>>
  /\ \A a, b, c, d, e, f : <<a, b, c>> \o <<d, e, f>> = <<a, b, c, d, e, f>>
<1>1. ASSUME NEW a, NEW b, NEW c PROVE <<a, b>> \o <<c>> = <<a, b, c>> /\ <<a, b>> \o <<>> = <<a, b>>
  <2> DEFINE s == <<a, b>> \o <<c>>
  <2>1. s \in Seq({a, b, c}) /\ Len(s) = 3 /\ s[1] = a /\ s[2] = b /\ s[3] = c
    OBVIOUS
  <2> HIDE DEF s
  <2>2. s = <<a, b, c>>
    BY <2>1
  <2> QED BY <2>2 DEF s
<1>2. ASSUME NEW a, NEW b, NEW c, NEW d
      PROVE  <<a, b, c>> \o <<d>> = <<a, b, c, d>> /\ <<a, b, c>> \o <<>> = <<a, b, c>>
  <2> DEFINE s == <<a, b, c>> \o <<d>>
  <2>1. s \in Seq({a, b, c, d}) /\ Len(s) = 4 /\ s[1] = a /\ s[2] = b /\ s[3] = c /\ s[4] = d
    OBVIOUS
  <2> HIDE DEF s
  <2>2. s = <<a, b, c, d>>
    BY <2>1
  <2> QED BY <2>2 DEF s
<1>3. ASSUME NEW a, NEW b, NEW d, NEW e, NEW f PROVE <<a, b>> \o <<d, e, f>> = <<a, b, d, e, f>>
  <2> DEFINE s == <<a, b>> \o <<d, e, f>>
  <2>1. s \in Seq({a, b, d, e, f}) /\ Len(s) = 5 /\ s[1] = a /\ s[2] = b /\ s[3] = d /\ s[4] = e /\ s[5] = f
    OBVIOUS
  <2> HIDE DEF s
  <2>2. s = <<a, b, d, e, f>>
    BY <2>1
  <2> QED BY <2>2 DEF s
<1>4. ASSUME NEW a, NEW b, NEW c, NEW d, NEW e, NEW f PROVE <<a, b, c>> \o <<d, e, f>> = <<a, b, c, d, e, f>>
  <2> DEFINE s == <<a, b, c>> \o <<d, e, f>>
  <2>1. /\ s \in Seq({a, b, c, d, e, f}) /\ Len(s) = 6
        /\ s[1] = a /\ s[2] = b /\ s[3] = c /\ s[4] = d /\ s[5] = e /\ s[6] = f
    OBVIOUS
  <2> HIDE DEF s
  <2>2. s = <<a, b, c, d, e, f>>
    BY <2>1
  <2> QED BY <2>2 DEF s
<1> QED BY <1>1, <1>2, <1>3, <1>4

(* The commands of a new call are all there, and in order.                 *)
LEMMA IsolateCmdsComplete ==
  ASSUME backend \in Backend, NEW mgmt \in BOOLEAN
  PROVE  LET s == Host!IsolateCmds(mgmt) IN
         /\ s \in Seq(IsolateSet) /\ s # <<>> /\ InOrder(s) /\ \A c \in IsolateNeeds : Waits(c, s)
<1> DEFINE s == Host!IsolateCmds(mgmt)
<1>1. CASE backend = "iptables" /\ mgmt
  <2> DEFINE begin == <<<<"new">>, <<"append", "established">>>>
             end == <<<<"append", "drop">>, <<"hook", "FORWARD">>, <<"hook", "OUTPUT">>>>
  <2>0. s = (begin \o <<<<"append", "mgmt">>>>) \o end
    BY <1>1 DEF Host!IsolateCmds, Host!If
  <2>1. s = <<<<"new">>, <<"append", "established">>, <<"append", "mgmt">>,
              <<"append", "drop">>, <<"hook", "FORWARD">>, <<"hook", "OUTPUT">>>>
    <3>1. begin \o <<<<"append", "mgmt">>>> = <<<<"new">>, <<"append", "established">>, <<"append", "mgmt">>>>
      BY Joined
    <3>2. s = <<<<"new">>, <<"append", "established">>, <<"append", "mgmt">>>> \o end
      BY <2>0, <3>1
    <3> QED BY <3>2, Joined
  <2> HIDE DEF s
  <2>2. s \in Seq(IsolateSet) /\ s # <<>>
    BY <1>1, <2>1 DEF IsolateSet
  <2>3. InOrder(s)
    BY <2>1 DEF InOrder
  <2>4. \A c \in IsolateNeeds : Waits(c, s)
    BY <1>1, <2>1 DEF IsolateNeeds, Waits
  <2> QED BY <2>2, <2>3, <2>4 DEF s
<1>2. CASE backend = "iptables" /\ ~mgmt
  <2>1. s = <<<<"new">>, <<"append", "established">>, <<"append", "drop">>, <<"hook", "FORWARD">>, <<"hook", "OUTPUT">>>>
    BY <1>2, Joined DEF Host!IsolateCmds, Host!If
  <2> HIDE DEF s
  <2>2. s \in Seq(IsolateSet) /\ s # <<>>
    BY <1>2, <2>1 DEF IsolateSet
  <2>3. InOrder(s)
    BY <2>1 DEF InOrder
  <2>4. \A c \in IsolateNeeds : Waits(c, s)
    BY <1>2, <2>1 DEF IsolateNeeds, Waits
  <2> QED BY <2>2, <2>3, <2>4 DEF s
<1>3. CASE backend = "nftables" /\ mgmt
  <2>1. s = <<<<"table">>, <<"chain">>, <<"append", "established">>, <<"append", "mgmt">>>>
    BY <1>3, Joined DEF Host!IsolateCmds, Host!If
  <2> HIDE DEF s
  <2>2. s \in Seq(IsolateSet) /\ s # <<>>
    BY <1>3, <2>1 DEF IsolateSet
  <2>3. InOrder(s)
    BY <2>1 DEF InOrder
  <2>4. \A c \in IsolateNeeds : Waits(c, s)
    BY <1>3, <2>1 DEF IsolateNeeds, Waits
  <2> QED BY <2>2, <2>3, <2>4 DEF s
<1>4. CASE backend = "nftables" /\ ~mgmt
  <2>1. s = <<<<"table">>, <<"chain">>, <<"append", "established">>>>
    BY <1>4, Joined DEF Host!IsolateCmds, Host!If
  <2> HIDE DEF s
  <2>2. s \in Seq(IsolateSet) /\ s # <<>>
    BY <1>4, <2>1 DEF IsolateSet
  <2>3. InOrder(s)
    BY <2>1 DEF InOrder
  <2>4. \A c \in IsolateNeeds : Waits(c, s)
    BY <1>4, <2>1 DEF IsolateNeeds, Waits
  <2> QED BY <2>2, <2>3, <2>4 DEF s
<1>5. CASE backend = "netsh" /\ mgmt
  <2>1. s = <<<<"add", "block_out">>, <<"add", "block_in">>, <<"add", "mgmt">>>>
    BY <1>5, Joined DEF Host!IsolateCmds, Host!If
  <2> HIDE DEF s
  <2>2. s \in Seq(IsolateSet) /\ s # <<>>
    BY <1>5, <2>1 DEF IsolateSet
  <2>3. InOrder(s)
    BY <2>1 DEF InOrder
  <2>4. \A c \in IsolateNeeds : Waits(c, s)
    BY <1>5, <2>1 DEF IsolateNeeds, Waits
  <2> QED BY <2>2, <2>3, <2>4 DEF s
<1>6. CASE backend = "netsh" /\ ~mgmt
  <2>1. s = <<<<"add", "block_out">>, <<"add", "block_in">>>>
    BY <1>6, Joined DEF Host!IsolateCmds, Host!If
  <2> HIDE DEF s
  <2>2. s \in Seq(IsolateSet) /\ s # <<>>
    BY <1>6, <2>1 DEF IsolateSet
  <2>3. InOrder(s)
    BY <2>1 DEF InOrder
  <2>4. \A c \in IsolateNeeds : Waits(c, s)
    BY <1>6, <2>1 DEF IsolateNeeds, Waits
  <2> QED BY <2>2, <2>3, <2>4 DEF s
<1>7. CASE backend = "pf"
  <2>1. s = <<<<"load">>>>
    BY <1>7, Joined DEF Host!IsolateCmds, Host!If
  <2> HIDE DEF s
  <2>2. s \in Seq(IsolateSet) /\ s # <<>>
    BY <1>7, <2>1 DEF IsolateSet
  <2>3. InOrder(s)
    BY <2>1 DEF InOrder
  <2>4. \A c \in IsolateNeeds : Waits(c, s)
    BY <1>7, <2>1 DEF IsolateNeeds, Waits
  <2> QED BY <2>2, <2>3, <2>4 DEF s
<1>8. CASE backend = "null"
  <2>1. s = <<<<"nothing">>>>
    BY <1>8, Joined DEF Host!IsolateCmds, Host!If
  <2> HIDE DEF s
  <2>2. s \in Seq(IsolateSet) /\ s # <<>>
    BY <1>8, <2>1 DEF IsolateSet
  <2>3. InOrder(s)
    BY <2>1 DEF InOrder
  <2>4. \A c \in IsolateNeeds : Waits(c, s)
    BY <1>8, <2>1 DEF IsolateNeeds, Waits
  <2> QED BY <2>2, <2>3, <2>4 DEF s
<1> QED BY <1>1, <1>2, <1>3, <1>4, <1>5, <1>6, <1>7, <1>8 DEF Backend

LEMMA LiftCmdsComplete ==
  ASSUME backend \in Backend
  PROVE  Host!LiftCmds \in Seq(LiftSet) /\ Host!LiftCmds # <<>> /\ \A c \in LiftNeeds : Waits(c, Host!LiftCmds)
<1> DEFINE s == Host!LiftCmds
<1>1. CASE backend = "iptables"
  <2>1. s = <<<<"unhook", "OUTPUT">>, <<"unhook", "FORWARD">>, <<"flush">>, <<"remove">>>>
    BY <1>1 DEF Host!LiftCmds
  <2> HIDE DEF s
  <2>2. s \in Seq(LiftSet) /\ s # <<>>
    BY <1>1, <2>1 DEF LiftSet
  <2>3. \A c \in LiftNeeds : Waits(c, s)
    BY <1>1, <2>1 DEF LiftNeeds, Waits
  <2> QED BY <2>2, <2>3 DEF s
<1>2. CASE backend = "nftables"
  <2>1. s = <<<<"delete_table">>>>
    BY <1>2 DEF Host!LiftCmds
  <2> HIDE DEF s
  <2>2. s \in Seq(LiftSet) /\ s # <<>>
    BY <1>2, <2>1 DEF LiftSet
  <2>3. \A c \in LiftNeeds : Waits(c, s)
    BY <1>2, <2>1 DEF LiftNeeds, Waits
  <2> QED BY <2>2, <2>3 DEF s
<1>3. CASE backend = "netsh"
  <2>1. s = <<<<"delete", "block_out">>, <<"delete", "block_in">>, <<"delete", "mgmt">>>>
    BY <1>3 DEF Host!LiftCmds
  <2> HIDE DEF s
  <2>2. s \in Seq(LiftSet) /\ s # <<>>
    BY <1>3, <2>1 DEF LiftSet
  <2>3. \A c \in LiftNeeds : Waits(c, s)
    BY <1>3, <2>1 DEF LiftNeeds, Waits
  <2> QED BY <2>2, <2>3 DEF s
<1>4. CASE backend = "pf"
  <2>1. s = <<<<"flush">>>>
    BY <1>4 DEF Host!LiftCmds
  <2> HIDE DEF s
  <2>2. s \in Seq(LiftSet) /\ s # <<>>
    BY <1>4, <2>1 DEF LiftSet
  <2>3. \A c \in LiftNeeds : Waits(c, s)
    BY <1>4, <2>1 DEF LiftNeeds, Waits
  <2> QED BY <2>2, <2>3 DEF s
<1>5. CASE backend = "null"
  <2>1. s = <<<<"nothing">>>>
    BY <1>5 DEF Host!LiftCmds
  <2> HIDE DEF s
  <2>2. s \in Seq(LiftSet) /\ s # <<>>
    BY <1>5, <2>1 DEF LiftSet
  <2>3. \A c \in LiftNeeds : Waits(c, s)
    BY <1>5, <2>1 DEF LiftNeeds, Waits
  <2> QED BY <2>2, <2>3 DEF s
<1> QED BY <1>1, <1>2, <1>3, <1>4, <1>5 DEF Backend

LEMMA HostInvInit == Init => HostInv
<1> SUFFICES ASSUME Init PROVE HostInv
  OBVIOUS
<1>1. backend \in Backend /\ dry_run \in BOOLEAN
  BY DEF Init, Host!HostInit, Host!BuildBackend, Backend
<1>2. fw = Host!Clean /\ fw \in Firewall
  BY DEF Init, Host!HostInit, Host!Clean, Firewall, Host!Hook
<1>3. /\ op \in [Caller -> {"none", "isolate", "lift"}] /\ \A t \in Caller : op[t] = "none"
      /\ DOMAIN todo = Caller /\ contained = FALSE /\ disturbed = FALSE /\ last = "none"
  BY DEF Init, Host!HostInit
<1>4. HostTypes
  BY <1>1, <1>2, <1>3 DEF HostTypes
<1>5. AloneInv /\ EffectInv
  BY <1>3 DEF AloneInv, EffectInv
<1>6. fw.rules = <<>> /\ ~fw.policy_drop
  BY <1>2 DEF Host!Clean
<1>7. Host!ContainedAsTold /\ Host!SessionsSurvive
  BY <1>3, <1>6 DEF Host!ContainedAsTold, Host!SessionsSurvive
<1> QED
  BY <1>2, <1>4, <1>5, <1>6, <1>7 DEF HostInv

LEMMA BeginKeeps ==
  ASSUME HostInv, NEW t \in Caller, NEW what \in {"isolate", "lift"}, NEW cmds, Host!Begin(t, what, cmds),
         cmds # <<>>,
         what = "isolate" => cmds \in Seq(IsolateSet) /\ InOrder(cmds) /\ \A c \in IsolateNeeds : Waits(c, cmds),
         what = "lift" => cmds \in Seq(LiftSet) /\ \A c \in LiftNeeds : Waits(c, cmds)
  PROVE  HostInv'
<1>0. /\ UNCHANGED <<backend, dry_run, fw, contained>> /\ last' = "none"
      /\ IsolateSet' = IsolateSet /\ IsolateNeeds' = IsolateNeeds /\ LiftSet' = LiftSet /\ LiftNeeds' = LiftNeeds
  BY DEF Host!Begin, IsolateSet, IsolateNeeds, LiftSet, LiftNeeds
<1>1. /\ op \in [Caller -> {"none", "isolate", "lift"}] /\ DOMAIN todo = Caller
      /\ op' \in [Caller -> {"none", "isolate", "lift"}] /\ DOMAIN todo' = Caller
      /\ \A r \in Caller : /\ op'[r] = (IF r = t THEN what ELSE op[r])
                           /\ todo'[r] = (IF r = t THEN cmds ELSE todo[r])
      /\ disturbed' \in BOOLEAN /\ (disturbed => disturbed')
  BY DEF Host!Begin, HostInv, HostTypes
<1>2. HostTypes'
  BY <1>0, <1>1 DEF HostInv, HostTypes
<1>3. AloneInv'
  <2>1. CASE \A r \in Caller : op[r] = "none"
    BY <2>1, <1>0, <1>1 DEF AloneInv
  <2>2. CASE ~ \A r \in Caller : op[r] = "none"
    <3>1. PICK r \in Caller : op[r] # "none" /\ r # t
      BY <2>2 DEF Host!Begin
    <3>2. r \in Host!Busy /\ Host!Busy # {}
      BY <3>1 DEF Host!Busy
    <3>3. overlapped' = overlapped \cup Host!Busy \cup {t}
      BY <3>2 DEF Host!Begin
    <3>4. \A u \in Caller : op'[u] # "none" => u \in overlapped'
      BY <3>3, <1>1 DEF Host!Busy
    <3>5. \A u \in Caller : op'[u] = "lift" => disturbed'
      <4>1. SUFFICES ASSUME NEW u \in Caller, op'[u] = "lift" PROVE "lift" \in {what} \cup {op[b] : b \in Host!Busy}
        BY <3>2 DEF Host!Begin
      <4> QED BY <4>1, <1>1 DEF Host!Busy
    <3> QED BY <3>4, <3>5, <1>0 DEF AloneInv
  <2> QED BY <2>1, <2>2
<1>4. EffectInv'
  <2>1. overlapped \ {t} \subseteq overlapped'
    BY DEF Host!Begin
  <2> QED BY <1>0, <1>1, <2>1 DEF HostInv, EffectInv
<1>5. Host!ContainedAsTold' /\ Host!SessionsSurvive'
  BY <1>0, <1>1 DEF HostInv, Host!ContainedAsTold, Host!SessionsSurvive
<1> QED
  BY <1>0, <1>2, <1>3, <1>4, <1>5 DEF HostInv, Host!Clean

(* What a command of an isolation does to the firewall, and one of a lift. *)
LEMMA IsolateApplies ==
  ASSUME backend \in Backend, fw \in Firewall, NEW c \in IsolateSet, NEW f, f = Host!Apply(c)
  PROVE  /\ f \in Firewall
         /\ (fw.exists => f.exists) /\ (fw.policy_drop => f.policy_drop) /\ fw.named \subseteq f.named
         /\ \A h \in Host!Hook : f.hooks[h] >= fw.hooks[h]
         /\ f.rules = IF c[1] = "append" /\ fw.exists THEN Append(fw.rules, c[2])
                      ELSE IF c[1] = "load" THEN <<>> ELSE fw.rules
         /\ f.policy_drop => fw.policy_drop \/ backend = "nftables"
         /\ c \in {<<"new">>, <<"table">>} => f.exists
         /\ c = <<"hook", "FORWARD">> /\ fw.exists => f.hooks["FORWARD"] > 0
         /\ c = <<"chain">> /\ fw.exists => f.policy_drop
         /\ c[1] = "add" => c[2] \in f.named
<1>1. fw.rules \in Seq(Rule) /\ fw.hooks \in [Host!Hook -> Nat] /\ fw.named \in SUBSET Rule
  BY DEF Firewall
<1>2. CASE c \in {<<"new">>, <<"table">>}
  <2>1. f = [fw EXCEPT !.exists = TRUE]
    BY <1>2 DEF Host!Apply
  <2>2. f \in Firewall /\ f.exists
    BY <2>1 DEF Firewall
  <2>3. /\ f.policy_drop = fw.policy_drop /\ f.named = fw.named
        /\ f.hooks = fw.hooks /\ f.rules = fw.rules
    BY <2>1 DEF Firewall
  <2> QED BY <1>1, <1>2, <2>2, <2>3
<1>3. CASE c = <<"chain">>
  <2>1. f = IF fw.exists THEN [fw EXCEPT !.policy_drop = TRUE] ELSE fw
    BY <1>3 DEF Host!Apply
  <2>2. backend = "nftables"
    BY <1>3 DEF IsolateSet
  <2>3. f \in Firewall
    BY <1>1, <2>1, <2>2 DEF Firewall
  <2>4. /\ f.exists = fw.exists /\ f.named = fw.named /\ f.hooks = fw.hooks /\ f.rules = fw.rules
        /\ f.policy_drop = IF fw.exists THEN TRUE ELSE fw.policy_drop
    BY <1>1, <2>1, <2>2 DEF Firewall
  <2>5. c[1] = "chain" /\ c # <<"new">> /\ c # <<"table">> /\ c # <<"hook", "FORWARD">>
    BY <1>3
  <2>6. \A h \in Host!Hook : f.hooks[h] >= fw.hooks[h]
    BY <1>1, <2>4
  <2>7. (fw.policy_drop => f.policy_drop) /\ (fw.exists => f.policy_drop)
    BY <2>4
  <2> QED BY <2>2, <2>3, <2>4, <2>5, <2>6, <2>7
<1>4. CASE c[1] = "append"
  <2>1. f = IF fw.exists THEN [fw EXCEPT !.rules = Append(fw.rules, c[2])] ELSE fw
    BY <1>4 DEF Host!Apply
  <2>2. c \in {<<"append", "established">>, <<"append", "mgmt">>, <<"append", "drop">>}
    BY <1>4 DEF IsolateSet
  <2>3. f \in Firewall
    <3>1. c[2] \in Rule
      BY <2>2 DEF Rule
    <3>2. Append(fw.rules, c[2]) \in Seq(Rule)
      BY <1>1, <3>1
    <3> QED BY <2>1, <3>2 DEF Firewall
  <2>4. /\ f.exists = fw.exists /\ f.named = fw.named /\ f.hooks = fw.hooks /\ f.policy_drop = fw.policy_drop
        /\ f.rules = IF fw.exists THEN Append(fw.rules, c[2]) ELSE fw.rules
    BY <1>1, <2>1, <2>2 DEF Firewall
  <2> QED BY <1>1, <1>4, <2>2, <2>3, <2>4
<1>5. CASE c[1] = "hook"
  <2>1. f = IF fw.exists THEN [fw EXCEPT !.hooks[c[2]] = fw.hooks[c[2]] + 1] ELSE fw
    BY <1>5 DEF Host!Apply
  <2>2. c \in {<<"hook", "FORWARD">>, <<"hook", "OUTPUT">>}
    BY <1>5 DEF IsolateSet
  <2>3. f \in Firewall
    BY <1>1, <2>1, <2>2 DEF Firewall, Host!Hook
  <2>4. /\ f.exists = fw.exists /\ f.named = fw.named /\ f.rules = fw.rules /\ f.policy_drop = fw.policy_drop
        /\ \A h \in Host!Hook : f.hooks[h] = IF fw.exists /\ h = c[2] THEN fw.hooks[h] + 1 ELSE fw.hooks[h]
    BY <1>1, <2>1, <2>2 DEF Firewall
  <2>5. \A h \in Host!Hook : f.hooks[h] >= fw.hooks[h] /\ (fw.exists /\ h = c[2] => f.hooks[h] > 0)
    BY <1>1, <2>4
  <2>6. "FORWARD" \in Host!Hook
    BY DEF Host!Hook
  <2> QED BY <1>1, <1>5, <2>2, <2>3, <2>4, <2>5, <2>6
<1>6. CASE c[1] = "add"
  <2>1. f = [fw EXCEPT !.named = fw.named \cup {c[2]}]
    BY <1>6 DEF Host!Apply
  <2>2. c \in {<<"add", "block_out">>, <<"add", "block_in">>, <<"add", "mgmt">>}
    BY <1>6 DEF IsolateSet
  <2>3. f \in Firewall
    <3>1. c[2] \in Rule
      BY <2>2 DEF Rule
    <3>2. fw.named \cup {c[2]} \in SUBSET Rule
      BY <1>1, <3>1
    <3> QED BY <2>1, <3>2 DEF Firewall
  <2>4. /\ f.exists = fw.exists /\ f.hooks = fw.hooks /\ f.rules = fw.rules /\ f.policy_drop = fw.policy_drop
        /\ f.named = fw.named \cup {c[2]}
    BY <1>1, <2>1, <2>2 DEF Firewall
  <2> QED BY <1>1, <1>6, <2>2, <2>3, <2>4
<1>7. CASE c = <<"load">>
  <2>1. f = [fw EXCEPT !.rules = <<>>]
    BY <1>7 DEF Host!Apply
  <2>2. f \in Firewall
    <3>1. <<>> \in Seq(Rule)
      OBVIOUS
    <3> QED BY <2>1, <3>1 DEF Firewall
  <2>3. /\ f.exists = fw.exists /\ f.named = fw.named /\ f.hooks = fw.hooks /\ f.policy_drop = fw.policy_drop
        /\ f.rules = <<>>
    BY <1>1, <2>1 DEF Firewall
  <2> QED BY <1>1, <1>7, <2>2, <2>3
<1>8. CASE c = <<"nothing">>
  <2>1. f = fw
    BY <1>8 DEF Host!Apply
  <2> QED BY <1>1, <1>8, <2>1 DEF Firewall
<1> QED BY <1>2, <1>3, <1>4, <1>5, <1>6, <1>7, <1>8 DEF IsolateSet

LEMMA LiftApplies ==
  ASSUME backend \in Backend, fw \in Firewall, NEW c \in LiftSet, NEW f, f = Host!Apply(c)
  PROVE  /\ f \in Firewall
         /\ f.named \subseteq fw.named
         /\ f.rules \in {fw.rules, <<>>}
         /\ f.policy_drop => fw.policy_drop
         /\ c = <<"flush">> => f.rules = <<>>
         /\ c = <<"delete_table">> => ~f.policy_drop
         /\ c[1] = "delete" => c[2] \notin f.named
<1>1. fw.rules \in Seq(Rule) /\ fw.hooks \in [Host!Hook -> Nat] /\ fw.named \in SUBSET Rule
  BY DEF Firewall
<1>2. CASE c[1] = "unhook"
  <2>1. f = IF fw.hooks[c[2]] > 0 THEN [fw EXCEPT !.hooks[c[2]] = fw.hooks[c[2]] - 1] ELSE fw
    BY <1>2 DEF Host!Apply
  <2>2. c \in {<<"unhook", "FORWARD">>, <<"unhook", "OUTPUT">>}
    BY <1>2 DEF LiftSet
  <2>3. f \in Firewall
    BY <1>1, <2>1, <2>2 DEF Firewall, Host!Hook
  <2>4. f.named = fw.named /\ f.rules = fw.rules /\ f.policy_drop = fw.policy_drop
    BY <2>1 DEF Firewall
  <2> QED BY <1>1, <1>2, <2>2, <2>3, <2>4
<1>3. CASE c = <<"flush">>
  <2>1. f = [fw EXCEPT !.rules = <<>>]
    BY <1>3 DEF Host!Apply
  <2>2. f \in Firewall
    <3>1. <<>> \in Seq(Rule)
      OBVIOUS
    <3> QED BY <2>1, <3>1 DEF Firewall
  <2>3. /\ f.named = fw.named /\ f.policy_drop = fw.policy_drop
        /\ f.rules = <<>>
    BY <1>1, <2>1 DEF Firewall
  <2> QED BY <1>1, <1>3, <2>2, <2>3
<1>4. CASE c = <<"remove">>
  <2>1. f \in {[fw EXCEPT !.exists = FALSE], fw}
    BY <1>4 DEF Host!Apply
  <2> QED BY <1>1, <1>4, <2>1 DEF Firewall
<1>5. CASE c = <<"delete_table">>
  <2>1. f = Host!Clean
    BY <1>5 DEF Host!Apply
  <2>2. f \in Firewall
    BY <1>1, <2>1 DEF Firewall, Host!Clean, Host!Hook
  <2>3. /\ f.named = {} /\ ~f.policy_drop /\ f.rules = <<>>
    BY <2>1 DEF Host!Clean
  <2> QED BY <1>1, <1>5, <2>2, <2>3
<1>6. CASE c[1] = "delete"
  <2>1. f = [fw EXCEPT !.named = fw.named \ {c[2]}]
    BY <1>6 DEF Host!Apply
  <2> QED BY <1>1, <1>6, <2>1 DEF Firewall
<1>7. CASE c = <<"nothing">>
  <2>1. f = fw
    BY <1>7 DEF Host!Apply
  <2> QED BY <1>1, <1>7, <2>1 DEF Firewall
<1> QED BY <1>2, <1>3, <1>4, <1>5, <1>6, <1>7 DEF LiftSet

LEMMA LastIsAppended ==
  ASSUME NEW S, NEW q \in Seq(S), NEW e \in S
  PROVE  Len(q) + 1 \in DOMAIN Append(q, e) /\ Append(q, e)[Len(q) + 1] = e
OBVIOUS

(* A command leaves the effects of its call's other commands in place, and *)
(* has its own.                                                            *)
LEMMA IsolateEffects ==
  ASSUME backend \in Backend, fw \in Firewall, NEW c \in IsolateSet, NEW f, f = Host!Apply(c),
         IsolateNeeds # {} => fw.exists \/ c \in {<<"new">>, <<"table">>} \/ backend = "netsh"
  PROVE  \A n \in IsolateNeeds : n = c \/ Effect(n, fw) => Effect(n, f)
<1> SUFFICES ASSUME NEW n \in IsolateNeeds, n = c \/ Effect(n, fw) PROVE Effect(n, f)
  OBVIOUS
<1>1. /\ (fw.exists => f.exists) /\ (fw.policy_drop => f.policy_drop) /\ fw.named \subseteq f.named
      /\ \A h \in Host!Hook : f.hooks[h] >= fw.hooks[h] /\ f.hooks[h] \in Nat /\ fw.hooks[h] \in Nat
      /\ f.rules = IF c[1] = "append" /\ fw.exists THEN Append(fw.rules, c[2])
                   ELSE IF c[1] = "load" THEN <<>> ELSE fw.rules
      /\ c \in {<<"new">>, <<"table">>} => f.exists
      /\ c = <<"hook", "FORWARD">> /\ fw.exists => f.hooks["FORWARD"] > 0
      /\ c = <<"chain">> /\ fw.exists => f.policy_drop
      /\ c[1] = "add" => c[2] \in f.named
      /\ fw.rules \in Seq(Rule)
  BY IsolateApplies DEF Firewall
<1>2. CASE n \in {<<"new">>, <<"table">>}
  BY <1>1, <1>2 DEF Effect
<1>3. CASE n \in {<<"append", "established">>, <<"append", "drop">>}
  <2>1. backend = "iptables" /\ n[1] = "append"
    BY <1>3 DEF IsolateNeeds
  <2>2. c[1] # "load"
    BY <2>1 DEF IsolateSet
  <2>3. \A r : HasRule(fw, r) => HasRule(f, r)
    <3>1. f.rules = fw.rules \/ f.rules = Append(fw.rules, c[2])
      BY <1>1, <2>2
    <3> QED BY <1>1, <3>1 DEF HasRule
  <2>4. CASE n = c
    <3>1. fw.exists
      BY <1>3, <2>1, <2>4
    <3>2. f.rules = Append(fw.rules, n[2])
      BY <1>1, <2>1, <2>4, <3>1
    <3>3. n[2] \in Rule
      BY <1>3 DEF Rule
    <3>4. fw.rules \in Seq(Rule)
      BY <1>1
    <3>5. \E i \in DOMAIN Append(fw.rules, n[2]) : Append(fw.rules, n[2])[i] = n[2]
      BY <3>3, <3>4, LastIsAppended
    <3>6. HasRule(f, n[2])
      BY <3>2, <3>5 DEF HasRule
    <3> QED BY <1>3, <3>6 DEF Effect
  <2>5. CASE Effect(n, fw)
    BY <1>3, <2>3, <2>5 DEF Effect
  <2> QED BY <2>4, <2>5
<1>4. CASE n = <<"hook", "FORWARD">>
  <2>1. backend = "iptables" /\ "FORWARD" \in Host!Hook
    BY <1>4 DEF IsolateNeeds, Host!Hook
  <2>2. CASE n = c
    <3>1. fw.exists
      BY <1>4, <2>1, <2>2
    <3> QED BY <1>1, <1>4, <2>2, <3>1 DEF Effect
  <2>3. CASE Effect(n, fw)
    <3>1. fw.hooks["FORWARD"] > 0
      BY <1>4, <2>3 DEF Effect
    <3>2. f.hooks["FORWARD"] > 0
      BY <1>1, <2>1, <3>1
    <3> QED BY <1>4, <3>2 DEF Effect
  <2> QED BY <2>2, <2>3
<1>5. CASE n = <<"chain">>
  <2>1. backend = "nftables"
    BY <1>5 DEF IsolateNeeds
  <2> QED BY <1>1, <1>5, <2>1 DEF Effect
<1>6. CASE n = <<"add", "block_out">>
  BY <1>1, <1>6 DEF Effect
<1> QED BY <1>2, <1>3, <1>4, <1>5, <1>6 DEF IsolateNeeds, Backend

LEMMA LiftEffects ==
  ASSUME backend \in Backend, fw \in Firewall, NEW c \in LiftSet, NEW f, f = Host!Apply(c)
  PROVE  \A n \in LiftNeeds : n = c \/ Effect(n, fw) => Effect(n, f)
<1> SUFFICES ASSUME NEW n \in LiftNeeds, n = c \/ Effect(n, fw) PROVE Effect(n, f)
  OBVIOUS
<1>1. /\ f.named \subseteq fw.named /\ f.rules \in {fw.rules, <<>>} /\ (f.policy_drop => fw.policy_drop)
      /\ c = <<"flush">> => f.rules = <<>>
      /\ c = <<"delete_table">> => ~f.policy_drop
      /\ c[1] = "delete" => c[2] \notin f.named
  BY LiftApplies
<1>2. n \in {<<"flush">>, <<"delete_table">>, <<"delete", "block_out">>, <<"delete", "block_in">>}
  BY DEF LiftNeeds, Backend
<1>3. CASE n = <<"flush">>
  BY <1>1, <1>3 DEF Effect
<1>4. CASE n = <<"delete_table">>
  BY <1>1, <1>4 DEF Effect
<1>5. CASE n = <<"delete", "block_out">>
  BY <1>1, <1>5 DEF Effect
<1>6. CASE n = <<"delete", "block_in">>
  BY <1>1, <1>6 DEF Effect
<1> QED BY <1>2, <1>3, <1>4, <1>5, <1>6

(* The commands left of a call when its first one has been run.            *)
LEMMA CommandsLeft ==
  ASSUME NEW S, NEW s \in Seq(S), s # <<>>
  PROVE  /\ Head(s) \in S /\ Tail(s) \in Seq(S)
         /\ (Len(s) = 1) <=> (Tail(s) = <<>>)
         /\ \A n : Waits(n, s) => n = Head(s) \/ Waits(n, Tail(s))
         /\ InOrder(s) => /\ InOrder(Tail(s))
                          /\ \A n \in {<<"new">>, <<"table">>} : Waits(n, s) => n = Head(s)
                          /\ Head(s) = <<"append", "drop">> => ~Waits(<<"append", "established">>, s)
<1>1. /\ Len(s) \in Nat \ {0} /\ DOMAIN s = 1..Len(s) /\ Head(s) = s[1] /\ s[1] \in S
      /\ Tail(s) \in Seq(S) /\ Len(Tail(s)) = Len(s) - 1 /\ DOMAIN Tail(s) = 1..(Len(s) - 1)
      /\ \A i \in 1..(Len(s) - 1) : Tail(s)[i] = s[i + 1]
  OBVIOUS
<1>2. \A n : Waits(n, s) => n = Head(s) \/ Waits(n, Tail(s))
  <2> SUFFICES ASSUME NEW n, NEW i \in DOMAIN s, s[i] = n, n # Head(s) PROVE Waits(n, Tail(s))
    BY DEF Waits
  <2>1. i - 1 \in DOMAIN Tail(s) /\ Tail(s)[i - 1] = n
    BY <1>1
  <2> QED BY <2>1 DEF Waits
<1>3. ASSUME InOrder(s)
      PROVE  /\ InOrder(Tail(s))
             /\ \A n \in {<<"new">>, <<"table">>} : Waits(n, s) => n = Head(s)
             /\ Head(s) = <<"append", "drop">> => ~Waits(<<"append", "established">>, s)
  <2>1. InOrder(Tail(s))
    <3> SUFFICES ASSUME NEW i \in DOMAIN Tail(s), NEW j \in DOMAIN Tail(s), i < j
                 PROVE  /\ Tail(s)[j] \notin {<<"new">>, <<"table">>}
                        /\ ~(Tail(s)[i] = <<"append", "drop">> /\ Tail(s)[j] = <<"append", "established">>)
      BY DEF InOrder
    <3>1. i + 1 \in DOMAIN s /\ j + 1 \in DOMAIN s /\ i + 1 < j + 1 /\ Tail(s)[i] = s[i + 1] /\ Tail(s)[j] = s[j + 1]
      BY <1>1
    <3> QED BY <1>3, <3>1 DEF InOrder
  <2>2. \A i \in DOMAIN s : i = 1 \/ (1 \in DOMAIN s /\ 1 < i)
    BY <1>1
  <2>3. \A n \in {<<"new">>, <<"table">>} : Waits(n, s) => n = Head(s)
    BY <1>1, <1>3, <2>2 DEF InOrder, Waits
  <2>4. Head(s) = <<"append", "drop">> => ~Waits(<<"append", "established">>, s)
    BY <1>1, <1>3, <2>2 DEF InOrder, Waits
  <2> QED BY <2>1, <2>3, <2>4
<1>4. Len(s) = 1 <=> Tail(s) = <<>>
  <2>1. Tail(s) = <<>> => Len(Tail(s)) = 0
    BY EmptySeq, Zenon
  <2>2. Len(Tail(s)) = 0 => Tail(s) = <<>>
    BY <1>1, EmptySeq
  <2> QED BY <1>1, <2>1, <2>2
<1> QED BY <1>1, <1>2, <1>3, <1>4

LEMMA RunCmdKeeps ==
  ASSUME HostInv, NEW t \in Caller, NEW fails \in BOOLEAN, Host!RunCmd(t, fails)
  PROVE  HostInv'
<1> DEFINE s == todo[t]
           c == Head(s)
           ends == Len(s) = 1
           alone == ends /\ t \notin overlapped /\ ~fails
<1>0. /\ UNCHANGED <<backend, dry_run>>
      /\ IsolateSet' = IsolateSet /\ IsolateNeeds' = IsolateNeeds /\ LiftSet' = LiftSet /\ LiftNeeds' = LiftNeeds
      /\ backend \in Backend /\ fw \in Firewall
      /\ op[t] # "none" /\ op[t] \in {"isolate", "lift"} /\ s # <<>> /\ last = "none"
  BY DEF Host!RunCmd, IsolateSet, IsolateNeeds, LiftSet, LiftNeeds, HostInv, HostTypes, AloneInv
<1>1. /\ fw' = IF dry_run \/ fails THEN fw ELSE Host!Apply(c)
      /\ contained' = IF ends THEN op[t] = "isolate" ELSE contained
      /\ overlapped' = IF fails THEN overlapped \cup {t} ELSE overlapped
      /\ disturbed' = (fails \/ (disturbed /\ ~(alone /\ op[t] = "lift")))
      /\ last' = IF alone THEN op[t] ELSE "none"
  BY <1>0 DEF Host!RunCmd
<1>2. /\ op' \in [Caller -> {"none", "isolate", "lift"}] /\ DOMAIN todo' = Caller
      /\ \A r \in Caller : /\ op'[r] = (IF ends /\ r = t THEN "none" ELSE op[r])
                           /\ todo'[r] = (IF r = t THEN Tail(s) ELSE todo[r])
  BY DEF Host!RunCmd, HostInv, HostTypes
<1>3. /\ op[t] = "isolate" => c \in IsolateSet /\ Tail(s) \in Seq(IsolateSet) /\ InOrder(s) /\ InOrder(Tail(s))
      /\ op[t] = "lift" => c \in LiftSet /\ Tail(s) \in Seq(LiftSet)
      /\ ends <=> Tail(s) = <<>>
      /\ \A n : Waits(n, s) => n = c \/ Waits(n, Tail(s))
      /\ op[t] = "isolate" => /\ \A n \in {<<"new">>, <<"table">>} : Waits(n, s) => n = c
                              /\ c = <<"append", "drop">> => ~Waits(<<"append", "established">>, s)
  <2>1. CASE op[t] = "isolate"
    <3>1. s \in Seq(IsolateSet) /\ InOrder(s)
      BY <2>1 DEF HostInv, HostTypes
    <3> HIDE DEF s
    <3> QED BY <1>0, <2>1, <3>1, CommandsLeft
  <2>2. CASE op[t] = "lift"
    <3>1. s \in Seq(LiftSet)
      BY <2>2 DEF HostInv, HostTypes
    <3> HIDE DEF s
    <3> QED BY <1>0, <2>2, <3>1, CommandsLeft
  <2> QED BY <1>0, <2>1, <2>2
<1> HIDE DEF s, c, ends
<1>4. fw' \in Firewall
  BY <1>0, <1>1, <1>3, IsolateApplies, LiftApplies
<1>5. HostTypes'
  <2>1. \A r \in Caller : /\ op'[r] = "isolate" => todo'[r] \in Seq(IsolateSet) /\ InOrder(todo'[r])
                          /\ op'[r] = "lift" => todo'[r] \in Seq(LiftSet)
                          /\ op'[r] # "none" => todo'[r] # <<>>
    BY <1>0, <1>2, <1>3 DEF HostInv, HostTypes
  <2>2. dry_run \in BOOLEAN /\ contained' \in BOOLEAN /\ disturbed' \in BOOLEAN
    BY <1>0, <1>1 DEF HostInv, HostTypes
  <2> QED BY <1>0, <1>2, <1>4, <2>1, <2>2 DEF HostTypes
<1>6. ~disturbed' => ~fails /\ (~disturbed \/ (alone /\ op[t] = "lift"))
  BY <1>1
<1>7. alone => \A r \in Caller : op'[r] = "none"
  BY <1>0, <1>2 DEF HostInv, AloneInv
<1>8. AloneInv'
  <2> SUFFICES ASSUME NEW r \in Caller, op'[r] # "none"
               PROVE  /\ last' = "none"
                      /\ r \notin overlapped' \/ (op'[r] = "lift" /\ ~disturbed') =>
                           \A u \in Caller \ {r} : op'[u] = "none"
    BY DEF AloneInv
  <2>1. ~alone /\ op[r] = op'[r]
    BY <1>2, <1>7
  <2>2. r \notin overlapped' => r \notin overlapped
    BY <1>1
  <2>3. ~disturbed' => ~disturbed
    BY <1>6, <2>1
  <2> QED BY <1>1, <1>2, <2>1, <2>2, <2>3 DEF HostInv, AloneInv

  (* While t isolates, or lifts, and nothing has come between.               *)
<1>9. ASSUME ~dry_run, ~fails, op[t] = "isolate", t \notin overlapped \/ ~disturbed
      PROVE  \A n \in IsolateNeeds : Waits(n, Tail(s)) \/ Effect(n, fw')
  <2>1. \A n \in IsolateNeeds : Waits(n, s) \/ Effect(n, fw)
    BY <1>9 DEF HostInv, EffectInv, s
  <2>2. IsolateNeeds # {} => fw.exists \/ c \in {<<"new">>, <<"table">>} \/ backend = "netsh"
    <3>1. IsolateNeeds # {} => backend = "netsh" \/ \E n \in IsolateNeeds : n \in {<<"new">>, <<"table">>}
      BY DEF IsolateNeeds
    <3>2. \A n \in {<<"new">>, <<"table">>} : Effect(n, fw) => fw.exists
      BY DEF Effect
    <3> QED BY <1>3, <1>9, <2>1, <3>1, <3>2
  <2>3. \A n \in IsolateNeeds : n = c \/ Effect(n, fw) => Effect(n, fw')
    BY <1>0, <1>1, <1>3, <1>9, <2>2, IsolateEffects
  <2> QED BY <1>3, <2>1, <2>3
<1>10. ASSUME ~dry_run, ~fails, op[t] = "lift", t \notin overlapped
       PROVE  \A n \in LiftNeeds : Waits(n, Tail(s)) \/ Effect(n, fw')
  <2>1. \A n \in LiftNeeds : Waits(n, s) \/ Effect(n, fw)
    BY <1>10 DEF HostInv, EffectInv, s
  <2>2. \A n \in LiftNeeds : n = c \/ Effect(n, fw) => Effect(n, fw')
    BY <1>0, <1>1, <1>3, <1>10, LiftEffects
  <2> QED BY <1>3, <2>1, <2>2
<1>11. EffectInv'
  <2> SUFFICES ASSUME ~dry_run, NEW r \in Caller
               PROVE  /\ op'[r] = "isolate" /\ (r \notin overlapped' \/ ~disturbed') =>
                           \A n \in IsolateNeeds : Waits(n, todo'[r]) \/ Effect(n, fw')
                      /\ op'[r] = "lift" /\ r \notin overlapped' =>
                           \A n \in LiftNeeds : Waits(n, todo'[r]) \/ Effect(n, fw')
    BY <1>0 DEF EffectInv
  <2>1. CASE r = t
    BY <1>1, <1>2, <1>6, <1>9, <1>10, <2>1
  <2>2. ASSUME r # t, op'[r] = "isolate", r \notin overlapped' \/ ~disturbed'
        PROVE  \A n \in IsolateNeeds : Waits(n, todo'[r]) \/ Effect(n, fw')
    <3>1. op[r] = "isolate" /\ r \in overlapped /\ todo'[r] = todo[r]
      BY <1>0, <1>1, <1>2, <2>2 DEF HostInv, AloneInv
    <3>2. ~disturbed' /\ ~alone
      BY <1>1, <1>7, <2>2, <3>1
    <3>3. ~disturbed /\ ~fails
      BY <1>6, <3>2
    <3>4. op[t] = "isolate"
      BY <1>0, <2>2, <3>1, <3>3 DEF HostInv, AloneInv
    <3>5. IsolateNeeds # {} => fw.exists \/ c \in {<<"new">>, <<"table">>} \/ backend = "netsh"
      <4>1. \A n \in IsolateNeeds : Waits(n, s) \/ Effect(n, fw)
        BY <3>3, <3>4 DEF HostInv, EffectInv, s
      <4>2. IsolateNeeds # {} => backend = "netsh" \/ \E n \in IsolateNeeds : n \in {<<"new">>, <<"table">>}
        BY DEF IsolateNeeds
      <4>3. \A n \in {<<"new">>, <<"table">>} : Effect(n, fw) => fw.exists
        BY DEF Effect
      <4> QED BY <1>3, <3>4, <4>1, <4>2, <4>3
    <3>6. \A n \in IsolateNeeds : Effect(n, fw) => Effect(n, fw')
      BY <1>0, <1>1, <1>3, <3>3, <3>4, <3>5, IsolateEffects
    <3>7. \A n \in IsolateNeeds : Waits(n, todo[r]) \/ Effect(n, fw)
      BY <3>1, <3>3 DEF HostInv, EffectInv
    <3> QED BY <3>1, <3>6, <3>7
  <2>3. ASSUME r # t, op'[r] = "lift", r \notin overlapped' PROVE FALSE
    BY <1>0, <1>1, <1>2, <2>3 DEF HostInv, AloneInv
  <2> QED BY <2>1, <2>2, <2>3
<1>12. fw'.policy_drop => backend' = "nftables"
  BY <1>0, <1>1, <1>3, IsolateApplies, LiftApplies DEF HostInv
<1>13. dry_run' => fw' = Host!Clean'
  BY <1>0, <1>1 DEF HostInv, Host!Clean
<1>14. Host!ContainedAsTold'
  <2> SUFFICES ASSUME ~dry_run, alone
               PROVE  /\ op[t] = "lift" => ~contained' /\ ~Host!Drops'
                      /\ op[t] = "isolate" /\ backend \notin {"null", "pf"} => contained' /\ Host!Drops'
    BY <1>0, <1>1 DEF Host!ContainedAsTold
  <2>1. \A n : ~Waits(n, Tail(s))
    BY <1>3 DEF Waits
  <2>2. ASSUME op[t] = "lift" PROVE ~contained' /\ ~Host!Drops'
    <3>1. \A n \in LiftNeeds : Effect(n, fw')
      BY <1>10, <2>1, <2>2
    <3>2. backend = "iptables" => ~Host!Has("drop")'
      <4>1. backend = "iptables" => fw'.rules = <<>>
        BY <3>1 DEF LiftNeeds, Effect
      <4> QED BY <4>1 DEF Host!Has
    <3>3. backend = "netsh" => "block_out" \notin fw'.named /\ "block_in" \notin fw'.named
      BY <3>1 DEF LiftNeeds, Effect
    <3>4. ~fw'.policy_drop
      <4>1. backend = "nftables" => ~fw'.policy_drop
        BY <3>1 DEF LiftNeeds, Effect
      <4> QED BY <1>0, <1>12, <4>1
    <3>5. ~contained'
      BY <1>1, <2>2
    <3> QED BY <1>0, <3>2, <3>3, <3>4, <3>5 DEF Host!Drops
  <2>3. ASSUME op[t] = "isolate", backend \notin {"null", "pf"} PROVE contained' /\ Host!Drops'
    <3>1. \A n \in IsolateNeeds : Effect(n, fw')
      BY <1>9, <2>1, <2>3
    <3>2. CASE backend = "iptables"
      <4>1. HasRule(fw', "drop") /\ fw'.hooks["FORWARD"] > 0
        BY <3>1, <3>2 DEF IsolateNeeds, Effect
      <4>2. Host!Has("drop")' /\ \E h \in Host!Hook : fw'.hooks[h] > 0
        BY <4>1 DEF HasRule, Host!Has, Host!Hook
      <4> QED BY <1>0, <1>1, <2>3, <3>2, <4>2 DEF Host!Drops
    <3>3. CASE backend = "nftables"
      <4>1. fw'.policy_drop
        BY <3>1, <3>3 DEF IsolateNeeds, Effect
      <4> QED BY <1>1, <2>3, <4>1 DEF Host!Drops
    <3>4. CASE backend = "netsh"
      <4>1. "block_out" \in fw'.named
        BY <3>1, <3>4 DEF IsolateNeeds, Effect
      <4> QED BY <1>0, <1>1, <2>3, <3>4, <4>1 DEF Host!Drops
    <3> QED BY <1>0, <2>3, <3>2, <3>3, <3>4 DEF Backend
  <2> QED BY <2>2, <2>3
<1>15. Host!SessionsSurvive'
  <2> SUFFICES ASSUME backend = "iptables", ~disturbed', ~dry_run, NEW i \in DOMAIN fw'.rules, fw'.rules[i] = "drop"
               PROVE  \E j \in 1..(i - 1) : fw'.rules[j] = "established"
    BY <1>0, <1>13 DEF Host!SessionsSurvive, Host!Clean, HostInv, HostTypes
  <2>1. CASE alone /\ op[t] = "lift"
    <3>1. <<"flush">> \in LiftNeeds
      BY DEF LiftNeeds
    <3>2. ~Waits(<<"flush">>, Tail(s))
      BY <1>3, <2>1 DEF Waits
    <3>3. Effect(<<"flush">>, fw')
      BY <1>10, <2>1, <3>1, <3>2
    <3> QED BY <3>3 DEF Effect
  <2>2. CASE ~disturbed
    <3>1. \A k \in DOMAIN fw.rules : fw.rules[k] = "drop" => \E j \in 1..(k - 1) : fw.rules[j] = "established"
      BY <2>2 DEF HostInv, Host!SessionsSurvive
    <3>2. CASE fw'.rules \in {fw.rules, <<>>}
      BY <3>1, <3>2
    <3>3. CASE fw'.rules \notin {fw.rules, <<>>}
      <4>1. op[t] = "isolate" /\ ~fails /\ fw.rules \in Seq(Rule)
        BY <1>0, <1>1, <1>3, <1>6, <3>3, LiftApplies DEF Firewall
      <4>2. fw'.rules = Append(fw.rules, c[2]) /\ c[1] = "append"
        BY <1>0, <1>1, <1>3, <3>3, <4>1, IsolateApplies
      <4>3. c \in {<<"append", "established">>, <<"append", "mgmt">>, <<"append", "drop">>}
        BY <1>3, <4>1, <4>2 DEF IsolateSet
      <4>4. c[2] \in Rule
        BY <4>3 DEF Rule
      <4>5. /\ Len(fw.rules) \in Nat /\ i \in 1..(Len(fw.rules) + 1)
            /\ fw'.rules[i] = IF i = Len(fw.rules) + 1 THEN c[2] ELSE fw.rules[i]
            /\ \A j \in DOMAIN fw.rules : fw'.rules[j] = fw.rules[j] /\ j \in 1..Len(fw.rules)
        BY <4>1, <4>2, <4>4, AppendProperties
      <4>6. CASE i = Len(fw.rules) + 1
        <5>1. c = <<"append", "drop">>
          BY <4>3, <4>5, <4>6
        <5>2. <<"append", "established">> \in IsolateNeeds
          BY DEF IsolateNeeds
        <5>3. Effect(<<"append", "established">>, fw)
          BY <1>3, <2>2, <4>1, <5>1, <5>2 DEF HostInv, EffectInv, s
        <5>4. PICK j \in DOMAIN fw.rules : fw.rules[j] = "established"
          BY <5>3 DEF Effect, HasRule
        <5> QED BY <4>5, <4>6, <5>4
      <4>7. CASE i # Len(fw.rules) + 1
        <5>1. i \in DOMAIN fw.rules /\ fw.rules[i] = "drop"
          BY <4>1, <4>5, <4>7
        <5>2. PICK j \in 1..(i - 1) : fw.rules[j] = "established"
          BY <3>1, <5>1
        <5>3. j \in DOMAIN fw.rules
          BY <4>1, <5>1, <5>2
        <5> QED BY <4>5, <5>2, <5>3
      <4> QED BY <4>6, <4>7
    <3> QED BY <3>2, <3>3
  <2> QED BY <1>6, <2>1, <2>2
<1> QED BY <1>5, <1>8, <1>11, <1>12, <1>13, <1>14, <1>15 DEF HostInv

LEMMA HostInvStep ==
  HostInv /\ [Next]_partVars => HostInv'
<1> SUFFICES ASSUME HostInv, [Next]_partVars PROVE HostInv'
  OBVIOUS
<1>0. backend \in Backend
  BY DEF HostInv, HostTypes
<1>1. CASE HostStep
  <2>1. ASSUME NEW t \in Caller, NEW mgmt \in BOOLEAN, Host!IsolateHost(t, mgmt) PROVE HostInv'
    BY <1>0, <2>1, IsolateCmdsComplete, BeginKeeps DEF Host!IsolateHost
  <2>2. ASSUME NEW t \in Caller, Host!Lift(t) PROVE HostInv'
    BY <1>0, <2>2, LiftCmdsComplete, BeginKeeps DEF Host!Lift
  <2>3. ASSUME NEW t \in Caller, NEW fails \in BOOLEAN, Host!RunCmd(t, fails) PROVE HostInv'
    BY <2>3, RunCmdKeeps
  <2> QED BY <1>1, <2>1, <2>2, <2>3 DEF HostStep, Host!HostNext
<1>2. CASE UNCHANGED hostVars
  BY <1>2 DEF hostVars, HostInv, HostTypes, AloneInv, EffectInv, IsolateSet, IsolateNeeds, LiftSet, LiftNeeds,
       Host!Clean, Host!ContainedAsTold, Host!SessionsSurvive, Host!Drops, Host!Has
<1> QED
  BY <1>1, <1>2 DEF Next, PipelineStep, FileStep, ProcStep, HyperStep, LibvirtStep, partVars

-----------------------------------------------------------------------------
(* The fact put to the scorecard is one of its facts, and stays.           *)
FactInv == fact \in Scorecard!Fact

LEMMA FactInvInit == Init => FactInv
<1> SUFFICES ASSUME Init PROVE FactInv
  OBVIOUS
<1>1. [event_type |-> "network", severity |-> "low", score |-> 0, asset_criticality |-> "normal",
       has_standby |-> TRUE, reversible |-> TRUE, business_hours |-> TRUE, repeat_offender |-> FALSE]
        \in Scorecard!Fact
  BY DEF Scorecard!Fact, Scorecard!SEV
<1>2. (CHOOSE f \in Scorecard!Fact : TRUE) \in Scorecard!Fact
  BY <1>1
<1> QED BY <1>2 DEF Init, Choices, FactInv

LEMMA FactInvStep == FactInv /\ [Next]_partVars => FactInv'
BY DEF FactInv, Next, PipelineStep, FileStep, ProcStep, HostStep, HyperStep, LibvirtStep, partVars

LEMMA HeldOfflineInit == Init => HeldOffline
BY DEF Init, Hypervisor!HyperInit, HeldOffline

(* Batches become alerts and verdicts without a gap: an event that scored  *)
(* has its alert, a repeat at most folded into it; a verdict that isolates *)
(* is one that acts; and a graver fact never gets a weaker verdict         *)
(* (alert_manager.py, control_center.py, decision_engine.py).              *)
THEOREM AlertsAndVerdictsAlwaysAgree == Spec => []AlertsAndVerdictsAgree
<1>1. AlertInv /\ VerdictInv /\ FactInv => AlertsAndVerdictsAgree
  BY AlertInvGives, NeverWeakerHolds DEF AlertsAndVerdictsAgree, VerdictInv, FactInv
<1>2. Init => AlertInv /\ VerdictInv /\ FactInv
  BY AlertInvInit, VerdictInvInit, FactInvInit
<1>3. (AlertInv /\ VerdictInv /\ FactInv) /\ [Next]_partVars => (AlertInv /\ VerdictInv /\ FactInv)'
  BY AlertInvStep, VerdictInvStep, FactInvStep
<1> QED BY <1>1, <1>2, <1>3, PTL DEF Spec

(* The sensors of the agent say a thing once: no write counts toward two   *)
(* spikes, and no process or connection is reported twice while it lives   *)
(* (sentry_agent.py).                                                      *)
THEOREM SensorsAlwaysReportOnce == Spec => []SensorsReportOnce
<1>1. FileInv /\ ProcInv => SensorsReportOnce
  BY DEF FileInv, ProcInv, SensorsReportOnce
<1> QED BY <1>1, FileInvInit, FileInvStep, ProcInvInit, ProcInvStep, PTL DEF Spec

(* Containment is as told, whoever calls it and in whatever order the      *)
(* commands of two callers run: the flag of the host and its firewall      *)
(* agree, the sessions of the agent survive, an isolated VM stays off the  *)
(* network until its disk is restored, and no domain is touched unasked    *)
(* (containment.py, hypervisor_api.py, libvirt_backend.py).                *)
THEOREM ContainmentAlwaysAsTold == Spec => []ContainmentIsAsTold
<1>1. HostInv /\ HeldOffline /\ LibvirtInv => ContainmentIsAsTold
  BY LibvirtInvGives DEF HostInv, HeldOffline, Hypervisor!InfectedStaysOffline, ContainmentIsAsTold
<1>2. Init => HostInv /\ HeldOffline /\ LibvirtInv
  BY HostInvInit, HeldOfflineInit, LibvirtInvInit
<1>3. (HostInv /\ HeldOffline /\ LibvirtInv) /\ [Next]_partVars => (HostInv /\ HeldOffline /\ LibvirtInv)'
  BY HostInvStep, HeldOfflineStep, LibvirtInvStep
<1> QED BY <1>1, <1>2, <1>3, PTL DEF Spec
=============================================================================
