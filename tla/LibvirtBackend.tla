--------------------------- MODULE LibvirtBackend ---------------------------
(***************************************************************************)
(* The libvirt back end: how it comes to act or only to pretend, and what  *)
(* its commands do to domains that are controlled by several threads. The  *)
(* hypervisor, and the virsh that speaks to it, are external.              *)
(***************************************************************************)
EXTENDS Naturals, Sequences

CONSTANTS Domain, LibvirtCalls    \* bound of calls

VARIABLES lv_setup,    \* [dry_run, force, module, virsh]: what was asked for, what is installed
          lv_power, lv_nics,      \* of each domain (external)
          lv_golden,   \* per domain, whether its clean snapshot was taken of it running
          lv_todo,     \* commands left of full_incident_response
          lv_actions,  \* the action log, as a set of entries
          lv_calls,
          lv_touched,  \* history: commands that changed something
          lv_isolated  \* history: domains reported isolated and not brought back since

lvVars == <<lv_setup, lv_power, lv_nics, lv_golden, lv_todo, lv_actions, lv_calls, lv_touched, lv_isolated>>

LibvirtInit ==
  /\ lv_setup \in [dry_run : BOOLEAN, force : {"none", "dryrun", "api", "virsh"}, module : BOOLEAN, virsh : BOOLEAN]
  /\ lv_power \in [Domain -> BOOLEAN] /\ lv_golden \in [Domain -> BOOLEAN]
  /\ lv_nics = [d \in Domain |-> 1]
  /\ lv_todo = <<>> /\ lv_calls = 0
  /\ lv_actions = {} /\ lv_touched = {} /\ lv_isolated = {}

Unforced == lv_setup.force = "none" /\ ~lv_setup.dry_run

(* Mutant of Mode: virsh is used where it is found.                        *)
ModeOfFound == CASE lv_setup.force = "dryrun" -> "dry-run"
                 [] lv_setup.force = "api" \/ (Unforced /\ lv_setup.module) ->
                      IF lv_setup.module THEN "api" ELSE "dry-run"
                 [] lv_setup.force = "virsh" /\ lv_setup.virsh -> "virsh"
                 [] lv_setup.force = "none" /\ ~(Unforced /\ lv_setup.module) /\ lv_setup.virsh -> "virsh"
                 [] OTHER -> "dry-run"

(* A mode that is forced is taken whatever dry_run says.                   *)
Mode == CASE lv_setup.force = "dryrun" -> "dry-run"
          [] lv_setup.force = "api" \/ (Unforced /\ lv_setup.module) ->
               IF lv_setup.module THEN "api" ELSE "dry-run"
          [] lv_setup.force = "virsh" \/ (Unforced /\ ~lv_setup.module /\ lv_setup.virsh) -> "virsh"
          [] OTHER -> "dry-run"

(* Without a MAC a detach names no interface: with two of them it fails.   *)
Possible(op, d) == CASE op = "detach" -> lv_power[d] /\ lv_nics[d] = 1
                     [] op \in {"attach", "dump"} -> lv_power[d]
                     [] op = "start" -> ~lv_power[d]
                     [] OTHER -> TRUE

(* A snapshot brings back the interface, and the machine running if it was *)
(* running then; attaching adds one more.                                  *)
Execute(op, d) ==
  /\ lv_power' = CASE op = "start" -> [lv_power EXCEPT ![d] = TRUE]
                   [] op = "revert" -> [lv_power EXCEPT ![d] = lv_golden[d]]
                   [] OTHER -> lv_power
  /\ lv_nics' = CASE op = "detach" -> [lv_nics EXCEPT ![d] = @ - 1]
                  [] op = "attach" -> [lv_nics EXCEPT ![d] = @ + 1]
                  [] op = "revert" -> [lv_nics EXCEPT ![d] = 1]
                  [] OTHER -> lv_nics
  /\ lv_touched' = lv_touched \cup ({<<op, d>>} \ {<<"domstate", d>>})

(* In the mode of the library only the detach and the state go through it, *)
(* and there a failure is not logged, and neither is a state.              *)
ThroughApi(op) == Mode = "api" /\ op \in {"detach", "domstate"}
Logged(op, ok) == IF ThroughApi(op) THEN op = "detach" /\ ok ELSE TRUE

(* A pretended command is reported as done.                                *)
Command(op, d, fails) ==
  LET acts == Mode # "dry-run"
      ok == acts => ~fails /\ Possible(op, d) /\ (ThroughApi(op) \/ lv_setup.virsh)
  IN /\ IF acts /\ ok THEN Execute(op, d) ELSE UNCHANGED <<lv_power, lv_nics, lv_touched>>
     /\ lv_actions' = lv_actions \cup (IF Logged(op, ok) THEN {<<op, d>>} ELSE {})
     /\ lv_isolated' = IF op = "detach" /\ ok THEN lv_isolated \cup {d}
                       ELSE IF op \in {"attach", "revert"} /\ ok THEN lv_isolated \ {d} ELSE lv_isolated
     /\ UNCHANGED <<lv_setup, lv_golden>>

(* isolate_vm, restore_nic, snapshot, revert, dump_memory, domain_state,   *)
(* and of the failover back end promote, rejoin_as_standby (a revert, that *)
(* stops nothing) and health_check (the state, running or not).            *)
Call(d, fails) ==
  /\ lv_calls < LibvirtCalls /\ lv_calls' = lv_calls + 1
  /\ \E op \in {"detach", "attach", "snapshot", "revert", "dump", "domstate", "start"} :
       (op = "attach" => lv_nics[d] < 2) /\ Command(op, d, fails)
  /\ UNCHANGED lv_todo

(* redirect_traffic is an entry in the log.                                *)
Redirect(d) ==
  /\ lv_calls < LibvirtCalls /\ lv_calls' = lv_calls + 1
  /\ lv_actions' = lv_actions \cup {<<"redirect", d>>}
  /\ UNCHANGED <<lv_setup, lv_power, lv_nics, lv_golden, lv_todo, lv_touched, lv_isolated>>

StartIncidentResponse(d) ==
  /\ lv_todo = <<>> /\ lv_calls < LibvirtCalls /\ lv_calls' = lv_calls + 1
  /\ lv_todo' = <<<<"detach", d>>, <<"dump", d>>, <<"snapshot", d>>, <<"revert", d>>>>
  /\ UNCHANGED <<lv_setup, lv_power, lv_nics, lv_golden, lv_actions, lv_touched, lv_isolated>>

(* The next command of a response, whatever became of those before.        *)
NextOfResponse(fails) ==
  /\ lv_todo # <<>> /\ Command(Head(lv_todo)[1], Head(lv_todo)[2], fails) /\ lv_todo' = Tail(lv_todo)
  /\ UNCHANGED lv_calls

LibvirtNext == \/ \E d \in Domain : Redirect(d) \/ StartIncidentResponse(d) \/ \E fails \in BOOLEAN : Call(d, fails)
               \/ \E fails \in BOOLEAN : NextOfResponse(fails)

-----------------------------------------------------------------------------
(* Nothing touches a domain unless it was asked for, by a live run or by a *)
(* mode that was forced; what touches one is in the action log; and a      *)
(* domain that was really isolated, in whatever order the commands of      *)
(* several threads came, has no interface left.                            *)
LibvirtDoesAsTold ==
  /\ lv_touched # {} => ~lv_setup.dry_run \/ lv_setup.force \in {"api", "virsh"}
  /\ lv_touched \subseteq lv_actions
  /\ Mode # "dry-run" => \A d \in lv_isolated : lv_nics[d] = 0
=============================================================================
