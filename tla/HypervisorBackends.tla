------------------------- MODULE HypervisorBackends -------------------------
(***************************************************************************)
(* What an incident response does to one VM through VirtualBox or Proxmox, *)
(* command by command. Every command may fail; some of the results are     *)
(* looked at and some are not. A kill switch thread may cut the network at *)
(* any moment. The hypervisor itself is external.                          *)
(***************************************************************************)
EXTENDS Naturals, Sequences

CONSTANTS MaxResponses          \* bound

VARIABLES kind,                 \* "vbox" or "proxmox"
          nic, power, disk,     \* of the VM (external)
          pending,                 \* the commands left of full_incident_response
          noticed,              \* the results kept so far of the step under way
          results,              \* per step, whether it reported success
          responses,
          held                  \* history: isolation was reported and the disk not restored since

hyperVars == <<kind, nic, power, disk, pending, noticed, results, responses, held>>

Step == {"isolate", "dump", "restore", "boot"}

HyperInit == /\ kind \in {"vbox", "proxmox"}
             /\ nic = "production" /\ power = "on" /\ disk = "infected"
             /\ pending = <<>> /\ noticed = TRUE /\ responses = 0
             /\ results = [s \in Step |-> FALSE] /\ held = FALSE

(* The commands of the four steps of full_incident_response.               *)
Commands == IF kind = "vbox"
            THEN <<"nic null", "nic quarantine", "dump", "poweroff", "restore", "modifyvm", "start">>
            ELSE <<"fetch", "put quarantine", "dump", "poweroff", "restore", "put sandbox", "start">>

(* Mutant of Checked: what moved the NIC is not looked at.                 *)
CheckedFirst == {"nic null", "fetch", "dump", "restore", "start"}

(* The commands whose result counts; those of power and of the sandbox     *)
(* NIC are sent and forgotten.                                             *)
Checked == {"nic null", "nic quarantine", "fetch", "put quarantine", "dump", "restore", "start"}

(* The command that ends a step, and the step.                             *)
StepOf(cmd) == CASE cmd \in {"nic quarantine", "put quarantine"} -> "isolate"
                 [] cmd = "dump" -> "dump"
                 [] cmd = "restore" -> "restore"
                 [] cmd = "start" -> "boot"
                 [] OTHER -> "none"

(* When the hypervisor can do it: a machine is re-configured, restored and *)
(* started when it is off, and controlled when it is on.                   *)
Possible(cmd) == CASE cmd \in {"nic null", "nic quarantine", "poweroff"} -> power = "on"
                   [] cmd \in {"restore", "modifyvm", "start"} -> power = "off"
                   [] OTHER -> TRUE

(* A snapshot brings back the disk, and the configuration it was taken with. *)
Execute(cmd) ==
  /\ power' = CASE cmd = "poweroff" -> "off" [] cmd = "start" -> "on" [] OTHER -> power
  /\ disk' = IF cmd = "restore" THEN "clean" ELSE disk
  /\ nic' = CASE cmd = "nic null" -> "none"
              [] cmd \in {"nic quarantine", "put quarantine"} -> "quarantine"
              [] cmd \in {"modifyvm", "put sandbox"} -> "sandbox"
              [] cmd = "restore" -> "production"
              [] OTHER -> nic

StartResponse ==
  /\ pending = <<>> /\ responses < MaxResponses
  /\ pending' = Commands /\ noticed' = TRUE /\ responses' = responses + 1
  /\ results' = [s \in Step |-> FALSE]
  /\ UNCHANGED <<kind, nic, power, disk, held>>

(* One command. A Proxmox step whose configuration cannot be fetched ends  *)
(* at once.                                                                *)
RunCommand(fails) ==
  LET cmd == Head(pending)
      ok == ~fails /\ Possible(cmd)
      noted == noticed /\ (cmd \notin Checked \/ ok)
      skip == cmd = "fetch" /\ ~ok
      step == IF skip THEN "isolate" ELSE StepOf(cmd)
  IN /\ pending # <<>>
     /\ IF ok THEN Execute(cmd) ELSE UNCHANGED <<nic, power, disk>>
     /\ pending' = IF skip THEN Tail(Tail(pending)) ELSE Tail(pending)
     /\ results' = IF step = "none" THEN results ELSE [results EXCEPT ![step] = noted]
     /\ noticed' = (step # "none" \/ noted)
     /\ held' = (IF step = "isolate" THEN noted ELSE held /\ ~(ok /\ cmd = "restore"))
     /\ UNCHANGED <<kind, responses>>

(* block_network, from the thread of the instant blocks.                   *)
BlockNetwork(fails) ==
  /\ ~fails /\ (kind = "vbox" => power = "on")
  /\ nic' = "none"
  /\ UNCHANGED <<kind, power, disk, pending, noticed, results, responses, held>>

(* A machine on the production network may be infected (again).            *)
Infect == /\ power = "on" /\ nic = "production" /\ disk' = "infected"
          /\ UNCHANGED <<kind, nic, power, pending, noticed, results, responses, held>>

HyperNext == \/ StartResponse \/ Infect
             \/ \E fails \in BOOLEAN : RunCommand(fails) \/ BlockNetwork(fails)

-----------------------------------------------------------------------------
(* A VM whose isolation was reported, and whose disk was not replaced      *)
(* since, does not run on the production network with what infected it,    *)
(* whichever of the later commands fail, also those whose result nobody    *)
(* looks at, and whatever the kill switch does in between.                 *)
InfectedStaysOffline ==
  held /\ disk = "infected" /\ power = "on" => nic # "production"
=============================================================================
