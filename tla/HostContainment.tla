-------------------------- MODULE HostContainment --------------------------
(***************************************************************************)
(* Containment of a host by its own firewall. A call is a list of commands *)
(* run one after the other, whatever each returned; two response threads   *)
(* may be in a call at the same time. What a command does to the firewall  *)
(* is external.                                                            *)
(***************************************************************************)
EXTENDS Naturals, Sequences

CONSTANTS Caller, MaxCalls      \* MaxCalls is a bound

VARIABLES backend, dry_run,     \* as build_backend chose them
          fw,                   \* the firewall (external)
          todo,                 \* per caller, the commands left of its call
          op,                   \* per caller, "isolate", "lift" or "none"
          contained,            \* _contained
          calls,
          disturbed,            \* history: a command failed, or a lift met another call, since
                                \* the last lift that ran alone
          overlapped,           \* history: callers whose call met another or a fault
          last                  \* history: the last call to end, if it ran alone and without a fault

hostVars == <<backend, dry_run, fw, todo, op, contained, calls, disturbed, overlapped, last>>

Hook == {"FORWARD", "OUTPUT"}

(* A chain is ordered; netsh knows its rules by name, and a name's rules   *)
(* are deleted together.                                                   *)
Clean == [exists |-> FALSE, policy_drop |-> FALSE, rules |-> <<>>, named |-> {}, hooks |-> [h \in Hook |-> 0]]

(* build_backend without force, by the system and its binaries.            *)
BuildBackend(sys, have, dry) ==
  CASE sys = "linux" /\ "iptables" \in have /\ "nft" \notin have -> "iptables"
    [] sys = "linux" /\ ("nft" \in have \/ (dry /\ "iptables" \notin have)) -> "nftables"
    [] sys = "windows" /\ (dry \/ "netsh" \in have) -> "netsh"
    [] sys = "darwin" /\ (dry \/ "pfctl" \in have) -> "pf"
    [] OTHER -> "null"

HostInit ==
  /\ dry_run \in BOOLEAN
  /\ \E sys \in {"linux", "windows", "darwin"},
        have \in {{}, {"iptables"}, {"iptables", "nft"}, {"netsh"}, {"pfctl"}} :
       backend = BuildBackend(sys, have, dry_run)
  /\ fw = Clean
  /\ todo = [t \in Caller |-> <<>>] /\ op = [t \in Caller |-> "none"]
  /\ contained = FALSE /\ calls = 0
  /\ disturbed = FALSE /\ overlapped = {} /\ last = "none"

-----------------------------------------------------------------------------
If(c, cmds) == IF c THEN cmds ELSE <<>>

(* Mutant of IsolateCmds: iptables drops before it accepts.                *)
IsolateCmdsDropFirst(mgmt) ==
  IF backend = "iptables"
  THEN <<<<"new">>, <<"append", "drop">>, <<"append", "established">>>>
       \o If(mgmt, <<<<"append", "mgmt">>>>) \o <<<<"hook", "FORWARD">>, <<"hook", "OUTPUT">>>>
  ELSE <<<<"load">>>>

IsolateCmds(mgmt) ==
  CASE backend = "iptables" -> <<<<"new">>, <<"append", "established">>>>
                               \o If(mgmt, <<<<"append", "mgmt">>>>)
                               \o <<<<"append", "drop">>, <<"hook", "FORWARD">>, <<"hook", "OUTPUT">>>>
    [] backend = "nftables" -> <<<<"table">>, <<"chain">>, <<"append", "established">>>>
                               \o If(mgmt, <<<<"append", "mgmt">>>>)
    [] backend = "netsh" -> <<<<"add", "block_out">>, <<"add", "block_in">>>>
                            \o If(mgmt, <<<<"add", "mgmt">>>>)
    [] backend = "pf" -> <<<<"load">>>>
    [] backend = "null" -> <<<<"nothing">>>>

(* Mutant of LiftCmds: the chain is unhooked and not emptied.              *)
LiftCmdsNoFlush ==
  IF backend = "iptables" THEN <<<<"unhook", "OUTPUT">>, <<"unhook", "FORWARD">>, <<"remove">>>>
  ELSE <<<<"delete_table">>>>

LiftCmds ==
  CASE backend = "iptables" -> <<<<"unhook", "OUTPUT">>, <<"unhook", "FORWARD">>, <<"flush">>, <<"remove">>>>
    [] backend = "nftables" -> <<<<"delete_table">>>>
    [] backend = "netsh" -> <<<<"delete", "block_out">>, <<"delete", "block_in">>, <<"delete", "mgmt">>>>
    [] backend = "pf" -> <<<<"flush">>>>
    [] backend = "null" -> <<<<"nothing">>>>

(* What the firewall makes of a command; one that does not apply (a chain  *)
(* that exists already, a hooked chain to remove) fails and changes        *)
(* nothing.                                                                *)
Apply(c) ==
  CASE c[1] = "new" -> [fw EXCEPT !.exists = TRUE]
    [] c[1] = "table" -> [fw EXCEPT !.exists = TRUE]
    [] c[1] = "chain" /\ fw.exists -> [fw EXCEPT !.policy_drop = TRUE]
    [] c[1] = "append" /\ fw.exists -> [fw EXCEPT !.rules = Append(@, c[2])]
    [] c[1] = "hook" /\ fw.exists -> [fw EXCEPT !.hooks[c[2]] = @ + 1]
    [] c[1] = "unhook" /\ fw.hooks[c[2]] > 0 -> [fw EXCEPT !.hooks[c[2]] = @ - 1]
    [] c[1] = "flush" -> [fw EXCEPT !.rules = <<>>]
    [] c[1] = "remove" /\ fw.rules = <<>> /\ \A h \in Hook : fw.hooks[h] = 0 ->
         [fw EXCEPT !.exists = FALSE]
    [] c[1] = "delete_table" -> Clean
    [] c[1] = "add" -> [fw EXCEPT !.named = @ \cup {c[2]}]
    [] c[1] = "delete" -> [fw EXCEPT !.named = @ \ {c[2]}]
    [] c[1] = "load" -> [fw EXCEPT !.rules = <<>>]   \* nothing is piped to pfctl -f -
    [] OTHER -> fw

Busy == {t \in Caller : op[t] # "none"}

Begin(t, what, cmds) ==
  /\ op[t] = "none" /\ calls < MaxCalls
  /\ calls' = calls + 1
  /\ op' = [op EXCEPT ![t] = what]
  /\ todo' = [todo EXCEPT ![t] = cmds]
  /\ overlapped' = IF Busy = {} THEN overlapped \ {t} ELSE overlapped \cup Busy \cup {t}
  /\ disturbed' = (disturbed \/ (Busy # {} /\ "lift" \in {what} \cup {op[b] : b \in Busy}))
  /\ last' = "none"
  /\ UNCHANGED <<backend, dry_run, fw, contained>>

IsolateHost(t, mgmt) == Begin(t, "isolate", IsolateCmds(mgmt))
Lift(t) == Begin(t, "lift", LiftCmds)

(* _run: a command is executed, or fails by itself (a timeout, a missing   *)
(* right); in dry-run it is only noted. The flag follows the last one.     *)
RunCmd(t, fails) ==
  LET ends == Len(todo[t]) = 1
      alone == ends /\ t \notin overlapped /\ ~fails
  IN /\ op[t] # "none"
     /\ fw' = IF dry_run \/ fails THEN fw ELSE Apply(Head(todo[t]))
     /\ todo' = [todo EXCEPT ![t] = Tail(@)]
     /\ op' = IF ends THEN [op EXCEPT ![t] = "none"] ELSE op
     /\ contained' = IF ends THEN op[t] = "isolate" ELSE contained
     /\ overlapped' = IF fails THEN overlapped \cup {t} ELSE overlapped
     /\ disturbed' = (fails \/ (disturbed /\ ~(alone /\ op[t] = "lift")))
     /\ last' = IF alone THEN op[t] ELSE last
     /\ UNCHANGED <<backend, dry_run, calls>>

HostNext == \E t \in Caller : \/ \E mgmt \in BOOLEAN : IsolateHost(t, mgmt)
                              \/ Lift(t)
                              \/ \E fails \in BOOLEAN : RunCmd(t, fails)

-----------------------------------------------------------------------------
Has(r) == \E i \in DOMAIN fw.rules : fw.rules[i] = r

Drops == \/ fw.policy_drop
         \/ backend = "iptables" /\ Has("drop") /\ \E h \in Hook : fw.hooks[h] > 0
         \/ backend = "netsh" /\ fw.named \cap {"block_out", "block_in"} # {}

(* The flag tells the truth when the last call was undisturbed: after a    *)
(* lift nothing is dropped any more, even when the host had been isolated  *)
(* twice, by two threads at once, or only in part (the second jump to the  *)
(* chain stays, and the chain cannot be removed); after an isolation       *)
(* traffic is dropped. (The pf back end loads the rules it is piped, and   *)
(* the code pipes none: its isolation blocks nothing.)                     *)
ContainedAsTold ==
  ~dry_run => /\ last = "lift" => ~contained /\ ~Drops
              /\ last = "isolate" /\ backend \notin {"null", "pf"} => contained /\ Drops

(* Isolation keeps the sessions of the control plane: where rules are      *)
(* ordered, and as long as no command failed, nothing is dropped by a rule *)
(* before established sessions were accepted.                              *)
SessionsSurvive ==
  backend = "iptables" /\ ~disturbed =>
    \A i \in DOMAIN fw.rules : fw.rules[i] = "drop" =>
      \E j \in 1..(i - 1) : fw.rules[j] = "established"
=============================================================================
