-------------------------- MODULE DecisionEngine --------------------------
(***************************************************************************)
(* The deterministic decision engine: hard gates, then a scorecard of      *)
(* weighted rules, then escalation to a human when the margin is thin. A   *)
(* module of operators; it keeps no state.                                 *)
(***************************************************************************)
EXTENDS Integers, FiniteSetsExt

(* The verdicts in the order of the enumeration, which breaks ties.        *)
Verdict == <<"monitor", "alert", "contain", "failover", "heal", "escalate">>

SEV == [info |-> 0, low |-> 1, medium |-> 2, high |-> 3, critical |-> 4]
SevRank(s) == IF s \in DOMAIN SEV THEN SEV[s] ELSE 0

ESCALATE_MARGIN == 15
REFLEX == {"crypto_spike", "cred_dump", "ransomware_esxi"}

(* What the rules read of a fact: scores matter below and from 100.        *)
Fact == [event_type : {"crypto_spike", "agent_silence", "network"},
         severity : DOMAIN SEV, score : {0, 100},
         asset_criticality : {"normal", "crown_jewel"},
         has_standby : BOOLEAN, reversible : BOOLEAN,
         business_hours : BOOLEAN, repeat_offender : BOOLEAN]

-----------------------------------------------------------------------------
(* The gates, in order, with their verdicts.                               *)
G1(f) == f.event_type \in REFLEX /\ SevRank(f.severity) >= 4
G2(f) == ~f.reversible /\ SevRank(f.severity) < 4

(* The shipped policy: each rule adds its weight to the total of its       *)
(* verdict. Nothing votes for escalate.                                    *)
Totals(f) ==
  LET rank == SevRank(f.severity)
      high == rank >= 3
      Weight(w, fires) == IF fires THEN w ELSE 0
  IN [monitor  |-> Weight(40, rank <= 1),                                            \* R6
      alert    |-> 5 + Weight(30, high) + Weight(35, rank = 2),                      \* R0 R2 R7
      contain  |-> Weight(60, rank >= 4) + Weight(50, f.score >= 100)                \* R1 R3
                   + Weight(20, high /\ f.repeat_offender)                           \* R8
                   + Weight(15, high /\ ~f.business_hours),                          \* R10
      failover |-> Weight(45, high /\ f.has_standby)                                 \* R4
                   + Weight(25, high /\ f.asset_criticality \in {"high", "crown_jewel"}), \* R5
      heal     |-> Weight(30, f.event_type = "agent_silence"),                       \* R9
      escalate |-> 0]

(* The place in Verdict of the best total; the sort is stable, so of equal *)
(* totals the first verdict wins.                                          *)
Leader(totals) ==
  CHOOSE i \in DOMAIN Verdict :
    \A j \in DOMAIN Verdict : \/ totals[Verdict[j]] < totals[Verdict[i]]
                              \/ totals[Verdict[j]] = totals[Verdict[i]] /\ i <= j

(* Mutant of Margin: how far the leader is above nothing at all.           *)
MarginOverZero(totals) == totals[Verdict[Leader(totals)]]

Margin(totals) ==
  LET i == Leader(totals)
  IN totals[Verdict[i]] - Max({totals[Verdict[j]] : j \in DOMAIN Verdict \ {i}})

(* decide: the verdict of the first gate that fires, else the leader, else *)
(* a human.                                                                *)
Decide(f) ==
  LET totals == Totals(f)
  IN CASE G1(f) -> "contain"
       [] ~G1(f) /\ G2(f) -> "escalate"
       [] OTHER -> IF Margin(totals) < ESCALATE_MARGIN THEN "escalate" ELSE Verdict[Leader(totals)]

-----------------------------------------------------------------------------
(* How much a verdict does about an event: nothing, a ticket, an action or *)
(* a human's decision.                                                     *)
Strength(v) == CASE v = "monitor" -> 0 [] v = "alert" -> 1 [] OTHER -> 2

(* The weights and the margin pull in different directions (a rule that    *)
(* fires for another verdict thins the margin); still the same event, with *)
(* a higher severity or a score over the threshold, is never answered more *)
(* weakly, and a fact with high severity is never only monitored.          *)
NeverWeaker(f) ==
  /\ \A s \in DOMAIN SEV : SEV[s] >= SEV[f.severity] =>
       Strength(Decide([f EXCEPT !.severity = s])) >= Strength(Decide(f))
  /\ Strength(Decide([f EXCEPT !.score = 100])) >= Strength(Decide(f))
  /\ SEV[f.severity] >= 3 => Decide(f) # "monitor"
=============================================================================
