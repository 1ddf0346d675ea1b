--------------------------- MODULE SelfHealing ---------------------------
(***************************************************************************)
(* The self-healing runtime: the health monitor ages components by missed  *)
(* heartbeats, the reconcile loop runs a playbook for each that is not     *)
(* healthy, a circuit breaker per entity stops the loop from retrying, and *)
(* the reflex arc answers a sensed event at once.                          *)
(*                                                                         *)
(* The bus delivers synchronously, so a publication and all that its       *)
(* subscribers do are one step.                                            *)
(***************************************************************************)
EXTENDS Naturals, FiniteSets

CONSTANTS Component,   \* the registered components, by name
          Vm           \* the entities a sensor speaks of

ASSUME EntitiesAssumption == Component \cap Vm = {} /\ IsFiniteSet(Component) /\ IsFiniteSet(Vm)

VARIABLES missed,      \* per component, heartbeat intervals since the last beat
          vitals_bad,  \* per component, whether its last vitals are out of range
          health,      \* per component, HealthState as of the last evaluation
          attempts,    \* per playbook
          failures,    \* per entity, of its breaker
          breaker,     \* per entity, BreakerState
          cooling,     \* entities whose breaker opened less than cooldown_s ago
          told,        \* per entity, why a human was told since it was last healthy
          isolated     \* entities the reflex arc had isolated

vars == <<missed, vitals_bad, health, attempts, failures, breaker, cooling, told, isolated>>

DEGRADED_AFTER == 1
UNHEALTHY_AFTER == 2
DEAD_AFTER == 4
FAIL_THRESHOLD == 3
MAX_ATTEMPTS == 3

Entity == Component \cup Vm
HealthState == {"healthy", "degraded", "unhealthy", "dead"}
BreakerState == {"closed", "open", "half_open"}
Reason == {"exceeded", "unknown symptom", "no playbook"}

ProbeAndRestart == <<"probe_and_restart", "">>
Playbook == {<<"control_center", "dead">>, <<"sentry_agent", "dead">>,
             <<"secure_channel", "degraded">>, <<"queue", "degraded">>, ProbeAndRestart}

(* The reflexes that isolate a host; agent_silence probes it instead.      *)
ContainmentReflex == {"crypto_spike", "cred_dump", "ransomware_esxi"}

Init == /\ missed = [c \in Component |-> 0]
        /\ vitals_bad = [c \in Component |-> FALSE]
        /\ health = [c \in Component |-> "healthy"]
        /\ attempts = [k \in Playbook |-> 0]
        /\ failures = [e \in Entity |-> 0]
        /\ breaker = [e \in Entity |-> "closed"]
        /\ cooling = {}
        /\ told = [e \in Entity |-> {}]
        /\ isolated = {}

-----------------------------------------------------------------------------
EvaluateVitals(bad) == IF bad THEN "degraded" ELSE "healthy"

Swept(c) == CASE missed[c] >= DEAD_AFTER      -> "dead"
              [] missed[c] \in UNHEALTHY_AFTER..(DEAD_AFTER - 1) -> "unhealthy"
              [] missed[c] \in DEGRADED_AFTER..(UNHEALTHY_AFTER - 1) -> "degraded"
              [] OTHER -> EvaluateVitals(vitals_bad[c])

Heartbeat(c, bad) ==
  /\ missed' = [missed EXCEPT ![c] = 0]
  /\ vitals_bad' = [vitals_bad EXCEPT ![c] = bad]
  /\ health' = [health EXCEPT ![c] = EvaluateVitals(bad)]
  /\ UNCHANGED <<attempts, failures, breaker, cooling, told, isolated>>

(* An interval passes without a beat. More misses than DEAD_AFTER make no  *)
(* difference, so the count stops there.                                   *)
BeatMissed(c) ==
  /\ missed[c] < DEAD_AFTER
  /\ missed' = [missed EXCEPT ![c] = @ + 1]
  /\ UNCHANGED <<vitals_bad, health, attempts, failures, breaker, cooling, told, isolated>>

CooldownElapses(e) ==
  /\ e \in cooling
  /\ cooling' = cooling \ {e}
  /\ UNCHANGED <<missed, vitals_bad, health, attempts, failures, breaker, told, isolated>>

-----------------------------------------------------------------------------
(* A playbook that is used up tells a human; any other runs its steps. A   *)
(* step is a command on the bus, and the orchestrator listens there too:   *)
(* it takes "healing/restart_service" for the name of a playbook it does   *)
(* not have. Only probe_and_restart keeps its step off the bus.            *)
Spent(k) == attempts[k] >= MAX_ATTEMPTS

(* Mutant of Told: the cap is reached in silence.                          *)
ToldOfUnknown(k) == IF Spent(k) \/ k = ProbeAndRestart THEN {} ELSE {"unknown symptom"}

(* Mutant of Told: a reflex that is used up counts as a failure only.      *)
ToldUnlessReflex(k) == IF k = ProbeAndRestart THEN {}
                       ELSE IF Spent(k) THEN {"exceeded"} ELSE {"unknown symptom"}

Told(k) == IF Spent(k) THEN {"exceeded"}
           ELSE IF k = ProbeAndRestart THEN {} ELSE {"unknown symptom"}

(* Mutant of RecordSuccess: success closes a breaker that was probing.     *)
RecordSuccessOfProbe(b) == IF b = "half_open" THEN "closed" ELSE b

RecordSuccess(b) == "closed"

(* The whole effect of a tick or of a healing command: the entities that   *)
(* recovered, those whose open breaker lets a probe through, the playbook  *)
(* of each entity that is treated, and those for which there is none.      *)
Treat(recovered, probed, book, uncharted) ==
  LET treated == DOMAIN book
      spent == {e \in treated : Spent(book[e])}
      before == [e \in Entity |-> IF e \in recovered THEN RecordSuccess(breaker[e])
                                  ELSE IF e \in probed THEN "half_open" ELSE breaker[e]]
      tripped == {e \in spent : before[e] = "closed" /\ failures[e] + 1 >= FAIL_THRESHOLD}
  IN /\ attempts' = [k \in Playbook |->
                       attempts[k] + Cardinality({e \in treated \ spent : book[e] = k})]
     /\ failures' = [e \in Entity |->
                       IF e \in recovered THEN 0
                       ELSE IF e \in spent /\ failures[e] < FAIL_THRESHOLD
                            THEN failures[e] + 1 ELSE failures[e]]
     /\ breaker' = [e \in Entity |-> IF e \in tripped THEN "open" ELSE before[e]]
     /\ cooling' = (cooling \ recovered) \cup tripped
     /\ told' = [e \in Entity |->
                   IF e \in recovered THEN {}
                   ELSE told[e] \cup (IF e \in treated THEN Told(book[e]) ELSE {})
                                \cup (IF e \in uncharted THEN {"no playbook"} ELSE {})]

PlaybookFor(c) ==
  IF <<c, health'[c]>> \in Playbook THEN {<<c, health'[c]>>}
  ELSE IF health'[c] \in {"dead", "unhealthy"} THEN {<<c, "dead">>} \cap Playbook ELSE {}

Reconcile ==
  /\ health' = [c \in Component |-> Swept(c)]
  /\ LET ill == {c \in Component : health'[c] # "healthy"}
         probed == {c \in ill : breaker[c] = "open" /\ c \notin cooling}
         allowed == {c \in ill : breaker[c] # "open"} \cup probed
         treated == {c \in allowed : PlaybookFor(c) # {}}
     IN Treat(Component \ ill, probed,
              [c \in treated |-> CHOOSE k \in PlaybookFor(c) : TRUE], allowed \ treated)
  /\ UNCHANGED <<missed, vitals_bad, isolated>>

(* A sensed event of at least high severity fires its reflex. The breaker  *)
(* of the entity is not asked.                                             *)
Sense(event_type, e) ==
  \/ /\ event_type \in ContainmentReflex
     /\ isolated' = isolated \cup {e}
     /\ UNCHANGED <<missed, vitals_bad, health, attempts, failures, breaker, cooling, told>>
  \/ /\ event_type = "agent_silence"
     /\ Treat({}, {}, [x \in {e} |-> ProbeAndRestart], {})
     /\ UNCHANGED <<missed, vitals_bad, health, isolated>>

Next == \/ \E c \in Component : BeatMissed(c) \/ \E bad \in BOOLEAN : Heartbeat(c, bad)
        \/ \E e \in Entity : CooldownElapses(e)
        \/ Reconcile
        \/ \E t \in {"crypto_spike", "agent_silence"}, e \in Vm : Sense(t, e)

(* The runtime ticks without end, and time passes.                         *)
Fairness == WF_vars(Reconcile) /\ \A e \in Entity : WF_vars(CooldownElapses(e))

Spec == Init /\ [][Next]_vars /\ Fairness

-----------------------------------------------------------------------------
TypeOK == /\ missed \in [Component -> 0..DEAD_AFTER]
          /\ vitals_bad \in [Component -> BOOLEAN]
          /\ health \in [Component -> HealthState]
          /\ attempts \in [Playbook -> Nat]
          /\ failures \in [Entity -> 0..FAIL_THRESHOLD]
          /\ breaker \in [Entity -> BreakerState]
          /\ cooling \subseteq Entity
          /\ told \in [Entity -> SUBSET Reason]
          /\ isolated \subseteq Entity

(* A breaker that is open, or probing, silences the loop for its entity:   *)
(* by then a human has been told that the healing attempts are used up     *)
(* (the hard cap "ESCALATES TO A HUMAN", healing_orchestrator.py:18).      *)
TrippedMeansTold == \A e \in Entity : breaker[e] # "closed" => "exceeded" \in told[e]

(* A component that stays dead is brought to a human, whatever playbooks   *)
(* it has and whatever its breaker does; the report of a step the          *)
(* orchestrator misread does not count.                                    *)
NoSilentNeglect ==
  \A c \in Component :
    (health[c] = "dead") ~> \/ health[c] # "dead"
                            \/ told[c] \cap {"exceeded", "no playbook"} # {}

(* The breaker of a component that is well again, and stays so, closes.    *)
RecoveredBreakerCloses ==
  \A c \in Component : <>[](missed[c] = 0 /\ ~vitals_bad[c]) => <>[](breaker[c] = "closed")

=============================================================================
