------------------------- MODULE SelfHealingProofs -------------------------
(***************************************************************************)
(* For any components and VMs: the state of the self-healing runtime keeps *)
(* its type, and no breaker is open without a human having been told. Both *)
(* rest on one lemma each about Treat, the effect of a tick or a reflex.   *)
(***************************************************************************)
EXTENDS SelfHealing, FiniteSetTheorems, TLAPS

(* What the two callers of Treat see to: the treated are entities with a   *)
(* playbook, none of them recovered, and only an open breaker is probed.   *)
Treatment(recovered, probed, book, uncharted) ==
  /\ recovered \subseteq Entity
  /\ DOMAIN book \subseteq Entity \ recovered
  /\ \A e \in DOMAIN book : book[e] \in Playbook
  /\ \A e \in probed : breaker[e] = "open"

LEMMA EntitiesAreFinite == IsFiniteSet(Entity)
BY EntitiesAssumption, FS_Union DEF Entity

LEMMA ToldIsReason == ASSUME NEW k PROVE Told(k) \subseteq Reason
BY DEF Told, Reason

(* A treatment keeps the types of everything it changes.                   *)
LEMMA TreatKeepsTypes ==
  ASSUME TypeOK, NEW recovered, NEW probed, NEW book, NEW uncharted,
         Treatment(recovered, probed, book, uncharted), Treat(recovered, probed, book, uncharted)
  PROVE  /\ attempts' \in [Playbook -> Nat]
         /\ failures' \in [Entity -> 0..FAIL_THRESHOLD]
         /\ breaker' \in [Entity -> BreakerState]
         /\ cooling' \subseteq Entity
         /\ told' \in [Entity -> SUBSET Reason]
<1> DEFINE spent == {e \in DOMAIN book : Spent(book[e])}
           before == [e \in Entity |-> IF e \in recovered THEN RecordSuccess(breaker[e])
                                       ELSE IF e \in probed THEN "half_open" ELSE breaker[e]]
           tripped == {e \in spent : before[e] = "closed" /\ failures[e] + 1 >= FAIL_THRESHOLD}
<1>1. /\ DOMAIN book \subseteq Entity /\ tripped \subseteq Entity
  BY DEF Treatment
<1>2. attempts' \in [Playbook -> Nat]
  <2>1. ASSUME NEW k \in Playbook
        PROVE Cardinality({e \in DOMAIN book \ spent : book[e] = k}) \in Nat
    <3>1. {e \in DOMAIN book \ spent : book[e] = k} \subseteq Entity
      BY <1>1
    <3> QED BY <3>1, EntitiesAreFinite, FS_Subset, FS_CardinalityType
  <2>2. attempts' = [k \in Playbook |->
                       attempts[k] + Cardinality({e \in DOMAIN book \ spent : book[e] = k})]
    BY DEF Treat
  <2>3. \A k \in Playbook : attempts[k] \in Nat
    BY DEF TypeOK
  <2> HIDE DEF spent
  <2>4. ASSUME NEW k \in Playbook
        PROVE attempts[k] + Cardinality({e \in DOMAIN book \ spent : book[e] = k}) \in Nat
    BY <2>1, <2>3
  <2> QED BY <2>2, <2>4
<1>3. failures' \in [Entity -> 0..FAIL_THRESHOLD]
  <2>1. failures' = [e \in Entity |->
                       IF e \in recovered THEN 0
                       ELSE IF e \in spent /\ failures[e] < FAIL_THRESHOLD
                            THEN failures[e] + 1 ELSE failures[e]]
    BY DEF Treat
  <2> HIDE DEF spent
  <2>2. \A e \in Entity : failures[e] \in 0..FAIL_THRESHOLD
    BY DEF TypeOK
  <2>3. FAIL_THRESHOLD = 3
    BY DEF FAIL_THRESHOLD
  <2>4. ASSUME NEW e \in Entity
        PROVE (IF e \in recovered THEN 0
               ELSE IF e \in spent /\ failures[e] < FAIL_THRESHOLD
                    THEN failures[e] + 1 ELSE failures[e]) \in 0..FAIL_THRESHOLD
    BY <2>2, <2>3
  <2> QED BY <2>1, <2>4
<1>4. breaker' \in [Entity -> BreakerState]
  BY DEF Treat, TypeOK, BreakerState, RecordSuccess
<1>5. cooling' \subseteq Entity
  <2>1. cooling' = (cooling \ recovered) \cup tripped
    BY DEF Treat
  <2> HIDE DEF tripped
  <2> QED BY <1>1, <2>1 DEF TypeOK
<1>6. told' \in [Entity -> SUBSET Reason]
  <2>1. {"no playbook"} \subseteq Reason
    BY DEF Reason
  <2>2. told' = [e \in Entity |->
                   IF e \in recovered THEN {}
                   ELSE told[e] \cup (IF e \in DOMAIN book THEN Told(book[e]) ELSE {})
                                \cup (IF e \in uncharted THEN {"no playbook"} ELSE {})]
    BY DEF Treat
  <2> QED BY <2>1, <2>2, ToldIsReason DEF TypeOK
<1> QED BY <1>2, <1>3, <1>4, <1>5, <1>6

(* A treatment opens a breaker, or leaves one open, only of an entity      *)
(* about which a human has been told.                                      *)
LEMMA TreatTells ==
  ASSUME TypeOK, TrippedMeansTold, NEW recovered, NEW probed, NEW book, NEW uncharted,
         Treatment(recovered, probed, book, uncharted), Treat(recovered, probed, book, uncharted)
  PROVE  TrippedMeansTold'
<1> DEFINE spent == {e \in DOMAIN book : Spent(book[e])}
           before == [e \in Entity |-> IF e \in recovered THEN RecordSuccess(breaker[e])
                                       ELSE IF e \in probed THEN "half_open" ELSE breaker[e]]
           tripped == {e \in spent : before[e] = "closed" /\ failures[e] + 1 >= FAIL_THRESHOLD}
<1> SUFFICES ASSUME NEW e \in Entity, breaker'[e] # "closed" PROVE "exceeded" \in told'[e]
  BY DEF TrippedMeansTold
<1>1. told'[e] = IF e \in recovered THEN {}
                 ELSE told[e] \cup (IF e \in DOMAIN book THEN Told(book[e]) ELSE {})
                              \cup (IF e \in uncharted THEN {"no playbook"} ELSE {})
  BY DEF Treat
<1>2. breaker'[e] = IF e \in tripped THEN "open" ELSE before[e]
  BY DEF Treat
<1>3. e \notin recovered
  <2>1. e \in tripped => e \notin recovered
    BY DEF Treatment
  <2>2. e \in recovered => before[e] = "closed"
    BY DEF RecordSuccess
  <2> QED BY <1>2, <2>1, <2>2
<1>4. CASE e \in tripped
  <2>1. e \in DOMAIN book /\ Told(book[e]) = {"exceeded"}
    BY <1>4 DEF Told
  <2> QED BY <1>1, <1>3, <2>1
<1>5. CASE e \notin tripped
  <2>1. breaker[e] # "closed"
    BY <1>2, <1>3, <1>5 DEF Treatment
  <2> QED BY <1>1, <1>3, <2>1 DEF TrippedMeansTold
<1> QED BY <1>4, <1>5

(* The tick treats ill components only, and a reflex treats one VM.        *)
LEMMA TickIsTreatment ==
  ASSUME TypeOK, Reconcile
  PROVE  \E recovered, probed, book, uncharted :
           Treatment(recovered, probed, book, uncharted) /\ Treat(recovered, probed, book, uncharted)
<1> DEFINE ill == {c \in Component : health'[c] # "healthy"}
           probed == {c \in ill : breaker[c] = "open" /\ c \notin cooling}
           allowed == {c \in ill : breaker[c] # "open"} \cup probed
           treated == {c \in allowed : PlaybookFor(c) # {}}
           book == [c \in treated |-> CHOOSE k \in PlaybookFor(c) : TRUE]
<1>1. Treat(Component \ ill, probed, book, allowed \ treated)
  BY DEF Reconcile
<1>2. \A c \in treated : book[c] \in Playbook
  <2>1. ASSUME NEW c \in treated PROVE book[c] \in PlaybookFor(c)
    OBVIOUS
  <2>2. ASSUME NEW c PROVE PlaybookFor(c) \subseteq Playbook
    BY DEF PlaybookFor
  <2> QED BY <2>1, <2>2
<1>3. Treatment(Component \ ill, probed, book, allowed \ treated)
  BY <1>2 DEF Treatment, Entity
<1> HIDE DEF ill, probed, allowed, treated, book
<1> QED BY <1>1, <1>3

LEMMA ReflexIsTreatment ==
  ASSUME TypeOK, NEW e \in Vm
  PROVE  Treatment({}, {}, [x \in {e} |-> ProbeAndRestart], {})
BY DEF Treatment, Entity, Playbook

LEMMA InitTypes == Init => TypeOK
BY DEF Init, TypeOK, Entity, HealthState, BreakerState, DEAD_AFTER, FAIL_THRESHOLD

LEMMA NextTypes == TypeOK /\ [Next]_vars => TypeOK'
<1> SUFFICES ASSUME TypeOK, [Next]_vars PROVE TypeOK'
  OBVIOUS
<1>1. ASSUME NEW c \in Component, BeatMissed(c) PROVE TypeOK'
  BY <1>1 DEF BeatMissed, TypeOK, DEAD_AFTER
<1>2. ASSUME NEW c \in Component, NEW bad \in BOOLEAN, Heartbeat(c, bad) PROVE TypeOK'
  BY <1>2 DEF Heartbeat, TypeOK, EvaluateVitals, HealthState, DEAD_AFTER
<1>3. ASSUME NEW e \in Entity, CooldownElapses(e) PROVE TypeOK'
  BY <1>3 DEF CooldownElapses, TypeOK
<1>4. ASSUME Reconcile PROVE TypeOK'
  <2>1. health' \in [Component -> HealthState]
    BY <1>4 DEF Reconcile, Swept, EvaluateVitals, HealthState
  <2>2. UNCHANGED <<missed, vitals_bad, isolated>>
    BY <1>4 DEF Reconcile
  <2> QED BY <1>4, <2>1, <2>2, TickIsTreatment, TreatKeepsTypes DEF TypeOK
<1>5. ASSUME NEW t, NEW e \in Vm, Sense(t, e) PROVE TypeOK'
  <2>1. CASE t \in ContainmentReflex
    <3>1. e \in Entity
      BY DEF Entity
    <3>2. t # "agent_silence"
      BY <2>1 DEF ContainmentReflex
    <3> QED BY <1>5, <3>1, <3>2 DEF Sense, TypeOK
  <2>2. CASE t = "agent_silence"
    <3>1. Treat({}, {}, [x \in {e} |-> ProbeAndRestart], {}) /\ UNCHANGED <<missed, vitals_bad, health, isolated>>
      BY <1>5, <2>2 DEF Sense, ContainmentReflex
    <3> QED BY <3>1, ReflexIsTreatment, TreatKeepsTypes DEF TypeOK
  <2> QED BY <1>5, <2>1, <2>2 DEF Sense
<1>6. ASSUME UNCHANGED vars PROVE TypeOK'
  BY <1>6 DEF vars, TypeOK
<1> QED BY <1>1, <1>2, <1>3, <1>4, <1>5, <1>6 DEF Next

LEMMA NextTells == TypeOK /\ TrippedMeansTold /\ [Next]_vars => TrippedMeansTold'
<1> SUFFICES ASSUME TypeOK, TrippedMeansTold, [Next]_vars PROVE TrippedMeansTold'
  OBVIOUS
<1>1. ASSUME UNCHANGED <<breaker, told>> PROVE TrippedMeansTold'
  BY <1>1 DEF TrippedMeansTold
<1>2. ASSUME Reconcile PROVE TrippedMeansTold'
  BY <1>2, TickIsTreatment, TreatTells
<1>3. ASSUME NEW t, NEW e \in Vm, Sense(t, e) PROVE TrippedMeansTold'
  <2>1. CASE UNCHANGED <<breaker, told>>
    BY <1>1, <2>1
  <2>2. CASE Treat({}, {}, [x \in {e} |-> ProbeAndRestart], {})
    BY <2>2, ReflexIsTreatment, TreatTells
  <2> QED BY <1>3, <2>1, <2>2 DEF Sense
<1>4. ASSUME NEW c \in Component, BeatMissed(c) PROVE TrippedMeansTold'
  BY <1>1, <1>4 DEF BeatMissed
<1>5. ASSUME NEW c \in Component, NEW bad \in BOOLEAN, Heartbeat(c, bad) PROVE TrippedMeansTold'
  BY <1>1, <1>5 DEF Heartbeat
<1>6. ASSUME NEW e \in Entity, CooldownElapses(e) PROVE TrippedMeansTold'
  BY <1>1, <1>6 DEF CooldownElapses
<1>7. ASSUME UNCHANGED vars PROVE TrippedMeansTold'
  BY <1>1, <1>7 DEF vars
<1> QED BY <1>2, <1>3, <1>4, <1>5, <1>6, <1>7 DEF Next

-----------------------------------------------------------------------------
(* The state of the runtime keeps its type, for any finite sets of         *)
(* components and VMs (health_monitor.py, healing_orchestrator.py).        *)
THEOREM TypeCorrect == Spec => []TypeOK
BY InitTypes, NextTypes, PTL DEF Spec

(* Whenever a breaker keeps the loop away from an entity, a human has been *)
(* told that healing it is used up (healing_orchestrator.py:18).           *)
THEOREM NobodySilenced == Spec => []TrippedMeansTold
<1>1. Init => TrippedMeansTold
  BY DEF Init, TrippedMeansTold
<1> QED BY <1>1, TypeCorrect, NextTells, PTL DEF Spec
=============================================================================
