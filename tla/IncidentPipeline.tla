------------------------- MODULE IncidentPipeline -------------------------
(***************************************************************************)
(* What process_batch does with a batch besides queueing responses (that   *)
(* is CorrelationEngine): it scores each event, raises its alert, and      *)
(* decides a verdict from the window. The watchdog adds events of its own, *)
(* and the analysts work on the alert manager's queue: an alert for each   *)
(* event that matters, repeats of an event within the window collapsed     *)
(* into the alert already raised, and the triage calls in any order.       *)
(***************************************************************************)
EXTENDS Integers, Sequences, FiniteSets, SequencesExt

CONSTANTS Vm, EventType,
          DedupeWindow,      \* dedupe_window_s, in ticks
          TriageStatus,      \* the statuses analysts set: ACKNOWLEDGED,
                             \* ESCALATED, CLOSED, FALSE_POSITIVE
          MaxClock,          \* bound: ticks of a behaviour
          EventInput,        \* the events agents may send
          RollingWindow,     \* ROLLING_WINDOW_SECS, in ticks
          MaxEventsPerVm,    \* MAX_EVENTS_PER_VM
          RecentEvents,      \* how many events the decision looks at (25)
          BatchBound, AlertBound

VARIABLES clock,
          alerts,            \* _alerts, in the order of their numbers
          dedupe,            \* _dedupe: per VM and event type, when it was last raised
          window,            \* per VM, scored_events
          silent,            \* per VM, vm.silent; "unseen" before the first batch
          decision           \* per VM, the last verdict and whether its score isolates

-----------------------------------------------------------------------------
\* The triage queue.
ALERT_MIN_DELTA == 15

Key == Vm \X EventType
Never == -DedupeWindow       \* an absent key: last = 0, long before now

AlertInit == clock = 0 /\ alerts = <<>> /\ dedupe = [k \in Key |-> Never]

(* Mutant of IsRepeat: the end of the window belongs to it.                *)
IsRepeatAtEnd(last) == clock - last <= DedupeWindow

IsRepeat(last) == clock - last < DedupeWindow

(* raise_alert on a queue [alerts, dedupe].                                *)
RaiseAlert(q, vm, event_type, delta) ==
  IF delta < ALERT_MIN_DELTA \/ IsRepeat(q.dedupe[<<vm, event_type>>]) THEN q
  ELSE [alerts |-> Append(q.alerts, [vm_id |-> vm, event_type |-> event_type,
                                     created_ts |-> clock, status |-> "OPEN"]),
        dedupe |-> [q.dedupe EXCEPT ![<<vm, event_type>>] = clock]]

(* acknowledge, escalate, close and mark_false_positive look at nothing    *)
(* but the alert's existence; assign acknowledges an open alert only.      *)
Triage(i, status) ==
  /\ alerts' = [alerts EXCEPT ![i].status = status]
  /\ UNCHANGED <<clock, dedupe>>

Assign(i) == alerts[i].status = "OPEN" /\ Triage(i, "ACKNOWLEDGED")

TriageStep == \E i \in DOMAIN alerts :
                \/ \E s \in TriageStatus : Triage(i, s)
                \/ Assign(i)

-----------------------------------------------------------------------------
pipelineVars == <<clock, alerts, dedupe, window, silent, decision>>

Decisions == INSTANCE DecisionEngine

ISOLATION_THRESHOLD == 100
SCORE_CAP == 200
SCORE_WEIGHTS ==
  [crypto_spike |-> 50, entropy |-> 40, shadow |-> 40, process |-> 40, shell |-> 30,
   agent_silence |-> 25, velocity |-> 20, network |-> 15, heartbeat |-> 0, cred_dump |-> 50,
   driver_load |-> 45, cloud_exfil |-> 45, ransomware_esxi |-> 50, kerberoast |-> 35,
   rmm_tool |-> 30, powershell |-> 30, lolbin |-> 30, staging |-> 25, persistence |-> 25,
   mfa_fatigue |-> 25, cloud_auth |-> 20]

ResolveDelta(ev) ==
  CASE ev.event_type = "process" /\ ev.reason = "web_server_spawned_shell" -> SCORE_WEIGHTS.shell
    [] ev.event_type = "cred_dump" /\ ev.reason = "kerberoast" -> SCORE_WEIGHTS.kerberoast
    [] OTHER -> IF ev.event_type \in DOMAIN SCORE_WEIGHTS THEN SCORE_WEIGHTS[ev.event_type] ELSE 0

PipelineInit == /\ AlertInit
                /\ window = [v \in Vm |-> <<>>]
                /\ silent = [v \in Vm |-> "unseen"]
                /\ decision = [v \in Vm |-> [verdict |-> "none", isolates |-> FALSE]]

-----------------------------------------------------------------------------
LastOf(s, n) == SubSeq(s, IF Len(s) > n THEN Len(s) - n + 1 ELSE 1, Len(s))

(* An event in the deque with a maxlen.                                    *)
Scored(w, event_type, severity, delta) ==
  LastOf(Append(w, [event_type |-> event_type, severity |-> severity,
                    score_delta |-> delta, timestamp |-> clock]), MaxEventsPerVm)

(* The expired events are popped from the left.                            *)
PurgeExpired(w) ==
  LET fresh == {i \in DOMAIN w : w[i].timestamp >= clock - RollingWindow}
  IN IF fresh = {} THEN <<>> ELSE SubSeq(w, Min(fresh), Len(w))

Score(w) == LET total == FoldLeft(LAMBDA sum, e : sum + e.score_delta, 0, w)
            IN IF total > SCORE_CAP THEN SCORE_CAP ELSE total

(* The events of a batch before the first that raises (an interval that is *)
(* no number).                                                             *)
Readable(batch) ==
  LET bad == {i \in DOMAIN batch : batch[i].reason = "malformed"}
  IN SubSeq(batch, 1, IF bad = {} THEN Len(batch)
                      ELSE (CHOOSE i \in bad : \A j \in bad : i <= j) - 1)

Absorb(v, st, ev) ==
  IF ev.event_type = "heartbeat" THEN st
  ELSE [window |-> Scored(st.window, ev.event_type, ev.severity, ResolveDelta(ev)),
        queue |-> RaiseAlert(st.queue, v, ev.event_type, ResolveDelta(ev))]

(* The event the decision is made on: of the last few, the first with the  *)
(* highest severity.                                                       *)
TopEvent(w) ==
  LET recent == LastOf(w, RecentEvents)
      i == CHOOSE i \in DOMAIN recent : \A j \in DOMAIN recent :
             LET ri == Decisions!SevRank(recent[i].severity)
                 rj == Decisions!SevRank(recent[j].severity)
             IN ri > rj \/ (ri = rj /\ i <= j)
  IN IF recent = <<>> THEN [event_type |-> "none", severity |-> "low"]
     ELSE [event_type |-> recent[i].event_type, severity |-> recent[i].severity]

(* Mutant of FactOf: the score of the event instead of the window's.       *)
FactOfEvent(w) ==
  [event_type |-> TopEvent(w).event_type, severity |-> TopEvent(w).severity, score |-> 0,
   asset_criticality |-> "normal", has_standby |-> FALSE, reversible |-> TRUE,
   business_hours |-> TRUE, repeat_offender |-> FALSE]

(* The orchestrator has no has_standby, so the decision is made without.   *)
FactOf(w) ==
  [event_type |-> TopEvent(w).event_type, severity |-> TopEvent(w).severity, score |-> Score(w),
   asset_criticality |-> "normal", has_standby |-> FALSE, reversible |-> TRUE,
   business_hours |-> TRUE, repeat_offender |-> FALSE]

(* The loop over what could be read of a batch, event by event.            *)
Absorbed(v, batch) ==
  LET before == [window |-> window[v], queue |-> [alerts |-> alerts, dedupe |-> dedupe]]
      st[i \in 0..Len(batch)] == IF i = 0 THEN before ELSE Absorb(v, st[i - 1], batch[i])
  IN st[Len(batch)]

ProcessBatch(v, batch) ==
  LET read == Readable(batch)
      after == Absorbed(v, read)
      kept == PurgeExpired(after.window)
  IN /\ silent' = [silent EXCEPT ![v] = "no"]
     /\ alerts' = after.queue.alerts
     /\ dedupe' = after.queue.dedupe
     /\ IF read = batch
        THEN /\ window' = [window EXCEPT ![v] = kept]
             /\ decision' = [decision EXCEPT ![v] =
                               [verdict |-> Decisions!Decide(FactOf(kept)),
                                isolates |-> Score(kept) >= ISOLATION_THRESHOLD]]
        ELSE /\ window' = [window EXCEPT ![v] = after.window]
             /\ UNCHANGED decision
     /\ UNCHANGED clock

(* The sweep scores the silence of an agent; it raises no alert and        *)
(* decides no verdict.                                                     *)
WatchdogSweep(v) ==
  /\ silent[v] = "no"
  /\ silent' = [silent EXCEPT ![v] = "yes"]
  /\ window' = [window EXCEPT ![v] = PurgeExpired(
                  Scored(window[v], "agent_silence", "high", SCORE_WEIGHTS.agent_silence))]
  /\ UNCHANGED <<clock, alerts, dedupe, decision>>

TimePasses == /\ clock < MaxClock
              /\ clock' = clock + 1
              /\ UNCHANGED <<alerts, dedupe, window, silent, decision>>

Batches == UNION {[1..n -> EventInput] : n \in 1..BatchBound}

PipelineNext ==
  \/ \E v \in Vm, b \in Batches : ProcessBatch(v, b) /\ Len(alerts') <= AlertBound
  \/ \E v \in Vm : WatchdogSweep(v)
  \/ TriageStep /\ UNCHANGED <<window, silent, decision>>
  \/ TimePasses

-----------------------------------------------------------------------------
(* Folding repeats loses no event: every event of the window that is worth *)
(* an alert has one of its kind, raised less than the window before it     *)
(* (also when the batch was cut short behind it), and two alerts of one    *)
(* kind are a window apart. The watchdog's own events are not alerted.     *)
AlertCoversEvents ==
  /\ \A v \in Vm : \A e \in {window[v][i] : i \in DOMAIN window[v]} :
       e.score_delta >= ALERT_MIN_DELTA /\ e.event_type # "agent_silence" =>
         \E i \in DOMAIN alerts : /\ alerts[i].vm_id = v /\ alerts[i].event_type = e.event_type
                                  /\ e.timestamp - alerts[i].created_ts \in 0..(DedupeWindow - 1)
  /\ \A i, j \in DOMAIN alerts :
       i < j /\ alerts[i].vm_id = alerts[j].vm_id /\ alerts[i].event_type = alerts[j].event_type =>
         alerts[j].created_ts - alerts[i].created_ts >= DedupeWindow

(* The engine queues isolation by the score alone (control_center.py:322), *)
(* the verdict shown beside it and written to the audit log comes from the *)
(* scorecard: whenever the score isolates, the verdict is to contain or to *)
(* have a human decide, never to watch or to file a ticket.                *)
VerdictMatchesIsolation ==
  \A v \in Vm : decision[v].isolates => decision[v].verdict \in {"contain", "escalate"}
=============================================================================
