-------------------------- MODULE BehavioralEngine --------------------------
(***************************************************************************)
(* The behavioural engine: four models that learn from every event and,    *)
(* when detecting, first judge it; and the baseline that a training run    *)
(* saves and a later run loads.                                            *)
(***************************************************************************)
EXTENDS Integers, Sequences, FiniteSets, FiniteSetsExt, SequencesExt, BagsExt

CONSTANTS Entity, Program, Command,
          Bytes,                      \* the sizes of transfers
          MinSamples, MadMultiplier,  \* of the volume model (scale 1.4826 taken as 1)
          VolumeHistory,              \* samples kept (500)
          MinGlobalUsers,             \* of the process model; rarity_threshold is below one user
          MinTransitions, MinFromPrev,\* of the command model; rare_threshold likewise
          BehaveBound                 \* bound: events of a life

VARIABLES model,          \* what was learned: procs, volumes, transitions, last_cmd
          behave_findings,
          baseline,       \* the saved file, if there is one (a set of at most one)
          learned         \* history: the events the model stands for, in order

behaveVars == <<model, behave_findings, baseline, learned>>

Nothing == [procs |-> {}, volumes |-> [e \in Entity |-> <<>>], transitions |-> EmptyBag,
            last_cmd |-> <<>>]

BehaveInit == model = Nothing /\ behave_findings = <<>> /\ baseline = {} /\ learned = <<>>

BehaveEvent ==
       [type : {"process"}, entity : Entity, name : Program]
  \cup [type : {"transfer"}, entity : Entity, bytes : Bytes]
  \cup [type : {"command"}, entity : Entity, cmd : Command]

-----------------------------------------------------------------------------
LearnProcess(md, ev) == [md EXCEPT !.procs = @ \cup {<<ev.entity, ev.name>>}]

LearnTransfer(md, ev) ==
  LET h == Append(md.volumes[ev.entity], ev.bytes)
  IN [md EXCEPT !.volumes[ev.entity] =
        IF Len(h) > VolumeHistory THEN SubSeq(h, Len(h) - VolumeHistory + 1, Len(h)) ELSE h]

LearnCommand(md, ev) ==
  [md EXCEPT !.transitions = IF ev.entity \in DOMAIN md.last_cmd
                             THEN @ (+) SetToBag({<<ev.entity, md.last_cmd[ev.entity], ev.cmd>>}) ELSE @,
             !.last_cmd = (ev.entity :> ev.cmd) @@ @]

Learn(md, ev) == CASE ev.type = "process" -> LearnProcess(md, ev)
                   [] ev.type = "transfer" -> LearnTransfer(md, ev)
                   [] ev.type = "command" -> LearnCommand(md, ev)

-----------------------------------------------------------------------------
RareProcess(md, ev) ==
  LET everyone == {p[1] : p \in md.procs}
  IN /\ <<ev.entity, ev.name>> \notin md.procs
     /\ Cardinality(everyone) >= MinGlobalUsers
     /\ \A p \in md.procs : p[2] # ev.name

(* Twice the median, to stay with integers.                                *)
Median2(values) ==
  LET s == SortSeq(values, <)
      mid == Len(s) \div 2
  IN IF Len(s) % 2 = 1 THEN 2 * s[mid + 1] ELSE s[mid] + s[mid + 1]

Abs(x) == IF x < 0 THEN -x ELSE x

VolumeOutlier(md, ev) ==
  LET h == md.volumes[ev.entity]
      med2 == Median2(h)
      mad4 == Median2([i \in DOMAIN h |-> Abs(2 * h[i] - med2)])
      scaled4 == IF mad4 > 0 THEN mad4 ELSE 4
  IN /\ Len(h) >= MinSamples
     /\ 2 * Abs(2 * ev.bytes - med2) > MadMultiplier * scaled4
     /\ 2 * ev.bytes > med2

OddCommand(md, ev) ==
  /\ BagCardinality(md.transitions) >= MinTransitions
  /\ ev.entity \in DOMAIN md.last_cmd
  /\ LET prev == md.last_cmd[ev.entity]
         fromPrev == {t \in DOMAIN md.transitions : t[2] = prev}
     IN /\ FoldSet(LAMBDA t, sum : sum + md.transitions[t], 0, fromPrev) >= MinFromPrev
        /\ \A t \in fromPrev : t[3] # ev.cmd

Anomalous(md, ev) == CASE ev.type = "process" -> RareProcess(md, ev)
                       [] ev.type = "transfer" -> VolumeOutlier(md, ev)
                       [] ev.type = "command" -> OddCommand(md, ev)

-----------------------------------------------------------------------------
(* process_event: judged by what was known before, then learned, whether   *)
(* it was found strange or not.                                            *)
ProcessEvent(ev, detect) ==
  /\ Len(learned) < BehaveBound
  /\ model' = Learn(model, ev)
  /\ behave_findings' = IF detect /\ Anomalous(model, ev) THEN Append(behave_findings, ev)
                        ELSE behave_findings
  /\ learned' = Append(learned, ev)
  /\ UNCHANGED baseline

SaveBaseline == /\ baseline' = {[model |-> model, learned |-> learned]}
                /\ UNCHANGED <<model, behave_findings, learned>>

(* Mutant of Loaded: the last commands stay behind.                        *)
LoadedWithoutLast(state) == [state EXCEPT !.last_cmd = <<>>]

(* load_baseline, into the fresh engine of a new process.                  *)
Loaded(state) == state

Restart == \E saved \in baseline :
             /\ model' = Loaded(saved.model) /\ learned' = saved.learned
             /\ behave_findings' = <<>> /\ UNCHANGED baseline

BehaveNext == \/ \E ev \in BehaveEvent, detect \in BOOLEAN : ProcessEvent(ev, detect)
              \/ SaveBaseline \/ Restart

-----------------------------------------------------------------------------
(* The model is what its events teach, in order and each once: an event    *)
(* that was judged teaches what one of a training run does, and a run that *)
(* loads a baseline knows what the run that saved it knew, so nothing done *)
(* before a save is strange after a load.                                  *)
ModelMatchesEvents ==
  /\ model = FoldLeft(Learn, Nothing, learned)
  /\ \A i \in DOMAIN learned :
       learned[i].type = "process" => ~Anomalous(model, learned[i])
=============================================================================
