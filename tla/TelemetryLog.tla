---------------------------- MODULE TelemetryLog ----------------------------
(***************************************************************************)
(* What the telemetry path promises the correlation engine: the events of  *)
(* one agent, numbered in the order the agent observed them, reach the     *)
(* running engine at most once each, and never before they were observed.  *)
(* Events may be lost, and batches may arrive out of order.                *)
(***************************************************************************)
EXTENDS Naturals, Sequences

VARIABLES
    produced,   \* number of events the agent has observed
    delivered   \* the events given to process_batch since the engine started

vars == <<produced, delivered>>

Init == produced = 0 /\ delivered = <<>>

Observe ==
    /\ produced' = produced + 1
    /\ UNCHANGED delivered

(* A batch of observed events is appended, none of them delivered before.  *)
Deliver ==
    /\ Len(delivered) < Len(delivered')
    /\ SubSeq(delivered', 1, Len(delivered)) = delivered
    /\ \A i \in Len(delivered) + 1 .. Len(delivered') :
          /\ delivered'[i] \in 1..produced
          /\ \A j \in 1..Len(delivered') : delivered'[i] = delivered'[j] => i = j
    /\ UNCHANGED produced

(* The engine restarts and has seen nothing. *)
Restart ==
    /\ delivered' = <<>>
    /\ UNCHANGED produced

Next == Observe \/ Deliver \/ Restart

Spec == Init /\ [][Next]_vars
=============================================================================
