-------------------------- MODULE TelemetryChannel --------------------------
(***************************************************************************)
(* The telemetry path of one agent: the agent's TelemetryTunnel            *)
(* (src/guest_production_vm/sentry_agent.py), the frames its SecureSender   *)
(* seals and the control center's SecureReceiver opens                     *)
(* (src/common/secure_channel.py), and the handler threads of the          *)
(* telemetry server (src/host_control_plane/control_center.py).            *)
(*                                                                         *)
(* Cryptography is abstracted: a frame that reaches a handler was sealed   *)
(* by the agent and is opened with the agent's key.  A nonce is the serial *)
(* number of its frame, so no two frames share one.  Every connection has  *)
(* a handler thread of its own: frames are opened in any order and, once   *)
(* opened, processed in any order.                                         *)
(***************************************************************************)
EXTENDS Integers, Sequences

CONSTANTS
    QueueMax,         \* maxlen of the tunnel's live queue
    RetryMax,         \* maxlen of the tunnel's retry buffer
    CacheSize,        \* REPLAY_CACHE_SIZE
    MaxSkew,          \* max_skew, in ticks
    CountersPerTick,  \* counter values per tick of the clock (1000 a second)
    MaxProduced,      \* BOUND: events the agent observes
    MaxFaults,        \* BOUND: only the first MaxFaults frames may fail or be lost
    MaxClock,         \* BOUND: ticks of the clock
    Faults            \* which faults the environment injects

Fault == {"send_fails", "send_lost", "reorder", "duplicate", "delay",
          "agent_restart", "controller_restart"}

ASSUME SizesAssumption ==
    /\ QueueMax \in Nat \ {0}
    /\ RetryMax \in Nat \ {0}
    /\ CacheSize \in Nat \ {0}
    /\ MaxSkew \in Nat
    /\ CountersPerTick \in Nat \ {0}
ASSUME BoundsAssumption ==
    MaxProduced \in Nat /\ MaxFaults \in Nat /\ MaxClock \in Nat
ASSUME FaultsAssumption == Faults \subseteq Fault

VARIABLES
    produced,      \* number of events observed by the agent's sensors
    queue,         \* TelemetryTunnel._queue
    retry,         \* TelemetryTunnel._retry
    batch,         \* the batch the sender thread is transmitting
    sender,        \* sender thread: "draining", "sending" or "sleeping"
    counter,       \* SecureSender._counter
    sealed,        \* number of frames sealed, the source of nonces
    wire,          \* frames in flight or waiting for a handler
    last_counter,  \* SecureReceiver._last_counter of the agent
    nonce_cache,   \* SecureReceiver._nonce_cache of the agent, oldest first
    handling,      \* frames opened by a handler and not yet processed
    delivered,     \* history: events given to the running engine's process_batch
    opened,        \* history: counters of the frames opened since the
                   \* controller started
    clock          \* wall clock, shared by both hosts

agentVars == <<produced, queue, retry, batch, sender, counter, sealed>>
receiverVars == <<last_counter, nonce_cache, handling, delivered, opened>>
vars == <<produced, queue, retry, batch, sender, counter, sealed, wire, last_counter,
          nonce_cache, handling, delivered, opened, clock>>

(* Mutant of Newest: the buffers are not bounded. *)
Unbounded(s, n) == s

(* deque(maxlen=n): the oldest entries give way. *)
Newest(s, n) == IF Len(s) > n THEN SubSeq(s, Len(s) - n + 1, Len(s)) ELSE s
Entries(s) == {s[i] : i \in DOMAIN s}

Init ==
    /\ produced = 0
    /\ queue = <<>> /\ retry = <<>> /\ batch = <<>>
    /\ sender = "draining"
    /\ counter = 0
    /\ sealed = 0
    /\ wire = {}
    /\ last_counter = -1
    /\ nonce_cache = <<>>
    /\ handling = {}
    /\ delivered = <<>>
    /\ opened = {}
    /\ clock = 0

-----------------------------------------------------------------------------
(* The agent.                                                              *)

(* enqueue, called by the monitors' threads. *)
Enqueue ==
    /\ produced < MaxProduced
    /\ produced' = produced + 1
    /\ queue' = Newest(Append(queue, produced + 1), QueueMax)
    /\ UNCHANGED <<retry, batch, sender, counter, sealed, wire, receiverVars, clock>>

(* Mutant of Drain: live events first, retries when there are none. *)
DrainLiveFirst ==
    /\ sender = "draining"
    /\ retry \o queue # <<>>
    /\ batch' = IF queue # <<>> THEN queue ELSE retry
    /\ retry' = IF queue # <<>> THEN retry ELSE <<>>
    /\ queue' = <<>>
    /\ sender' = "sending"
    /\ UNCHANGED <<produced, counter, sealed, wire, receiverVars, clock>>

(* _sender_loop under the lock: retries first, then live events. *)
Drain ==
    /\ sender = "draining"
    /\ retry \o queue # <<>>
    /\ batch' = retry \o queue
    /\ retry' = <<>> /\ queue' = <<>>
    /\ sender' = "sending"
    /\ UNCHANGED <<produced, counter, sealed, wire, receiverVars, clock>>

(* seal: the counter moves before the frame is known to be sent. *)
Seal ==
    /\ sender = "sending"
    /\ sender' = "sleeping"
    /\ counter' = counter + 1
    /\ sealed' = sealed + 1
    /\ batch' = <<>>
    /\ UNCHANGED <<produced, queue, receiverVars, clock>>

Frame == [counter |-> counter + 1, nonce |-> sealed + 1, ts |-> clock, events |-> batch]

(* Mutant of SendFrame: what was sent is kept for a retry. *)
SendAndRetry ==
    /\ Seal
    /\ wire' = wire \cup {Frame}
    /\ retry' = Newest(retry \o batch, RetryMax)

(* _transmit returns: the frame is on its way. *)
SendFrame ==
    /\ Seal
    /\ wire' = wire \cup {Frame}
    /\ UNCHANGED retry

(* ... or it was accepted by the kernel and never reaches a handler. *)
SendLost ==
    /\ "send_lost" \in Faults /\ sealed < MaxFaults
    /\ Seal
    /\ UNCHANGED <<wire, retry>>

(* Mutant of SendFails: what could not be sent is dropped. *)
SendFailsAndDrops ==
    /\ "send_fails" \in Faults /\ sealed < MaxFaults
    /\ Seal
    /\ UNCHANGED <<wire, retry>>

(* ... or it raises: the controller cannot have the whole frame, and the    *)
(* events go to the retry buffer.                                          *)
SendFails ==
    /\ "send_fails" \in Faults /\ sealed < MaxFaults
    /\ Seal
    /\ retry' = Newest(retry \o batch, RetryMax)
    /\ UNCHANGED wire

(* time.sleep(1.0): at least a tick passes between two frames. *)
LaterTick == IF clock < MaxClock THEN clock + 1 ELSE clock

Wake ==
    /\ sender = "sleeping"
    /\ "agent_restart" \in Faults => clock < MaxClock
    /\ clock' = LaterTick
    /\ sender' = "draining"
    /\ UNCHANGED <<produced, queue, retry, batch, counter, sealed, wire, receiverVars>>

(* Mutant of AgentRestart: the counter starts from zero. *)
RestartFromZero ==
    /\ "agent_restart" \in Faults /\ clock < MaxClock
    /\ clock' = clock + 1
    /\ counter' = 0
    /\ queue' = <<>> /\ retry' = <<>> /\ batch' = <<>>
    /\ sender' = "draining"
    /\ UNCHANGED <<produced, sealed, wire, receiverVars>>

(* The agent's process dies and starts again: its buffers are gone, and its *)
(* counter starts from the clock.                                          *)
AgentRestart ==
    /\ "agent_restart" \in Faults /\ clock < MaxClock
    /\ clock' = clock + 1
    /\ counter' = CountersPerTick * (clock + 1)
    /\ queue' = <<>> /\ retry' = <<>> /\ batch' = <<>>
    /\ sender' = "draining"
    /\ UNCHANGED <<produced, sealed, wire, receiverVars>>

-----------------------------------------------------------------------------
(* The control center.                                                     *)

(* Without the fault, TCP and prompt handlers give frames in the order sent. *)
InOrder(f) == handling = {} /\ \A g \in wire : f.counter <= g.counter
Arrives(f) == f \in wire /\ ("reorder" \in Faults \/ InOrder(f))
Consumed(f) == IF "duplicate" \in Faults THEN wire ELSE wire \ {f}

Fresh(f) == clock - f.ts <= MaxSkew /\ f.ts - clock <= MaxSkew

(* Mutant of Replayed: counters are not compared. *)
NonceSeen(f) == f.nonce \in Entries(nonce_cache)

Replayed(f) == f.nonce \in Entries(nonce_cache) \/ f.counter <= last_counter

(* SecureReceiver.open accepts: counter and nonce are recorded under the    *)
(* receiver's lock; the handler has yet to call process_batch.             *)
Open(f) ==
    /\ Arrives(f)
    /\ Fresh(f) /\ ~Replayed(f)
    /\ last_counter' = f.counter
    /\ nonce_cache' = Newest(Append(nonce_cache, f.nonce), CacheSize)
    /\ handling' = handling \cup {f}
    /\ opened' = opened \cup {f.counter}
    /\ wire' = Consumed(f)
    /\ UNCHANGED <<agentVars, delivered, clock>>

(* ... or it raises AuthError: the handler drops the frame.  The agent      *)
(* hears nothing of it.                                                    *)
Reject(f) ==
    /\ Arrives(f)
    /\ ~Fresh(f) \/ Replayed(f)
    /\ wire' = Consumed(f)
    /\ UNCHANGED <<agentVars, receiverVars, clock>>

(* engine.process_batch(payload). *)
Process(f) ==
    /\ f \in handling
    /\ handling' = handling \ {f}
    /\ delivered' = delivered \o f.events
    /\ UNCHANGED <<agentVars, wire, last_counter, nonce_cache, opened, clock>>

(* The control center restarts: counters, nonces and the engine's state are *)
(* only in memory.                                                         *)
ControllerRestart ==
    /\ "controller_restart" \in Faults /\ clock < MaxClock
    /\ clock' = clock + 1
    /\ last_counter' = -1
    /\ nonce_cache' = <<>>
    /\ handling' = {}
    /\ delivered' = <<>>
    /\ opened' = {}
    /\ UNCHANGED <<agentVars, wire>>

(* Time passes while a frame is on its way. *)
Tick ==
    /\ "delay" \in Faults /\ clock < MaxClock
    /\ clock' = clock + 1
    /\ UNCHANGED <<agentVars, wire, receiverVars>>

Receive(f) == Open(f) \/ Reject(f) \/ Process(f)

Next ==
    \/ Enqueue \/ Drain \/ SendFrame \/ SendLost \/ SendFails \/ Wake \/ AgentRestart
    \/ \E f \in wire \cup handling : Receive(f)
    \/ ControllerRestart \/ Tick

(* The sender thread loops for ever, a handler finishes what it received,   *)
(* and an outage of the controller does not last for ever (SF).            *)
Fairness ==
    /\ WF_vars(Drain) /\ WF_vars(Wake)
    /\ SF_vars(SendFrame)
    /\ WF_vars(\E f \in wire \cup handling : Receive(f))

Spec == Init /\ [][Next]_vars
FairSpec == Spec /\ Fairness

-----------------------------------------------------------------------------
(* Every variable has its type; the buffers keep within their maxlen.      *)
EventNo == Nat \ {0}
FrameType == [counter : Nat, nonce : Nat, ts : Nat, events : Seq(EventNo)]

TypeOK ==
    /\ produced \in Nat /\ counter \in Nat /\ sealed \in Nat /\ clock \in Nat
    /\ queue \in Seq(EventNo) /\ Len(queue) <= QueueMax
    /\ retry \in Seq(EventNo) /\ Len(retry) <= RetryMax
    /\ batch \in Seq(EventNo)
    /\ sender \in {"draining", "sending", "sleeping"}
    /\ wire \subseteq FrameType
    /\ last_counter \in Int
    /\ nonce_cache \in Seq(Nat) /\ Len(nonce_cache) <= CacheSize
    /\ handling \subseteq FrameType
    /\ delivered \in Seq(EventNo)
    /\ opened \subseteq Nat

(* A frame just sealed is never a counter regression for the receiver: no   *)
(* counter the receiver has recorded, nor any on the wire, is ahead of the  *)
(* agent's, although a restarted agent forgets its counter and starts from  *)
(* the clock (secure_channel.py:187, 193-194, 297-299).                    *)
CounterStaysAhead ==
    /\ last_counter <= counter
    /\ \A f \in wire : f.counter <= counter

(* The agent never overtakes itself: of two frames on the wire the one with *)
(* the larger counter holds later events, through failed transmissions,     *)
(* retries and restarts (sentry_agent.py:133-137, 156-160, 176-180).       *)
FramesInEventOrder ==
    \A f, g \in wire : f.counter < g.counter =>
        \A d \in Entries(f.events), e \in Entries(g.events) : d < e

(* The replay check does not depend on the size of the nonce cache: a       *)
(* cached nonce belongs to a frame whose counter is refused anyway, so      *)
(* evicting it admits nothing (secure_channel.py:292-300, 318-340).        *)
EvictionIsHarmless ==
    \A f \in wire : f.nonce \in Entries(nonce_cache) => f.counter <= last_counter

(* A receiver opens a counter value once, whatever is duplicated, delayed   *)
(* or reordered on the wire (secure_channel.py:30-31, 292-300).            *)
OpenedOnce == [][\A c \in opened' \ opened : \A d \in opened : d < c]_vars

(* The telemetry path is an at-most-once event log (TelemetryLog): whatever *)
(* is retried, duplicated, reordered or delayed, a running engine processes *)
(* no event twice and none that was not observed (sentry_agent.py:152-182;  *)
(* secure_channel.py:246-315).                                             *)
Log == INSTANCE TelemetryLog
AtMostOnceLog == Log!Spec

(* With an ordered network and a controller that answers again and again,   *)
(* no event is lost: what the agent could not send it sends later           *)
(* (sentry_agent.py:152-180).                                              *)
EventuallyDelivered ==
    \A e \in 1..MaxProduced : produced >= e ~> e \in Entries(delivered)
=============================================================================
