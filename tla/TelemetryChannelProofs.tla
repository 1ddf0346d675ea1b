----------------------- MODULE TelemetryChannelProofs -----------------------
(***************************************************************************)
(* Safety of the telemetry path for every size of the buffers and of the   *)
(* nonce cache, every clock rate and every combination of faults.          *)
(***************************************************************************)
EXTENDS TelemetryChannel, SequenceTheorems, TLAPS

(* deque(maxlen=n) keeps a sequence a sequence and adds no entry.          *)
LEMMA NewestType ==
    ASSUME NEW S, NEW s \in Seq(S), NEW n \in Nat \ {0}
    PROVE  /\ Newest(s, n) \in Seq(S)
           /\ Len(Newest(s, n)) <= n
           /\ Entries(Newest(s, n)) \subseteq Entries(s)
<1>1. CASE Len(s) <= n
  BY <1>1 DEF Newest, Entries
<1>2. CASE Len(s) > n
  <2> DEFINE from == Len(s) - n + 1
  <2>1. /\ Newest(s, n) = SubSeq(s, from, Len(s))
        /\ from \in 1..Len(s)
    BY <1>2 DEF Newest
  <2>2. /\ Len(Newest(s, n)) = n
        /\ Newest(s, n) \in Seq(S)
        /\ \A i \in 1..n : Newest(s, n)[i] = s[from + i - 1] /\ from + i - 1 \in 1..Len(s)
    BY <1>2, <2>1, SubSeqProperties
  <2>3. DOMAIN Newest(s, n) = 1..n /\ DOMAIN s = 1..Len(s)
    BY <2>2
  <2>4. ASSUME NEW x \in Entries(Newest(s, n))
        PROVE  x \in Entries(s)
    <3>1. PICK i \in 1..n : x = Newest(s, n)[i]
      BY <2>3, <2>4 DEF Entries
    <3>2. x = s[from + i - 1] /\ from + i - 1 \in DOMAIN s
      BY <2>2, <2>3, <3>1
    <3> QED
      BY <3>2 DEF Entries
  <2> QED
    BY <2>2, <2>4
<1> QED
  BY <1>1, <1>2

(* Appending one entry adds that entry. *)
LEMMA EntriesOfAppend ==
    ASSUME NEW S, NEW s \in Seq(S), NEW e \in S
    PROVE  Entries(Append(s, e)) = Entries(s) \cup {e}
<1>1. /\ Len(Append(s, e)) = Len(s) + 1
      /\ \A i \in 1..Len(s) : Append(s, e)[i] = s[i]
      /\ Append(s, e)[Len(s) + 1] = e
      /\ DOMAIN Append(s, e) = 1..(Len(s) + 1)
      /\ DOMAIN s = 1..Len(s)
  BY AppendProperties
<1> QED
  BY <1>1 DEF Entries

-----------------------------------------------------------------------------
(* Every variable keeps its type; the buffers keep within their maxlen.    *)
THEOREM TypeCorrect == Spec => []TypeOK
<1>1. Init => TypeOK
  BY SizesAssumption DEF Init, TypeOK
<1>2. TypeOK /\ [Next]_vars => TypeOK'
  <2> SUFFICES ASSUME TypeOK, [Next]_vars
               PROVE  TypeOK'
    OBVIOUS
  <2> USE SizesAssumption, BoundsAssumption DEF TypeOK, EventNo, agentVars, receiverVars
  <2>1. CASE Enqueue
    <3>1. Append(queue, produced + 1) \in Seq(EventNo)
      BY AppendProperties
    <3>2. queue' \in Seq(EventNo) /\ Len(queue') <= QueueMax
      BY <2>1, <3>1, NewestType DEF Enqueue
    <3> QED
      BY <2>1, <3>2 DEF Enqueue
  <2>2. CASE Drain
    <3>1. batch' \in Seq(EventNo)
      BY <2>2, ConcatProperties DEF Drain
    <3> QED
      BY <2>2, <3>1 DEF Drain
  <2>3. CASE SendFrame
    <3>1. Frame \in FrameType
      BY DEF Frame, FrameType
    <3> QED
      BY <2>3, <3>1 DEF SendFrame, Seal
  <2>4. CASE SendLost
    BY <2>4 DEF SendLost, Seal
  <2>5. CASE SendFails
    <3>1. retry \o batch \in Seq(EventNo)
      BY ConcatProperties
    <3>2. retry' \in Seq(EventNo) /\ Len(retry') <= RetryMax
      BY <2>5, <3>1, NewestType DEF SendFails
    <3> QED
      BY <2>5, <3>2 DEF SendFails, Seal
  <2>6. CASE Wake
    BY <2>6 DEF Wake, LaterTick
  <2>7. CASE AgentRestart
    BY <2>7 DEF AgentRestart
  <2>8. ASSUME NEW f \in wire \cup handling, Open(f)
        PROVE  TypeOK'
    <3>1. f \in FrameType
      BY DEF FrameType
    <3>2. Append(nonce_cache, f.nonce) \in Seq(Nat)
      BY <3>1, AppendProperties DEF FrameType
    <3>3. nonce_cache' \in Seq(Nat) /\ Len(nonce_cache') <= CacheSize
      BY <2>8, <3>2, NewestType DEF Open
    <3>4. f.counter \in Nat
      BY <3>1 DEF FrameType
    <3>5. wire' \subseteq FrameType /\ handling' \subseteq FrameType
      BY <2>8, <3>1 DEF Open, Consumed
    <3>6. UNCHANGED <<produced, counter, sealed, clock, queue, retry, batch, sender, delivered>>
      BY <2>8 DEF Open
    <3>7. last_counter' = f.counter /\ opened' = opened \cup {f.counter}
      BY <2>8 DEF Open
    <3>8. last_counter' \in Int
      BY <3>4, <3>7
    <3>9. opened' \subseteq Nat
      BY <3>4, <3>7
    <3> QED
      BY <3>3, <3>5, <3>6, <3>8, <3>9
  <2>9. ASSUME NEW f \in wire \cup handling, Reject(f)
        PROVE  TypeOK'
    BY <2>9 DEF Reject, Consumed
  <2>10. ASSUME NEW f \in wire \cup handling, Process(f)
         PROVE  TypeOK'
    <3>1. f.events \in Seq(EventNo)
      BY <2>10 DEF Process, FrameType
    <3>2. delivered' \in Seq(EventNo)
      BY <2>10, <3>1, ConcatProperties DEF Process
    <3> QED
      BY <2>10, <3>2 DEF Process
  <2>11. CASE ControllerRestart
    BY <2>11 DEF ControllerRestart
  <2>12. CASE Tick
    BY <2>12 DEF Tick
  <2>13. CASE UNCHANGED vars
    BY <2>13 DEF vars
  <2> QED
    BY <2>1, <2>2, <2>3, <2>4, <2>5, <2>6, <2>7, <2>8, <2>9, <2>10, <2>11, <2>12, <2>13
       DEF Next, Receive
<1> QED
  BY <1>1, <1>2, PTL DEF Spec

-----------------------------------------------------------------------------
(* The replay window.  A nonce names one frame, the cache holds nonces that *)
(* were sealed, and whatever was opened or is cached lies at or below       *)
(* last_counter.                                                           *)
ReplayInv ==
    /\ \A f \in wire : f.nonce <= sealed
    /\ \A f, g \in wire : f.nonce = g.nonce => f = g
    /\ \A n \in Entries(nonce_cache) : n <= sealed
    /\ \A c \in opened : c <= last_counter
    /\ EvictionIsHarmless

(* Steps that put no frame on the wire and leave the receiver alone. *)
LEMMA ReceiverUntouched ==
    ASSUME TypeOK, ReplayInv, wire' \subseteq wire, sealed' \in {sealed, sealed + 1},
           UNCHANGED <<last_counter, nonce_cache, opened>>
    PROVE  ReplayInv'
<1>1. Entries(nonce_cache) \subseteq Nat /\ \A f \in wire : f.nonce \in Nat
  BY DEF TypeOK, FrameType, Entries
<1>2. Entries(nonce_cache') = Entries(nonce_cache)
  OBVIOUS
<1>3. sealed \in Nat /\ sealed <= sealed' /\ sealed' \in Nat
  BY DEF TypeOK
<1>4. /\ \A f \in wire' : f.nonce <= sealed'
      /\ \A n \in Entries(nonce_cache') : n <= sealed'
  BY <1>1, <1>2, <1>3 DEF ReplayInv
<1> QED
  BY <1>2, <1>4 DEF ReplayInv, EvictionIsHarmless

(* What a receiver and its nonce cache know of each other, always.         *)
THEOREM ReplayInvHolds == Spec => []ReplayInv
<1>1. Init => ReplayInv
  BY DEF Init, ReplayInv, EvictionIsHarmless, Entries
<1>2. TypeOK /\ ReplayInv /\ [Next]_vars => ReplayInv'
  <2> SUFFICES ASSUME TypeOK, ReplayInv, [Next]_vars
               PROVE  ReplayInv'
    OBVIOUS
  <2> USE DEF agentVars, receiverVars
  <2>0. Entries(nonce_cache) \subseteq Nat /\ \A f \in wire : f.nonce \in Nat /\ f.counter \in Nat
    BY DEF TypeOK, FrameType, Entries
  <2>1. CASE Enqueue \/ Drain \/ SendLost \/ SendFails \/ Wake \/ AgentRestart \/ Tick
             \/ UNCHANGED vars
    <3>1. /\ wire' = wire /\ sealed' \in {sealed, sealed + 1}
          /\ UNCHANGED <<last_counter, nonce_cache, opened>>
      BY <2>1 DEF Enqueue, Drain, SendLost, SendFails, Seal, Wake, AgentRestart, Tick, vars
    <3> QED
      BY <3>1, ReceiverUntouched
  <2>2. CASE SendFrame
    <3>1. /\ wire' = wire \cup {Frame}
          /\ sealed' = sealed + 1
          /\ Frame.nonce = sealed + 1
          /\ UNCHANGED <<last_counter, nonce_cache, opened>>
      BY <2>2 DEF SendFrame, Seal, Frame
    <3>2. \A n \in Entries(nonce_cache) : n # sealed + 1 /\ n <= sealed + 1
      BY <2>0 DEF ReplayInv, TypeOK
    <3>3. \A f \in wire : f.nonce # sealed + 1 /\ f.nonce <= sealed + 1
      BY <2>0 DEF ReplayInv, TypeOK
    <3>4. Entries(nonce_cache') = Entries(nonce_cache)
      BY <3>1
    <3> QED
      BY <3>1, <3>2, <3>3, <3>4 DEF ReplayInv, EvictionIsHarmless, TypeOK
  <2>3. ASSUME NEW f \in wire \cup handling, Open(f)
        PROVE  ReplayInv'
    <3>1. /\ f \in wire /\ f.counter > last_counter
          /\ last_counter' = f.counter
          /\ opened' = opened \cup {f.counter}
          /\ wire' \subseteq wire /\ sealed' = sealed
      BY <2>0, <2>3 DEF Open, Arrives, Replayed, Consumed, TypeOK
    <3>2. Entries(nonce_cache') \subseteq Entries(nonce_cache) \cup {f.nonce}
      <4>1. f.nonce \in Nat /\ nonce_cache \in Seq(Nat)
        BY <2>0, <3>1 DEF TypeOK
      <4>2. Append(nonce_cache, f.nonce) \in Seq(Nat)
        BY <4>1, AppendProperties
      <4>3. Entries(nonce_cache') \subseteq Entries(Append(nonce_cache, f.nonce))
        BY <2>3, <4>2, NewestType, SizesAssumption DEF Open
      <4> QED
        BY <4>1, <4>3, EntriesOfAppend
    <3>3. \A n \in Entries(nonce_cache') : n <= sealed
      BY <3>1, <3>2 DEF ReplayInv
    <3>4. \A c \in opened' : c <= last_counter'
      BY <2>0, <3>1 DEF ReplayInv, TypeOK
    <3>5. \A g \in wire' : g.nonce \in Entries(nonce_cache') => g.counter <= last_counter'
      <4>1. ASSUME NEW g \in wire, g.nonce \in Entries(nonce_cache)
            PROVE  g.counter <= last_counter'
        <5>1. g.counter <= last_counter
          BY <4>1 DEF ReplayInv, EvictionIsHarmless
        <5> QED
          BY <2>0, <3>1, <5>1 DEF TypeOK
      <4>2. ASSUME NEW g \in wire, g.nonce = f.nonce
            PROVE  g.counter <= last_counter'
        <5>1. g = f
          BY <3>1, <4>2 DEF ReplayInv
        <5> QED
          BY <2>0, <3>1, <5>1
      <4> QED
        BY <3>1, <3>2, <4>1, <4>2
    <3>6. /\ \A g \in wire' : g.nonce <= sealed'
          /\ \A g, h \in wire' : g.nonce = h.nonce => g = h
      BY <3>1 DEF ReplayInv
    <3> QED
      BY <3>1, <3>3, <3>4, <3>5, <3>6 DEF ReplayInv, EvictionIsHarmless
  <2>4. ASSUME NEW f \in wire \cup handling, Reject(f) \/ Process(f)
        PROVE  ReplayInv'
    <3>1. /\ wire' \subseteq wire /\ sealed' = sealed
          /\ UNCHANGED <<last_counter, nonce_cache, opened>>
      BY <2>4 DEF Reject, Process, Consumed
    <3> QED
      BY <3>1, ReceiverUntouched
  <2>5. CASE ControllerRestart
    <3>1. Entries(nonce_cache') = {} /\ opened' = {} /\ wire' = wire /\ sealed' = sealed
      BY <2>5 DEF ControllerRestart, Entries
    <3> QED
      BY <3>1 DEF ReplayInv, EvictionIsHarmless
  <2> QED
    BY <2>1, <2>2, <2>3, <2>4, <2>5 DEF Next, Receive
<1> QED
  BY <1>1, <1>2, TypeCorrect, PTL DEF Spec

(* The replay check does not depend on the size of the nonce cache         *)
(* (property EvictionIsHarmless), for every size it may have.              *)
THEOREM EvictionSafe == Spec => []EvictionIsHarmless
<1>1. ReplayInv => EvictionIsHarmless
  BY DEF ReplayInv
<1> QED
  BY <1>1, ReplayInvHolds, PTL

(* A counter is opened once (property OpenedOnce): whatever was opened      *)
(* since the controller started is at or below last_counter, and a frame   *)
(* is opened only above it.                                                *)
THEOREM NoReplay == Spec => OpenedOnce
<1> DEFINE Once == \A c \in opened' \ opened : \A d \in opened : d < c
<1>1. TypeOK /\ ReplayInv /\ [Next]_vars => [Once]_vars
  <2> SUFFICES ASSUME TypeOK, ReplayInv, Next
               PROVE  Once
    OBVIOUS
  <2>1. ASSUME NEW f \in wire \cup handling, Open(f)
        PROVE  Once
    <3>1. f.counter \in Nat /\ f.counter > last_counter /\ opened' = opened \cup {f.counter}
      BY <2>1 DEF Open, Arrives, Replayed, TypeOK, FrameType
    <3> QED
      BY <3>1 DEF ReplayInv, TypeOK
  <2>2. CASE opened' \subseteq opened
    BY <2>2
  <2>3. CASE \/ Enqueue \/ Drain \/ SendFrame \/ SendLost \/ SendFails \/ Wake \/ AgentRestart
             \/ \E f \in wire \cup handling : Reject(f) \/ Process(f)
             \/ ControllerRestart \/ Tick
    BY <2>3, <2>2 DEF Enqueue, Drain, SendFrame, SendLost, SendFails, Seal, Wake, AgentRestart,
                      Reject, Process, ControllerRestart, Tick, agentVars, receiverVars
  <2> QED
    BY <2>1, <2>3 DEF Next, Receive
<1> QED
  BY <1>1, TypeCorrect, ReplayInvHolds, PTL DEF Spec, OpenedOnce

-----------------------------------------------------------------------------
(* The counter of a restarted agent starts from the clock.  It is ahead of  *)
(* the counters it has forgotten because a frame is followed by a pause of  *)
(* at least a tick, and a tick is worth at least one counter value.        *)
Pending == IF sender = "sleeping" THEN 1 ELSE 0

CounterInv ==
    /\ "agent_restart" \in Faults => counter <= CountersPerTick * clock + Pending
    /\ CounterStaysAhead

LEMMA TickArithmetic ==
    ASSUME NEW m \in Nat, NEW c \in Nat
    PROVE  m * c \in Nat /\ m * (c + 1) = m * c + m
OBVIOUS

(* Frames arrive, are dropped or processed: the counters recorded were on   *)
(* the wire, and the agent's counter did not fall.                         *)
LEMMA CountersBelow ==
    ASSUME TypeOK, CounterStaysAhead, counter' \in Nat, counter <= counter', wire' \subseteq wire,
           last_counter' \in {last_counter, -1} \cup {f.counter : f \in wire}
    PROVE  CounterStaysAhead'
<1>1. \A f \in wire : f.counter \in Nat /\ f.counter <= counter
  BY DEF TypeOK, FrameType, CounterStaysAhead
<1>2. last_counter' \in Int /\ last_counter' <= counter
  BY <1>1 DEF TypeOK, CounterStaysAhead
<1> QED
  BY <1>1, <1>2 DEF TypeOK, CounterStaysAhead

(* What sender and receiver counters and the clock know of each other.      *)
THEOREM CounterInvHolds == Spec => []CounterInv
<1>1. Init => CounterInv
  BY SizesAssumption DEF Init, CounterInv, CounterStaysAhead, Pending
<1>2. TypeOK /\ CounterInv /\ [Next]_vars => CounterInv'
  <2> SUFFICES ASSUME TypeOK, CounterInv, [Next]_vars
               PROVE  CounterInv'
    OBVIOUS
  <2> USE SizesAssumption, BoundsAssumption DEF agentVars, receiverVars, CounterInv
  <2>0. /\ counter \in Nat /\ clock \in Nat /\ CountersPerTick \in Nat \ {0}
        /\ CountersPerTick * clock \in Nat
        /\ CountersPerTick * (clock + 1) = CountersPerTick * clock + CountersPerTick
    BY TickArithmetic DEF TypeOK
  <2>1. CASE Enqueue \/ Drain
    <3>1. /\ UNCHANGED <<counter, clock, wire, last_counter>>
          /\ Pending' = Pending
      BY <2>1 DEF Enqueue, Drain, Pending
    <3> QED
      BY <3>1 DEF CounterStaysAhead
  <2>2. CASE SendFrame \/ SendLost \/ SendFails
    <3>1. /\ counter' = counter + 1
          /\ UNCHANGED <<clock, last_counter>>
          /\ wire' \subseteq wire \cup {Frame}
          /\ Pending = 0 /\ Pending' = 1
      BY <2>2 DEF SendFrame, SendLost, SendFails, Seal, Pending
    <3>2. Frame.counter = counter + 1
      BY DEF Frame
    <3>3. \A f \in wire : f.counter \in Nat /\ f.counter <= counter
      BY DEF TypeOK, FrameType, CounterStaysAhead
    <3>4. CounterStaysAhead'
      BY <2>0, <3>1, <3>2, <3>3 DEF TypeOK, CounterStaysAhead
    <3> QED
      BY <2>0, <3>1, <3>4
  <2>3. CASE Wake
    <3>1. /\ UNCHANGED <<counter, wire, last_counter>>
          /\ Pending = 1 /\ Pending' = 0
          /\ "agent_restart" \in Faults => clock' = clock + 1
      BY <2>3 DEF Wake, LaterTick, Pending
    <3>2. "agent_restart" \in Faults => counter' <= CountersPerTick * clock' + Pending'
      BY <2>0, <3>1
    <3> QED
      BY <3>1, <3>2 DEF CounterStaysAhead
  <2>4. CASE AgentRestart
    <3>1. /\ counter' = CountersPerTick * (clock + 1) /\ clock' = clock + 1
          /\ "agent_restart" \in Faults
          /\ UNCHANGED <<wire, last_counter>>
          /\ Pending \in {0, 1} /\ Pending' = 0
      BY <2>4 DEF AgentRestart, Pending
    <3>2. counter' \in Nat /\ counter <= counter'
      BY <2>0, <3>1
    <3>3. CounterStaysAhead'
      BY <3>1, <3>2, CountersBelow
    <3> QED
      BY <2>0, <3>1, <3>3
  <2>5. ASSUME NEW f \in wire \cup handling, Open(f) \/ Reject(f) \/ Process(f)
        PROVE  CounterInv'
    <3>1. /\ UNCHANGED <<counter, clock, sender>>
          /\ wire' \subseteq wire
          /\ last_counter' = last_counter \/ (f \in wire /\ last_counter' = f.counter)
      BY <2>5 DEF Open, Arrives, Reject, Process, Consumed
    <3>2. CounterStaysAhead'
      BY <2>0, <3>1, CountersBelow
    <3> QED
      BY <3>1, <3>2 DEF Pending
  <2>6. CASE ControllerRestart \/ Tick
    <3>1. /\ UNCHANGED <<counter, wire, sender>> /\ clock' = clock + 1
          /\ last_counter' \in {last_counter, -1}
      BY <2>6 DEF ControllerRestart, Tick
    <3>2. CounterStaysAhead'
      BY <2>0, <3>1, CountersBelow
    <3>3. Pending' = Pending /\ Pending \in {0, 1}
      BY <3>1 DEF Pending
    <3> QED
      BY <2>0, <3>1, <3>2, <3>3
  <2>7. CASE UNCHANGED vars
    BY <2>7 DEF vars, CounterStaysAhead, Pending
  <2> QED
    BY <2>1, <2>2, <2>3, <2>4, <2>5, <2>6, <2>7 DEF Next, Receive
<1> QED
  BY <1>1, <1>2, TypeCorrect, PTL DEF Spec

(* A frame just sealed is ahead of whatever the receiver has seen (property *)
(* CounterStaysAhead), for every clock rate, through restarts of both ends. *)
THEOREM CounterAhead == Spec => []CounterStaysAhead
<1>1. CounterInv => CounterStaysAhead
  BY DEF CounterInv
<1> QED
  BY <1>1, CounterInvHolds, PTL

-----------------------------------------------------------------------------
(* The order of events.  What the agent has not sealed yet lies behind what *)
(* it has, frames lie in the order of their counters, and whatever the      *)
(* running engine has processed lies behind every frame it could still open. *)
Ascending(s) == \A i, j \in DOMAIN s : i < j => s[i] < s[j]
Injective(s) == \A i, j \in DOMAIN s : s[i] = s[j] => i = j
Before(D, E) == \A d \in D, e \in E : d < e

Unsealed == Entries(retry) \cup Entries(batch) \cup Entries(queue)
Framed == wire \cup handling

BuffersInv ==
    /\ Ascending(retry) /\ Ascending(batch) /\ Ascending(queue)
    /\ Before(Entries(retry), Entries(queue)) /\ Before(Entries(batch), Entries(queue))
    /\ IF sender = "sending" THEN retry = <<>> ELSE batch = <<>>
    /\ Unsealed \subseteq 1..produced

FramesInv ==
    /\ \A f \in Framed :
          /\ f.counter <= counter
          /\ Ascending(f.events) /\ Entries(f.events) \subseteq 1..produced
          /\ Before(Entries(f.events), Unsealed)
    /\ \A f, g \in Framed : f.counter < g.counter => Before(Entries(f.events), Entries(g.events))
    /\ \A f, g \in Framed : f.counter = g.counter => f = g

DeliveredInv ==
    /\ Injective(delivered)
    /\ Entries(delivered) \subseteq 1..produced
    /\ Before(Entries(delivered), Unsealed)
    /\ \A f \in handling : /\ f.counter <= last_counter
                           /\ Entries(f.events) \cap Entries(delivered) = {}
    /\ \A f \in wire : f.counter > last_counter => Before(Entries(delivered), Entries(f.events))

OrderInv == BuffersInv /\ FramesInv /\ DeliveredInv

(* Joining two sequences joins their entries, and keeps them ascending or   *)
(* distinct when the second lies behind the first or shares none of them.  *)
LEMMA EntriesOfConcat ==
    ASSUME NEW S, NEW s \in Seq(S), NEW t \in Seq(S)
    PROVE  /\ Entries(s \o t) = Entries(s) \cup Entries(t)
           /\ \A k \in DOMAIN (s \o t) :
                 \/ k \in DOMAIN s /\ (s \o t)[k] = s[k]
                 \/ k - Len(s) \in DOMAIN t /\ (s \o t)[k] = t[k - Len(s)] /\ k > Len(s)
<1>1. /\ s \o t \in Seq(S) /\ Len(s \o t) = Len(s) + Len(t)
      /\ \A i \in 1..Len(s) + Len(t) :
            (s \o t)[i] = IF i <= Len(s) THEN s[i] ELSE t[i - Len(s)]
  BY ConcatProperties
<1>2. /\ DOMAIN (s \o t) = 1..Len(s) + Len(t) /\ DOMAIN s = 1..Len(s) /\ DOMAIN t = 1..Len(t)
      /\ Len(s) \in Nat /\ Len(t) \in Nat
  BY <1>1
<1>3. \A k \in DOMAIN (s \o t) :
         \/ k \in DOMAIN s /\ (s \o t)[k] = s[k]
         \/ k - Len(s) \in DOMAIN t /\ (s \o t)[k] = t[k - Len(s)] /\ k > Len(s)
  BY <1>1, <1>2
<1>4. \A i \in DOMAIN s : i \in DOMAIN (s \o t) /\ (s \o t)[i] = s[i]
  BY <1>1, <1>2
<1>5. \A j \in DOMAIN t : Len(s) + j \in DOMAIN (s \o t) /\ (s \o t)[Len(s) + j] = t[j]
  <2> SUFFICES ASSUME NEW j \in DOMAIN t
               PROVE  Len(s) + j \in DOMAIN (s \o t) /\ (s \o t)[Len(s) + j] = t[j]
    OBVIOUS
  <2>1. j \in 1..Len(t) /\ Len(s) + j \in 1..Len(s) + Len(t) /\ ~(Len(s) + j <= Len(s))
        /\ Len(s) + j - Len(s) = j
    BY <1>2
  <2> QED
    BY <1>1, <1>2, <2>1
<1>6. ASSUME NEW x \in Entries(s \o t)
      PROVE  x \in Entries(s) \cup Entries(t)
  <2>1. PICK k \in DOMAIN (s \o t) : x = (s \o t)[k]
    BY <1>6 DEF Entries
  <2> QED
    BY <1>3, <2>1 DEF Entries
<1>7. ASSUME NEW x \in Entries(s)
      PROVE  x \in Entries(s \o t)
  BY <1>4, <1>7 DEF Entries
<1>8. ASSUME NEW x \in Entries(t)
      PROVE  x \in Entries(s \o t)
  <2>1. PICK j \in DOMAIN t : x = t[j]
    BY <1>8 DEF Entries
  <2> QED
    BY <1>5, <2>1 DEF Entries
<1> QED
  BY <1>3, <1>6, <1>7, <1>8

LEMMA AscendingConcat ==
    ASSUME NEW s \in Seq(Nat), NEW t \in Seq(Nat),
           Ascending(s), Ascending(t), Before(Entries(s), Entries(t))
    PROVE  Ascending(s \o t)
<1>1. SUFFICES ASSUME NEW i \in DOMAIN (s \o t), NEW j \in DOMAIN (s \o t), i < j
               PROVE  (s \o t)[i] < (s \o t)[j]
  BY DEF Ascending
<1>2. /\ DOMAIN (s \o t) = 1..Len(s) + Len(t) /\ DOMAIN s = 1..Len(s)
      /\ Len(s) \in Nat /\ Len(t) \in Nat
  BY ConcatProperties
<1>3. CASE i \in DOMAIN s /\ j \in DOMAIN s /\ (s \o t)[i] = s[i] /\ (s \o t)[j] = s[j]
  BY <1>1, <1>3 DEF Ascending
<1>4. CASE /\ i \in DOMAIN s /\ (s \o t)[i] = s[i]
           /\ j - Len(s) \in DOMAIN t /\ (s \o t)[j] = t[j - Len(s)]
  BY <1>4 DEF Before, Entries
<1>5. CASE /\ i - Len(s) \in DOMAIN t /\ (s \o t)[i] = t[i - Len(s)]
           /\ j - Len(s) \in DOMAIN t /\ (s \o t)[j] = t[j - Len(s)]
  <2>1. i - Len(s) < j - Len(s)
    BY <1>1, <1>2
  <2> QED
    BY <1>5, <2>1 DEF Ascending
<1> QED
  BY <1>1, <1>2, <1>3, <1>4, <1>5, EntriesOfConcat

LEMMA InjectiveConcat ==
    ASSUME NEW s \in Seq(Nat), NEW t \in Seq(Nat),
           Injective(s), Injective(t), Entries(s) \cap Entries(t) = {}
    PROVE  Injective(s \o t)
<1>1. SUFFICES ASSUME NEW i \in DOMAIN (s \o t), NEW j \in DOMAIN (s \o t),
                      (s \o t)[i] = (s \o t)[j]
               PROVE  i = j
  BY DEF Injective
<1>2. DOMAIN (s \o t) = 1..Len(s) + Len(t) /\ Len(s) \in Nat /\ Len(t) \in Nat
  BY ConcatProperties
<1>3. /\ \A k \in DOMAIN s : s[k] \in Entries(s)
      /\ \A k \in DOMAIN t : t[k] \in Entries(t)
  BY DEF Entries
<1>4. CASE i \in DOMAIN s /\ j \in DOMAIN s /\ (s \o t)[i] = s[i] /\ (s \o t)[j] = s[j]
  BY <1>1, <1>4 DEF Injective
<1>5. CASE /\ i - Len(s) \in DOMAIN t /\ (s \o t)[i] = t[i - Len(s)]
           /\ j - Len(s) \in DOMAIN t /\ (s \o t)[j] = t[j - Len(s)]
  <2>1. i - Len(s) = j - Len(s)
    BY <1>1, <1>5 DEF Injective
  <2> QED
    BY <1>2, <2>1
<1> QED
  BY <1>1, <1>3, <1>4, <1>5, EntriesOfConcat

LEMMA AscendingIsInjective ==
    ASSUME NEW s \in Seq(Nat), Ascending(s)
    PROVE  Injective(s)
<1>1. /\ \A i \in DOMAIN s : i \in Nat /\ s[i] \in Nat
  OBVIOUS
<1> QED
  BY <1>1 DEF Ascending, Injective

LEMMA AscendingNewest ==
    ASSUME NEW s \in Seq(Nat), NEW n \in Nat \ {0}, Ascending(s)
    PROVE  Ascending(Newest(s, n))
<1>1. CASE Len(s) <= n
  BY <1>1 DEF Newest
<1>2. CASE Len(s) > n
  <2> DEFINE from == Len(s) - n + 1
  <2>1. Newest(s, n) = SubSeq(s, from, Len(s)) /\ from \in 1..Len(s) /\ Len(s) \in Nat
    BY <1>2 DEF Newest
  <2>2. /\ Len(Newest(s, n)) = n /\ Newest(s, n) \in Seq(Nat)
        /\ \A i \in 1..n : Newest(s, n)[i] = s[from + i - 1] /\ from + i - 1 \in 1..Len(s)
    BY <1>2, <2>1, SubSeqProperties
  <2>3. DOMAIN Newest(s, n) = 1..n /\ DOMAIN s = 1..Len(s)
    BY <2>2
  <2>4. ASSUME NEW i \in 1..n, NEW j \in 1..n, i < j
        PROVE  Newest(s, n)[i] < Newest(s, n)[j]
    <3>1. from + i - 1 < from + j - 1
      BY <2>1, <2>4
    <3> QED
      BY <2>2, <2>3, <3>1 DEF Ascending
  <2> QED
    BY <2>3, <2>4 DEF Ascending
<1> QED
  BY <1>1, <1>2

(* The agent's buffers stay ascending, one behind the other, and nothing    *)
(* comes to be unsealed but what has just been observed.                   *)
LEMMA BuffersStep ==
    ASSUME TypeOK, BuffersInv, [Next]_vars
    PROVE  /\ BuffersInv'
           /\ produced <= produced'
           /\ \A e \in Unsealed' : e \in Unsealed \/ e > produced
<1> USE SizesAssumption DEF agentVars, receiverVars
<1>1. /\ retry \in Seq(EventNo) /\ batch \in Seq(EventNo) /\ queue \in Seq(EventNo)
      /\ retry \in Seq(Nat) /\ batch \in Seq(Nat) /\ queue \in Seq(Nat)
      /\ produced \in Nat
  BY DEF TypeOK, EventNo
<1>2. Entries(<<>>) = {} /\ Ascending(<<>>)
  BY DEF Entries, Ascending
<1>3. CASE Enqueue
  <2>1. /\ produced' = produced + 1 /\ queue' = Newest(Append(queue, produced + 1), QueueMax)
        /\ UNCHANGED <<retry, batch, sender>>
    BY <1>3 DEF Enqueue
  <2>2. /\ Append(queue, produced + 1) \in Seq(Nat)
        /\ Entries(Append(queue, produced + 1)) = Entries(queue) \cup {produced + 1}
    <3>1. produced + 1 \in Nat
      BY <1>1
    <3>2. Entries(Append(queue, produced + 1)) = Entries(queue) \cup {produced + 1}
      BY <1>1, <3>1, EntriesOfAppend
    <3> QED
      BY <1>1, <3>1, <3>2
  <2>3. Ascending(Append(queue, produced + 1))
    <3>1. /\ Append(queue, produced + 1)[Len(queue) + 1] = produced + 1
          /\ \A i \in 1..Len(queue) : Append(queue, produced + 1)[i] = queue[i]
          /\ DOMAIN Append(queue, produced + 1) = 1..Len(queue) + 1 /\ Len(queue) \in Nat
          /\ DOMAIN queue = 1..Len(queue)
      BY <1>1, AppendProperties
    <3>2. \A i \in 1..Len(queue) : queue[i] <= produced
      <4>1. Entries(queue) \subseteq 1..produced
        BY DEF BuffersInv, Unsealed
      <4> QED
        BY <3>1, <4>1 DEF Entries
    <3>3. \A i \in DOMAIN queue : queue[i] \in Nat /\ i \in Nat
      BY <1>1, <3>1
    <3> QED
      BY <1>1, <3>1, <3>2, <3>3 DEF Ascending, BuffersInv
  <2>4. Ascending(queue') /\ Entries(queue') \subseteq Entries(queue) \cup {produced + 1}
    BY <2>1, <2>2, <2>3, NewestType, AscendingNewest
  <2>5. Before(Entries(retry), Entries(queue')) /\ Before(Entries(batch), Entries(queue'))
    BY <1>1, <2>4 DEF BuffersInv, Unsealed, Before
  <2>6. Unsealed' \subseteq Unsealed \cup {produced + 1}
    BY <2>1, <2>4 DEF Unsealed
  <2>7. Unsealed' \subseteq 1..produced'
    BY <1>1, <2>1, <2>6 DEF BuffersInv
  <2> QED
    BY <1>1, <2>1, <2>4, <2>5, <2>6, <2>7 DEF BuffersInv
<1>4. CASE Drain
  <2>1. /\ batch' = retry \o queue /\ retry' = <<>> /\ queue' = <<>> /\ batch = <<>>
        /\ sender' = "sending" /\ produced' = produced
    BY <1>4 DEF Drain, BuffersInv
  <2>2. Entries(batch') = Entries(retry) \cup Entries(queue)
    BY <1>1, <2>1, EntriesOfConcat
  <2>3. Ascending(batch')
    BY <1>1, <2>1, AscendingConcat DEF BuffersInv
  <2>4. Unsealed' = Unsealed
    BY <1>2, <2>1, <2>2 DEF Unsealed
  <2>5. Before(Entries(retry'), Entries(queue')) /\ Before(Entries(batch'), Entries(queue'))
    BY <1>2, <2>1 DEF Before
  <2> QED
    BY <1>1, <1>2, <2>1, <2>3, <2>4, <2>5 DEF BuffersInv
<1>5. CASE SendFrame \/ SendLost \/ SendFails
  <2>1. /\ sender = "sending" /\ sender' = "sleeping" /\ retry = <<>> /\ batch' = <<>>
        /\ UNCHANGED <<produced, queue>>
        /\ retry' = retry \/ retry' = Newest(retry \o batch, RetryMax)
    BY <1>5 DEF SendFrame, SendLost, SendFails, Seal, BuffersInv
  <2>2. retry \o batch = batch
    BY <1>1, <2>1, ConcatEmptySeq
  <2>3. Ascending(retry') /\ Entries(retry') \subseteq Entries(batch)
    BY <1>1, <1>2, <2>1, <2>2, NewestType, AscendingNewest DEF BuffersInv
  <2>4. Unsealed' \subseteq Unsealed
    BY <1>2, <2>1, <2>3 DEF Unsealed
  <2>5. Before(Entries(retry'), Entries(queue')) /\ Before(Entries(batch'), Entries(queue'))
    BY <1>2, <2>1, <2>3 DEF BuffersInv, Before
  <2> QED
    BY <1>1, <1>2, <2>1, <2>3, <2>4, <2>5 DEF BuffersInv
<1>6. CASE Wake
  <2>1. /\ batch = <<>> /\ sender' = "draining" /\ UNCHANGED <<produced, queue, retry, batch>>
    BY <1>6 DEF Wake, BuffersInv
  <2>2. Unsealed' = Unsealed
    BY <2>1 DEF Unsealed
  <2> QED
    BY <1>1, <2>1, <2>2 DEF BuffersInv
<1>7. CASE AgentRestart
  <2>1. /\ queue' = <<>> /\ retry' = <<>> /\ batch' = <<>> /\ sender' = "draining"
        /\ produced' = produced
    BY <1>7 DEF AgentRestart
  <2>2. Unsealed' = {}
    BY <1>2, <2>1 DEF Unsealed
  <2>3. Before(Entries(retry'), Entries(queue')) /\ Before(Entries(batch'), Entries(queue'))
    BY <1>2, <2>1 DEF Before
  <2> QED
    BY <1>1, <1>2, <2>1, <2>2, <2>3 DEF BuffersInv
<1>8. CASE \/ \E f \in wire \cup handling : Receive(f)
           \/ ControllerRestart \/ Tick \/ UNCHANGED vars
  <2>1. UNCHANGED <<produced, queue, retry, batch, sender>>
    BY <1>8 DEF Receive, Open, Reject, Process, ControllerRestart, Tick, vars
  <2>2. Unsealed' = Unsealed
    BY <2>1 DEF Unsealed
  <2> QED
    BY <1>1, <2>1, <2>2 DEF BuffersInv
<1> QED
  BY <1>3, <1>4, <1>5, <1>6, <1>7, <1>8 DEF Next

(* What the order of frames and deliveries rests on when no frame is put on *)
(* the wire and none is opened or processed.                               *)
LEMMA NothingFramed ==
    ASSUME TypeOK, FramesInv, DeliveredInv, counter <= counter', counter' \in Nat,
           produced <= produced', produced' \in Nat,
           \A e \in Unsealed' : e \in Nat /\ (e \in Unsealed \/ e > produced),
           wire' \subseteq wire, UNCHANGED <<handling, delivered, last_counter>>
    PROVE  FramesInv' /\ DeliveredInv'
<1>1. Framed' \subseteq Framed
  BY DEF Framed
<1>2. \A f \in Framed : f.counter \in Nat /\ f.events \in Seq(EventNo)
  BY DEF Framed, TypeOK, FrameType
<1>3. /\ 1..produced \subseteq 1..produced' /\ produced \in Nat /\ counter \in Nat
  BY DEF TypeOK
<1>4. \A D : D \subseteq 1..produced /\ Before(D, Unsealed) => Before(D, Unsealed')
  BY <1>3 DEF Before
<1>5. FramesInv'
  <2>1. ASSUME NEW f \in Framed'
        PROVE  /\ f.counter <= counter'
               /\ Ascending(f.events) /\ Entries(f.events) \subseteq 1..produced'
               /\ Before(Entries(f.events), Unsealed')
    <3>1. /\ f.counter <= counter /\ Ascending(f.events)
          /\ Entries(f.events) \subseteq 1..produced /\ Before(Entries(f.events), Unsealed)
      BY <1>1, <2>1 DEF FramesInv
    <3> QED
      BY <1>1, <1>2, <1>3, <1>4, <3>1
  <2> QED
    BY <1>1, <2>1 DEF FramesInv
<1>6. DeliveredInv'
  BY <1>3, <1>4 DEF DeliveredInv
<1> QED
  BY <1>5, <1>6

(* The order of events is kept by every step.                              *)
LEMMA OrderStep ==
    ASSUME TypeOK, TypeOK', CounterInv, CounterInv', OrderInv, [Next]_vars
    PROVE  OrderInv'
<1> USE DEF agentVars, receiverVars
<1>1. /\ BuffersInv' /\ produced <= produced'
      /\ \A e \in Unsealed' : e \in Unsealed \/ e > produced
  BY BuffersStep DEF OrderInv
<1>2. /\ produced \in Nat /\ produced' \in Nat /\ counter \in Nat /\ counter' \in Nat
      /\ last_counter \in Int
      /\ Unsealed' \subseteq Nat /\ Unsealed \subseteq Nat
      /\ delivered \in Seq(Nat) /\ Entries(delivered) \subseteq Nat
  <2>1. Unsealed \subseteq 1..produced /\ Unsealed' \subseteq 1..produced'
    BY <1>1 DEF OrderInv, BuffersInv
  <2>2. delivered \in Seq(Nat)
    BY DEF TypeOK, EventNo
  <2>3. Entries(delivered) \subseteq Nat
    BY <2>2 DEF Entries
  <2> QED
    BY <2>1, <2>2, <2>3 DEF TypeOK
<1>3. \A f \in Framed : /\ f.counter \in Nat /\ f.events \in Seq(Nat)
                        /\ Entries(f.events) \subseteq Nat
  <2>1. ASSUME NEW f \in Framed
        PROVE  f.counter \in Nat /\ f.events \in Seq(Nat)
    <3>1. f \in FrameType
      BY <2>1 DEF Framed, TypeOK
    <3>2. f.counter \in Nat /\ f.events \in Seq(EventNo)
      BY <3>1 DEF FrameType
    <3> QED
      BY <3>2 DEF EventNo
  <2> QED
    BY <2>1 DEF Entries
<1>4. CASE \/ Enqueue \/ Drain \/ SendLost \/ SendFails \/ Wake \/ Tick \/ UNCHANGED vars
           \/ \E f \in wire \cup handling : Reject(f)
  <2>1. /\ counter' \in {counter, counter + 1} /\ wire' \subseteq wire
        /\ UNCHANGED <<handling, delivered, last_counter>>
    BY <1>4 DEF Enqueue, Drain, SendLost, SendFails, Seal, Wake, Tick, Reject, Consumed, vars
  <2> QED
    BY <1>1, <1>2, <2>1, NothingFramed DEF OrderInv
<1>5. CASE AgentRestart
  <2>1. /\ counter' = CountersPerTick * (clock + 1) /\ "agent_restart" \in Faults
        /\ wire' \subseteq wire /\ UNCHANGED <<handling, delivered, last_counter>>
    BY <1>5 DEF AgentRestart
  <2>2. /\ counter <= CountersPerTick * clock + Pending /\ Pending \in {0, 1}
        /\ CountersPerTick * clock \in Nat
        /\ CountersPerTick * (clock + 1) = CountersPerTick * clock + CountersPerTick
        /\ CountersPerTick \in Nat \ {0}
    BY <2>1, TickArithmetic, SizesAssumption DEF CounterInv, Pending, TypeOK
  <2>3. counter <= counter'
    BY <1>2, <2>1, <2>2
  <2> QED
    BY <1>1, <1>2, <2>1, <2>3, NothingFramed DEF OrderInv
<1>6. CASE SendFrame
  <2>1. /\ sender = "sending" /\ retry = <<>> /\ batch' = <<>> /\ counter' = counter + 1
        /\ wire' = wire \cup {Frame}
        /\ UNCHANGED <<produced, queue, retry, handling, delivered, last_counter>>
    BY <1>6 DEF SendFrame, Seal, OrderInv, BuffersInv
  <2>2. Frame.counter = counter + 1 /\ Frame.events = batch
    BY DEF Frame
  <2>3. Framed' = Framed \cup {Frame}
    BY <2>1 DEF Framed
  <2>4. Unsealed' \subseteq Entries(queue) /\ Entries(queue) \subseteq Unsealed
        /\ Entries(batch) \subseteq Unsealed /\ Unsealed \subseteq 1..produced
    BY <2>1 DEF Unsealed, Entries, OrderInv, BuffersInv
  <2>5. /\ Ascending(batch) /\ Before(Entries(batch), Unsealed')
    BY <2>4 DEF OrderInv, BuffersInv, Before
  <2>6. ASSUME NEW f \in Framed
        PROVE  /\ f.counter <= counter /\ Ascending(f.events)
               /\ Entries(f.events) \subseteq 1..produced
               /\ Before(Entries(f.events), Entries(batch)) /\ Before(Entries(f.events), Unsealed')
    BY <2>4 DEF OrderInv, FramesInv, Before
  <2>7. FramesInv'
    <3>1. ASSUME NEW f \in Framed'
          PROVE  /\ f.counter <= counter'
                 /\ Ascending(f.events) /\ Entries(f.events) \subseteq 1..produced'
                 /\ Before(Entries(f.events), Unsealed')
      <4>1. CASE f = Frame
        <5>1. f.counter = counter + 1 /\ f.events = batch
          BY <2>2, <4>1
        <5>2. f.counter <= counter'
          BY <1>2, <2>1, <5>1
        <5>3. Entries(f.events) \subseteq 1..produced'
          BY <2>1, <2>4, <5>1
        <5> QED
          BY <2>5, <5>1, <5>2, <5>3
      <4>2. CASE f \in Framed
        BY <1>2, <1>3, <2>1, <2>6, <4>2
      <4> QED
        BY <2>3, <4>1, <4>2
    <3>2. ASSUME NEW f \in Framed', NEW g \in Framed'
          PROVE  /\ f.counter < g.counter => Before(Entries(f.events), Entries(g.events))
                 /\ f.counter = g.counter => f = g
      <4>1. CASE f \in Framed /\ g \in Framed
        BY <4>1 DEF OrderInv, FramesInv
      <4>2. CASE f \in Framed /\ g = Frame
        BY <1>2, <1>3, <2>2, <2>6, <4>2
      <4>3. CASE f = Frame /\ g \in Framed
        <5>1. f.counter = counter + 1 /\ g.counter <= counter /\ g.counter \in Nat
          BY <1>3, <2>2, <2>6, <4>3
        <5>2. ~(f.counter < g.counter) /\ f.counter # g.counter
          BY <1>2, <5>1
        <5> QED
          BY <5>2
      <4>4. CASE f = Frame /\ g = Frame
        BY <1>2, <2>2, <4>4
      <4> QED
        BY <2>3, <4>1, <4>2, <4>3, <4>4
    <3> QED
      BY <3>1, <3>2 DEF FramesInv
  <2>8. DeliveredInv'
    <3>1. Before(Entries(delivered), Unsealed') /\ Before(Entries(delivered), Entries(batch))
      BY <2>4 DEF OrderInv, DeliveredInv, Before
    <3> QED
      BY <2>1, <2>2, <3>1 DEF OrderInv, DeliveredInv
  <2> QED
    BY <1>1, <2>7, <2>8 DEF OrderInv
<1>7. ASSUME NEW f \in wire \cup handling, Open(f)
      PROVE  OrderInv'
  <2>1. /\ f \in wire /\ f.counter > last_counter /\ last_counter' = f.counter
        /\ handling' = handling \cup {f} /\ wire' \subseteq wire
        /\ UNCHANGED <<produced, queue, retry, batch, sender, counter, delivered>>
    BY <1>2, <1>3, <1>7 DEF Open, Arrives, Replayed, Consumed, Framed
  <2>2. Framed' \subseteq Framed /\ Unsealed' = Unsealed
    BY <2>1 DEF Framed, Unsealed
  <2>3. FramesInv'
    BY <2>1, <2>2 DEF OrderInv, FramesInv
  <2>4. DeliveredInv'
    <3>1. ASSUME NEW g \in handling'
          PROVE  g.counter <= last_counter' /\ Entries(g.events) \cap Entries(delivered) = {}
      <4>1. CASE g = f
        <5>1. Before(Entries(delivered), Entries(f.events))
          BY <2>1 DEF OrderInv, DeliveredInv
        <5>2. Entries(f.events) \subseteq Nat /\ f.counter \in Nat
          BY <1>3, <2>1 DEF Framed
        <5> QED
          BY <1>2, <2>1, <4>1, <5>1, <5>2 DEF Before
      <4>2. CASE g \in handling
        <5>1. g.counter <= last_counter /\ Entries(g.events) \cap Entries(delivered) = {}
          BY <4>2 DEF OrderInv, DeliveredInv
        <5>2. g.counter \in Nat /\ f.counter \in Nat
          BY <1>3, <2>1, <4>2 DEF Framed
        <5> QED
          BY <1>2, <2>1, <5>1, <5>2
      <4> QED
        BY <2>1, <4>1, <4>2
    <3>2. ASSUME NEW g \in wire', g.counter > last_counter'
          PROVE  Before(Entries(delivered), Entries(g.events))
      <4>1. g \in wire /\ g.counter \in Nat /\ f.counter \in Nat
        BY <1>3, <2>1, <3>2 DEF Framed
      <4>2. g.counter > last_counter
        BY <1>2, <2>1, <3>2, <4>1
      <4> QED
        BY <4>1, <4>2 DEF OrderInv, DeliveredInv
    <3> QED
      BY <2>1, <2>2, <3>1, <3>2 DEF OrderInv, DeliveredInv
  <2> QED
    BY <1>1, <2>3, <2>4 DEF OrderInv
<1>8. ASSUME NEW f \in wire \cup handling, Process(f)
      PROVE  OrderInv'
  <2>1. /\ f \in handling /\ handling' = handling \ {f} /\ delivered' = delivered \o f.events
        /\ UNCHANGED <<produced, queue, retry, batch, sender, counter, wire, last_counter>>
    BY <1>8 DEF Process
  <2>2. Framed' \subseteq Framed /\ Unsealed' = Unsealed /\ f \in Framed
    BY <2>1 DEF Framed, Unsealed
  <2>3. FramesInv'
    BY <2>1, <2>2 DEF OrderInv, FramesInv
  <2>4. /\ f.counter <= last_counter /\ Entries(f.events) \cap Entries(delivered) = {}
        /\ Ascending(f.events) /\ Entries(f.events) \subseteq 1..produced
        /\ Before(Entries(f.events), Unsealed)
    BY <2>1, <2>2 DEF OrderInv, FramesInv, DeliveredInv
  <2>5. Entries(delivered') = Entries(delivered) \cup Entries(f.events)
    BY <1>2, <1>3, <2>1, <2>2, EntriesOfConcat
  <2>6. DeliveredInv'
    <3>1. Injective(delivered')
      BY <1>2, <1>3, <2>1, <2>2, <2>4, AscendingIsInjective, InjectiveConcat DEF OrderInv, DeliveredInv
    <3>2. Entries(delivered') \subseteq 1..produced' /\ Before(Entries(delivered'), Unsealed')
      BY <2>1, <2>2, <2>4, <2>5 DEF OrderInv, DeliveredInv, Before
    <3>3. ASSUME NEW g \in handling'
          PROVE  g.counter <= last_counter' /\ Entries(g.events) \cap Entries(delivered') = {}
      <4>1. /\ g \in handling /\ g # f /\ g \in Framed
            /\ g.counter <= last_counter /\ Entries(g.events) \cap Entries(delivered) = {}
        BY <2>1, <3>3 DEF OrderInv, DeliveredInv, Framed
      <4>2. g.counter < f.counter \/ f.counter < g.counter
        <5>1. g.counter # f.counter
          BY <2>2, <4>1 DEF OrderInv, FramesInv
        <5> QED
          BY <1>3, <2>2, <4>1, <5>1
      <4>3. Before(Entries(g.events), Entries(f.events)) \/ Before(Entries(f.events), Entries(g.events))
        <5>1. CASE g.counter < f.counter
          BY <2>2, <4>1, <5>1 DEF OrderInv, FramesInv
        <5>2. CASE f.counter < g.counter
          BY <2>2, <4>1, <5>2 DEF OrderInv, FramesInv
        <5> QED
          BY <4>2, <5>1, <5>2
      <4>4. Entries(g.events) \cap Entries(f.events) = {}
        <5>1. Entries(f.events) \subseteq Nat
          BY <1>3, <2>2
        <5>2. \A x \in Nat : ~(x < x)
          OBVIOUS
        <5> QED
          BY <4>3, <5>1, <5>2 DEF Before
      <4> QED
        BY <2>1, <2>5, <4>1, <4>4
    <3>4. ASSUME NEW g \in wire', g.counter > last_counter'
          PROVE  Before(Entries(delivered'), Entries(g.events))
      <4>1. g \in wire /\ g \in Framed /\ g.counter > last_counter
        BY <2>1, <3>4 DEF Framed
      <4>2. Before(Entries(delivered), Entries(g.events))
        BY <4>1 DEF OrderInv, DeliveredInv
      <4>3. f.counter < g.counter
        BY <1>2, <1>3, <2>2, <2>4, <4>1
      <4>4. Before(Entries(f.events), Entries(g.events))
        BY <2>2, <4>1, <4>3 DEF OrderInv, FramesInv
      <4> QED
        BY <2>5, <4>2, <4>4 DEF Before
    <3> QED
      BY <3>1, <3>2, <3>3, <3>4 DEF DeliveredInv
  <2> QED
    BY <1>1, <2>3, <2>6 DEF OrderInv
<1>9. CASE ControllerRestart
  <2>1. /\ handling' = {} /\ delivered' = <<>> /\ last_counter' = -1
        /\ UNCHANGED <<produced, queue, retry, batch, sender, counter, wire>>
    BY <1>9 DEF ControllerRestart
  <2>2. Framed' \subseteq Framed /\ Unsealed' = Unsealed
    BY <2>1 DEF Framed, Unsealed
  <2>3. FramesInv'
    BY <2>1, <2>2 DEF OrderInv, FramesInv
  <2>4. Entries(delivered') = {} /\ Injective(delivered')
    BY <2>1 DEF Entries, Injective
  <2>5. DeliveredInv'
    BY <2>1, <2>4 DEF DeliveredInv, Before
  <2> QED
    BY <1>1, <2>3, <2>5 DEF OrderInv
<1> QED
  BY <1>4, <1>5, <1>6, <1>7, <1>8, <1>9 DEF Next, Receive

(* Buffers, frames and what the handlers got stay in the order of events.   *)
THEOREM OrderInvHolds == Spec => []OrderInv
<1>1. Init => OrderInv
  <2> SUFFICES ASSUME Init
               PROVE  OrderInv
    OBVIOUS
  <2>1. Entries(<<>>) = {} /\ Ascending(<<>>) /\ Injective(<<>>)
    BY DEF Entries, Ascending, Injective
  <2>2. Framed = {} /\ Unsealed = {}
    BY <2>1 DEF Init, Framed, Unsealed
  <2> QED
    BY <2>1, <2>2 DEF Init, OrderInv, BuffersInv, FramesInv, DeliveredInv, Before
<1> QED
  BY <1>1, OrderStep, TypeCorrect, CounterInvHolds, PTL DEF Spec

(* The agent never overtakes itself (property FramesInEventOrder), for every *)
(* size of its buffers and through failed sends, retries and restarts.     *)
THEOREM EventOrder == Spec => []FramesInEventOrder
<1>1. OrderInv => FramesInEventOrder
  BY DEF OrderInv, FramesInv, FramesInEventOrder, Framed, Before
<1> QED
  BY <1>1, OrderInvHolds, PTL

(* The telemetry path implements the at-most-once event log (property       *)
(* AtMostOnceLog): an agent's observation is Observe, the processing of a  *)
(* frame Deliver, a restart of the control center Restart, and nothing     *)
(* else is seen of it.                                                     *)
THEOREM ImplementsLog == Spec => AtMostOnceLog
<1>1. Init => Log!Init
  BY DEF Init, Log!Init
<1>2. TypeOK /\ OrderInv /\ OrderInv' /\ [Next]_vars => [Log!Next]_(Log!vars)
  <2> SUFFICES ASSUME TypeOK, OrderInv, OrderInv', [Next]_vars
               PROVE  Log!Next \/ UNCHANGED Log!vars
    OBVIOUS
  <2> USE DEF agentVars, receiverVars
  <2>1. CASE Enqueue
    BY <2>1 DEF Enqueue, Log!Next, Log!Observe
  <2>2. ASSUME NEW f \in wire \cup handling, Process(f)
        PROVE  Log!Next \/ UNCHANGED Log!vars
    <3>1. /\ f \in handling /\ delivered' = delivered \o f.events
          /\ UNCHANGED <<produced, queue, retry, batch>>
      BY <2>2 DEF Process
    <3>2. delivered \in Seq(EventNo) /\ f.events \in Seq(EventNo)
      <4>1. f \in FrameType
        BY <3>1 DEF TypeOK
      <4> QED
        BY <4>1 DEF TypeOK, FrameType
    <3>3. CASE f.events = <<>>
      BY <3>1, <3>2, <3>3, ConcatEmptySeq DEF Log!vars
    <3>4. CASE f.events # <<>>
      <4>1. /\ delivered' \in Seq(EventNo)
            /\ Len(delivered') = Len(delivered) + Len(f.events)
            /\ Len(f.events) \in Nat \ {0} /\ Len(delivered) \in Nat
            /\ \A i \in 1..Len(delivered) : delivered'[i] = delivered[i]
        BY <3>1, <3>2, <3>4, ConcatProperties, EmptySeq
      <4>2. SubSeq(delivered', 1, Len(delivered)) = delivered
        <5>1. /\ SubSeq(delivered', 1, Len(delivered)) \in Seq(EventNo)
              /\ Len(SubSeq(delivered', 1, Len(delivered))) = Len(delivered)
              /\ \A i \in 1..Len(delivered) :
                    SubSeq(delivered', 1, Len(delivered))[i] = delivered'[i]
          BY <4>1, SubSeqProperties
        <5> QED
          BY <3>2, <4>1, <5>1, SeqEqual
      <4>3. /\ Injective(delivered') /\ Entries(delivered') \subseteq 1..produced'
            /\ produced' = produced /\ DOMAIN delivered' = 1..Len(delivered')
        BY <3>1, <4>1 DEF OrderInv, DeliveredInv
      <4>4. \A i \in Len(delivered) + 1 .. Len(delivered') :
               /\ delivered'[i] \in 1..produced
               /\ \A j \in 1..Len(delivered') : delivered'[i] = delivered'[j] => i = j
        BY <4>1, <4>3 DEF Injective, Entries
      <4> QED
        BY <3>1, <4>1, <4>2, <4>4 DEF Log!Next, Log!Deliver
    <3> QED
      BY <3>3, <3>4
  <2>3. CASE ControllerRestart
    BY <2>3 DEF ControllerRestart, Log!Next, Log!Restart
  <2>4. CASE \/ Drain \/ SendFrame \/ SendLost \/ SendFails \/ Wake \/ AgentRestart \/ Tick
             \/ UNCHANGED vars \/ \E f \in wire \cup handling : Open(f) \/ Reject(f)
    BY <2>4 DEF Drain, SendFrame, SendLost, SendFails, Seal, Wake, AgentRestart, Tick, Open, Reject,
                vars, Log!vars
  <2> QED
    BY <2>1, <2>2, <2>3, <2>4 DEF Next, Receive
<1> QED
  BY <1>1, <1>2, TypeCorrect, OrderInvHolds, PTL DEF Spec, AtMostOnceLog, Log!Spec
=============================================================================
