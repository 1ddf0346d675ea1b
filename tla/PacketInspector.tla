--------------------------- MODULE PacketInspector ---------------------------
(***************************************************************************)
(* The packet inspector: flows and anomalies of the packets of a capture.  *)
(***************************************************************************)
EXTENDS Integers, Sequences, FiniteSets

CONSTANTS PktInput,       \* [src, dst, port, transport: "tcp"|"udp"|"icmp"|"none", syn,
                          \*  label: "none" or a query name with a random label, oversized]
          PktFilter,      \* transports let through
          ScanLevels,     \* numbers of ports a scan is reported at (20, 50, 100)
          BeaconFull, BeaconKeep,   \* packets a beacon is looked for in, and kept after it
          PktClock, PktBound        \* bounds: time, packets

VARIABLES pkt_now,
          port_scan,      \* src -> ports it has sent a SYN to
          beacon,         \* <<src, dst, port>> -> times
          pkt_reported, anomalies,
          flows,          \* flow -> [packets, syns, last, gaps]
          pkt_log         \* history: the packets let through, with their times

packetVars == <<pkt_now, port_scan, beacon, pkt_reported, anomalies, flows, pkt_log>>

PacketInit == /\ pkt_now = 0 /\ port_scan = <<>> /\ beacon = <<>> /\ flows = <<>>
              /\ pkt_reported = {} /\ anomalies = <<>> /\ pkt_log = <<>>

At(f, k, none) == IF k \in DOMAIN f THEN f[k] ELSE none
With(f, k, v) == [x \in DOMAIN f \cup {k} |-> IF x = k THEN v ELSE f[x]]

PktPass == /\ pkt_now < PktClock /\ pkt_now' = pkt_now + 1
           /\ UNCHANGED <<port_scan, beacon, pkt_reported, anomalies, flows, pkt_log>>

-----------------------------------------------------------------------------
Syn(p) == p.transport = "tcp" /\ p.syn
PortsHit(p) == At(port_scan, p.src, {}) \cup (IF Syn(p) THEN {p.port} ELSE {})

(* The scan is noted under another key than the one looked up: as long as  *)
(* the number of ports stays at a level, every SYN is reported.            *)
Scan(p) == IF Syn(p) /\ Cardinality(PortsHit(p)) \in ScanLevels
           THEN <<<<"port_scan", p.src, Cardinality(PortsHit(p))>>>> ELSE <<>>

BeaconKey(p) == <<p.src, p.dst, p.port>>
Beacons(p) == p.transport \in {"tcp", "udp"} /\ p.port # 0
Times(p) == Append(At(beacon, BeaconKey(p), <<>>), pkt_now)

(* The coefficient of variation, over small intervals: none differs.       *)
Regular(times) ==
  LET gap == [i \in 1 .. (Len(times) - 1) |-> times[i + 1] - times[i]]
  IN gap[1] > 0 /\ \A i \in DOMAIN gap : gap[i] = gap[1]

Once(anomaly, holds) == IF holds /\ anomaly \notin pkt_reported THEN <<anomaly>> ELSE <<>>

(* Mutant of TunnelKey: a name is reported once, whoever asks for it.      *)
TunnelKeyOfName(p) == <<"dns_tunnel", "any", p.label>>
TunnelKey(p) == <<"dns_tunnel", p.src, p.label>>

Found(p) == Once(<<"c2_beaconing", BeaconKey(p)>>,
                 Beacons(p) /\ Len(Times(p)) = BeaconFull /\ Regular(Times(p)))
            \o Once(TunnelKey(p), p.transport = "udp" /\ p.port = 53 /\ p.label # "none")
            \o Once(<<"icmp_tunnel", p.src>>, p.transport = "icmp" /\ p.oversized)

Halved(times) == IF Len(times) = BeaconFull THEN SubSeq(times, BeaconFull - BeaconKeep + 1, BeaconFull) ELSE times

Feed(p) == /\ port_scan' = IF Syn(p) THEN With(port_scan, p.src, PortsHit(p)) ELSE port_scan
           /\ beacon' = IF Beacons(p) THEN With(beacon, BeaconKey(p), Halved(Times(p))) ELSE beacon
           /\ anomalies' = anomalies \o Scan(p) \o Found(p)
           /\ pkt_reported' = pkt_reported \cup {Found(p)[i] : i \in DOMAIN Found(p)}

(* Both directions are one flow.                                           *)
FlowKey(p) == <<{p.src, p.dst}, p.port, p.transport>>

(* The time of the first packet is no gap; a flow last seen at time 0      *)
(* counts as one not seen.                                                 *)
Update(p) ==
  LET old == At(flows, FlowKey(p), [packets |-> 0, syns |-> 0, last |-> 0, gaps |-> <<>>])
  IN flows' = IF p.transport = "none" THEN flows
              ELSE With(flows, FlowKey(p),
                        [packets |-> old.packets + 1, syns |-> old.syns + (IF Syn(p) THEN 1 ELSE 0),
                         last |-> pkt_now,
                         gaps |-> IF old.last # 0 THEN Append(old.gaps, pkt_now - old.last) ELSE old.gaps])

ProcessPacket(p) == /\ p.transport \in PktFilter /\ Len(pkt_log) < PktBound
                    /\ Update(p) /\ Feed(p)
                    /\ pkt_log' = Append(pkt_log, [pkt |-> p, at |-> pkt_now])
                    /\ UNCHANGED pkt_now

PacketNext == PktPass \/ \E p \in PktInput : ProcessPacket(p)

-----------------------------------------------------------------------------
Told == {anomalies[i] : i \in DOMAIN anomalies}
Logged(Test(_)) == {i \in DOMAIN pkt_log : Test(pkt_log[i].pkt)}
Hits(key) == Logged(LAMBDA p : Beacons(p) /\ BeaconKey(p) = key)
(* So many packets to one place, with no other one between.                *)
InARow(at, n, key) ==
  /\ at \in [1 .. n -> Hits(key)]
  /\ \A j \in 1 .. (n - 1) : at[j] < at[j + 1] /\ \A i \in Hits(key) : i <= at[j] \/ i >= at[j + 1]
SynPorts(src, n) == {pkt_log[i].pkt.port : i \in {j \in 1 .. n : Syn(pkt_log[j].pkt) /\ pkt_log[j].pkt.src = src}}

(* The anomalies are those of the packets: a scan level is reported for    *)
(* the sources that reached it and a tunnel for the sources that used it,  *)
(* each tunnel and beacon once; a beacon has as many packets in a row, of  *)
(* one interval, as are looked at; and a flow counts its packets.          *)
AnomaliesMatchPackets ==
  /\ \A i \in DOMAIN pkt_log : LET p == pkt_log[i].pkt IN
       /\ Syn(p) /\ Cardinality(SynPorts(p.src, i)) \in ScanLevels =>
            <<"port_scan", p.src, Cardinality(SynPorts(p.src, i))>> \in Told
       /\ p.transport = "udp" /\ p.port = 53 /\ p.label # "none" => <<"dns_tunnel", p.src, p.label>> \in Told
       /\ p.transport = "icmp" /\ p.oversized => <<"icmp_tunnel", p.src>> \in Told
  /\ \A i, j \in DOMAIN anomalies : i # j /\ anomalies[i][1] # "port_scan" => anomalies[i] # anomalies[j]
  /\ \A a \in Told :
       CASE a[1] = "port_scan" -> Cardinality(SynPorts(a[2], Len(pkt_log))) >= a[3]
         [] a[1] = "c2_beaconing" ->
              \E at \in [1 .. BeaconFull -> Hits(a[2])] :
                InARow(at, BeaconFull, a[2]) /\ Regular([j \in 1 .. BeaconFull |-> pkt_log[at[j]].at])
         [] a[1] = "dns_tunnel" -> Logged(LAMBDA p : p.src = a[2] /\ p.label = a[3]) # {}
         [] a[1] = "icmp_tunnel" -> Logged(LAMBDA p : p.src = a[2] /\ p.oversized) # {}
  /\ \A k \in DOMAIN flows : flows[k].packets = Cardinality(Logged(LAMBDA p : FlowKey(p) = k))
=============================================================================
