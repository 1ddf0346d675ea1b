----------------------------- MODULE IdsEngine -----------------------------
(***************************************************************************)
(* The network IDS: signatures, and anomalies counted in sliding windows,  *)
(* one deque per source (per source and destination for beacons). A deque  *)
(* is pruned only when its own source sends an event.                      *)
(***************************************************************************)
EXTENDS Integers, Sequences, FiniteSets, SequencesExt

CONSTANTS IdsSource, IdsTarget,
          IdsInput,                     \* the events [src, dst, port, auth_fail, bad_ip]: bad_ip
                                        \* when either end is in KNOWN_BAD_IPS, port "c2" for
                                        \* one of C2_PORTS, "none" for an event without
          IdsWindow,                    \* window_s, in ticks
          ScanPorts, SweepHosts, BruteForce, BeaconSamples,    \* the thresholds
          IdsEvents                     \* bound: events of a behaviour

VARIABLES ids_now, ids_ports, ids_hosts, ids_auth_fail, ids_beacon,
          ids_mode,
          ids_findings,                 \* [rule, verdict] found in the last event
          ids_log                       \* history: the events inspected, with their time

idsVars == <<ids_now, ids_ports, ids_hosts, ids_auth_fail, ids_beacon, ids_mode,
             ids_findings, ids_log>>

Severity == [sig_badip |-> "high", sig_c2port |-> "high", ano_portscan |-> "medium",
             ano_sweep |-> "medium", ano_brute |-> "high", ano_beacon |-> "high"]

IdsInit == /\ ids_now = 0 /\ ids_mode \in {"ids", "ips"}
           /\ ids_ports = [s \in IdsSource |-> <<>>]
           /\ ids_hosts = [s \in IdsSource |-> <<>>]
           /\ ids_auth_fail = [s \in IdsSource |-> <<>>]
           /\ ids_beacon = [p \in IdsSource \X IdsTarget |-> <<>>]
           /\ ids_findings = {} /\ ids_log = <<>>

-----------------------------------------------------------------------------
(* Mutant of Popped: an entry goes when it is as old as the window.         *)
PoppedAtEnd(dq, now) ==
  CHOOSE k \in 0..Len(dq) : /\ \A i \in 1..k : now - dq[i].ts >= IdsWindow
                            /\ k < Len(dq) => now - dq[k + 1].ts < IdsWindow

(* popleft, while the oldest entry is older than the window: the number of *)
(* entries that go.                                                        *)
Popped(dq, now) ==
  CHOOSE k \in 0..Len(dq) : /\ \A i \in 1..k : now - dq[i].ts > IdsWindow
                            /\ k < Len(dq) => now - dq[k + 1].ts <= IdsWindow

Prune(dq, now) == SubSeq(dq, Popped(dq, now) + 1, Len(dq))

Note(dq, what) == Prune(Append(dq, [ts |-> ids_now, what |-> what]), ids_now)

Distinct(dq) == Cardinality({dq[i].what : i \in DOMAIN dq})

(* pstdev / mean < 0.15 over the gaps, without root or division.           *)
Regular(dq) ==
  LET gaps == [i \in 1..(Len(dq) - 1) |-> dq[i + 1].ts - dq[i].ts]
      sum == FoldLeft(+, 0, gaps)
      squares == FoldLeft(LAMBDA a, g : a + g * g, 0, gaps)
  IN /\ Len(gaps) >= 3 /\ sum > 0
     /\ 10000 * (Len(gaps) * squares - sum * sum) < 225 * sum * sum

IdsVerdict(rule) == IF ids_mode = "ips" /\ Severity[rule] \in {"high", "critical"}
                    THEN "DROP" ELSE "ALLOW"

IdsInspect(ev) ==
  LET ports == IF ev.port = "none" THEN ids_ports
               ELSE [ids_ports EXCEPT ![ev.src] = Note(@, ev.port)]
      hosts == [ids_hosts EXCEPT ![ev.src] = Note(@, ev.dst)]
      auth == IF ev.auth_fail THEN [ids_auth_fail EXCEPT ![ev.src] = Note(@, ev.dst)]
              ELSE ids_auth_fail
      beacon == [ids_beacon EXCEPT ![<<ev.src, ev.dst>>] = Note(@, "seen")]
      flow == beacon[<<ev.src, ev.dst>>]
      rules == {r \in DOMAIN Severity :
                 CASE r = "sig_badip"    -> ev.bad_ip
                   [] r = "sig_c2port"   -> ev.port = "c2"
                   [] r = "ano_portscan" -> ev.port # "none" /\ Distinct(ports[ev.src]) >= ScanPorts
                   [] r = "ano_sweep"    -> Distinct(hosts[ev.src]) >= SweepHosts
                   [] r = "ano_brute"    -> ev.auth_fail /\ Len(auth[ev.src]) >= BruteForce
                   [] r = "ano_beacon"   -> Len(flow) >= BeaconSamples /\ Regular(flow)}
  IN /\ Len(ids_log) < IdsEvents
     /\ ids_ports' = ports /\ ids_hosts' = hosts
     /\ ids_auth_fail' = auth /\ ids_beacon' = beacon
     /\ ids_findings' = {[rule |-> r, verdict |-> IdsVerdict(r)] : r \in rules}
     /\ ids_log' = Append(ids_log, [ts |-> ids_now, ev |-> ev])
     /\ UNCHANGED <<ids_now, ids_mode>>

IdsTick == /\ Len(ids_log) < IdsEvents /\ ids_log # <<>>
           /\ ids_now - Last(ids_log).ts <= IdsWindow
           /\ ids_now' = ids_now + 1
           /\ UNCHANGED <<ids_ports, ids_hosts, ids_auth_fail, ids_beacon, ids_mode,
                          ids_findings, ids_log>>

IdsNext == IdsTick \/ \E ev \in IdsInput : IdsInspect(ev)

-----------------------------------------------------------------------------
(* An anomaly is reported exactly when the events themselves, counted      *)
(* afresh over the window that ends with the last one, reach its           *)
(* threshold: what other sources sent in between, and how long a deque was *)
(* not pruned, makes no difference. (The times of a feed are in order.)    *)
IdsMatchesLog ==
  ids_log # <<>> =>
    LET last == Last(ids_log)
        mine == {i \in DOMAIN ids_log : /\ ids_log[i].ev.src = last.ev.src
                                        /\ last.ts - ids_log[i].ts <= IdsWindow}
        found == {f.rule : f \in ids_findings}
    IN /\ "ano_portscan" \in found <=>
            /\ last.ev.port # "none"
            /\ Cardinality({ids_log[i].ev.port : i \in mine} \ {"none"}) >= ScanPorts
       /\ "ano_sweep" \in found <=>
            Cardinality({ids_log[i].ev.dst : i \in mine}) >= SweepHosts
       /\ "ano_brute" \in found <=>
            /\ last.ev.auth_fail
            /\ Cardinality({i \in mine : ids_log[i].ev.auth_fail}) >= BruteForce
       /\ "ano_beacon" \in found =>
            Cardinality({i \in mine : ids_log[i].ev.dst = last.ev.dst}) >= BeaconSamples
=============================================================================
