---------------------------- MODULE NetworkMapper ----------------------------
(***************************************************************************)
(* The network mapper: one sweep per run, as root with the ARP table and   *)
(* otherwise by ping alone, compared with a saved sweep for rogue devices. *)
(***************************************************************************)
EXTENDS Naturals, FiniteSets

CONSTANTS Address,
          Device,         \* devices that may be on the network, by MAC address
          Silent,         \* those that answer no ping
          Port,           \* ports that may be probed
          Open,           \* device -> the open ones
          MapBound        \* bound: changes of the network and sweeps

VARIABLES net,            \* address -> device
          map_baseline,   \* at most one saved sweep
          swept,          \* the last sweep: [ip, mac, open_ports]
          rogues,         \* addresses of the last sweep flagged as rogue
          seen_net,       \* history: the network at the last sweep, at the saved one, and
                          \* at the one the last sweep was compared with (at most one)
          map_steps

mapperVars == <<net, map_baseline, swept, rogues, seen_net, map_steps>>

MapperInit == /\ net \in {[a \in Address |-> "free"], [a \in Address |-> CHOOSE m \in Device : TRUE]}
              /\ map_baseline = {} /\ swept = {} /\ rogues = {} /\ map_steps = 0
              /\ seen_net = [last |-> net, saved |-> net, compared |-> {}]

Step == map_steps < MapBound /\ map_steps' = map_steps + 1

Lease(a, m) == /\ Step /\ net[a] # m /\ net' = [net EXCEPT ![a] = m]
               /\ UNCHANGED <<map_baseline, swept, rogues, seen_net>>

-----------------------------------------------------------------------------
Live == {a \in Address : net[a] # "free"}
PingSweep == {a \in Live : net[a] \notin Silent}
ArpSweep(root) == IF root THEN Live ELSE {}

Host(a, arp, probes) == [ip |-> a, mac |-> IF a \in arp THEN net[a] ELSE "none",
                         open_ports |-> probes \cap Open[net[a]]]

(* With no answer at all the ARP cache of the system is taken, unprobed.   *)
Sweep(root, probes) ==
  LET found == ArpSweep(root) \cup PingSweep
  IN IF found # {} THEN {Host(a, ArpSweep(root), probes) : a \in found}
     ELSE {Host(a, Live, {}) : a \in Live}

(* Mutant of KnownMacs: the missing MAC address counts as a known one.     *)
KnownMacsOfAll(saved) == {h.mac : h \in saved}
KnownMacs(saved) == {h.mac : h \in saved} \ {"none"}

FindRogues(hosts, saved) ==
  {h.ip : h \in {g \in hosts : /\ g.ip \notin {k.ip : k \in saved} /\ g.mac \notin KnownMacs(saved)}}

(* One run of main; rogues are saved as known hosts with the others.       *)
MapNetwork(root, probes, save) ==
  /\ Step
  /\ LET hosts == Sweep(root, probes) IN
     /\ swept' = hosts
     /\ rogues' = UNION {FindRogues(hosts, saved) : saved \in map_baseline}
     /\ map_baseline' = IF save THEN {hosts} ELSE map_baseline
  /\ seen_net' = [last |-> net, saved |-> IF save THEN net ELSE seen_net.saved,
                  compared |-> {[net |-> seen_net.saved, hosts |-> saved] : saved \in map_baseline}]
  /\ UNCHANGED net

MapperNext == \/ \E a \in Address, m \in Device \cup {"free"} : Lease(a, m)
              \/ \E root, save \in BOOLEAN, probes \in {{}, Port} : MapNetwork(root, probes, save)

-----------------------------------------------------------------------------
(* Flagged is only a host at an address where nothing had answered, and    *)
(* whose device is new there or was not learnt by its MAC address in both  *)
(* sweeps; a device that is new goes unflagged only at the address of one  *)
(* that had answered, and nothing is flagged without a saved sweep.        *)
RoguesAreStrangers ==
  /\ seen_net.compared = {} => rogues = {}
  /\ \A old \in seen_net.compared, h \in swept :
       LET m == seen_net.last[h.ip]
           answered == \E k \in old.hosts : k.ip = h.ip
           new == \A a \in Address : old.net[a] # m
           learnt == h.mac = m /\ \E k \in old.hosts : k.mac = m
       IN IF h.ip \in rogues THEN ~answered /\ (new \/ ~learnt) ELSE answered \/ ~new
=============================================================================
