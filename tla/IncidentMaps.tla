---------------------------- MODULE IncidentMaps ----------------------------
(***************************************************************************)
(* The two tools that place an incident: on the graph of assets (the       *)
(* blast-radius mapper) and on the stages of an intrusion (the kill-chain  *)
(* reconstructor).                                                         *)
(***************************************************************************)
EXTENDS Integers, Sequences, FiniteSets, FiniteSetsExt, SequencesExt

-----------------------------------------------------------------------------
(* The blast-radius mapper: a reachability graph the operator declares,    *)
(* and from an origin the hops, the shortest paths, the share of the       *)
(* estate exposed and the criticality handed to the decision engine.       *)
CONSTANTS Asset,
          GraphBound      \* bound: calls that declare the model

VARIABLES assets,         \* declared assets with their values
          edges,          \* per node that has an entry, its neighbours in order
          declared        \* calls so far

graphVars == <<assets, edges, declared>>

Value == [low |-> 1, normal |-> 2, high |-> 5, crown_jewel |-> 10]

GraphInit == assets = <<>> /\ edges = <<>> /\ declared = 0

SetDefault(f, a) == IF a \in DOMAIN f THEN f ELSE f @@ (a :> <<>>)
Link(f, a, b) == IF b \in ToSet(f[a]) THEN f ELSE [f EXCEPT ![a] = Append(@, b)]

AddAsset(a, value) ==
  /\ assets' = (a :> value) @@ assets
  /\ edges' = SetDefault(edges, a)

(* edges with one more, or one each way.                                   *)
WithEdge(a, b, bidirectional) ==
  LET there == Link(SetDefault(edges, a), a, b)
  IN IF bidirectional THEN Link(SetDefault(there, b), b, a) ELSE there

AddEdge(a, b, bidirectional) ==
  edges' = WithEdge(a, b, bidirectional) /\ UNCHANGED assets

GraphNext ==
  /\ declared < GraphBound /\ declared' = declared + 1
  /\ \/ \E a \in Asset, v \in {"normal", "high", "crown_jewel"} : AddAsset(a, v)
     \/ \E a, b \in Asset, bi \in BOOLEAN : a # b /\ AddEdge(a, b, bi)

-----------------------------------------------------------------------------
Neighbours(g, a) == IF a \in DOMAIN g THEN g[a] ELSE <<>>

(* Mutant of Fresh: a node is found again.                                 *)
FreshOrNot(dist, n) == TRUE

Fresh(dist, n) == n \notin DOMAIN dist

(* One turn of the search: the head of the queue finds its neighbours.     *)
Visit(g, s) ==
  IF s.q = <<>> THEN s
  ELSE LET cur == Head(s.q)
           new == SelectSeq(Neighbours(g, cur), LAMBDA n : Fresh(s.dist, n))
       IN [q |-> Tail(s.q) \o new,
           dist |-> [n \in ToSet(new) |-> s.dist[cur] + 1] @@ s.dist,
           prev |-> [n \in ToSet(new) |-> cur] @@ s.prev]

(* Every node enters the queue once, so |Asset| turns empty it.            *)
Search(g, origin) ==
  FoldLeft(LAMBDA s, i : Visit(g, s), [q |-> <<origin>>, dist |-> (origin :> 0), prev |-> <<>>],
           [i \in 1..Cardinality(Asset) |-> i])

Path(prev, origin, target) ==
  FoldLeft(LAMBDA p, i : IF Head(p) # origin /\ Head(p) \in DOMAIN prev
                         THEN <<prev[Head(p)]>> \o p ELSE p,
           <<target>>, [i \in 1..Cardinality(Asset) |-> i])

Weight(a) == Value[IF a \in DOMAIN assets THEN assets[a] ELSE "normal"]
WeightOf(set) == FoldSet(LAMBDA a, sum : sum + Weight(a), 0, set)

(* to_decision_criticality of compute: score >= 1/2, >= 1/4.               *)
Criticality(g, origin) ==
  LET reachable == DOMAIN Search(g, origin).dist \ {origin}
      values == {IF a \in DOMAIN assets THEN assets[a] ELSE "normal" : a \in reachable}
      total == IF assets = <<>> THEN 1 ELSE WeightOf(DOMAIN assets)
  IN IF origin \notin DOMAIN g THEN "normal"
     ELSE IF "crown_jewel" \in values \/ 2 * WeightOf(reachable) >= total THEN "crown_jewel"
     ELSE IF "high" \in values \/ 4 * WeightOf(reachable) >= total THEN "high" ELSE "normal"

-----------------------------------------------------------------------------
(* The hops are the least possible (no edge leads out of what was found,   *)
(* nor ahead by more than a hop), and the path shown for an asset leads    *)
(* there along declared edges with that many hops, whatever order the      *)
(* edges were declared in and whether they run one way or both.            *)
ShortestPaths ==
  \A origin \in DOMAIN edges :
    LET s == Search(edges, origin)
    IN /\ \A a \in DOMAIN s.dist : \A n \in ToSet(Neighbours(edges, a)) :
            n \in DOMAIN s.dist /\ s.dist[n] <= s.dist[a] + 1
       /\ \A a \in DOMAIN s.dist \ {origin} :
            LET p == Path(s.prev, origin, a)
            IN /\ Len(p) = s.dist[a] + 1 /\ p[1] = origin /\ Last(p) = a
               /\ \A i \in 1..(Len(p) - 1) : p[i + 1] \in ToSet(Neighbours(edges, p[i]))

Rank == [normal |-> 0, high |-> 1, crown_jewel |-> 2]

(* One more edge never makes an origin less critical to the decision       *)
(* engine, though the score divides by an estate that edges do not extend. *)
EdgesRaiseCriticality ==
  \A origin \in DOMAIN edges : LET now == Rank[Criticality(edges, origin)] IN
    \A a, b \in Asset : a # b => Rank[Criticality(WithEdge(a, b, FALSE), origin)] >= now

-----------------------------------------------------------------------------
(* The kill-chain reconstructor: the techniques observed so far, ordered   *)
(* into the stages of an intrusion.                                        *)
CONSTANTS Tactics,        \* the techniques that TECHNIQUES knows, with their tactics
          Unknown,        \* technique ids it does not know
          ChainBound      \* bound: techniques observed

VARIABLE observed         \* the technique ids, in the order of observation

ChainInit == observed = <<>>
Observe(tid) == Len(observed) < ChainBound /\ observed' = Append(observed, tid)
ChainNext == \E tid \in DOMAIN Tactics \cup Unknown : Observe(tid)

TACTIC_ORDER == <<"recon", "initial_access", "execution", "persistence", "privilege_escalation",
                  "defense_evasion", "credential_access", "discovery", "lateral_movement",
                  "collection", "command_and_control", "exfiltration", "impact">>

(* by_tactic: per stage, its techniques in the order they came. A tactic   *)
(* outside the chain is passed over.                                       *)
ByTactic(tids) ==
  FoldLeft(LAMBDA by, tid :
             [ta \in DOMAIN by |->
                IF tid \in DOMAIN Tactics /\ ta \in Tactics[tid] /\ tid \notin ToSet(by[ta])
                THEN Append(by[ta], tid) ELSE by[ta]],
           [ta \in ToSet(TACTIC_ORDER) |-> <<>>], tids)

(* Mutant of Furthest: how many stages were seen.                          *)
FurthestByCount(steps) == IF steps = <<>> THEN 0 ELSE Len(steps)

(* The place in the chain of the furthest stage; 0 when there is none.     *)
Furthest(steps) == IF steps = <<>> THEN 0
                   ELSE CHOOSE i \in DOMAIN TACTIC_ORDER : TACTIC_ORDER[i] = Last(steps)

(* reconstruct: the stages in order, and how far along the chain they are. *)
Reconstruct(tids) ==
  LET by == ByTactic(tids)
      steps == SelectSeq(TACTIC_ORDER, LAMBDA ta : by[ta] # <<>>)
  IN [steps |-> steps, techniques |-> [ta \in ToSet(steps) |-> ToSet(by[ta])],
      progress |-> Furthest(steps), reached_impact |-> steps # <<>> /\ Last(steps) = "impact"]

-----------------------------------------------------------------------------
(* A chain is the same for the same observations in any order and however  *)
(* often they repeat; one more observation never sets it back; it is       *)
(* complete exactly when impact was reached; and the stages a technique    *)
(* serves all show it.                                                     *)
ChainFollowsObservations ==
  LET chain == Reconstruct(observed)
  IN /\ chain = Reconstruct(Reverse(observed) \o observed)
     /\ observed # <<>> => chain.progress >= Reconstruct(Front(observed)).progress
     /\ chain.reached_impact <=> chain.progress = Len(TACTIC_ORDER)
     /\ \A tid \in ToSet(observed) \cap DOMAIN Tactics :
          \A ta \in Tactics[tid] \cap ToSet(TACTIC_ORDER) :
            ta \in ToSet(chain.steps) /\ tid \in chain.techniques[ta]
=============================================================================
