--------------------------- MODULE PolicyEngines ---------------------------
(***************************************************************************)
(* The two engines that judge one item at a time: the firewall policy      *)
(* (ordered rules, the first that matches decides, else the default) and   *)
(* the web application firewall (weights of the signatures that hit).      *)
(***************************************************************************)
EXTENDS Integers, Sequences, FiniteSets, FiniteSetsExt, SequencesExt

CONSTANTS FwRule,         \* rules that may be added: action, dir, and the sets proto, src,
                          \* dst, port ("any" is the whole set)
          Flow,           \* flows: dir, proto, src_ip, dst_ip, dst_port
          RuleBound,      \* bound: rules of a policy
          HitBound        \* bound: places of a request where a signature hits

VARIABLES rules,          \* of the policy, in order
          default_action,
          request         \* a request as the engine sees it: the <<signature, target>> that hit

policyVars == <<rules, default_action, request>>

PolicyInit == rules = <<>> /\ default_action \in {"allow", "deny"} /\ request = {}

Matches(r, f) == /\ r.dir = f.dir
                 /\ f.proto \in r.proto /\ f.src_ip \in r.src
                 /\ f.dst_ip \in r.dst /\ f.dst_port \in r.port

(* Mutant of Deciding: the last rule that matches.                         *)
DecidingLast(policy, f) ==
  {i \in DOMAIN policy : /\ Matches(policy[i], f)
                         /\ \A j \in (i + 1)..Len(policy) : ~Matches(policy[j], f)}

Deciding(policy, f) ==
  {i \in DOMAIN policy : /\ Matches(policy[i], f)
                         /\ \A j \in 1..(i - 1) : ~Matches(policy[j], f)}

FwEvaluate(policy, f) == IF Deciding(policy, f) = {} THEN default_action
                         ELSE policy[CHOOSE i \in Deciding(policy, f) : TRUE].action

AddRule(r) == Len(rules) < RuleBound /\ rules' = Append(rules, r)
              /\ UNCHANGED <<default_action, request>>

-----------------------------------------------------------------------------
Everywhere == {"uri", "args", "body"}
Signature ==
  [sqli_1 |-> [weight |-> 6, targets |-> Everywhere],
   sqli_2 |-> [weight |-> 3, targets |-> {"args", "body"}],
   xss_1  |-> [weight |-> 5, targets |-> Everywhere],
   xss_2  |-> [weight |-> 4, targets |-> {"args", "body"}],
   lfi_1  |-> [weight |-> 6, targets |-> {"uri", "args"}],
   rce_1  |-> [weight |-> 6, targets |-> Everywhere],
   ssrf_1 |-> [weight |-> 5, targets |-> Everywhere],
   jndi_1 |-> [weight |-> 8, targets |-> Everywhere \cup {"headers"}],
   scan_1 |-> [weight |-> 4, targets |-> {"headers"}]]
BLOCK_THRESHOLD == 5

(* One hit per rule is enough: a rule counts once, in the first of its     *)
(* targets that it is found in.                                            *)
WafMatched(req) == {r \in DOMAIN Signature : \E t \in Signature[r].targets : <<r, t>> \in req}
WafScore(req) == FoldSet(LAMBDA r, sum : sum + Signature[r].weight, 0, WafMatched(req))
WafVerdict(req) == IF WafScore(req) >= BLOCK_THRESHOLD THEN "BLOCK" ELSE "ALLOW"

(* A part of the request matches one pattern more.                         *)
Hit(r, t) == /\ Cardinality(request) < HitBound
             /\ request' = request \cup {<<r, t>>}
             /\ UNCHANGED <<rules, default_action>>

PolicyNext == \/ \E r \in FwRule : AddRule(r)
              \/ \E r \in {"sqli_1", "sqli_2", "xss_2", "scan_1"}, t \in {"args", "body", "headers", "cookies"} :
                   Hit(r, t)

-----------------------------------------------------------------------------
(* The firewall is decided from the top: what a policy says of a flow that *)
(* some rule matched never changes when rules are appended, so a deny at   *)
(* the top cannot be undone below, and the default speaks only for flows   *)
(* without a rule. The web firewall never pardons: a request that matches  *)
(* more is not scored lower, a pattern found in several parts counts once, *)
(* and it takes no less than one strong or two weak signatures to block.   *)
PolicyIsStable ==
  /\ \A f \in Flow : \A n \in 0..Len(rules) :
       (\E i \in 1..n : Matches(rules[i], f))
         => FwEvaluate(SubSeq(rules, 1, n), f) = FwEvaluate(rules, f)
  /\ \A h \in request : WafScore(request \ {h}) <= WafScore(request)
  /\ WafVerdict(request) = "BLOCK" =>
       \/ \E h \in request : Signature[h[1]].weight >= BLOCK_THRESHOLD
       \/ Cardinality({h[1] : h \in request}) >= 2
=============================================================================
