---------------------------- MODULE DnsAnalyzer ----------------------------
(***************************************************************************)
(* The DNS analyzer: five engines fed with every record in turn. Three     *)
(* count in sliding windows (per domain or per source), two judge the name *)
(* alone; each reports a key once.                                         *)
(***************************************************************************)
EXTENDS Integers, Sequences, FiniteSets, FiniteSetsExt, SequencesExt

CONSTANTS DnsRecord,      \* [src, qname, qtype, rcode, answers (set of <<net, host>>), ttl]
          Generated,      \* names with low plausibility, high entropy and long consonant runs
          Lookalike,      \* names within two edits, or a homoglyph, of a watched domain
          LongLabel,      \* names with a first label of 40 or more and high entropy
          FluxWindow, FluxIps, FluxNets, FluxTtl,
          TunnelWindow, TunnelRate,
          NxWindow, NxRate, NxUnique,
          DnsBound        \* bound: records fed

VARIABLES dns_now,
          flux_history,   \* per domain: [ts, ip, ttl]
          tunnel_history, \* per source: [ts, qname]
          nx_history,     \* per source: [ts, qname]
          dns_reported,   \* the five _reported sets, as <<finding_type, key>>
          dns_findings,   \* the findings, in order, as <<finding_type, key>>
          dns_log         \* history: the records with their time

dnsVars == <<dns_now, flux_history, tunnel_history, nx_history, dns_reported, dns_findings,
             dns_log>>

Names == {r.qname : r \in DnsRecord}
Sources == {r.src : r \in DnsRecord}

DnsInit == /\ dns_now = 0 /\ dns_reported = {} /\ dns_findings = <<>> /\ dns_log = <<>>
           /\ flux_history = [q \in Names |-> <<>>]
           /\ tunnel_history = [s \in Sources |-> <<>>]
           /\ nx_history = [s \in Sources |-> <<>>]

-----------------------------------------------------------------------------
(* popleft while the oldest entry is older than the window.                *)
Recent(hist, now, window) == SelectSeq(hist, LAMBDA e : now - e.ts <= window)

IsFlux(hist) ==
  LET ips == {hist[i].ip : i \in DOMAIN hist}
  IN /\ Cardinality(ips) >= FluxIps
     /\ FoldLeft(LAMBDA s, e : s + e.ttl, 0, hist) <= FluxTtl * Len(hist)
     /\ Cardinality({ip[1] : ip \in ips}) >= FluxNets

IsTunnel(hist) ==
  /\ Len(hist) >= TunnelRate
  /\ 2 * Cardinality({i \in DOMAIN hist : hist[i].qname \in LongLabel}) >= Len(hist)

IsNxBurst(hist) ==
  /\ Len(hist) >= NxRate
  /\ Cardinality({hist[i].qname : i \in DOMAIN hist}) >= NxUnique

(* Mutant of FluxHeard: an answer replaces the ones before it.             *)
FluxHeardAlone(r) ==
  IF r.qtype # "A" \/ r.answers = {} THEN flux_history[r.qname]
  ELSE SetToSeq({[ts |-> dns_now, ip |-> ip, ttl |-> r.ttl] : ip \in r.answers})

FluxHeard(r) ==
  IF r.qtype # "A" \/ r.answers = {} THEN flux_history[r.qname]
  ELSE Recent(flux_history[r.qname]
              \o SetToSeq({[ts |-> dns_now, ip |-> ip, ttl |-> r.ttl] : ip \in r.answers}),
              dns_now, FluxWindow)

TunnelHeard(r) == Recent(Append(tunnel_history[r.src], [ts |-> dns_now, qname |-> r.qname]),
                         dns_now, TunnelWindow)

NxHeard(r) ==
  IF r.rcode # "NXDOMAIN" THEN nx_history[r.src]
  ELSE Recent(Append(nx_history[r.src], [ts |-> dns_now, qname |-> r.qname]), dns_now, NxWindow)

(* feed: the engines in their order, and what each has to say.             *)
Feed(r) ==
  LET verdicts ==
        <<[key |-> <<"dga_domain", r.qname>>, fires |-> r.qname \in Generated],
          [key |-> <<"fast_flux", r.qname>>,
           fires |-> r.qtype = "A" /\ r.answers # {} /\ IsFlux(FluxHeard(r))],
          [key |-> <<"dns_tunnel", r.src>>, fires |-> IsTunnel(TunnelHeard(r))],
          [key |-> <<"typosquat", r.qname>>, fires |-> r.qname \in Lookalike],
          [key |-> <<"nxdomain_burst", r.src>>,
           fires |-> r.rcode = "NXDOMAIN" /\ IsNxBurst(NxHeard(r))]>>
      new == SelectSeq(verdicts, LAMBDA v : v.fires /\ v.key \notin dns_reported)
  IN /\ Len(dns_log) < DnsBound
     /\ flux_history' = [flux_history EXCEPT ![r.qname] = FluxHeard(r)]
     /\ tunnel_history' = [tunnel_history EXCEPT ![r.src] = TunnelHeard(r)]
     /\ nx_history' = [nx_history EXCEPT ![r.src] = NxHeard(r)]
     /\ dns_reported' = dns_reported \cup {v.key : v \in ToSet(new)}
     /\ dns_findings' = dns_findings \o [i \in DOMAIN new |-> new[i].key]
     /\ dns_log' = Append(dns_log, [ts |-> dns_now, r |-> r])
     /\ UNCHANGED dns_now

DnsTick == /\ Len(dns_log) < DnsBound /\ dns_log # <<>>
           /\ dns_now - Last(dns_log).ts <= FluxWindow
           /\ dns_now' = dns_now + 1
           /\ UNCHANGED <<flux_history, tunnel_history, nx_history, dns_reported, dns_findings,
                          dns_log>>

DnsNext == DnsTick \/ \E r \in DnsRecord : Feed(r)

-----------------------------------------------------------------------------
(* The records among the first n of the log that lie in the window that    *)
(* ends with the n-th, and have P.                                         *)
LogWindow(n, window, P(_)) ==
  {i \in 1..n : dns_log[n].ts - dns_log[i].ts <= window /\ P(dns_log[i].r)}

(* The findings are what the whole log says, whatever was cut from the     *)
(* histories and whoever else sent records in between: a source or domain  *)
(* is reported, once, exactly when some record completed its pattern       *)
(* within one window.                                                      *)
FindingsMatchLog ==
  /\ IsInjective(dns_findings) /\ ToSet(dns_findings) = dns_reported
  /\ \A q \in Names :
       <<"fast_flux", q>> \in dns_reported <=>
         \E n \in DOMAIN dns_log :
           LET w == LogWindow(n, FluxWindow, LAMBDA r : r.qname = q /\ r.qtype = "A")
               ips == UNION {dns_log[i].r.answers : i \in w}
               Total(F(_)) == FoldSet(LAMBDA i, sum : sum + F(dns_log[i].r), 0, w)
           IN /\ dns_log[n].r.qname = q /\ dns_log[n].r.qtype = "A" /\ dns_log[n].r.answers # {}
              /\ Cardinality(ips) >= FluxIps /\ Cardinality({ip[1] : ip \in ips}) >= FluxNets
              /\ Total(LAMBDA r : r.ttl * Cardinality(r.answers))
                   <= FluxTtl * Total(LAMBDA r : Cardinality(r.answers))
  /\ \A s \in Sources :
       /\ <<"dns_tunnel", s>> \in dns_reported <=>
            \E n \in DOMAIN dns_log :
              LET w == LogWindow(n, TunnelWindow, LAMBDA r : r.src = s)
              IN /\ dns_log[n].r.src = s /\ Cardinality(w) >= TunnelRate
                 /\ 2 * Cardinality({i \in w : dns_log[i].r.qname \in LongLabel}) >= Cardinality(w)
       /\ <<"nxdomain_burst", s>> \in dns_reported <=>
            \E n \in DOMAIN dns_log :
              LET w == LogWindow(n, NxWindow, LAMBDA r : r.src = s /\ r.rcode = "NXDOMAIN")
              IN /\ dns_log[n].r.src = s /\ dns_log[n].r.rcode = "NXDOMAIN"
                 /\ Cardinality(w) >= NxRate
                 /\ Cardinality({dns_log[i].r.qname : i \in w}) >= NxUnique
=============================================================================
