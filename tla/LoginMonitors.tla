--------------------------- MODULE LoginMonitors ----------------------------
(***************************************************************************)
(* The two tools that read of logins: the credential monitor (password     *)
(* sprays and weak hashes) and the lateral movement detector (bursts, hops *)
(* and new paths from host to host).                                       *)
(***************************************************************************)
EXTENDS Integers, Sequences, FiniteSets, FiniteSetsExt, SequencesExt

-----------------------------------------------------------------------------
(* The credential monitor: password sprays found in an auth log, weak and  *)
(* shared hashes found in a dump of accounts. Both are passes over what    *)
(* was read; the state is the input, one line longer at every step.        *)
CONSTANTS Attempt,        \* attempts [src, user, success], without their time
          SprayWindow, AccountThreshold,
          HashLine,       \* lines [user, hash] of the dump
          Weakness,       \* weak_score per hash; "locked" is one of LOCK_INDICATORS
          CredBound,      \* bound: attempts of a log
          DumpBound       \* bound: lines of a dump

VARIABLES attempts,       \* of the log, in its order: [ts, src, user, success]
          dump            \* the lines, in order

credVars == <<attempts, dump>>

CredInit == attempts = <<>> /\ dump = <<>>

(* A log is written in order of time; several lines may have one second.   *)
(* A command reads either a log or a dump.                                 *)
ReadAttempt(a, wait) ==
  /\ Len(attempts) < CredBound /\ dump = <<>>
  /\ attempts' = Append(attempts, a @@ [ts |-> wait + IF attempts = <<>> THEN 0 ELSE Last(attempts).ts])
  /\ UNCHANGED dump
ReadHash(line) == /\ Len(dump) < DumpBound /\ attempts = <<>>
                  /\ dump' = Append(dump, line) /\ UNCHANGED attempts

CredNext == \/ \E a \in Attempt, wait \in {0, 1, SprayWindow + 1} : ReadAttempt(a, wait)
            \/ \E line \in HashLine : ReadHash(line)

-----------------------------------------------------------------------------
(* Mutant of WindowAt: whatever the source did before.                     *)
WindowAtAll(evs, n) == [i \in 1..n |-> evs[i]]

(* The deque after the n-th attempt of a source.                           *)
WindowAt(evs, n) ==
  SelectSeq([i \in 1..n |-> evs[i]], LAMBDA e : evs[n].ts - e.ts <= SprayWindow)

Accounts(window) == {window[i].user : i \in DOMAIN window}

(* cv <= 0.6 over the gaps: 25 var <= 9 mean^2, without root or division.  *)
RegularEnough(window) ==
  LET gaps == [i \in 1..(Len(window) - 1) |-> window[i + 1].ts - window[i].ts]
      sum == FoldLeft(+, 0, gaps)
      squares == FoldLeft(LAMBDA s, g : s + g * g, 0, gaps)
  IN 25 * (Len(gaps) * squares - sum * sum) <= 9 * sum * sum

Measurable(window) == Len(window) >= 4 /\ Last(window).ts > window[1].ts

FewSuccesses(window) ==       \* max_success_ratio 0.15
  100 * Cardinality({i \in DOMAIN window : window[i].success}) <= 15 * Len(window)

VolumeOverwhelming(window) == Cardinality(Accounts(window)) >= 2 * AccountThreshold

Sprayed(window) ==
  /\ Cardinality(Accounts(window)) >= AccountThreshold
  /\ FewSuccesses(window) /\ Measurable(window)
  /\ RegularEnough(window) \/ VolumeOverwhelming(window)

(* detect: per source the first window that tells of a spray.              *)
Detect(log) ==
  {[src |-> s,
    window |-> LET evs == SelectSeq(log, LAMBDA a : a.src = s)
               IN WindowAt(evs, Min({n \in DOMAIN evs : Sprayed(WindowAt(evs, n))}))] :
     s \in {x \in {log[i].src : i \in DOMAIN log} :
              LET evs == SelectSeq(log, LAMBDA a : a.src = x)
              IN \E n \in DOMAIN evs : Sprayed(WindowAt(evs, n))}}

-----------------------------------------------------------------------------
(* audit: a locked account is passed over; a hash is weak by its own, or   *)
(* shared by the lines that carry it.                                      *)
Audited(lines) == SelectSeq(lines, LAMBDA l : l.hash # "locked")
WeakHashes(lines) == {l \in ToSet(Audited(lines)) : Weakness[l.hash] > 0}
SharedHashes(lines) ==
  {h \in {l.hash : l \in ToSet(Audited(lines))} :
     Cardinality({i \in DOMAIN Audited(lines) : Audited(lines)[i].hash = h}) > 1}

-----------------------------------------------------------------------------
(* A source reported for a spray did try that many accounts within one     *)
(* window and mostly failed; what other sources do makes no difference to  *)
(* it; and a log that goes on never withdraws or changes a report. So too  *)
(* for hashes: a longer dump reports no less, and a locked account never.  *)
SpraysStand ==
  /\ \A f \in Detect(attempts) :
       /\ \E n \in DOMAIN attempts :
            LET tried == {i \in 1..n : /\ attempts[i].src = f.src
                                       /\ attempts[n].ts - attempts[i].ts <= SprayWindow}
            IN /\ Cardinality({attempts[i].user : i \in tried}) >= AccountThreshold
               /\ 2 * Cardinality({i \in tried : attempts[i].success}) < Cardinality(tried)
       /\ f \in Detect(SelectSeq(attempts, LAMBDA a : a.src = f.src))
  /\ attempts # <<>> => Detect(Front(attempts)) \subseteq Detect(attempts)
  /\ dump # <<>> => /\ WeakHashes(Front(dump)) \subseteq WeakHashes(dump)
                    /\ SharedHashes(Front(dump)) \subseteq SharedHashes(dump)
  /\ \A h \in SharedHashes(dump) : h # "locked"

-----------------------------------------------------------------------------
(* The lateral movement detector: the logins and Kerberos events of all    *)
(* hosts' logs, put in order of time, searched for bursts, hops from host  *)
(* to host, jumps to privileged accounts and paths never seen before.      *)
CONSTANTS Login,          \* successful logins [src, dst_host, user], without their time
          Privileged,     \* PRIVILEGED_ACCOUNTS
          Account,        \* accounts whose pre-authentication fails
          LastSecond,     \* times are 0..LastSecond, in any order: each host has its own log
          FanoutThreshold, FaninThreshold, BurstWindow,
          AsrepThreshold, AsrepWindow, ChainWindow,
          LoginBound, AsBound     \* bounds: lines read

VARIABLES edges,            \* the logins, in the order they were read
          kerberos_as_fail, \* [account, ts], likewise
          baseline_edges    \* the edge set of an earlier run

lateralVars == <<edges, kerberos_as_fail, baseline_edges>>

LateralInit == edges = <<>> /\ kerberos_as_fail = <<>> /\ baseline_edges = {}

EdgeKey(e) == <<e.src, e.dst_host, e.user>>
BuildEdgeSet(es) == {EdgeKey(e) : e \in ToSet(es)}

ReadLogin(l, ts) == /\ Len(edges) < LoginBound /\ kerberos_as_fail = <<>>
                    /\ edges' = Append(edges, l @@ [ts |-> ts])
                    /\ UNCHANGED <<kerberos_as_fail, baseline_edges>>
ReadAsFail(a, ts) == /\ Len(kerberos_as_fail) < AsBound /\ edges = <<>>
                     /\ kerberos_as_fail' = Append(kerberos_as_fail, [account |-> a, ts |-> ts])
                     /\ UNCHANGED <<edges, baseline_edges>>
(* A run that saves its graph as the baseline of the next.                 *)
SaveBaseline == /\ edges # <<>> /\ baseline_edges' = BuildEdgeSet(edges)
                /\ UNCHANGED <<edges, kerberos_as_fail>>

LateralNext == \/ \E l \in Login, ts \in 0..LastSecond : ReadLogin(l, ts)
               \/ \E a \in Account, ts \in 0..LastSecond : ReadAsFail(a, ts)
               \/ SaveBaseline

-----------------------------------------------------------------------------
(* The stable sort by time.                                                *)
ByTime(evs) ==
  LET pairs == SortSeq([i \in DOMAIN evs |-> <<evs[i].ts, i>>],
                       LAMBDA p, q : p[1] < q[1] \/ (p[1] = q[1] /\ p[2] < q[2]))
  IN [i \in DOMAIN evs |-> evs[pairs[i][2]]]

(* Mutant of Reported: the burst goes on after it was reported.            *)
ReportedKept(window) == window

(* window.clear() when a burst is reported.                                *)
Reported(window) == <<>>

(* The bursts of a log: the deque after each event, cut at the window,     *)
(* reported and cleared when it holds enough different keys.               *)
Bursts(evs, window, KeyOf(_), threshold) ==
  FoldLeft(LAMBDA s, e :
             LET w == SelectSeq(Append(s.window, e), LAMBDA x : e.ts - x.ts <= window)
             IN IF Cardinality({KeyOf(w[i]) : i \in DOMAIN w}) >= threshold
                THEN [window |-> Reported(w), bursts |-> Append(s.bursts, w)]
                ELSE [s EXCEPT !.window = w],
           [window |-> <<>>, bursts |-> <<>>], ByTime(evs)).bursts

Of(evs, P(_)) == SelectSeq(evs, P)

(* Sources and targets of a burst of logins are reported once (break), the *)
(* failures, which are one stream, again and again.                        *)
Fanout == {s \in {e.src : e \in ToSet(edges)} :
             Bursts(Of(edges, LAMBDA e : e.src = s), BurstWindow,
                    LAMBDA e : e.dst_host, FanoutThreshold) # <<>>}
Fanin == {t \in {<<e.dst_host, e.user>> : e \in ToSet(edges)} :
            Bursts(Of(edges, LAMBDA e : <<e.dst_host, e.user>> = t), BurstWindow,
                   LAMBDA e : e.src, FaninThreshold) # <<>>}
AsrepRoasting == Bursts(kerberos_as_fail, AsrepWindow, LAMBDA e : e.account, AsrepThreshold)

(* Two logins of one account in a row, on different hosts, in the window.  *)
(* A source is an address and a destination a host name, so no login is    *)
(* from a host to itself and the second need not start where the first     *)
(* arrived, unless both are of the same second.                            *)
ChainHops ==
  UNION {LET evs == ByTime(Of(edges, LAMBDA e : e.user = u))
         IN {<<evs[i], evs[i + 1]>> :
               i \in {j \in 1..(Len(evs) - 1) :
                        /\ evs[j].dst_host # evs[j + 1].dst_host
                        /\ evs[j + 1].ts - evs[j].ts <= ChainWindow
                        /\ evs[j].dst_host = evs[j + 1].src \/ evs[j].ts < evs[j + 1].ts}} :
           u \in {e.user : e \in ToSet(edges)}}

(* A privileged login of a source on another host than the last where it   *)
(* used a standard account.                                                *)
PrivJumps ==
  UNION {LET evs == ByTime(Of(edges, LAMBDA e : e.src = s))
             Normal(n) == {i \in 1..(n - 1) : evs[i].user \notin Privileged}
         IN {evs[n] : n \in {m \in DOMAIN evs :
               /\ evs[m].user \in Privileged /\ Normal(m) # {}
               /\ evs[Max(Normal(m))].dst_host # evs[m].dst_host}} :
           s \in {e.src : e \in ToSet(edges)}}

NewEdges == BuildEdgeSet(edges) \ baseline_edges

-----------------------------------------------------------------------------
(* A source or target is reported exactly when that many hosts or sources  *)
(* lie within one window, wherever the logs of several hosts put its       *)
(* logins; the reports of failures are of different failures each; a hop   *)
(* or a jump goes forward in time and to another host; and what was in the *)
(* logs the baseline was made of is never a new path.                      *)
BurstsAreReal ==
  LET Within(evs, e, window) == {x \in ToSet(evs) : x.ts <= e.ts /\ e.ts - x.ts <= window}
  IN /\ Fanout = {s \in {e.src : e \in ToSet(edges)} : \E e \in ToSet(edges) :
                    Cardinality({x.dst_host : x \in {y \in Within(edges, e, BurstWindow) : y.src = s}})
                      >= FanoutThreshold}
     /\ Fanin = {t \in {<<e.dst_host, e.user>> : e \in ToSet(edges)} : \E e \in ToSet(edges) :
                   Cardinality({x.src : x \in {y \in Within(edges, e, BurstWindow) :
                                                 <<y.dst_host, y.user>> = t}}) >= FaninThreshold}
     /\ (AsrepRoasting # <<>>) <=> \E e \in ToSet(kerberos_as_fail) :
          Cardinality({x.account : x \in Within(kerberos_as_fail, e, AsrepWindow)}) >= AsrepThreshold
     /\ FoldLeft(LAMBDA n, w : n + Len(w), 0, AsrepRoasting) <= Len(kerberos_as_fail)
     /\ \A hop \in ChainHops : hop[1].ts <= hop[2].ts /\ hop[1].user = hop[2].user
     /\ \A e \in PrivJumps : \E x \in ToSet(edges) :
          x.src = e.src /\ x.ts <= e.ts /\ x.dst_host # e.dst_host /\ x.user \notin Privileged
     /\ NewEdges \cap baseline_edges = {}
=============================================================================
