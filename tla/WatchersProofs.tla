--------------------------- MODULE WatchersProofs ---------------------------
(***************************************************************************)
(* The tools that watch a host, for every value of their constants: first  *)
(* those that read what comes, then those that hold the host against       *)
(* something stored. One section per tool: its inductive invariant, that   *)
(* the steps of the tool keep it, and that it gives the property.          *)
(***************************************************************************)
EXTENDS Watchers, InductionLemmas, SequenceTheorems, FunctionTheorems, TLAPS

-----------------------------------------------------------------------------
\* Facts several tools need.

(* A finite set has sequences of its members, each of them once.           *)
LEMMA SequencesExist ==
  ASSUME NEW S, IsFiniteSet(S)
  PROVE  \E g \in [1..Cardinality(S) -> S] : \A a, b \in DOMAIN g : g[a] = g[b] => a = b
<1>1. Cardinality(S) \in Nat /\ \E g : g \in Bijection(1..Cardinality(S), S)
  BY FS_CardinalityType DEF ExistsBijection
<1> QED BY <1>1 DEF Bijection, Injection, IsInjective

(* Such a sequence misses none of them.                                    *)
LEMMA SequenceOfSet ==
  ASSUME NEW S, IsFiniteSet(S), NEW f \in [1..Cardinality(S) -> S],
         \A a, b \in DOMAIN f : f[a] = f[b] => a = b
  PROVE  /\ f \in Seq(S) /\ Len(f) = Cardinality(S)
         /\ \A x \in S : \E i \in DOMAIN f : f[i] = x
<1> DEFINE n == Cardinality(S)
<1>1. n \in Nat
  BY FS_CardinalityType
<1>2. f \in Injection(1..n, S)
  BY DEF Injection, IsInjective
<1>3. Cardinality(1..n) = n
  BY <1>1, FS_Interval
<1>4. f \in Surjection(1..n, S)
  <2> HIDE DEF n
  <2> QED BY <1>2, <1>3, FS_Injection DEF n
<1>5. f \in Seq(S) /\ Len(f) = n /\ DOMAIN f = 1..n
  <2> HIDE DEF n
  <2>1. f \in [1..n -> S]
    BY DEF n
  <2> QED BY <1>1, <2>1, SeqDef, LenProperties
<1> QED
  BY <1>4, <1>5 DEF Surjection

(* A function defined on 0..n by its first value and a step exists.        *)
LEMMA RecExists ==
  ASSUME NEW S, NEW n \in Nat, NEW base \in S, NEW step \in [1..n -> [S -> S]]
  PROVE  \E h : IsRecursive(h, n, S, base, step)
<1> DEFINE more == [i \in Nat |-> IF i \in 1..n THEN step[i] ELSE [x \in S |-> x]]
<1>1. more \in [Nat -> [S -> S]] /\ \A i \in 1..n : more[i] = step[i]
  OBVIOUS
<1> HIDE DEF more
<1>2. PICK h : IsRecursive(h, n, S, base, more)
  BY <1>1, PrimRec
<1> QED BY <1>1, <1>2 DEF IsRecursive

(* What is appended to a sequence stands after it.                         *)
LEMMA Concatenated ==
  ASSUME NEW T, NEW a \in Seq(T), NEW b \in Seq(T)
  PROVE  /\ a \o b \in Seq(T) /\ Len(a) \in Nat /\ Len(b) \in Nat /\ Len(a \o b) = Len(a) + Len(b)
         /\ \A j \in 1..Len(a) : j \in 1..Len(a \o b) /\ (a \o b)[j] = a[j]
         /\ \A j \in 1..Len(b) : Len(a) + j \in 1..Len(a \o b) /\ (a \o b)[Len(a) + j] = b[j]
<1>1. /\ a \o b \in Seq(T) /\ Len(a \o b) = Len(a) + Len(b) /\ Len(a) \in Nat /\ Len(b) \in Nat
      /\ \A i \in 1..Len(a) + Len(b) : (a \o b)[i] = IF i <= Len(a) THEN a[i] ELSE b[i - Len(a)]
  BY ConcatProperties, LenProperties
<1> DEFINE m == Len(a)
           n == Len(b)
           c == a \o b
<1>2. m \in Nat /\ n \in Nat /\ Len(c) = m + n /\ \A i \in 1..m + n : c[i] = IF i <= m THEN a[i] ELSE b[i - m]
  BY <1>1
<1> HIDE DEF m, n, c
<1>3. \A j \in 1..m : j \in 1..Len(c) /\ c[j] = a[j]
  BY <1>2
<1>4. ASSUME NEW j \in 1..n PROVE m + j \in 1..Len(c) /\ c[m + j] = b[j]
  <2>1. m + j \in 1..m + n /\ ~(m + j <= m) /\ (m + j) - m = j
    BY <1>2
  <2> QED BY <1>2, <2>1
<1> QED BY <1>1, <1>3, <1>4 DEF m, n, c

(* What is left of a sequence without its first k.                         *)
LEMMA TailOf ==
  ASSUME NEW S, NEW s \in Seq(S), NEW k \in 0..Len(s), NEW left, left = SubSeq(s, k + 1, Len(s))
  PROVE  left \in Seq(S) /\ Len(left) = Len(s) - k /\ \A i \in 1..Len(s) - k : left[i] = s[i + k]
<1> DEFINE n == Len(s)
<1>1. n \in Nat /\ k \in 0..n /\ left = SubSeq(s, k + 1, n) /\ \A i \in 1..n : s[i] \in S
  BY LenProperties
<1> HIDE DEF n
<1>2. k + 1 \in Int /\ n \in Int /\ \A i \in k + 1..n : s[i] \in S
  BY <1>1
<1>3. /\ left \in Seq(S) /\ Len(left) = IF k + 1 <= n THEN n - (k + 1) + 1 ELSE 0
      /\ \A i \in 1..n - (k + 1) + 1 : left[i] = s[(k + 1) + i - 1]
  BY <1>1, <1>2, SubSeqProperties
<1>4. n - (k + 1) + 1 = n - k /\ (~(k + 1 <= n) => n - k = 0) /\ \A i \in 1..n - k : (k + 1) + i - 1 = i + k
  BY <1>1
<1> QED BY <1>3, <1>4 DEF n

-----------------------------------------------------------------------------
\* The network IDS.

LEMMA OnlyIds ==
  part = "ids" /\ [Next]_slots =>
    part' = part /\ (Ids!IdsNext \/ UNCHANGED <<s1, s2, s3, s4, s5, s6, s7, s8>>)
BY DEF Next, slots

(* An entry of a deque, and an entry of the history.                       *)
Heard == {ev.port : ev \in IdsInput} \cup IdsTarget \cup {"seen"}
Noted == [ts : Nat, what : Heard]
Logged == [ts : Nat, ev : IdsInput]

(* The entries of the deque dq are those of the events of a kind at the    *)
(* places at[1], at[2], ... of the history: what is seen of each of them,  *)
(* with its time.                                                          *)
EntriesAt(at, dq, log, kind, seen) ==
  /\ at \in [1..Len(dq) -> {i \in DOMAIN log : log[i].ev \in kind}]
  /\ \A a, b \in 1..Len(dq) : a < b => at[a] < at[b]
  /\ \A a \in 1..Len(dq) : dq[a].ts = log[at[a]].ts /\ dq[a].what = seen[log[at[a]].ev]

Recent(log, now, kind) == {i \in DOMAIN log : log[i].ev \in kind /\ now - log[i].ts <= IdsWindow}

(* The length of a deque, and what stands in it, when it holds what is     *)
(* recent of its kind and nothing else.                                    *)
CountsRecent(dq, log, now, kind) == Len(dq) = Cardinality(Recent(log, now, kind))
TellsRecent(dq, log, now, kind, seen) ==
  {dq[i].what : i \in DOMAIN dq} = {seen[log[i].ev] : i \in Recent(log, now, kind)}

(* A deque: it misses none of its kind that is recent.                     *)
Remembers(dq, log, now, kind, seen) ==
  /\ dq \in Seq(Noted)
  /\ \E at : /\ EntriesAt(at, dq, log, kind, seen)
             /\ \A i \in Recent(log, now, kind) : \E a \in 1..Len(dq) : at[a] = i

(* The history: its times are in order, and none is after now.             *)
InOrder(log, now) ==
  /\ log \in Seq(Logged) /\ now \in Nat
  /\ \A i, j \in DOMAIN log : i <= j => log[i].ts <= log[j].ts
  /\ \A i \in DOMAIN log : log[i].ts <= now

(* What Prune leaves: it stops at the first entry that is recent.          *)
LEMMA Pruned ==
  ASSUME NEW dq \in Seq(Noted), NEW now \in Nat
  PROVE  \E k \in 0..Len(dq) :
           /\ Ids!Prune(dq, now) \in Seq(Noted) /\ Len(Ids!Prune(dq, now)) = Len(dq) - k
           /\ \A i \in 1..Len(dq) - k : Ids!Prune(dq, now)[i] = dq[i + k]
           /\ \A i \in 1..k : now - dq[i].ts > IdsWindow
           /\ k < Len(dq) => now - dq[k + 1].ts <= IdsWindow
<1> DEFINE Stops(k) == /\ \A i \in 1..k : now - dq[i].ts > IdsWindow
                       /\ k < Len(dq) => now - dq[k + 1].ts <= IdsWindow
           young == {i \in 1..Len(dq) : now - dq[i].ts <= IdsWindow}
<1>1. Len(dq) \in Nat /\ DOMAIN dq = 1..Len(dq) /\ \A i \in 1..Len(dq) : dq[i].ts \in Nat
  <2>1. Len(dq) \in Nat /\ DOMAIN dq = 1..Len(dq) /\ \A i \in 1..Len(dq) : dq[i] \in Noted
    BY LenProperties
  <2> QED BY <2>1 DEF Noted
<1>2. \E k \in 0..Len(dq) : Stops(k)
  <2>1. CASE young = {}
    <3>1. Len(dq) \in 0..Len(dq) /\ \A i \in 1..Len(dq) : now - dq[i].ts > IdsWindow
      BY <1>1, <2>1, StreamAssumption
    <3> QED BY <1>1, <3>1
  <2>2. CASE young # {}
    <3>1. young \in SUBSET Nat
      BY <1>1
    <3>2. PICK m \in young : \A y \in young : m <= y
      <4> HIDE DEF young
      <4> QED BY <2>2, <3>1, NatLeast
    <3>3. m - 1 \in 0..Len(dq) /\ (m - 1) + 1 = m
      BY <1>1, <3>2
    <3>4. \A i \in 1..(m - 1) : now - dq[i].ts > IdsWindow
      BY <1>1, <3>2, StreamAssumption
    <3> QED BY <3>2, <3>3, <3>4
  <2> QED BY <2>1, <2>2
<1>3. Ids!Popped(dq, now) \in 0..Len(dq) /\ Stops(Ids!Popped(dq, now))
  BY <1>2 DEF Ids!Popped
<1> DEFINE n == Len(dq)
           k == Ids!Popped(dq, now)
           left == Ids!Prune(dq, now)
<1>4. k \in 0..n /\ n \in Nat /\ (\A i \in 1..n : dq[i] \in Noted) /\ left = SubSeq(dq, k + 1, n)
  <2>1. \A i \in 1..n : dq[i] \in Noted
    BY LenProperties
  <2> QED BY <1>1, <1>3, <2>1 DEF Ids!Prune
<1> HIDE DEF n, k, left
<1>5. /\ left \in Seq(Noted) /\ Len(left) = n - k
      /\ \A i \in 1..n - k : left[i] = dq[i + k]
  <2>1. k + 1 \in Int /\ n \in Int /\ \A i \in k + 1..n : dq[i] \in Noted
    BY <1>4
  <2>2. /\ left \in Seq(Noted) /\ Len(left) = IF k + 1 <= n THEN n - (k + 1) + 1 ELSE 0
        /\ \A i \in 1..n - (k + 1) + 1 : left[i] = dq[(k + 1) + i - 1]
    BY <1>4, <2>1, SubSeqProperties
  <2>3. n - (k + 1) + 1 = n - k /\ (~(k + 1 <= n) => n - k = 0) /\ \A i \in 1..n - k : (k + 1) + i - 1 = i + k
    BY <1>4
  <2> QED BY <2>2, <2>3
<1> HIDE DEF Stops, young
<1> QED BY <1>3, <1>4, <1>5 DEF Stops, n, k, left

(* Another event: the history stays in order.                              *)
LEMMA InOrderMore ==
  ASSUME NEW log, NEW now, InOrder(log, now), NEW ev \in IdsInput,
         NEW new, new = Append(log, [ts |-> now, ev |-> ev])
  PROVE  InOrder(new, now)
<1> DEFINE n == Len(log)
<1>1. [ts |-> now, ev |-> ev] \in Logged /\ log \in Seq(Logged) /\ now \in Nat
  BY DEF InOrder, Logged
<1>2. /\ new \in Seq(Logged) /\ n \in Nat /\ DOMAIN new = 1..n + 1 /\ DOMAIN log = 1..n
      /\ new[n + 1] = [ts |-> now, ev |-> ev] /\ \A i \in 1..n : new[i] = log[i]
  <2>1. /\ new \in Seq(Logged) /\ Len(new) = n + 1
        /\ new[n + 1] = [ts |-> now, ev |-> ev] /\ \A i \in 1..n : new[i] = log[i]
    BY <1>1, AppendProperties
  <2> QED BY <1>1, <2>1, LenProperties
<1> HIDE DEF n
<1>3. new[n + 1].ts = now /\ \A i \in 1..n + 1 : i \in 1..n \/ i = n + 1
  BY <1>2
<1>4. \A i \in 1..n + 1 : new[i].ts <= now
  <2>1. \A i \in 1..n : new[i].ts <= now
    BY <1>2 DEF InOrder
  <2>2. now <= now
    BY <1>1
  <2> SUFFICES ASSUME NEW i \in 1..n + 1 PROVE new[i].ts <= now
    OBVIOUS
  <2> QED BY <1>3, <2>1, <2>2
<1>5. \A i, j \in 1..n + 1 : i <= j => new[i].ts <= new[j].ts
  <2> SUFFICES ASSUME NEW i \in 1..n + 1, NEW j \in 1..n + 1, i <= j PROVE new[i].ts <= new[j].ts
    OBVIOUS
  <2>1. CASE j = n + 1
    BY <1>3, <1>4, <2>1
  <2>2. CASE j \in 1..n
    <3>1. i \in 1..n
      BY <1>2, <2>2
    <3>2. log[i].ts <= log[j].ts
      BY <1>2, <2>2, <3>1 DEF InOrder
    <3>3. new[i].ts = log[i].ts /\ new[j].ts = log[j].ts
      BY <1>2, <2>2, <3>1
    <3> QED BY <3>2, <3>3
  <2> QED BY <1>3, <2>1, <2>2
<1> QED BY <1>1, <1>2, <1>4, <1>5 DEF InOrder

(* Another event: what a deque of another kind remembers stands.           *)
LEMMA RemembersOthers ==
  ASSUME NEW log, NEW now, InOrder(log, now), NEW dq, NEW kind, NEW seen,
         Remembers(dq, log, now, kind, seen), NEW ev \in IdsInput, ev \notin kind
  PROVE  Remembers(dq, Append(log, [ts |-> now, ev |-> ev]), now, kind, seen)
<1> DEFINE new == Append(log, [ts |-> now, ev |-> ev])
<1>1. /\ Len(log) \in Nat /\ DOMAIN log = 1..Len(log) /\ DOMAIN new = 1..Len(log) + 1
      /\ \A i \in DOMAIN log : new[i] = log[i]
      /\ new[Len(log) + 1].ev = ev
  <2>1. [ts |-> now, ev |-> ev] \in Logged
    BY DEF InOrder, Logged
  <2> QED BY <2>1, AppendProperties, LenProperties DEF InOrder
<1> HIDE DEF new
<1>2. Recent(new, now, kind) = Recent(log, now, kind)
  <2>1. \A i \in DOMAIN new : i \in DOMAIN log \/ i = Len(log) + 1
    BY <1>1
  <2>2. DOMAIN log \subseteq DOMAIN new
    BY <1>1
  <2> QED BY <1>1, <2>1, <2>2 DEF Recent
<1>3. PICK at : /\ EntriesAt(at, dq, log, kind, seen)
                /\ \A i \in Recent(log, now, kind) : \E a \in 1..Len(dq) : at[a] = i
  BY DEF Remembers
<1>4. EntriesAt(at, dq, new, kind, seen)
  <2>1. \A i \in DOMAIN log : i \in DOMAIN new
    BY <1>1
  <2>2. \A a \in 1..Len(dq) : at[a] \in DOMAIN log /\ new[at[a]] = log[at[a]]
    BY <1>1, <1>3 DEF EntriesAt
  <2>3. at \in [1..Len(dq) -> {i \in DOMAIN new : new[i].ev \in kind}]
    BY <1>1, <1>3, <2>1 DEF EntriesAt
  <2> QED BY <1>3, <2>2, <2>3 DEF EntriesAt
<1> QED BY <1>2, <1>3, <1>4 DEF Remembers, new

(* Time passes: the less is recent.                                        *)
LEMMA RemembersLonger ==
  ASSUME NEW log, NEW now, InOrder(log, now), NEW dq, NEW kind, NEW seen,
         Remembers(dq, log, now, kind, seen)
  PROVE  Remembers(dq, log, now + 1, kind, seen)
<1>1. Recent(log, now + 1, kind) \subseteq Recent(log, now, kind)
  <2>0. \A i \in DOMAIN log : log[i] \in Logged
    BY LenProperties DEF InOrder
  <2>1. \A i \in DOMAIN log : log[i].ts \in Nat
    BY <2>0 DEF Logged
  <2> QED BY <2>1, StreamAssumption DEF Recent, InOrder
<1> QED BY <1>1 DEF Remembers

(* An event is noted: the deque is what is recent of its kind, no more and *)
(* no less, and so are its length and what stands in it.                   *)
LEMMA RemembersNoted ==
  ASSUME NEW log, NEW now, InOrder(log, now), NEW dq, NEW kind, NEW seen,
         Remembers(dq, log, now, kind, seen), NEW ev \in kind, ev \in IdsInput,
         [ts |-> now, what |-> seen[ev]] \in Noted,
         NEW new, new = Append(log, [ts |-> now, ev |-> ev]),
         NEW deque, deque = Ids!Prune(Append(dq, [ts |-> now, what |-> seen[ev]]), now)
  PROVE  /\ Remembers(deque, new, now, kind, seen)
         /\ CountsRecent(deque, new, now, kind) /\ TellsRecent(deque, new, now, kind, seen)
<1> DEFINE n == Len(log)
           m == Len(dq)
           dq2 == Append(dq, [ts |-> now, what |-> seen[ev]])
<1>1. /\ n \in Nat /\ DOMAIN log = 1..n /\ DOMAIN new = 1..n + 1
      /\ \A i \in 1..n : new[i] = log[i]
      /\ new[n + 1].ev = ev /\ new[n + 1].ts = now
      /\ \A i \in 1..n + 1 : new[i].ts \in Nat
  <2>1. [ts |-> now, ev |-> ev] \in Logged
    BY DEF InOrder, Logged
  <2>2. log \in Seq(Logged)
    BY DEF InOrder
  <2>3. new \in Seq(Logged) /\ Len(new) = n + 1 /\ new[n + 1] = [ts |-> now, ev |-> ev]
        /\ \A i \in 1..n : new[i] = log[i]
    BY <2>1, <2>2, AppendProperties
  <2>4. DOMAIN new = 1..n + 1 /\ \A i \in 1..n + 1 : new[i] \in Logged
    BY <2>3, LenProperties
  <2>5. n \in Nat /\ DOMAIN log = 1..n
    BY <2>2, LenProperties
  <2> QED BY <2>3, <2>4, <2>5 DEF Logged
<1>2. /\ m \in Nat /\ dq2 \in Seq(Noted) /\ Len(dq2) = m + 1
      /\ \A i \in 1..m : dq2[i] = dq[i]
      /\ dq2[m + 1].ts = now /\ dq2[m + 1].what = seen[ev]
      /\ \A i \in 1..m + 1 : dq2[i] \in Noted
  <2>1. dq \in Seq(Noted)
    BY DEF Remembers
  <2>2. dq2 \in Seq(Noted) /\ Len(dq2) = m + 1 /\ \A i \in 1..m : dq2[i] = dq[i]
    BY <2>1, AppendProperties
  <2>3. dq2[m + 1] = [ts |-> now, what |-> seen[ev]]
    BY <2>1, AppendProperties
  <2>4. m \in Nat
    BY <2>1, LenProperties
  <2>5. \A i \in 1..m + 1 : dq2[i] \in Noted
    BY <2>2, LenProperties
  <2> QED BY <2>2, <2>3, <2>4, <2>5
<1> HIDE DEF n, m, dq2
<1>3. PICK at : /\ EntriesAt(at, dq, log, kind, seen)
                /\ \A i \in Recent(log, now, kind) : \E a \in 1..m : at[a] = i
  BY DEF Remembers, m
<1> DEFINE all == [a \in 1..m + 1 |-> IF a <= m THEN at[a] ELSE n + 1]
<1>4. /\ all \in [1..m + 1 -> {i \in DOMAIN new : new[i].ev \in kind}]
      /\ \A a, b \in 1..m + 1 : a < b => all[a] < all[b]
      /\ \A a \in 1..m + 1 : dq2[a].ts = new[all[a]].ts /\ dq2[a].what = seen[new[all[a]].ev]
  <2>1. \A a \in 1..m : at[a] \in 1..n /\ log[at[a]].ev \in kind /\ new[at[a]] = log[at[a]] /\ all[a] = at[a]
    <3>1. at \in [1..m -> {i \in DOMAIN log : log[i].ev \in kind}]
      BY <1>3 DEF EntriesAt, m
    <3> SUFFICES ASSUME NEW a \in 1..m
                 PROVE  at[a] \in 1..n /\ log[at[a]].ev \in kind /\ new[at[a]] = log[at[a]] /\ all[a] = at[a]
      OBVIOUS
    <3>2. at[a] \in 1..n /\ log[at[a]].ev \in kind
      BY <1>1, <3>1
    <3>3. a \in 1..m + 1 /\ a <= m
      BY <1>2
    <3> QED BY <1>1, <3>2, <3>3
  <2>2. all[m + 1] = n + 1 /\ n + 1 \in DOMAIN new
    BY <1>1, <1>2
  <2>3. \A a \in 1..m + 1 : a \in 1..m \/ a = m + 1
    BY <1>2
  <2>4. \A a \in 1..m + 1 : all[a] \in DOMAIN new /\ new[all[a]].ev \in kind
    <3>1. \A a \in 1..m : all[a] \in DOMAIN new /\ new[all[a]].ev \in kind
      <4> HIDE DEF all
      <4> QED BY <1>1, <2>1
    <3>2. new[all[m + 1]].ev \in kind
      <4> HIDE DEF all
      <4> QED BY <1>1, <2>2
    <3> HIDE DEF all
    <3> QED BY <2>2, <2>3, <3>1, <3>2
  <2>5. \A a, b \in 1..m + 1 : a < b => all[a] < all[b]
    <3> SUFFICES ASSUME NEW a \in 1..m + 1, NEW b \in 1..m + 1, a < b PROVE all[a] < all[b]
      OBVIOUS
    <3>1. a \in 1..m
      BY <1>2
    <3>2. CASE b \in 1..m
      BY <1>3, <2>1, <3>1, <3>2 DEF EntriesAt, m
    <3>3. CASE b = m + 1
      <4>1. all[a] \in 1..n /\ all[b] = n + 1
        BY <2>1, <2>2, <3>1, <3>3
      <4> HIDE DEF all
      <4> QED BY <1>1, <4>1
    <3> QED BY <2>3, <3>2, <3>3
  <2>6. \A a \in 1..m + 1 : dq2[a].ts = new[all[a]].ts /\ dq2[a].what = seen[new[all[a]].ev]
    <3>1. \A a \in 1..m : dq[a].ts = log[at[a]].ts /\ dq[a].what = seen[log[at[a]].ev]
      BY <1>3 DEF EntriesAt, m
    <3> HIDE DEF all
    <3>2. \A a \in 1..m : dq2[a].ts = new[all[a]].ts /\ dq2[a].what = seen[new[all[a]].ev]
      <4> SUFFICES ASSUME NEW a \in 1..m
                   PROVE  dq2[a].ts = new[all[a]].ts /\ dq2[a].what = seen[new[all[a]].ev]
        OBVIOUS
      <4>1. dq2[a] = dq[a] /\ all[a] = at[a] /\ new[at[a]] = log[at[a]]
        BY <1>2, <2>1
      <4> QED BY <3>1, <4>1
    <3>3. dq2[m + 1].ts = new[all[m + 1]].ts /\ dq2[m + 1].what = seen[new[all[m + 1]].ev]
      BY <1>1, <1>2, <2>2
    <3> QED BY <2>3, <3>2, <3>3
  <2>7. all \in [1..m + 1 -> {i \in DOMAIN new : new[i].ev \in kind}]
    BY <2>4
  <2> QED BY <2>5, <2>6, <2>7
<1>5. \A i \in Recent(new, now, kind) : \E a \in 1..m + 1 : all[a] = i
  <2> SUFFICES ASSUME NEW i \in Recent(new, now, kind) PROVE \E a \in 1..m + 1 : all[a] = i
    OBVIOUS
  <2>1. CASE i = n + 1
    <3>1. m + 1 \in 1..m + 1 /\ all[m + 1] = n + 1
      BY <1>2
    <3> QED BY <2>1, <3>1
  <2>2. CASE i \in 1..n
    <3>1. i \in Recent(log, now, kind)
      BY <1>1, <2>2 DEF Recent
    <3>2. PICK a \in 1..m : at[a] = i
      BY <1>3, <3>1
    <3>3. a \in 1..m + 1 /\ all[a] = i
      BY <1>2, <3>2
    <3> QED BY <3>3
  <2>3. i \in 1..n \/ i = n + 1
    BY <1>1 DEF Recent
  <2> QED BY <2>1, <2>2, <2>3
<1> HIDE DEF all
<1>6. PICK k \in 0..m + 1 :
        /\ deque \in Seq(Noted) /\ Len(deque) = (m + 1) - k
        /\ \A a \in 1..(m + 1) - k : deque[a] = dq2[a + k]
        /\ \A i \in 1..k : now - dq2[i].ts > IdsWindow
        /\ k < m + 1 => now - dq2[k + 1].ts <= IdsWindow
  <2>1. now \in Nat
    BY DEF InOrder
  <2> QED BY <1>2, <2>1, Pruned DEF dq2
<1>7. k < m + 1
  <2>1. m + 1 \in 1..m + 1 /\ now - dq2[m + 1].ts = 0
    BY <1>2 DEF InOrder
  <2>2. ~(0 > IdsWindow)
    BY StreamAssumption
  <2> QED BY <1>2, <1>6, <2>1, <2>2
<1> DEFINE l == (m + 1) - k
           keep == [a \in 1..l |-> all[a + k]]
<1>8. /\ l \in Nat /\ l # 0 /\ deque \in Seq(Noted) /\ Len(deque) = l /\ DOMAIN deque = 1..l
      /\ \A a \in 1..l : a + k \in 1..m + 1 /\ deque[a] = dq2[a + k]
  <2>1. l \in Nat /\ l # 0 /\ \A a \in 1..l : a + k \in 1..m + 1
    BY <1>2, <1>7
  <2>2. deque \in Seq(Noted) /\ Len(deque) = l /\ \A a \in 1..l : deque[a] = dq2[a + k]
    BY <1>6
  <2>3. DOMAIN deque = 1..l
    BY <2>2, LenProperties
  <2> HIDE DEF l
  <2> QED BY <2>1, <2>2, <2>3
<1> HIDE DEF l
<1>9. \A a \in 1..l : keep[a] = all[a + k] /\ keep[a] \in Recent(new, now, kind)
  <2> SUFFICES ASSUME NEW a \in 1..l PROVE all[a + k] \in Recent(new, now, kind)
    OBVIOUS
  <2>1. a + k \in 1..m + 1 /\ k + 1 \in 1..m + 1 /\ k + 1 <= a + k
    BY <1>7, <1>8, <1>2
  <2>2. all[k + 1] \in DOMAIN new /\ all[a + k] \in DOMAIN new /\ new[all[a + k]].ev \in kind
    BY <1>4, <2>1
  <2>3. all[k + 1] <= all[a + k]
    <3>1. k + 1 = a + k \/ k + 1 < a + k
      BY <2>1, <1>2
    <3> DEFINE i == all[k + 1]
               j == all[a + k]
    <3>2. i \in Int /\ j \in Int
      BY <1>1, <2>2
    <3>3. i = j \/ i < j
      BY <1>4, <2>1, <3>1
    <3> HIDE DEF i, j
    <3>4. i <= j
      BY <3>2, <3>3
    <3> QED BY <3>4 DEF i, j
  <2>4. new[all[k + 1]].ts <= new[all[a + k]].ts
    <3>1. InOrder(new, now)
      BY InOrderMore
    <3> QED BY <2>2, <2>3, <3>1 DEF InOrder
  <2>5. now - new[all[k + 1]].ts <= IdsWindow
    BY <1>4, <1>6, <1>7, <2>1
  <2>6. new[all[k + 1]].ts \in Nat /\ new[all[a + k]].ts \in Nat /\ now \in Nat
    BY <1>1, <2>2 DEF InOrder
  <2>7. now - new[all[a + k]].ts <= IdsWindow
    <3> DEFINE x == new[all[k + 1]].ts
               y == new[all[a + k]].ts
    <3>1. x <= y /\ now - x <= IdsWindow /\ x \in Nat /\ y \in Nat /\ now \in Nat
      BY <2>4, <2>5, <2>6
    <3> HIDE DEF x, y
    <3>2. now - y <= IdsWindow
      BY <3>1, StreamAssumption
    <3> QED BY <3>2 DEF y
  <2> QED BY <2>2, <2>7 DEF Recent
<1>10. \A i \in Recent(new, now, kind) : \E a \in 1..l : keep[a] = i
  <2> SUFFICES ASSUME NEW i \in Recent(new, now, kind) PROVE \E a \in 1..l : keep[a] = i
    OBVIOUS
  <2>1. PICK b \in 1..m + 1 : all[b] = i
    BY <1>5
  <2>2. b \notin 1..k
    <3>1. now - dq2[b].ts <= IdsWindow
      BY <1>4, <2>1 DEF Recent
    <3>2. dq2[b].ts \in Nat /\ now \in Nat
      BY <1>2 DEF Noted, InOrder
    <3> QED BY <1>6, <3>1, <3>2, StreamAssumption
  <2>3. b - k \in 1..l /\ (b - k) + k = b
    BY <1>2, <2>2 DEF l
  <2>4. keep[b - k] = all[(b - k) + k]
    BY <2>3
  <2> QED BY <2>1, <2>3, <2>4
<1>11. \A a, b \in 1..l : a < b => keep[a] < keep[b]
  <2>1. \A a, b \in 1..l : a + k \in 1..m + 1 /\ b + k \in 1..m + 1 /\ (a < b => a + k < b + k)
    BY <1>8
  <2> QED BY <1>4, <2>1
<1>12. keep \in [1..l -> Recent(new, now, kind)]
  BY <1>9
<1>13. \A a \in 1..l : deque[a].ts = new[keep[a]].ts /\ deque[a].what = seen[new[keep[a]].ev]
  <2> SUFFICES ASSUME NEW a \in 1..l
               PROVE  deque[a].ts = new[keep[a]].ts /\ deque[a].what = seen[new[keep[a]].ev]
    OBVIOUS
  <2>1. keep[a] = all[a + k]
    BY <1>9
  <2> HIDE DEF keep
  <2>2. a + k \in 1..m + 1 /\ deque[a] = dq2[a + k]
    BY <1>8
  <2>3. dq2[a + k].ts = new[all[a + k]].ts /\ dq2[a + k].what = seen[new[all[a + k]].ev]
    BY <1>4, <2>2
  <2> QED BY <2>1, <2>2, <2>3
<1> HIDE DEF keep
<1>14. Remembers(deque, new, now, kind, seen)
  <2>1. keep \in [1..l -> {i \in DOMAIN new : new[i].ev \in kind}]
    BY <1>12 DEF Recent
  <2>2. EntriesAt(keep, deque, new, kind, seen)
    BY <1>8, <1>11, <1>13, <2>1 DEF EntriesAt
  <2> QED BY <1>8, <1>10, <2>2 DEF Remembers
<1>15. Len(deque) = Cardinality(Recent(new, now, kind))
  <2> DEFINE R == Recent(new, now, kind)
  <2>1. \A a, b \in 1..l : keep[a] = keep[b] => a = b
    <3> SUFFICES ASSUME NEW a \in 1..l, NEW b \in 1..l, keep[a] = keep[b] PROVE a = b
      OBVIOUS
    <3>1. keep[a] \in Int /\ keep[b] \in Int
      BY <1>1, <1>12 DEF Recent
    <3>2. ~(a < b) /\ ~(b < a)
      BY <1>11, <3>1
    <3> QED BY <1>8, <3>2
  <2>2. keep \in Bijection(1..l, R)
    <3>1. keep \in [1..l -> R] /\ \A t \in R : \E a \in 1..l : keep[a] = t
      BY <1>10, <1>12
    <3> HIDE DEF R
    <3> QED BY <2>1, <3>1 DEF Bijection, Injection, Surjection, IsInjective
  <2>3. ExistsBijection(1..l, R)
    <3> HIDE DEF R
    <3> QED BY <2>2 DEF ExistsBijection
  <2>4. Cardinality(R) = l
    <3> HIDE DEF R
    <3> QED BY <1>8, <2>3, FS_CountingElements
  <2> QED BY <1>8, <2>4
<1>16. {deque[i].what : i \in DOMAIN deque} = {seen[new[i].ev] : i \in Recent(new, now, kind)}
  <2> DEFINE of(i) == deque[i].what
             by(j) == seen[new[j].ev]
             R == Recent(new, now, kind)
  <2>1. /\ \A i \in 1..l : keep[i] \in R /\ of(i) = by(keep[i])
        /\ \A j \in R : \E i \in 1..l : keep[i] = j
        /\ DOMAIN deque = 1..l
    BY <1>8, <1>10, <1>12, <1>13
  <2> HIDE DEF of, by, R
  <2>2. \A x : x \in {of(i) : i \in DOMAIN deque} <=> x \in {by(j) : j \in R}
    BY <2>1, Zenon
  <2>3. {of(i) : i \in DOMAIN deque} = {by(j) : j \in R}
    BY <2>2, Zenon
  <2> QED BY <2>3 DEF of, by, R
<1> QED BY <1>14, <1>15, <1>16 DEF CountsRecent, TellsRecent

(* The kinds of event the deques of a source are about, and what is seen.  *)
PortsOf(s) == {ev \in IdsInput : ev.src = s /\ ev.port # "none"}
HostsOf(s) == {ev \in IdsInput : ev.src = s}
FailuresOf(s) == {ev \in IdsInput : ev.src = s /\ ev.auth_fail}
FlowOf(s, d) == {ev \in IdsInput : ev.src = s /\ ev.dst = d}
PortSeen == [ev \in IdsInput |-> ev.port]
TargetSeen == [ev \in IdsInput |-> ev.dst]
FlowSeen == [ev \in IdsInput |-> "seen"]

(* Every deque remembers its kind of the history, which is in order, and   *)
(* what was found in the last event is what the history says.              *)
DequesRemember ==
  /\ DOMAIN s2 = IdsSource /\ DOMAIN s3 = IdsSource /\ DOMAIN s4 = IdsSource
  /\ DOMAIN s5 = IdsSource \X IdsTarget
  /\ \A s \in IdsSource : /\ Remembers(s2[s], s8, s1, PortsOf(s), PortSeen)
                         /\ Remembers(s3[s], s8, s1, HostsOf(s), TargetSeen)
                         /\ Remembers(s4[s], s8, s1, FailuresOf(s), TargetSeen)
  /\ \A s \in IdsSource, d \in IdsTarget : Remembers(s5[<<s, d>>], s8, s1, FlowOf(s, d), FlowSeen)

IdsInv == InOrder(s8, s1) /\ DequesRemember /\ Ids!IdsMatchesLog

LEMMA NothingToRemember ==
  ASSUME NEW kind, NEW seen PROVE Remembers(<<>>, <<>>, 0, kind, seen)
<1>1. Recent(<<>>, 0, kind) = {}
  BY DEF Recent
<1>2. Len(<<>>) = 0 /\ <<>> \in Seq(Noted) /\ 1..0 = {} /\ DOMAIN <<>> = {}
  OBVIOUS
<1>3. EntriesAt(<<>>, <<>>, <<>>, kind, seen)
  BY <1>2 DEF EntriesAt
<1> QED BY <1>1, <1>2, <1>3 DEF Remembers

LEMMA IdsInvInit == Ids!IdsInit => IdsInv
<1> SUFFICES ASSUME Ids!IdsInit PROVE IdsInv
  OBVIOUS
<1>1. s1 = 0 /\ s8 = <<>>
  BY DEF Ids!IdsInit
<1>2. InOrder(s8, s1)
  BY <1>1 DEF InOrder
<1>3. DequesRemember
  <2>1. /\ DOMAIN s2 = IdsSource /\ DOMAIN s3 = IdsSource /\ DOMAIN s4 = IdsSource
        /\ DOMAIN s5 = IdsSource \X IdsTarget
        /\ \A s \in IdsSource : s2[s] = <<>> /\ s3[s] = <<>> /\ s4[s] = <<>>
        /\ \A s \in IdsSource, d \in IdsTarget : s5[<<s, d>>] = <<>>
    BY DEF Ids!IdsInit
  <2> QED BY <1>1, <2>1, NothingToRemember DEF DequesRemember
<1>4. Ids!IdsMatchesLog
  BY <1>1 DEF Ids!IdsMatchesLog
<1> QED BY <1>2, <1>3, <1>4 DEF IdsInv

LEMMA TickKeeps == IdsInv /\ Ids!IdsTick => IdsInv'
<1> SUFFICES ASSUME IdsInv, Ids!IdsTick PROVE IdsInv'
  OBVIOUS
<1>1. s1' = s1 + 1 /\ UNCHANGED <<s2, s3, s4, s5, s7, s8>>
  BY DEF Ids!IdsTick
<1>2. InOrder(s8, s1)
  BY DEF IdsInv
<1>3. InOrder(s8', s1')
  <2>1. \A i \in DOMAIN s8 : s8[i] \in Logged
    BY <1>2, LenProperties DEF InOrder
  <2>2. \A i \in DOMAIN s8 : s8[i].ts \in Nat
    BY <2>1 DEF Logged
  <2>3. \A i \in DOMAIN s8 : s8[i].ts <= s1 + 1
    BY <1>2, <2>2 DEF InOrder
  <2> QED BY <1>1, <1>2, <2>3 DEF InOrder
<1>4. DequesRemember'
  BY <1>1, <1>2, RemembersLonger DEF IdsInv, DequesRemember
<1>5. Ids!IdsMatchesLog'
  BY <1>1 DEF IdsInv, Ids!IdsMatchesLog
<1> QED BY <1>3, <1>4, <1>5 DEF IdsInv

(* What an event adds to a deque.                                          *)
LEMMA EventNoted ==
  ASSUME NEW log, NEW now, InOrder(log, now), NEW dq, NEW kind, NEW seen,
         Remembers(dq, log, now, kind, seen), NEW ev \in IdsInput, ev \in kind => seen[ev] \in Heard,
         NEW new, new = Append(log, [ts |-> now, ev |-> ev]),
         NEW deque, deque = IF ev \in kind THEN Ids!Prune(Append(dq, [ts |-> now, what |-> seen[ev]]), now)
                            ELSE dq
  PROVE  /\ Remembers(deque, new, now, kind, seen)
         /\ ev \in kind => CountsRecent(deque, new, now, kind) /\ TellsRecent(deque, new, now, kind, seen)
<1>1. CASE ev \notin kind
  BY <1>1, RemembersOthers
<1>2. CASE ev \in kind
  <2>1. [ts |-> now, what |-> seen[ev]] \in Noted
    BY <1>2 DEF Noted, InOrder
  <2>2. deque = Ids!Prune(Append(dq, [ts |-> now, what |-> seen[ev]]), now)
    BY <1>2
  <2> QED BY <1>2, <2>1, <2>2, RemembersNoted
<1> QED BY <1>1, <1>2

LEMMA InspectNotes ==
  ASSUME IdsInv, NEW ev \in IdsInput, Ids!IdsInspect(ev)
  PROVE  /\ InOrder(s8', s1') /\ DequesRemember' /\ s1' = s1 /\ s8' = Append(s8, [ts |-> s1, ev |-> ev])
         /\ ev.port # "none" => TellsRecent(s2'[ev.src], s8', s1, PortsOf(ev.src), PortSeen)
         /\ TellsRecent(s3'[ev.src], s8', s1, HostsOf(ev.src), TargetSeen)
         /\ ev.auth_fail => CountsRecent(s4'[ev.src], s8', s1, FailuresOf(ev.src))
         /\ CountsRecent(s5'[<<ev.src, ev.dst>>], s8', s1, FlowOf(ev.src, ev.dst))
<1>1. ev.src \in IdsSource /\ ev.dst \in IdsTarget /\ ev.auth_fail \in BOOLEAN
  BY StreamAssumption
<1>2. InOrder(s8, s1) /\ DequesRemember
  BY DEF IdsInv
<1>3. s1' = s1 /\ s8' = Append(s8, [ts |-> s1, ev |-> ev])
  BY DEF Ids!IdsInspect
<1> DEFINE Noting(dq, kind, seen) ==
             IF ev \in kind THEN Ids!Prune(Append(dq, [ts |-> s1, what |-> seen[ev]]), s1) ELSE dq
<1>4. /\ \A s : ev \in PortsOf(s) <=> s = ev.src /\ ev.port # "none"
      /\ \A s : ev \in HostsOf(s) <=> s = ev.src
      /\ \A s : ev \in FailuresOf(s) <=> s = ev.src /\ ev.auth_fail
      /\ \A s, d : ev \in FlowOf(s, d) <=> s = ev.src /\ d = ev.dst
  BY DEF PortsOf, HostsOf, FailuresOf, FlowOf
<1>5. PortSeen[ev] = ev.port /\ TargetSeen[ev] = ev.dst /\ FlowSeen[ev] = "seen"
  BY DEF PortSeen, TargetSeen, FlowSeen
<1>6. PortSeen[ev] \in Heard /\ TargetSeen[ev] \in Heard /\ FlowSeen[ev] \in Heard
  BY <1>1, <1>5 DEF Heard
<1>7. \A dq, what : Ids!Note(dq, what) = Ids!Prune(Append(dq, [ts |-> s1, what |-> what]), s1)
  BY DEF Ids!Note
<1>8. /\ s2' = IF ev.port = "none" THEN s2 ELSE [s2 EXCEPT ![ev.src] = Ids!Note(s2[ev.src], ev.port)]
      /\ s3' = [s3 EXCEPT ![ev.src] = Ids!Note(s3[ev.src], ev.dst)]
      /\ s4' = IF ev.auth_fail THEN [s4 EXCEPT ![ev.src] = Ids!Note(s4[ev.src], ev.dst)] ELSE s4
      /\ s5' = [s5 EXCEPT ![<<ev.src, ev.dst>>] = Ids!Note(s5[<<ev.src, ev.dst>>], "seen")]
  BY DEF Ids!IdsInspect
<1>9. /\ DOMAIN s2' = IdsSource /\ DOMAIN s3' = IdsSource /\ DOMAIN s4' = IdsSource
      /\ DOMAIN s5' = IdsSource \X IdsTarget
  BY <1>2, <1>8 DEF DequesRemember
<1>10. ASSUME NEW s \in IdsSource
       PROVE  /\ s2'[s] = Noting(s2[s], PortsOf(s), PortSeen)
              /\ s3'[s] = Noting(s3[s], HostsOf(s), TargetSeen)
              /\ s4'[s] = Noting(s4[s], FailuresOf(s), TargetSeen)
  <2>1. s2'[s] = IF s = ev.src /\ ev.port # "none" THEN Ids!Note(s2[s], ev.port) ELSE s2[s]
    BY <1>1, <1>2, <1>8 DEF DequesRemember
  <2>2. s3'[s] = IF s = ev.src THEN Ids!Note(s3[s], ev.dst) ELSE s3[s]
    BY <1>1, <1>2, <1>8 DEF DequesRemember
  <2>3. s4'[s] = IF s = ev.src /\ ev.auth_fail THEN Ids!Note(s4[s], ev.dst) ELSE s4[s]
    BY <1>1, <1>2, <1>8 DEF DequesRemember
  <2> QED BY <1>4, <1>5, <1>7, <2>1, <2>2, <2>3
<1>11. ASSUME NEW s \in IdsSource, NEW d \in IdsTarget
       PROVE  s5'[<<s, d>>] = Noting(s5[<<s, d>>], FlowOf(s, d), FlowSeen)
  <2>1. s5'[<<s, d>>] = IF s = ev.src /\ d = ev.dst THEN Ids!Note(s5[<<s, d>>], "seen") ELSE s5[<<s, d>>]
    BY <1>1, <1>2, <1>8 DEF DequesRemember
  <2> QED BY <1>4, <1>5, <1>7, <2>1
<1> DEFINE Counts(deque, kind) == ev \in kind => CountsRecent(deque, s8', s1, kind)
           Tells(deque, kind, seen) == ev \in kind => TellsRecent(deque, s8', s1, kind, seen)
<1>12. ASSUME NEW dq, NEW kind, NEW seen, Remembers(dq, s8, s1, kind, seen), seen[ev] \in Heard,
              NEW deque, deque = Noting(dq, kind, seen)
       PROVE  Remembers(deque, s8', s1, kind, seen) /\ Counts(deque, kind) /\ Tells(deque, kind, seen)
  BY <1>2, <1>3, <1>12, EventNoted
<1> HIDE DEF Noting, Counts, Tells
<1>13. ASSUME NEW s \in IdsSource
       PROVE  /\ Remembers(s2'[s], s8', s1, PortsOf(s), PortSeen) /\ Tells(s2'[s], PortsOf(s), PortSeen)
              /\ Remembers(s3'[s], s8', s1, HostsOf(s), TargetSeen) /\ Tells(s3'[s], HostsOf(s), TargetSeen)
              /\ Remembers(s4'[s], s8', s1, FailuresOf(s), TargetSeen) /\ Counts(s4'[s], FailuresOf(s))
  BY <1>2, <1>6, <1>10, <1>12 DEF DequesRemember
<1>14. ASSUME NEW s \in IdsSource, NEW d \in IdsTarget
       PROVE  Remembers(s5'[<<s, d>>], s8', s1, FlowOf(s, d), FlowSeen) /\ Counts(s5'[<<s, d>>], FlowOf(s, d))
  BY <1>2, <1>6, <1>11, <1>12 DEF DequesRemember
<1>15. DequesRemember'
  BY <1>3, <1>9, <1>13, <1>14 DEF DequesRemember
<1>16. InOrder(s8', s1')
  BY <1>2, <1>3, InOrderMore
<1>17. /\ Tells(s2'[ev.src], PortsOf(ev.src), PortSeen) /\ Tells(s3'[ev.src], HostsOf(ev.src), TargetSeen)
       /\ Counts(s4'[ev.src], FailuresOf(ev.src)) /\ Counts(s5'[<<ev.src, ev.dst>>], FlowOf(ev.src, ev.dst))
  BY <1>1, <1>13, <1>14
<1> QED BY <1>3, <1>4, <1>15, <1>16, <1>17 DEF Tells, Counts

LEMMA IdsCount == \A S : Ids!Cardinality(S) = Cardinality(S)
BY DEF Ids!Cardinality, Cardinality

(* The rules an event meets, of the deques as it leaves them.              *)
LEMMA RulesMet ==
  ASSUME NEW ev \in IdsInput, Ids!IdsInspect(ev)
  PROVE  LET found == {f.rule : f \in s7'}
         IN /\ "ano_portscan" \in found <=> ev.port # "none" /\ Ids!Distinct(s2'[ev.src]) >= ScanPorts
            /\ "ano_sweep" \in found <=> Ids!Distinct(s3'[ev.src]) >= SweepHosts
            /\ "ano_brute" \in found <=> ev.auth_fail /\ Len(s4'[ev.src]) >= BruteForce
            /\ "ano_beacon" \in found => Len(s5'[<<ev.src, ev.dst>>]) >= BeaconSamples
<1> DEFINE met(r) == CASE r = "sig_badip"    -> ev.bad_ip
                       [] r = "sig_c2port"   -> ev.port = "c2"
                       [] r = "ano_portscan" -> ev.port # "none" /\ Ids!Distinct(s2'[ev.src]) >= ScanPorts
                       [] r = "ano_sweep"    -> Ids!Distinct(s3'[ev.src]) >= SweepHosts
                       [] r = "ano_brute"    -> ev.auth_fail /\ Len(s4'[ev.src]) >= BruteForce
                       [] r = "ano_beacon"   -> Len(s5'[<<ev.src, ev.dst>>]) >= BeaconSamples
                                                /\ Ids!Regular(s5'[<<ev.src, ev.dst>>])
           rules == {r \in DOMAIN Ids!Severity : met(r)}
<1>1. s7' = {[rule |-> r, verdict |-> Ids!IdsVerdict(r)] : r \in rules}
  BY DEF Ids!IdsInspect
<1>2. DOMAIN Ids!Severity = {"sig_badip", "sig_c2port", "ano_portscan", "ano_sweep", "ano_brute", "ano_beacon"}
  BY DEF Ids!Severity
<1>3. /\ "ano_portscan" \in rules <=> ev.port # "none" /\ Ids!Distinct(s2'[ev.src]) >= ScanPorts
      /\ "ano_sweep" \in rules <=> Ids!Distinct(s3'[ev.src]) >= SweepHosts
      /\ "ano_brute" \in rules <=> ev.auth_fail /\ Len(s4'[ev.src]) >= BruteForce
      /\ "ano_beacon" \in rules => Len(s5'[<<ev.src, ev.dst>>]) >= BeaconSamples
  BY <1>2
<1> HIDE DEF rules
<1>4. {f.rule : f \in s7'} = rules
  <2> DEFINE finding(r) == [rule |-> r, verdict |-> Ids!IdsVerdict(r)]
             told == s7'
  <2>1. told = {finding(r) : r \in rules} /\ \A r : finding(r).rule = r
    BY <1>1
  <2> HIDE DEF finding, told
  <2>2. \A r : r \in {f.rule : f \in told} <=> r \in rules
    BY <2>1, Zenon
  <2>3. {f.rule : f \in told} = rules
    BY <2>2, Zenon
  <2> QED BY <2>3 DEF told
<1> QED BY <1>3, <1>4

LEMMA InspectJudges ==
  ASSUME IdsInv, NEW ev \in IdsInput, Ids!IdsInspect(ev)
  PROVE  Ids!IdsMatchesLog'
<1> DEFINE log == s8'
           s == ev.src
           last == Ids!Last(log)
           mine == {i \in DOMAIN log : log[i].ev.src = last.ev.src /\ last.ts - log[i].ts <= IdsWindow}
           found == {f.rule : f \in s7'}
<1>1. /\ log = Append(s8, [ts |-> s1, ev |-> ev]) /\ InOrder(log, s1)
      /\ ev.port # "none" => TellsRecent(s2'[s], log, s1, PortsOf(s), PortSeen)
      /\ TellsRecent(s3'[s], log, s1, HostsOf(s), TargetSeen)
      /\ ev.auth_fail => CountsRecent(s4'[s], log, s1, FailuresOf(s))
      /\ CountsRecent(s5'[<<s, ev.dst>>], log, s1, FlowOf(s, ev.dst))
  BY InspectNotes
<1>2. last.ts = s1 /\ last.ev = ev
  <2>1. [ts |-> s1, ev |-> ev] \in Logged /\ s8 \in Seq(Logged)
    BY DEF IdsInv, InOrder, Logged
  <2>2. last = [ts |-> s1, ev |-> ev]
    BY <1>1, <2>1 DEF Ids!Last
  <2> QED BY <2>2
<1>3. \A i \in DOMAIN log : log[i].ev \in IdsInput
  <2>1. \A i \in DOMAIN log : log[i] \in Logged
    BY <1>1, LenProperties DEF InOrder
  <2> QED BY <2>1 DEF Logged
<1>4. /\ "ano_portscan" \in found <=> ev.port # "none" /\ Ids!Distinct(s2'[s]) >= ScanPorts
      /\ "ano_sweep" \in found <=> Ids!Distinct(s3'[s]) >= SweepHosts
      /\ "ano_brute" \in found <=> ev.auth_fail /\ Len(s4'[s]) >= BruteForce
      /\ "ano_beacon" \in found => Len(s5'[<<s, ev.dst>>]) >= BeaconSamples
  BY RulesMet
<1> HIDE DEF log, s, last, found
<1>5. mine = Recent(log, s1, HostsOf(s))
  BY <1>2, <1>3 DEF Recent, HostsOf, s
<1>6. {log[i].ev.port : i \in mine} \ {"none"} = {PortSeen[log[i].ev] : i \in Recent(log, s1, PortsOf(s))}
  <2>1. \A i \in DOMAIN log : PortSeen[log[i].ev] = log[i].ev.port
    BY <1>3 DEF PortSeen
  <2>2. \A i : i \in Recent(log, s1, PortsOf(s)) <=> i \in mine /\ log[i].ev.port # "none"
    BY <1>2, <1>3 DEF Recent, PortsOf, s
  <2>3. \A i \in mine : i \in DOMAIN log
    OBVIOUS
  <2> HIDE DEF mine
  <2> QED BY <2>1, <2>2, <2>3
<1>7. {log[i].ev.dst : i \in mine} = {TargetSeen[log[i].ev] : i \in Recent(log, s1, HostsOf(s))}
  <2>1. \A i \in DOMAIN log : TargetSeen[log[i].ev] = log[i].ev.dst
    BY <1>3 DEF TargetSeen
  <2>2. \A i \in mine : i \in DOMAIN log
    OBVIOUS
  <2> HIDE DEF mine
  <2> QED BY <1>5, <2>1, <2>2
<1>8. {i \in mine : log[i].ev.auth_fail} = Recent(log, s1, FailuresOf(s))
  BY <1>2, <1>3 DEF Recent, FailuresOf, s
<1>9. {i \in mine : log[i].ev.dst = ev.dst} = Recent(log, s1, FlowOf(s, ev.dst))
  BY <1>2, <1>3 DEF Recent, FlowOf, s
<1> HIDE DEF mine
<1>10. ev.port # "none" => Ids!Distinct(s2'[s]) = Ids!Cardinality({log[i].ev.port : i \in mine} \ {"none"})
  BY <1>1, <1>6 DEF TellsRecent, Ids!Distinct
<1>11. Ids!Distinct(s3'[s]) = Ids!Cardinality({log[i].ev.dst : i \in mine})
  BY <1>1, <1>7 DEF TellsRecent, Ids!Distinct
<1>12. ev.auth_fail => Len(s4'[s]) = Ids!Cardinality({i \in mine : log[i].ev.auth_fail})
  BY <1>1, <1>8, IdsCount DEF CountsRecent
<1>13. Len(s5'[<<s, ev.dst>>]) = Ids!Cardinality({i \in mine : log[i].ev.dst = ev.dst})
  BY <1>1, <1>9, IdsCount DEF CountsRecent
<1>14. /\ "ano_portscan" \in found <=>
            last.ev.port # "none" /\ Ids!Cardinality({log[i].ev.port : i \in mine} \ {"none"}) >= ScanPorts
       /\ "ano_sweep" \in found <=> Ids!Cardinality({log[i].ev.dst : i \in mine}) >= SweepHosts
       /\ "ano_brute" \in found <=>
            last.ev.auth_fail /\ Ids!Cardinality({i \in mine : log[i].ev.auth_fail}) >= BruteForce
       /\ "ano_beacon" \in found =>
            Ids!Cardinality({i \in mine : log[i].ev.dst = last.ev.dst}) >= BeaconSamples
  BY <1>2, <1>4, <1>10, <1>11, <1>12, <1>13
<1> QED BY <1>14 DEF Ids!IdsMatchesLog, mine, last, log, found

LEMMA IdsInvStep == part = "ids" /\ IdsInv /\ [Next]_slots => IdsInv'
<1> SUFFICES ASSUME part = "ids", IdsInv, [Next]_slots PROVE IdsInv'
  OBVIOUS
<1>1. CASE Ids!IdsTick
  BY <1>1, TickKeeps
<1>2. ASSUME NEW ev \in IdsInput, Ids!IdsInspect(ev) PROVE IdsInv'
  BY <1>2, InspectNotes, InspectJudges DEF IdsInv
<1>3. CASE UNCHANGED <<s1, s2, s3, s4, s5, s6, s7, s8>>
  BY <1>3 DEF IdsInv, DequesRemember, Ids!IdsMatchesLog
<1> QED BY OnlyIds, <1>1, <1>2, <1>3 DEF Ids!IdsNext

-----------------------------------------------------------------------------
\* The packet inspector.

LEMMA OnlyPackets ==
  part = "packets" /\ [Next]_slots =>
    part' = part /\ (Packets!PacketNext \/ UNCHANGED <<s1, s2, s3, s4, s5, s6, s7>>)
BY DEF Next, slots

(* The capture, and a capture with one more packet.                        *)
Captured == [pkt : PktInput, at : Nat]
Grows(new, log, p, now) ==
  /\ new \in Seq(Captured) /\ Len(log) \in Nat /\ DOMAIN log = 1..Len(log) /\ DOMAIN new = 1..Len(log) + 1
  /\ Len(new) = Len(log) + 1 /\ \A i \in 1..Len(log) : new[i] = log[i]
  /\ new[Len(log) + 1].pkt = p /\ new[Len(log) + 1].at = now

LEMMA CaptureGrows ==
  ASSUME NEW log \in Seq(Captured), NEW p \in PktInput, NEW now \in Nat
  PROVE  Grows(Append(log, [pkt |-> p, at |-> now]), log, p, now)
<1> DEFINE e == [pkt |-> p, at |-> now]
           new == Append(log, e)
<1>1. e \in Captured /\ e.pkt = p /\ e.at = now
  BY DEF Captured
<1> HIDE DEF e
<1>2. new \in Seq(Captured) /\ Len(new) = Len(log) + 1 /\ new[Len(log) + 1] = e /\ \A i \in 1..Len(log) : new[i] = log[i]
  BY <1>1, AppendProperties
<1>3. Len(log) \in Nat /\ DOMAIN log = 1..Len(log) /\ DOMAIN new = 1..Len(new)
  BY <1>2, LenProperties
<1> HIDE DEF new
<1>4. Grows(new, log, p, now)
  BY <1>1, <1>2, <1>3 DEF Grows
<1> QED BY <1>4 DEF new, e

(* The packets of a log that matter to a source, a beacon and a flow.      *)
SynPortsIn(log, src, n) == {log[i].pkt.port : i \in {j \in 1..n : Packets!Syn(log[j].pkt) /\ log[j].pkt.src = src}}
HitsIn(log, key) == {i \in DOMAIN log : Packets!Beacons(log[i].pkt) /\ Packets!BeaconKey(log[i].pkt) = key}
PacketsOf(log, k) == {i \in DOMAIN log : Packets!FlowKey(log[i].pkt) = k}

LEMMA SynPortsGrow ==
  ASSUME NEW log, NEW p, NEW now, NEW new, Grows(new, log, p, now), NEW src
  PROVE  /\ \A i \in 0..Len(log) : SynPortsIn(new, src, i) = SynPortsIn(log, src, i)
         /\ SynPortsIn(new, src, Len(log) + 1) =
              SynPortsIn(log, src, Len(log)) \cup (IF Packets!Syn(p) /\ p.src = src THEN {p.port} ELSE {})
<1> DEFINE n == Len(log)
<1>1. n \in Nat /\ (\A i \in 1..n : new[i] = log[i]) /\ new[n + 1].pkt = p
  BY DEF Grows
<1> HIDE DEF n
<1>2. ASSUME NEW i \in 0..n PROVE SynPortsIn(new, src, i) = SynPortsIn(log, src, i)
  <2>1. \A j \in 1..i : new[j] = log[j]
    BY <1>1
  <2> QED BY <2>1 DEF SynPortsIn
<1>3. \A x : x \in SynPortsIn(new, src, n + 1) <=>
              x \in SynPortsIn(log, src, n) \/ (Packets!Syn(p) /\ p.src = src /\ x = p.port)
  <2>1. \A j : j \in 1..n + 1 <=> j \in 1..n \/ j = n + 1
    BY <1>1
  <2> QED BY <1>1, <2>1 DEF SynPortsIn
<1> QED BY <1>2, <1>3 DEF n

LEMMA HitsGrow ==
  ASSUME NEW log, NEW p, NEW now, NEW new, Grows(new, log, p, now), NEW key
  PROVE  \A i : i \in HitsIn(new, key) <=>
                i \in HitsIn(log, key) \/ (Packets!Beacons(p) /\ Packets!BeaconKey(p) = key /\ i = Len(log) + 1)
<1> DEFINE n == Len(log)
<1>1. n \in Nat /\ (\A i \in 1..n : new[i] = log[i]) /\ new[n + 1].pkt = p /\ DOMAIN log = 1..n /\ DOMAIN new = 1..n + 1
  BY DEF Grows
<1> HIDE DEF n
<1>2. \A j : j \in 1..n + 1 <=> j \in 1..n \/ j = n + 1
  BY <1>1
<1>3. n + 1 \notin 1..n
  BY <1>1
<1>4. \A i : i \in HitsIn(new, key) <=>
                i \in HitsIn(log, key) \/ (Packets!Beacons(p) /\ Packets!BeaconKey(p) = key /\ i = n + 1)
  BY <1>1, <1>2, <1>3 DEF HitsIn
<1> QED BY <1>4 DEF n

LEMMA FlowGrows ==
  ASSUME NEW log, NEW p, NEW now, NEW new, Grows(new, log, p, now), NEW k
  PROVE  /\ IsFiniteSet(PacketsOf(log, k)) /\ Cardinality(PacketsOf(log, k)) \in Nat
         /\ Packets!FlowKey(p) # k => PacketsOf(new, k) = PacketsOf(log, k)
         /\ Packets!FlowKey(p) = k => Cardinality(PacketsOf(new, k)) = Cardinality(PacketsOf(log, k)) + 1
<1> DEFINE n == Len(log)
<1>1. n \in Nat /\ (\A i \in 1..n : new[i] = log[i]) /\ new[n + 1].pkt = p /\ DOMAIN log = 1..n /\ DOMAIN new = 1..n + 1
  BY DEF Grows
<1> HIDE DEF n
<1>2. \A j : j \in 1..n + 1 <=> j \in 1..n \/ j = n + 1
  BY <1>1
<1>3. n + 1 \notin 1..n
  BY <1>1
<1>4. PacketsOf(log, k) \subseteq 1..n
  BY <1>1 DEF PacketsOf
<1>5. IsFiniteSet(PacketsOf(log, k)) /\ Cardinality(PacketsOf(log, k)) \in Nat
  <2>1. IsFiniteSet(1..n)
    BY <1>1, FS_Interval
  <2>2. IsFiniteSet(PacketsOf(log, k))
    BY <1>4, <2>1, FS_Subset
  <2> QED BY <2>2, FS_CardinalityType
<1>6. ASSUME Packets!FlowKey(p) # k PROVE PacketsOf(new, k) = PacketsOf(log, k)
  BY <1>1, <1>2, <1>6 DEF PacketsOf
<1>7. ASSUME Packets!FlowKey(p) = k PROVE Cardinality(PacketsOf(new, k)) = Cardinality(PacketsOf(log, k)) + 1
  <2>1. PacketsOf(new, k) = PacketsOf(log, k) \cup {n + 1}
    <3>1. \A i : i \in PacketsOf(new, k) <=> i \in PacketsOf(log, k) \/ i = n + 1
      BY <1>1, <1>2, <1>7 DEF PacketsOf
    <3> QED BY <3>1
  <2>2. n + 1 \notin PacketsOf(log, k)
    BY <1>3, <1>4
  <2> QED BY <1>5, <2>1, <2>2, FS_AddElement
<1> QED BY <1>5, <1>6, <1>7

(* The places at[1], at[2], ... of the log are hits in a row.              *)
RowIn(at, m, log, key) ==
  /\ at \in [1..m -> HitsIn(log, key)]
  /\ \A j \in 1..(m - 1) : at[j] < at[j + 1] /\ \A i \in HitsIn(log, key) : i <= at[j] \/ i >= at[j + 1]

(* Times are those of a row of as many hits as are looked at.              *)
RowOf(times, log, key) ==
  \E at : RowIn(at, BeaconFull, log, key) /\ times = [j \in 1..BeaconFull |-> log[at[j]].at]

(* The times kept of a beacon are those of its latest hits.                *)
LatestIn(times, log, key) ==
  /\ times \in Seq(Nat) /\ Len(times) < BeaconFull
  /\ \E at : /\ RowIn(at, Len(times), log, key)
             /\ \A j \in 1..Len(times) : times[j] = log[at[j]].at
             /\ \A i \in HitsIn(log, key) : Len(times) >= 1 /\ i <= at[Len(times)]

(* A row of hits is one after another packet, too.                         *)
LEMMA RowStands ==
  ASSUME NEW log, NEW p, NEW now, NEW new, Grows(new, log, p, now), NEW key, NEW m \in Nat, NEW at, RowIn(at, m, log, key)
  PROVE  /\ RowIn(at, m, new, key)
         /\ \A j \in 1..m : at[j] \in 1..Len(log) /\ new[at[j]] = log[at[j]]
<1> DEFINE n == Len(log)
<1>1. n \in Nat /\ (\A i \in 1..n : new[i] = log[i]) /\ DOMAIN log = 1..n
  BY DEF Grows
<1>2. \A i : i \in HitsIn(new, key) => i \in HitsIn(log, key) \/ i = n + 1
  BY HitsGrow
<1>3. \A i \in HitsIn(log, key) : i \in HitsIn(new, key)
  BY HitsGrow
<1> HIDE DEF n
<1>4. HitsIn(log, key) \subseteq 1..n
  BY <1>1 DEF HitsIn
<1>5. \A j \in 1..m : at[j] \in HitsIn(log, key) /\ at[j] \in 1..n
  BY <1>4 DEF RowIn
<1>6. at \in [1..m -> HitsIn(new, key)]
  BY <1>3 DEF RowIn
<1>7. ASSUME NEW j \in 1..(m - 1), NEW i \in HitsIn(new, key)
      PROVE  at[j] < at[j + 1] /\ (i <= at[j] \/ i >= at[j + 1])
  <2>1. at[j] < at[j + 1] /\ \A h \in HitsIn(log, key) : h <= at[j] \/ h >= at[j + 1]
    BY DEF RowIn
  <2>2. CASE i \in HitsIn(log, key)
    BY <2>1, <2>2
  <2>3. CASE i = n + 1
    <3>1. j + 1 \in 1..m
      OBVIOUS
    <3>2. at[j + 1] \in 1..n
      BY <1>5, <3>1
    <3> DEFINE y == at[j + 1]
    <3>3. y \in 1..n
      BY <3>2
    <3> HIDE DEF y
    <3>4. n + 1 >= y
      BY <1>1, <3>3
    <3> QED BY <2>1, <2>3, <3>4 DEF y
  <2> QED BY <1>2, <2>2, <2>3
<1>8. \A j \in 1..(m - 1) : at[j] < at[j + 1]
  BY DEF RowIn
<1> QED BY <1>1, <1>5, <1>6, <1>7, <1>8 DEF RowIn, n

LEMMA LatestOthers ==
  ASSUME NEW log, NEW p, NEW now, NEW new, Grows(new, log, p, now), NEW key, NEW times, LatestIn(times, log, key),
         ~(Packets!Beacons(p) /\ Packets!BeaconKey(p) = key)
  PROVE  LatestIn(times, new, key)
<1> DEFINE m == Len(times)
<1>1. m \in Nat
  BY LenProperties DEF LatestIn
<1>2. PICK at : /\ RowIn(at, m, log, key)
                /\ \A j \in 1..m : times[j] = log[at[j]].at
                /\ \A i \in HitsIn(log, key) : m >= 1 /\ i <= at[m]
  BY DEF LatestIn
<1> HIDE DEF m
<1>3. RowIn(at, m, new, key) /\ \A j \in 1..m : new[at[j]] = log[at[j]]
  BY <1>1, <1>2, RowStands
<1>4. HitsIn(new, key) = HitsIn(log, key)
  <2>1. \A i : i \in HitsIn(new, key) <=> i \in HitsIn(log, key)
    BY HitsGrow
  <2> QED BY <2>1
<1>5. \A j \in 1..m : times[j] = new[at[j]].at
  BY <1>2, <1>3
<1>6. \A i \in HitsIn(new, key) : m >= 1 /\ i <= at[m]
  BY <1>2, <1>4
<1> QED BY <1>3, <1>5, <1>6 DEF LatestIn, m

(* A hit is noted: it stands in a row with the latest ones. When there are *)
(* as many as are looked at, the older ones go, and the rest is a row too. *)
LEMMA LatestNoted ==
  ASSUME NEW log, NEW p, NEW now \in Nat, NEW new, Grows(new, log, p, now), NEW key, NEW times, LatestIn(times, log, key),
         Packets!Beacons(p), Packets!BeaconKey(p) = key, NEW noted, noted = Append(times, now)
  PROVE  /\ LatestIn(Packets!Halved(noted), new, key)
         /\ Len(noted) = BeaconFull =>
              RowOf(noted, new, key)
<1> DEFINE n == Len(log)
           m == Len(times)
<1>1. /\ m \in Nat /\ noted \in Seq(Nat) /\ Len(noted) = m + 1 /\ noted[m + 1] = now
      /\ (\A j \in 1..m : noted[j] = times[j]) /\ m < BeaconFull /\ DOMAIN noted = 1..m + 1
  <2>1. times \in Seq(Nat) /\ m < BeaconFull
    BY DEF LatestIn
  <2>2. m \in Nat
    BY <2>1, LenProperties
  <2>3. noted \in Seq(Nat) /\ Len(noted) = m + 1 /\ noted[m + 1] = now /\ \A j \in 1..m : noted[j] = times[j]
    BY <2>1, AppendProperties
  <2>4. DOMAIN noted = 1..m + 1
    BY <2>3, LenProperties
  <2> QED BY <2>1, <2>2, <2>3, <2>4
<1>2. PICK at : /\ RowIn(at, m, log, key)
                /\ \A j \in 1..m : times[j] = log[at[j]].at
                /\ \A i \in HitsIn(log, key) : m >= 1 /\ i <= at[m]
  BY DEF LatestIn
<1>3. /\ n \in Nat /\ new[n + 1].at = now
      /\ \A i : i \in HitsIn(new, key) <=> i \in HitsIn(log, key) \/ i = n + 1
      /\ HitsIn(log, key) \subseteq 1..n
  <2>1. n \in Nat /\ new[n + 1].at = now /\ DOMAIN log = 1..n
    BY DEF Grows
  <2>2. \A i : i \in HitsIn(new, key) <=> i \in HitsIn(log, key) \/ i = n + 1
    BY HitsGrow
  <2>3. HitsIn(log, key) \subseteq 1..n
    BY <2>1 DEF HitsIn
  <2> QED BY <2>1, <2>2, <2>3
<1> HIDE DEF m
<1>4. /\ RowIn(at, m, new, key)
      /\ \A j \in 1..m : at[j] \in 1..n /\ new[at[j]] = log[at[j]]
  BY <1>1, <1>2, RowStands
<1> HIDE DEF n
<1> DEFINE all == [j \in 1..m + 1 |-> IF j <= m THEN at[j] ELSE n + 1]
<1>5. (\A j \in 1..m : all[j] = at[j]) /\ all[m + 1] = n + 1
  BY <1>1
<1>6. \A j \in 1..m + 1 : j \in 1..m \/ j = m + 1
  BY <1>1
<1>7. all \in [1..m + 1 -> HitsIn(new, key)]
  <2>1. \A j \in 1..m : at[j] \in HitsIn(new, key)
    BY <1>4 DEF RowIn
  <2>2. n + 1 \in HitsIn(new, key)
    BY <1>3
  <2>3. \A j \in 1..m + 1 : (IF j <= m THEN at[j] ELSE n + 1) \in HitsIn(new, key)
    BY <1>1, <2>1, <2>2
  <2> QED BY <2>3
<1>8. \A j \in 1..m + 1 : all[j] \in Nat
  BY <1>3, <1>4, <1>5, <1>6
<1> HIDE DEF all
<1>9. \A i \in HitsIn(new, key) : i <= all[m + 1]
  <2> SUFFICES ASSUME NEW i \in HitsIn(new, key) PROVE i <= n + 1
    BY <1>5
  <2>1. i \in 1..n \/ i = n + 1
    BY <1>3
  <2> QED BY <1>3, <2>1
<1>10. RowIn(all, m + 1, new, key)
  <2>1. ASSUME NEW j \in 1..m
        PROVE  all[j] < all[j + 1] /\ \A i \in HitsIn(new, key) : i <= all[j] \/ i >= all[j + 1]
    <3>1. CASE j = m
      <4>1. m \in 1..m /\ all[m] = at[m] /\ at[m] \in 1..n /\ all[m + 1] = n + 1
        BY <1>4, <1>5, <3>1
      <4>2. \A i \in HitsIn(new, key) : i <= all[m] \/ i >= all[m + 1]
        <5> SUFFICES ASSUME NEW i \in HitsIn(new, key) PROVE i <= at[m] \/ i >= n + 1
          BY <4>1
        <5>1. CASE i \in HitsIn(log, key)
          BY <1>2, <5>1
        <5>2. CASE i = n + 1
          BY <1>3, <5>2
        <5> QED BY <1>3, <5>1, <5>2
      <4>3. all[m] < all[m + 1]
        <5> DEFINE y == at[m]
        <5>1. y \in 1..n
          BY <4>1
        <5> HIDE DEF y
        <5>2. y < n + 1
          BY <1>3, <5>1
        <5> QED BY <4>1, <5>2 DEF y
      <4> QED BY <3>1, <4>2, <4>3
    <3>2. CASE j # m
      <4>1. j \in 1..(m - 1) /\ j \in 1..m /\ j + 1 \in 1..m
        BY <1>1, <3>2
      <4>2. all[j] = at[j] /\ all[j + 1] = at[j + 1]
        BY <1>5, <4>1
      <4> QED BY <1>4, <4>1, <4>2 DEF RowIn
    <3> QED BY <3>1, <3>2
  <2>2. (m + 1) - 1 = m
    BY <1>1
  <2> QED BY <1>7, <2>1, <2>2 DEF RowIn
<1>11. \A j \in 1..m + 1 : noted[j] = new[all[j]].at
  <2>1. \A j \in 1..m : noted[j] = new[all[j]].at
    <3> SUFFICES ASSUME NEW j \in 1..m PROVE noted[j] = new[all[j]].at
      OBVIOUS
    <3>1. noted[j] = times[j] /\ all[j] = at[j] /\ new[at[j]] = log[at[j]]
      BY <1>1, <1>4, <1>5
    <3> QED BY <1>2, <3>1
  <2>2. noted[m + 1] = new[all[m + 1]].at
    BY <1>1, <1>3, <1>5
  <2> QED BY <1>6, <2>1, <2>2
<1>12. ASSUME Len(noted) # BeaconFull PROVE LatestIn(Packets!Halved(noted), new, key)
  <2>1. Packets!Halved(noted) = noted
    BY <1>12 DEF Packets!Halved
  <2>2. Len(noted) < BeaconFull /\ Len(noted) >= 1
    BY <1>1, <1>12, BeaconAssumption
  <2> QED BY <1>1, <1>9, <1>10, <1>11, <2>1, <2>2 DEF LatestIn
<1>13. ASSUME Len(noted) = BeaconFull PROVE noted = [j \in 1..BeaconFull |-> new[all[j]].at]
  <2> DEFINE row == [j \in 1..BeaconFull |-> new[all[j]].at]
  <2>1. noted \in [1..m + 1 -> Nat] /\ m + 1 = BeaconFull
    BY <1>1, <1>13, LenProperties
  <2>2. DOMAIN row = 1..BeaconFull /\ \A j \in 1..BeaconFull : row[j] = new[all[j]].at
    OBVIOUS
  <2>3. row = [j \in 1..BeaconFull |-> row[j]]
    OBVIOUS
  <2> HIDE DEF row
  <2>4. \A j \in 1..BeaconFull : noted[j] = row[j]
    BY <1>11, <2>1, <2>2
  <2>5. noted = [j \in 1..BeaconFull |-> noted[j]]
    BY <2>1
  <2>6. noted = row
    BY <2>3, <2>4, <2>5
  <2> QED BY <2>6 DEF row
<1>14. ASSUME Len(noted) = BeaconFull PROVE LatestIn(Packets!Halved(noted), new, key)
  <2> DEFINE d == BeaconFull - BeaconKeep
             kept == SubSeq(noted, d + 1, BeaconFull)
             rest == [j \in 1..BeaconKeep |-> all[j + d]]
  <2>1. d \in Nat /\ BeaconKeep \in Nat /\ BeaconKeep >= 1 /\ BeaconKeep < BeaconFull /\ BeaconFull = BeaconKeep + d
        /\ m + 1 = BeaconKeep + d
    BY <1>1, <1>14, BeaconAssumption
  <2>2. Packets!Halved(noted) = kept
    BY <1>14 DEF Packets!Halved
  <2> HIDE DEF d
  <2>3. \A j \in 1..BeaconKeep : j + d \in 1..m + 1 /\ noted[j + d] \in Nat
    <3>1. \A j \in 1..BeaconKeep : j + d \in 1..m + 1
      BY <2>1
    <3>2. \A j \in 1..m + 1 : noted[j] \in Nat
      BY <1>1, LenProperties
    <3> QED BY <3>1, <3>2
  <2>4. kept \in Seq(Nat) /\ Len(kept) = BeaconKeep /\ \A j \in 1..BeaconKeep : kept[j] = noted[j + d]
    <3> DEFINE Times == Nat
    <3>1. noted \in Seq(Times) /\ Len(noted) = BeaconFull /\ d \in 0..Len(noted) /\ Len(noted) - d = BeaconKeep
      BY <1>1, <1>14, <2>1
    <3>2. kept = SubSeq(noted, d + 1, Len(noted))
      BY <3>1
    <3> HIDE DEF kept, Times
    <3>3. kept \in Seq(Times) /\ Len(kept) = Len(noted) - d /\ \A i \in 1..Len(noted) - d : kept[i] = noted[i + d]
      BY <3>1, <3>2, TailOf
    <3> QED BY <3>1, <3>3 DEF Times
  <2> HIDE DEF kept
  <2>5. (\A j \in 1..BeaconKeep : rest[j] = all[j + d]) /\ rest \in [1..BeaconKeep -> HitsIn(new, key)]
    BY <1>7, <2>3
  <2> HIDE DEF rest
  <2>6. RowIn(rest, BeaconKeep, new, key)
    <3> SUFFICES ASSUME NEW j \in 1..(BeaconKeep - 1)
                 PROVE  rest[j] < rest[j + 1] /\ \A i \in HitsIn(new, key) : i <= rest[j] \/ i >= rest[j + 1]
      BY <2>5 DEF RowIn
    <3>1. j \in 1..BeaconKeep /\ j + 1 \in 1..BeaconKeep /\ (j + 1) + d = (j + d) + 1 /\ j + d \in 1..((m + 1) - 1)
      BY <1>1, <2>1
    <3>2. rest[j] = all[j + d] /\ rest[j + 1] = all[(j + d) + 1]
      BY <2>5, <3>1
    <3> QED BY <1>10, <3>1, <3>2 DEF RowIn
  <2>7. \A j \in 1..BeaconKeep : kept[j] = new[rest[j]].at
    BY <1>11, <2>3, <2>4, <2>5
  <2>8. \A i \in HitsIn(new, key) : BeaconKeep >= 1 /\ i <= rest[BeaconKeep]
    <3>1. BeaconKeep \in 1..BeaconKeep /\ rest[BeaconKeep] = all[m + 1]
      BY <2>1, <2>5
    <3> QED BY <1>9, <2>1, <3>1
  <2>9. LatestIn(kept, new, key)
    BY <2>1, <2>4, <2>6, <2>7, <2>8 DEF LatestIn
  <2> QED BY <2>2, <2>9
<1>15. Len(noted) = BeaconFull => RowIn(all, BeaconFull, new, key)
  BY <1>1, <1>10
<1> QED BY <1>12, <1>13, <1>14, <1>15 DEF RowOf

-----------------------------------------------------------------------------
(* What has been told, and that it is told once, but for scans.            *)
ToldIn(an) == {an[i] : i \in DOMAIN an}
OnceIn(an) == \A i, j \in DOMAIN an : i # j /\ an[i][1] # "port_scan" => an[i] # an[j]

(* One more, or none.                                                      *)
LEMMA OneMore ==
  ASSUME NEW T, NEW an \in Seq(T), NEW x \in T, NEW s, s = <<>> \/ s = <<x>>
  PROVE  /\ an \o s \in Seq(T)
         /\ \A y : y \in ToldIn(an \o s) <=> y \in ToldIn(an) \/ (s = <<x>> /\ y = x)
         /\ OnceIn(an) /\ (s = <<x>> => x[1] = "port_scan" \/ x \notin ToldIn(an)) => OnceIn(an \o s)
<1> DEFINE n == Len(an)
           new == an \o s
<1>1. n \in Nat /\ DOMAIN an = 1..n /\ an \in Seq(T)
  BY LenProperties
<1>2. CASE s = <<>>
  <2>1. new = an
    BY <1>2, ConcatEmptySeq
  <2>2. s # <<x>>
    BY <1>2
  <2> QED BY <1>1, <2>1, <2>2
<1>3. CASE s = <<x>>
  <2>1. new = Append(an, x)
    BY <1>3, AppendIsConcat
  <2>2. /\ new \in Seq(T) /\ Len(new) = n + 1
        /\ \A j \in 1..n : new[j] = an[j]
        /\ new[n + 1] = x
    BY <2>1, AppendProperties
  <2>3. DOMAIN new = 1..n + 1
    BY <2>2, LenProperties
  <2> HIDE DEF n, new
  <2>4. \A i : i \in 1..n + 1 <=> i \in 1..n \/ i = n + 1
    BY <1>1
  <2>5. n + 1 \notin 1..n
    BY <1>1
  <2>6. \A y : y \in ToldIn(new) <=> y \in ToldIn(an) \/ y = x
    BY <1>1, <2>2, <2>3, <2>4 DEF ToldIn
  <2>7. ASSUME OnceIn(an), x[1] = "port_scan" \/ x \notin ToldIn(an) PROVE OnceIn(new)
    <3> SUFFICES ASSUME NEW i \in 1..n + 1, NEW j \in 1..n + 1, i # j, new[i][1] # "port_scan" PROVE new[i] # new[j]
      BY <2>3 DEF OnceIn
    <3>1. \A h \in 1..n : new[h] \in ToldIn(an) /\ new[h] = an[h]
      BY <1>1, <2>2 DEF ToldIn
    <3>2. CASE i \in 1..n /\ j \in 1..n
      BY <1>1, <2>7, <3>1, <3>2 DEF OnceIn
    <3>3. CASE i = n + 1 /\ j \in 1..n
      BY <2>2, <2>7, <3>1, <3>3
    <3>4. CASE i \in 1..n /\ j = n + 1
      <4> SUFFICES ASSUME new[i] = x PROVE FALSE
        BY <2>2, <3>4
      <4> QED BY <2>7, <3>1, <3>4
    <3> QED BY <2>4, <3>2, <3>3, <3>4
  <2> QED BY <1>3, <2>2, <2>6, <2>7 DEF new
<1> QED BY <1>2, <1>3

(* The anomalies there may be.                                             *)
Scans == {<<"port_scan", p.src, n>> : p \in PktInput, n \in Nat}
Others == {<<"c2_beaconing", Packets!BeaconKey(p)>> : p \in PktInput} \cup {Packets!TunnelKey(p) : p \in PktInput}
          \cup {<<"icmp_tunnel", p.src>> : p \in PktInput}
Anomaly == Scans \cup Others

(* What is told of a log is so.                                            *)
Warranted(a, log) ==
  /\ a[1] = "port_scan" => a[3] \in Nat /\ Cardinality(SynPortsIn(log, a[2], Len(log))) >= a[3]
  /\ a[1] = "c2_beaconing" =>
       \E at : RowIn(at, BeaconFull, log, a[2]) /\ Packets!Regular([j \in 1..BeaconFull |-> log[at[j]].at])
  /\ a[1] = "dns_tunnel" => \E i \in DOMAIN log : log[i].pkt.src = a[2] /\ log[i].pkt.label = a[3]
  /\ a[1] = "icmp_tunnel" => \E i \in DOMAIN log : log[i].pkt.src = a[2] /\ log[i].pkt.oversized

(* What a packet, the i-th of a log, gives rise to is told.                *)
Tells(p, log, i, told) ==
  /\ Packets!Syn(p) /\ Cardinality(SynPortsIn(log, p.src, i)) \in ScanLevels =>
       <<"port_scan", p.src, Cardinality(SynPortsIn(log, p.src, i))>> \in told
  /\ p.transport = "udp" /\ p.port = 53 /\ p.label # "none" => <<"dns_tunnel", p.src, p.label>> \in told
  /\ p.transport = "icmp" /\ p.oversized => <<"icmp_tunnel", p.src>> \in told

LEMMA KindsOfAnomaly ==
  /\ \A a \in Anomaly : a[1] \in {"port_scan", "c2_beaconing", "dns_tunnel", "icmp_tunnel"}
  /\ \A a \in Others : a \in Anomaly /\ a[1] # "port_scan"
  /\ \A a \in Scans : a \in Anomaly
<1>1. \A a \in Scans : a[1] = "port_scan"
  BY DEF Scans
<1>2. \A a \in Others : a[1] = "c2_beaconing" \/ a[1] = "dns_tunnel" \/ a[1] = "icmp_tunnel"
  BY DEF Others, Packets!TunnelKey
<1> QED BY <1>1, <1>2 DEF Anomaly

(* What was warranted stays so.                                            *)
LEMMA StaysWarranted ==
  ASSUME NEW log, NEW p, NEW now, NEW new, Grows(new, log, p, now), NEW a, Warranted(a, log),
         IsFiniteSet(SynPortsIn(log, a[2], Len(log)))
  PROVE  Warranted(a, new)
<1>1. Len(log) \in Nat /\ Len(new) = Len(log) + 1 /\ DOMAIN log = 1..Len(log) /\ DOMAIN new = 1..Len(log) + 1
      /\ \A i \in 1..Len(log) : new[i] = log[i]
  BY DEF Grows
<1>2. ASSUME a[1] = "port_scan" PROVE a[3] \in Nat /\ Cardinality(SynPortsIn(new, a[2], Len(new))) >= a[3]
  <2> DEFINE old == SynPortsIn(log, a[2], Len(log))
             more == SynPortsIn(new, a[2], Len(new))
  <2>1. more = old \cup (IF Packets!Syn(p) /\ p.src = a[2] THEN {p.port} ELSE {})
    BY <1>1, SynPortsGrow
  <2>2. IsFiniteSet(old) /\ a[3] \in Nat /\ Cardinality(old) >= a[3]
    BY <1>2 DEF Warranted
  <2> HIDE DEF old, more
  <2>3. IsFiniteSet(more) /\ old \subseteq more
    BY <2>1, <2>2, FS_AddElement
  <2>4. Cardinality(old) <= Cardinality(more) /\ Cardinality(old) \in Nat /\ Cardinality(more) \in Nat
    BY <2>2, <2>3, FS_Subset, FS_CardinalityType
  <2>5. Cardinality(more) >= a[3]
    BY <2>2, <2>4
  <2> QED BY <2>2, <2>5 DEF more
<1>3. ASSUME a[1] = "c2_beaconing"
      PROVE  \E at : RowIn(at, BeaconFull, new, a[2]) /\ Packets!Regular([j \in 1..BeaconFull |-> new[at[j]].at])
  <2>1. PICK at : RowIn(at, BeaconFull, log, a[2]) /\ Packets!Regular([j \in 1..BeaconFull |-> log[at[j]].at])
    BY <1>3 DEF Warranted
  <2>2. RowIn(at, BeaconFull, new, a[2]) /\ \A j \in 1..BeaconFull : new[at[j]] = log[at[j]]
    BY <2>1, RowStands, BeaconAssumption
  <2>3. [j \in 1..BeaconFull |-> new[at[j]].at] = [j \in 1..BeaconFull |-> log[at[j]].at]
    BY <2>2
  <2> QED BY <2>1, <2>2, <2>3
<1>4. \A i \in DOMAIN log : i \in DOMAIN new /\ new[i] = log[i]
  BY <1>1
<1>5. a[1] = "dns_tunnel" => \E i \in DOMAIN new : new[i].pkt.src = a[2] /\ new[i].pkt.label = a[3]
  BY <1>4 DEF Warranted
<1>6. a[1] = "icmp_tunnel" => \E i \in DOMAIN new : new[i].pkt.src = a[2] /\ new[i].pkt.oversized
  BY <1>4 DEF Warranted
<1> QED BY <1>2, <1>3, <1>5, <1>6 DEF Warranted

(* What a packet adds to what is told: a scan, and up to three others.     *)
LEMMA FoundIs ==
  ASSUME NEW x1 \in Others, NEW x2 \in Others, NEW x3 \in Others,
         NEW o1, NEW o2, NEW o3, o1 = <<>> \/ o1 = <<x1>>, o2 = <<>> \/ o2 = <<x2>>, o3 = <<>> \/ o3 = <<x3>>
  PROVE  /\ o1 \in Seq(Anomaly) /\ o1 \o o2 \in Seq(Anomaly) /\ (o1 \o o2) \o o3 \in Seq(Anomaly)
         /\ o2 \in Seq(Anomaly) /\ o3 \in Seq(Anomaly)
         /\ \A y : y \in ToldIn((o1 \o o2) \o o3) <=>
                     (o1 = <<x1>> /\ y = x1) \/ (o2 = <<x2>> /\ y = x2) \/ (o3 = <<x3>> /\ y = x3)
<1>1. x1 \in Anomaly /\ x2 \in Anomaly /\ x3 \in Anomaly
  BY KindsOfAnomaly
<1>2. <<>> \in Seq(Anomaly) /\ \A x : x \in Anomaly => <<x>> \in Seq(Anomaly)
  OBVIOUS
<1>3. o1 \in Seq(Anomaly) /\ o2 \in Seq(Anomaly) /\ o3 \in Seq(Anomaly)
  BY <1>1, <1>2
<1>4. \A y : y \in ToldIn(o1) <=> o1 = <<x1>> /\ y = x1
  <2>1. CASE o1 = <<>>
    <3>1. <<>> # <<x1>> /\ DOMAIN <<>> = {}
      OBVIOUS
    <3> QED BY <2>1, <3>1 DEF ToldIn
  <2>2. CASE o1 = <<x1>>
    <3>1. DOMAIN <<x1>> = {1} /\ <<x1>>[1] = x1
      OBVIOUS
    <3> QED BY <2>2, <3>1 DEF ToldIn
  <2> QED BY <2>1, <2>2
<1>5. o1 \o o2 \in Seq(Anomaly) /\ \A y : y \in ToldIn(o1 \o o2) <=> y \in ToldIn(o1) \/ (o2 = <<x2>> /\ y = x2)
  BY <1>1, <1>3, OneMore
<1> DEFINE both == o1 \o o2
<1> HIDE DEF both
<1>6. both \o o3 \in Seq(Anomaly) /\ \A y : y \in ToldIn(both \o o3) <=> y \in ToldIn(both) \/ (o3 = <<x3>> /\ y = x3)
  <2>1. both \in Seq(Anomaly)
    BY <1>5 DEF both
  <2> QED BY <1>1, <2>1, OneMore
<1> QED BY <1>3, <1>4, <1>5, <1>6 DEF both

(* The anomalies with what a packet adds to them.                          *)
AllOf(an, a0, a1, a2, a3) == (((an \o a0) \o a1) \o a2) \o a3

LEMMA FourMore ==
  ASSUME NEW an \in Seq(Anomaly), OnceIn(an), NEW x0 \in Scans, NEW x1 \in Others, NEW x2 \in Others, NEW x3 \in Others,
         x1 # x2, x1 # x3, x2 # x3, NEW o0, NEW o1, NEW o2, NEW o3,
         o0 = <<>> \/ o0 = <<x0>>, o1 = <<>> \/ o1 = <<x1>>, o2 = <<>> \/ o2 = <<x2>>, o3 = <<>> \/ o3 = <<x3>>,
         o1 = <<x1>> => x1 \notin ToldIn(an), o2 = <<x2>> => x2 \notin ToldIn(an), o3 = <<x3>> => x3 \notin ToldIn(an),
         NEW new, new = AllOf(an, o0, o1, o2, o3)
  PROVE  /\ new \in Seq(Anomaly) /\ OnceIn(new)
         /\ \A y : y \in ToldIn(new) <=>
                     \/ y \in ToldIn(an) \/ (o0 = <<x0>> /\ y = x0)
                     \/ (o1 = <<x1>> /\ y = x1) \/ (o2 = <<x2>> /\ y = x2) \/ (o3 = <<x3>> /\ y = x3)
<1> DEFINE b0 == an \o o0
           b1 == b0 \o o1
           b2 == b1 \o o2
           b3 == b2 \o o3
<1>1. /\ x0 \in Anomaly /\ x0[1] = "port_scan"
      /\ x1 \in Anomaly /\ x1[1] # "port_scan" /\ x2 \in Anomaly /\ x2[1] # "port_scan"
      /\ x3 \in Anomaly /\ x3[1] # "port_scan"
  <2>1. x0[1] = "port_scan"
    BY DEF Scans
  <2> QED BY <2>1, KindsOfAnomaly
<1>2. /\ b0 \in Seq(Anomaly) /\ OnceIn(b0)
      /\ \A y : y \in ToldIn(b0) <=> y \in ToldIn(an) \/ (o0 = <<x0>> /\ y = x0)
  BY <1>1, OneMore
<1>3. new = b3
  BY DEF AllOf
<1> HIDE DEF b0, b1, b2, b3
<1>4. /\ b1 \in Seq(Anomaly) /\ OnceIn(b1)
      /\ \A y : y \in ToldIn(b1) <=> y \in ToldIn(b0) \/ (o1 = <<x1>> /\ y = x1)
  <2>1. o1 = <<x1>> => x1 \notin ToldIn(b0)
    BY <1>1, <1>2
  <2> QED BY <1>1, <1>2, <2>1, OneMore DEF b1
<1>5. /\ b2 \in Seq(Anomaly) /\ OnceIn(b2)
      /\ \A y : y \in ToldIn(b2) <=> y \in ToldIn(b1) \/ (o2 = <<x2>> /\ y = x2)
  <2>1. o2 = <<x2>> => x2 \notin ToldIn(b1)
    BY <1>1, <1>2, <1>4
  <2> QED BY <1>1, <1>4, <2>1, OneMore DEF b2
<1>6. /\ b3 \in Seq(Anomaly) /\ OnceIn(b3)
      /\ \A y : y \in ToldIn(b3) <=> y \in ToldIn(b2) \/ (o3 = <<x3>> /\ y = x3)
  <2>1. o3 = <<x3>> => x3 \notin ToldIn(b2)
    BY <1>1, <1>2, <1>4, <1>5
  <2> QED BY <1>1, <1>5, <2>1, OneMore DEF b3
<1> QED BY <1>2, <1>3, <1>4, <1>5, <1>6

-----------------------------------------------------------------------------
(* What is kept of the sources, the beacons and the flows is what the log  *)
(* says of them.                                                           *)
ScansKept(scan, log) ==
  \A src : /\ IsFiniteSet(SynPortsIn(log, src, Len(log)))
           /\ Packets!At(scan, src, {}) = SynPortsIn(log, src, Len(log))
BeaconsKept(kept, log) == \A key : LatestIn(Packets!At(kept, key, <<>>), log, key)
FlowsCounted(seen, log) ==
  /\ \A k \in DOMAIN seen : k[3] # "none" /\ seen[k].packets = Cardinality(PacketsOf(log, k))
  /\ \A i \in DOMAIN log : log[i].pkt.transport # "none" => Packets!FlowKey(log[i].pkt) \in DOMAIN seen

LEMMA AtOfWith ==
  ASSUME NEW f, NEW k, NEW v, NEW none
  PROVE  /\ Packets!At(Packets!With(f, k, v), k, none) = v
         /\ \A x : x # k => Packets!At(Packets!With(f, k, v), x, none) = Packets!At(f, x, none)
<1> DEFINE w == Packets!With(f, k, v)
<1>1. /\ DOMAIN w = DOMAIN f \cup {k}
      /\ w[k] = v /\ \A x \in DOMAIN f : x # k => w[x] = f[x]
  BY DEF Packets!With
<1> HIDE DEF w
<1>2. Packets!At(w, k, none) = v
  BY <1>1 DEF Packets!At
<1>3. \A x : x # k => Packets!At(w, x, none) = Packets!At(f, x, none)
  BY <1>1 DEF Packets!At
<1> QED BY <1>2, <1>3 DEF w

PortsAfter(scan, p) == Packets!At(scan, p.src, {}) \cup (IF Packets!Syn(p) THEN {p.port} ELSE {})
ScanAfter(scan, p) == IF Packets!Syn(p) THEN Packets!With(scan, p.src, PortsAfter(scan, p)) ELSE scan
TimesAfter(kept, p, now) == Append(Packets!At(kept, Packets!BeaconKey(p), <<>>), now)
KeptAfter(kept, p, now) ==
  IF Packets!Beacons(p) THEN Packets!With(kept, Packets!BeaconKey(p), Packets!Halved(TimesAfter(kept, p, now))) ELSE kept

LEMMA ScansStayKept ==
  ASSUME NEW log, NEW p, NEW now, NEW new, Grows(new, log, p, now), NEW scan, ScansKept(scan, log)
  PROVE  ScansKept(ScanAfter(scan, p), new) /\ PortsAfter(scan, p) = SynPortsIn(new, p.src, Len(new))
<1> DEFINE hit == PortsAfter(scan, p)
           next == ScanAfter(scan, p)
<1>8. hit = Packets!At(scan, p.src, {}) \cup (IF Packets!Syn(p) THEN {p.port} ELSE {})
  BY DEF PortsAfter
<1>9. next = IF Packets!Syn(p) THEN Packets!With(scan, p.src, hit) ELSE scan
  BY DEF ScanAfter
<1> SUFFICES ScansKept(next, new) /\ hit = SynPortsIn(new, p.src, Len(new))
  OBVIOUS
<1> HIDE DEF hit, next
<1>1. Len(new) = Len(log) + 1
  BY DEF Grows
<1>2. \A src : SynPortsIn(new, src, Len(new)) =
                 SynPortsIn(log, src, Len(log)) \cup (IF Packets!Syn(p) /\ p.src = src THEN {p.port} ELSE {})
  BY <1>1, SynPortsGrow
<1>3. \A src : IsFiniteSet(SynPortsIn(new, src, Len(new)))
  <2> SUFFICES ASSUME NEW src PROVE IsFiniteSet(SynPortsIn(new, src, Len(new)))
    OBVIOUS
  <2>1. IsFiniteSet(SynPortsIn(log, src, Len(log)))
    BY DEF ScansKept
  <2>2. IsFiniteSet(SynPortsIn(log, src, Len(log)) \cup {p.port})
    BY <2>1, FS_AddElement
  <2>3. SynPortsIn(new, src, Len(new)) = SynPortsIn(log, src, Len(log)) \cup {p.port}
        \/ SynPortsIn(new, src, Len(new)) = SynPortsIn(log, src, Len(log))
    BY <1>2
  <2> QED BY <2>1, <2>2, <2>3
<1>4. \A src : Packets!At(scan, src, {}) = SynPortsIn(log, src, Len(log))
  BY DEF ScansKept
<1>5. CASE ~Packets!Syn(p)
  <2>1. \A src : SynPortsIn(new, src, Len(new)) = SynPortsIn(log, src, Len(log))
    BY <1>2, <1>5
  <2>2. hit = SynPortsIn(new, p.src, Len(new))
    BY <1>8, <1>4, <1>5, <2>1
  <2> QED BY <1>9, <1>3, <1>4, <1>5, <2>1, <2>2 DEF ScansKept
<1>6. CASE Packets!Syn(p)
  <2>1. \A src : src # p.src => SynPortsIn(new, src, Len(new)) = SynPortsIn(log, src, Len(log))
    BY <1>2
  <2>2. hit = SynPortsIn(new, p.src, Len(new))
    BY <1>8, <1>2, <1>4, <1>6
  <2>3. \A src : Packets!At(next, src, {}) = SynPortsIn(new, src, Len(new))
    <3>1. next = Packets!With(scan, p.src, hit)
      BY <1>9, <1>6
    <3>2. /\ Packets!At(next, p.src, {}) = hit
          /\ \A x : x # p.src => Packets!At(next, x, {}) = Packets!At(scan, x, {})
      BY <3>1, AtOfWith
    <3> QED BY <1>4, <2>1, <2>2, <3>2
  <2> QED BY <1>3, <2>2, <2>3 DEF ScansKept
<1> QED BY <1>5, <1>6

LEMMA BeaconsStayKept ==
  ASSUME NEW log, NEW p, NEW now \in Nat, NEW new, Grows(new, log, p, now), NEW kept, BeaconsKept(kept, log)
  PROVE  /\ BeaconsKept(KeptAfter(kept, p, now), new)
         /\ Packets!Beacons(p) /\ Len(TimesAfter(kept, p, now)) = BeaconFull =>
              RowOf(TimesAfter(kept, p, now), new, Packets!BeaconKey(p))
<1> DEFINE key == Packets!BeaconKey(p)
           times == TimesAfter(kept, p, now)
           next == KeptAfter(kept, p, now)
<1>8. times = Append(Packets!At(kept, key, <<>>), now)
  BY DEF TimesAfter
<1>9. next = IF Packets!Beacons(p) THEN Packets!With(kept, key, Packets!Halved(times)) ELSE kept
  BY DEF KeptAfter
<1> SUFFICES BeaconsKept(next, new) /\ (Packets!Beacons(p) /\ Len(times) = BeaconFull => RowOf(times, new, key))
  OBVIOUS
<1> HIDE DEF times, next
<1>1. \A k : LatestIn(Packets!At(kept, k, <<>>), log, k)
  BY DEF BeaconsKept
<1> HIDE DEF key
<1>2. \A k : ~(Packets!Beacons(p) /\ key = k) => LatestIn(Packets!At(kept, k, <<>>), new, k)
  BY <1>1, LatestOthers DEF key
<1>3. CASE ~Packets!Beacons(p)
  BY <1>9, <1>2, <1>3 DEF BeaconsKept
<1>4. CASE Packets!Beacons(p)
  <2>1. /\ LatestIn(Packets!Halved(times), new, key)
        /\ Len(times) = BeaconFull =>
             RowOf(times, new, key)
    <3> DEFINE old == Packets!At(kept, key, <<>>)
    <3>1. LatestIn(old, log, key) /\ times = Append(old, now) /\ Packets!BeaconKey(p) = key
      BY <1>8, <1>1 DEF key
    <3> HIDE DEF old
    <3>2. now \in Nat /\ Grows(new, log, p, now) /\ Packets!Beacons(p)
      BY <1>4
    <3> QED BY <3>1, <3>2, LatestNoted
  <2>2. /\ Packets!At(next, key, <<>>) = Packets!Halved(times)
        /\ \A k : k # key => Packets!At(next, k, <<>>) = Packets!At(kept, k, <<>>)
    <3> DEFINE v == Packets!Halved(times)
    <3>1. next = Packets!With(kept, key, v)
      BY <1>9, <1>4 DEF key
    <3> HIDE DEF v
    <3>2. /\ Packets!At(next, key, <<>>) = v
          /\ \A x : x # key => Packets!At(next, x, <<>>) = Packets!At(kept, x, <<>>)
      BY <3>1, AtOfWith
    <3> QED BY <3>2 DEF v
  <2>3. \A k : LatestIn(Packets!At(next, k, <<>>), new, k)
    BY <1>2, <2>1, <2>2
  <2> QED BY <2>1, <2>3 DEF BeaconsKept
<1> QED BY <1>3, <1>4

LEMMA FlowsStayCounted ==
  ASSUME NEW log, NEW p, NEW now, NEW new, Grows(new, log, p, now), NEW seen, FlowsCounted(seen, log),
         NEW entry, Packets!FlowKey(p) \in DOMAIN seen => entry.packets = seen[Packets!FlowKey(p)].packets + 1,
         Packets!FlowKey(p) \notin DOMAIN seen => entry.packets = 1,
         NEW next, next = IF p.transport = "none" THEN seen ELSE Packets!With(seen, Packets!FlowKey(p), entry)
  PROVE  FlowsCounted(next, new)
<1> DEFINE key == Packets!FlowKey(p)
<1>1. key[3] = p.transport
  BY DEF Packets!FlowKey
<1>2. \A q : Packets!FlowKey(q)[3] = q.transport
  BY DEF Packets!FlowKey
<1> HIDE DEF key
<1>3. /\ Len(log) \in Nat /\ DOMAIN log = 1..Len(log) /\ DOMAIN new = 1..Len(log) + 1
      /\ (\A i \in 1..Len(log) : new[i] = log[i]) /\ new[Len(log) + 1].pkt = p
  BY DEF Grows
<1>4. \A i \in 1..Len(log) + 1 : i \in 1..Len(log) \/ i = Len(log) + 1
  BY <1>3
<1>5. \A k : k # key => PacketsOf(new, k) = PacketsOf(log, k)
  BY FlowGrows DEF key
<1>6. Cardinality(PacketsOf(new, key)) = Cardinality(PacketsOf(log, key)) + 1
  BY FlowGrows DEF key
<1>7. CASE p.transport = "none"
  <2>1. next = seen /\ \A k \in DOMAIN seen : k # key
    BY <1>1, <1>7 DEF FlowsCounted
  <2>2. \A k \in DOMAIN seen : k[3] # "none" /\ seen[k].packets = Cardinality(PacketsOf(new, k))
    BY <1>5, <2>1 DEF FlowsCounted
  <2>3. \A i \in DOMAIN new : new[i].pkt.transport # "none" => Packets!FlowKey(new[i].pkt) \in DOMAIN seen
    BY <1>3, <1>4, <1>7 DEF FlowsCounted
  <2> QED BY <2>1, <2>2, <2>3 DEF FlowsCounted
<1>8. CASE p.transport # "none"
  <2>1. /\ DOMAIN next = DOMAIN seen \cup {key} /\ next[key] = entry
        /\ \A k \in DOMAIN seen : k # key => next[k] = seen[k]
    <3>1. next = Packets!With(seen, key, entry)
      BY <1>8 DEF key
    <3> QED BY <3>1 DEF Packets!With
  <2>2. entry.packets = Cardinality(PacketsOf(new, key))
    <3>1. CASE key \in DOMAIN seen
      BY <1>6, <3>1 DEF FlowsCounted, key
    <3>2. CASE key \notin DOMAIN seen
      <4>1. PacketsOf(log, key) = {}
        <5>1. \A i \in DOMAIN log : Packets!FlowKey(log[i].pkt) # key
          BY <1>1, <1>2, <1>8, <3>2 DEF FlowsCounted
        <5> QED BY <5>1 DEF PacketsOf
      <4>2. Cardinality(PacketsOf(log, key)) = 0
        BY <4>1, FS_EmptySet
      <4> QED BY <1>6, <3>2, <4>2 DEF key
    <3> QED BY <3>1, <3>2
  <2>3. \A k \in DOMAIN next : k[3] # "none" /\ next[k].packets = Cardinality(PacketsOf(new, k))
    BY <1>1, <1>5, <1>8, <2>1, <2>2 DEF FlowsCounted
  <2>4. \A i \in DOMAIN new : new[i].pkt.transport # "none" => Packets!FlowKey(new[i].pkt) \in DOMAIN next
    BY <1>3, <1>4, <2>1 DEF FlowsCounted, key
  <2> QED BY <2>3, <2>4 DEF FlowsCounted
<1> QED BY <1>7, <1>8

-----------------------------------------------------------------------------
(* What is remembered as told is what was told, but for scans; what a      *)
(* packet of the log gave rise to is told, and what is told is warranted.  *)
ReportedAre(reported, an) == \A y : y \in reported <=> y \in ToldIn(an) /\ y[1] # "port_scan"
AllTell(log, an) == \A i \in DOMAIN log : Tells(log[i].pkt, log, i, ToldIn(an))
AllWarranted(an, log) == \A a \in ToldIn(an) : Warranted(a, log)

PacketInv ==
  /\ s1 \in Nat /\ s7 \in Seq(Captured) /\ s5 \in Seq(Anomaly) /\ OnceIn(s5) /\ ReportedAre(s4, s5)
  /\ ScansKept(s2, s7) /\ BeaconsKept(s3, s7) /\ FlowsCounted(s6, s7)
  /\ AllTell(s7, s5) /\ AllWarranted(s5, s7)

LEMMA PacketInvInit == Packets!PacketInit => PacketInv
<1> SUFFICES ASSUME Packets!PacketInit PROVE PacketInv
  OBVIOUS
<1>1. s1 = 0 /\ s2 = <<>> /\ s3 = <<>> /\ s4 = {} /\ s5 = <<>> /\ s6 = <<>> /\ s7 = <<>>
  BY DEF Packets!PacketInit
<1>2. DOMAIN <<>> = {} /\ Len(<<>>) = 0 /\ \A T : <<>> \in Seq(T)
  OBVIOUS
<1>3. ToldIn(s5) = {}
  BY <1>1, <1>2 DEF ToldIn
<1>4. OnceIn(s5) /\ ReportedAre(s4, s5) /\ AllTell(s7, s5) /\ AllWarranted(s5, s7)
  BY <1>1, <1>2, <1>3 DEF OnceIn, ReportedAre, AllTell, AllWarranted
<1>5. ScansKept(s2, s7)
  <2>1. \A src : SynPortsIn(s7, src, Len(s7)) = {}
    BY <1>1, <1>2 DEF SynPortsIn
  <2>2. \A src : Packets!At(s2, src, {}) = {}
    BY <1>1, <1>2 DEF Packets!At
  <2> QED BY <2>1, <2>2, FS_EmptySet DEF ScansKept
<1>6. BeaconsKept(s3, s7)
  <2> SUFFICES ASSUME NEW key PROVE LatestIn(Packets!At(s3, key, <<>>), s7, key)
    BY DEF BeaconsKept
  <2>1. Packets!At(s3, key, <<>>) = <<>>
    BY <1>1, <1>2 DEF Packets!At
  <2>2. HitsIn(s7, key) = {}
    BY <1>1, <1>2 DEF HitsIn
  <2> DEFINE at == [j \in 1..0 |-> 0]
  <2>3. RowIn(at, 0, s7, key)
    <3>1. at \in [1..0 -> HitsIn(s7, key)] /\ 1..(0 - 1) = {}
      OBVIOUS
    <3> HIDE DEF at
    <3> QED BY <3>1 DEF RowIn
  <2> HIDE DEF at
  <2>4. \A j \in 1..0 : <<>>[j] = s7[at[j]].at
    OBVIOUS
  <2>5. 0 < BeaconFull
    BY BeaconAssumption
  <2>6. LatestIn(<<>>, s7, key)
    BY <1>2, <2>2, <2>3, <2>4, <2>5 DEF LatestIn
  <2> QED BY <2>1, <2>6
<1>7. FlowsCounted(s6, s7)
  BY <1>1, <1>2 DEF FlowsCounted
<1> QED BY <1>1, <1>2, <1>4, <1>5, <1>6, <1>7 DEF PacketInv

(* What is told once, with the next packet.                                *)
LEMMA OnceIs ==
  ASSUME NEW x, NEW holds
  PROVE  /\ Packets!Once(x, holds) = <<>> \/ Packets!Once(x, holds) = <<x>>
         /\ Packets!Once(x, holds) = <<x>> <=> holds /\ x \notin s4
<1>1. <<>> # <<x>>
  OBVIOUS
<1> QED BY <1>1 DEF Packets!Once

(* What a packet may give rise to, and whether it does.                    *)
ScanOf(p) == <<"port_scan", p.src, Cardinality(Packets!PortsHit(p))>>
ScanFound(p) == Packets!Syn(p) /\ Cardinality(Packets!PortsHit(p)) \in ScanLevels
BeaconOf(p) == <<"c2_beaconing", Packets!BeaconKey(p)>>
BeaconFound(p) == Packets!Beacons(p) /\ Len(Packets!Times(p)) = BeaconFull /\ Packets!Regular(Packets!Times(p))
TunnelFound(p) == p.transport = "udp" /\ p.port = 53 /\ p.label # "none"
IcmpOf(p) == <<"icmp_tunnel", p.src>>
IcmpFound(p) == p.transport = "icmp" /\ p.oversized

LEMMA PacketsCount == \A S : Packets!Cardinality(S) = Cardinality(S)
BY DEF Packets!Cardinality, Packets!IsFiniteSet, Cardinality, IsFiniteSet

LEMMA AnomaliesFollow ==
  ASSUME s5 \in Seq(Anomaly), OnceIn(s5), ReportedAre(s4, s5), NEW p \in PktInput,
         Cardinality(Packets!PortsHit(p)) \in Nat, Packets!Feed(p)
  PROVE  /\ s5' \in Seq(Anomaly) /\ OnceIn(s5') /\ ReportedAre(s4', s5')
         /\ \A y : y \in ToldIn(s5') <=>
                     \/ y \in ToldIn(s5) \/ (y = ScanOf(p) /\ ScanFound(p)) \/ (y = BeaconOf(p) /\ BeaconFound(p))
                     \/ (y = Packets!TunnelKey(p) /\ TunnelFound(p)) \/ (y = IcmpOf(p) /\ IcmpFound(p))
<1> DEFINE x0 == ScanOf(p)
           x1 == BeaconOf(p)
           x2 == Packets!TunnelKey(p)
           x3 == IcmpOf(p)
           o0 == Packets!Scan(p)
           o1 == Packets!Once(x1, BeaconFound(p))
           o2 == Packets!Once(x2, TunnelFound(p))
           o3 == Packets!Once(x3, IcmpFound(p))
           found == (o1 \o o2) \o o3
<1>1. Packets!Found(p) = found
  BY DEF Packets!Found, BeaconOf, BeaconFound, TunnelFound, IcmpOf, IcmpFound
<1>2. s5' = (s5 \o o0) \o found /\ s4' = s4 \cup ToldIn(found)
  BY <1>1 DEF Packets!Feed, ToldIn
<1>3. x0 \in Scans
  BY DEF Scans, ScanOf
<1>4. x1 \in Others /\ x2 \in Others /\ x3 \in Others
  BY DEF Others, BeaconOf, IcmpOf
<1>5. x1[1] = "c2_beaconing" /\ x2[1] = "dns_tunnel" /\ x3[1] = "icmp_tunnel" /\ x0[1] = "port_scan"
  BY DEF BeaconOf, IcmpOf, ScanOf, Packets!TunnelKey
<1>6. (o0 = <<>> \/ o0 = <<x0>>) /\ (o0 = <<x0>> <=> ScanFound(p))
  <2>1. <<>> # <<x0>>
    OBVIOUS
  <2>2. o0 = IF ScanFound(p) THEN <<x0>> ELSE <<>>
    BY PacketsCount DEF Packets!Scan, ScanOf, ScanFound
  <2> HIDE DEF o0, x0
  <2>3. (ScanFound(p) /\ o0 = <<x0>>) \/ (~ScanFound(p) /\ o0 = <<>>)
    BY <2>2
  <2> QED BY <2>1, <2>3
<1>7. /\ (o1 = <<>> \/ o1 = <<x1>>) /\ (o1 = <<x1>> <=> BeaconFound(p) /\ x1 \notin s4)
      /\ (o2 = <<>> \/ o2 = <<x2>>) /\ (o2 = <<x2>> <=> TunnelFound(p) /\ x2 \notin s4)
      /\ (o3 = <<>> \/ o3 = <<x3>>) /\ (o3 = <<x3>> <=> IcmpFound(p) /\ x3 \notin s4)
  BY OnceIs
<1> HIDE DEF x0, x1, x2, x3, o0, o1, o2, o3
<1>8. x1 # x2 /\ x1 # x3 /\ x2 # x3
  BY <1>5
<1>9. /\ x1 \in s4 <=> x1 \in ToldIn(s5)
      /\ x2 \in s4 <=> x2 \in ToldIn(s5)
      /\ x3 \in s4 <=> x3 \in ToldIn(s5)
  BY <1>5 DEF ReportedAre
<1>10. /\ o1 = <<x1>> => x1 \notin ToldIn(s5)
       /\ o2 = <<x2>> => x2 \notin ToldIn(s5)
       /\ o3 = <<x3>> => x3 \notin ToldIn(s5)
  BY <1>7, <1>9
<1> DEFINE new == (((s5 \o o0) \o o1) \o o2) \o o3
<1>11. s5' = new
  <2>1. o1 \in Seq(Anomaly) /\ o2 \in Seq(Anomaly) /\ o3 \in Seq(Anomaly) /\ s5 \o o0 \in Seq(Anomaly)
    <3>1. <<>> \in Seq(Anomaly) /\ \A x : x \in Anomaly => <<x>> \in Seq(Anomaly)
      OBVIOUS
    <3>2. x0 \in Anomaly /\ x1 \in Anomaly /\ x2 \in Anomaly /\ x3 \in Anomaly
      BY <1>3, <1>4, KindsOfAnomaly
    <3>3. o1 \in Seq(Anomaly) /\ o2 \in Seq(Anomaly) /\ o3 \in Seq(Anomaly)
      BY <1>7, <3>1, <3>2
    <3>4. s5 \o o0 \in Seq(Anomaly)
      BY <1>6, <3>2, OneMore
    <3> QED BY <3>3, <3>4
  <2> DEFINE b == s5 \o o0
  <2>2. b \in Seq(Anomaly)
    BY <2>1
  <2>3. s5' = b \o ((o1 \o o2) \o o3) /\ new = ((b \o o1) \o o2) \o o3
    BY <1>2
  <2> HIDE DEF b, new, found
  <2>4. b \o ((o1 \o o2) \o o3) = ((b \o o1) \o o2) \o o3
    <3>1. o1 \in Seq(Anomaly) /\ o2 \in Seq(Anomaly) /\ o3 \in Seq(Anomaly)
      BY <2>1
    <3>2. Regroups(b, o1, o2, o3)
      BY <2>2, <3>1, Regrouped
    <3> QED BY <3>2 DEF Regroups
  <2> QED BY <2>3, <2>4
<1>12. /\ new \in Seq(Anomaly) /\ OnceIn(new)
       /\ \A y : y \in ToldIn(new) <=>
                   \/ y \in ToldIn(s5) \/ (o0 = <<x0>> /\ y = x0)
                   \/ (o1 = <<x1>> /\ y = x1) \/ (o2 = <<x2>> /\ y = x2) \/ (o3 = <<x3>> /\ y = x3)
  <2>1. o0 = <<>> \/ o0 = <<x0>>
    BY <1>6
  <2>2. (o1 = <<>> \/ o1 = <<x1>>) /\ (o2 = <<>> \/ o2 = <<x2>>) /\ (o3 = <<>> \/ o3 = <<x3>>)
    BY <1>7
  <2> HIDE DEF new
  <2>3. new = AllOf(s5, o0, o1, o2, o3)
    BY DEF new, AllOf
  <2> QED BY <1>3, <1>4, <1>8, <1>10, <2>1, <2>2, <2>3, FourMore
<1>13. \A y : y \in ToldIn(found) <=>
                (o1 = <<x1>> /\ y = x1) \/ (o2 = <<x2>> /\ y = x2) \/ (o3 = <<x3>> /\ y = x3)
  BY <1>4, <1>7, FoundIs
<1> HIDE DEF new, found
<1>14. \A y : y \in ToldIn(s5') <=>
                \/ y \in ToldIn(s5) \/ (y = x0 /\ ScanFound(p)) \/ (y = x1 /\ BeaconFound(p))
                \/ (y = x2 /\ TunnelFound(p)) \/ (y = x3 /\ IcmpFound(p))
  BY <1>6, <1>7, <1>9, <1>11, <1>12
<1>15. ReportedAre(s4', s5')
  <2>1. \A y : y \in s4' <=> y \in s4 \/ y \in ToldIn(found)
    BY <1>2
  <2>2. \A y : y \in s4 <=> y \in ToldIn(s5) /\ y[1] # "port_scan"
    BY DEF ReportedAre
  <2>3. x1[1] # "port_scan" /\ x2[1] # "port_scan" /\ x3[1] # "port_scan"
    BY <1>5
  <2> QED BY <1>5, <1>11, <1>12, <1>13, <2>1, <2>2, <2>3 DEF ReportedAre
<1> QED BY <1>11, <1>12, <1>14, <1>15 DEF x0, x1, x2, x3

LEMMA ProcessKeeps ==
  ASSUME PacketInv, NEW p \in PktInput, Packets!ProcessPacket(p) PROVE PacketInv'
<1> DEFINE n == Len(s7)
           hit == Packets!PortsHit(p)
           times == Packets!Times(p)
           key == Packets!BeaconKey(p)
<1>1. /\ s1' = s1 /\ s7' = Append(s7, [pkt |-> p, at |-> s1]) /\ Packets!Feed(p) /\ Packets!Update(p)
      /\ s2' = IF Packets!Syn(p) THEN Packets!With(s2, p.src, hit) ELSE s2
      /\ s3' = IF Packets!Beacons(p) THEN Packets!With(s3, key, Packets!Halved(times)) ELSE s3
  BY DEF Packets!ProcessPacket, Packets!Feed
<1>2. s1 \in Nat /\ s7 \in Seq(Captured) /\ s5 \in Seq(Anomaly) /\ OnceIn(s5) /\ ReportedAre(s4, s5)
  BY DEF PacketInv
<1>3. Grows(s7', s7, p, s1)
  BY <1>1, <1>2, CaptureGrows
<1>4. ScansKept(s2', s7') /\ hit = SynPortsIn(s7', p.src, Len(s7'))
  <2>1. hit = PortsAfter(s2, p) /\ s2' = ScanAfter(s2, p)
    BY <1>1 DEF Packets!PortsHit, PortsAfter, ScanAfter
  <2>2. ScansKept(s2, s7)
    BY DEF PacketInv
  <2> HIDE DEF hit
  <2>3. ScansKept(ScanAfter(s2, p), s7') /\ PortsAfter(s2, p) = SynPortsIn(s7', p.src, Len(s7'))
    BY <1>3, <2>2, ScansStayKept
  <2> QED BY <2>1, <2>3
<1>5. Cardinality(hit) \in Nat
  <2>1. IsFiniteSet(SynPortsIn(s7', p.src, Len(s7')))
    BY <1>4 DEF ScansKept
  <2> HIDE DEF hit
  <2> QED BY <1>4, <2>1, FS_CardinalityType
<1>6. BeaconsKept(s3', s7') /\ (Packets!Beacons(p) /\ Len(times) = BeaconFull => RowOf(times, s7', key))
  <2>1. times = TimesAfter(s3, p, s1) /\ s3' = KeptAfter(s3, p, s1)
    BY <1>1 DEF Packets!Times, TimesAfter, KeptAfter
  <2>2. BeaconsKept(s3, s7)
    BY DEF PacketInv
  <2> HIDE DEF times
  <2>3. /\ BeaconsKept(KeptAfter(s3, p, s1), s7')
        /\ Packets!Beacons(p) /\ Len(TimesAfter(s3, p, s1)) = BeaconFull => RowOf(TimesAfter(s3, p, s1), s7', key)
    BY <1>2, <1>3, <2>2, BeaconsStayKept
  <2> QED BY <2>1, <2>3
<1>7. FlowsCounted(s6', s7')
  <2> DEFINE flow == Packets!FlowKey(p)
             old == Packets!At(s6, flow, [packets |-> 0, syns |-> 0, last |-> 0, gaps |-> <<>>])
             entry == [packets |-> old.packets + 1, syns |-> old.syns + (IF Packets!Syn(p) THEN 1 ELSE 0), last |-> s1,
                       gaps |-> IF old.last # 0 THEN Append(old.gaps, s1 - old.last) ELSE old.gaps]
  <2>1. s6' = IF p.transport = "none" THEN s6 ELSE Packets!With(s6, flow, entry)
    BY <1>1 DEF Packets!Update
  <2>2. entry.packets = old.packets + 1
    OBVIOUS
  <2>3. flow \in DOMAIN s6 => old = s6[flow]
    BY DEF Packets!At
  <2>4. flow \notin DOMAIN s6 => old.packets = 0
    BY DEF Packets!At
  <2>5. FlowsCounted(s6, s7)
    BY DEF PacketInv
  <2> HIDE DEF old, entry
  <2>6. flow \in DOMAIN s6 => entry.packets = s6[flow].packets + 1
    BY <2>2, <2>3
  <2>7. flow \notin DOMAIN s6 => entry.packets = 1
    BY <2>2, <2>4
  <2> QED BY <1>3, <2>1, <2>5, <2>6, <2>7, FlowsStayCounted
<1>8. /\ s5' \in Seq(Anomaly) /\ OnceIn(s5') /\ ReportedAre(s4', s5')
      /\ \A y : y \in ToldIn(s5') <=>
                  \/ y \in ToldIn(s5) \/ (y = ScanOf(p) /\ ScanFound(p)) \/ (y = BeaconOf(p) /\ BeaconFound(p))
                  \/ (y = Packets!TunnelKey(p) /\ TunnelFound(p)) \/ (y = IcmpOf(p) /\ IcmpFound(p))
  BY <1>1, <1>2, <1>5, AnomaliesFollow
<1>9. /\ n \in Nat /\ Len(s7') = n + 1 /\ DOMAIN s7 = 1..n /\ DOMAIN s7' = 1..n + 1
      /\ (\A i \in 1..n : s7'[i] = s7[i]) /\ s7'[n + 1].pkt = p /\ s7'[n + 1].at = s1
  BY <1>3 DEF Grows
<1> HIDE DEF n
<1>10. \A i \in 1..n + 1 : i \in 1..n \/ i = n + 1
  BY <1>9
<1>11. AllTell(s7', s5')
  <2>1. ASSUME NEW i \in 1..n PROVE Tells(s7'[i].pkt, s7', i, ToldIn(s5'))
    <3> DEFINE q == s7[i].pkt
    <3>1. Tells(q, s7, i, ToldIn(s5))
      BY <1>9 DEF PacketInv, AllTell
    <3>2. s7'[i].pkt = q
      BY <1>9
    <3>3. SynPortsIn(s7', q.src, i) = SynPortsIn(s7, q.src, i)
      <4>1. i \in 0..Len(s7)
        BY <1>9 DEF n
      <4> QED BY <1>3, <4>1, SynPortsGrow
    <3>4. \A y \in ToldIn(s5) : y \in ToldIn(s5')
      BY <1>8
    <3> HIDE DEF q
    <3>5. Tells(q, s7', i, ToldIn(s5'))
      BY <3>1, <3>3, <3>4 DEF Tells
    <3> QED BY <3>2, <3>5
  <2>2. Tells(p, s7', n + 1, ToldIn(s5'))
    <3>1. SynPortsIn(s7', p.src, n + 1) = hit
      BY <1>4, <1>9
    <3>2. ScanFound(p) => ScanOf(p) \in ToldIn(s5')
      BY <1>8
    <3>3. TunnelFound(p) => Packets!TunnelKey(p) \in ToldIn(s5')
      BY <1>8
    <3>4. IcmpFound(p) => IcmpOf(p) \in ToldIn(s5')
      BY <1>8
    <3> QED BY <3>1, <3>2, <3>3, <3>4 DEF Tells, ScanFound, ScanOf, TunnelFound, Packets!TunnelKey, IcmpFound, IcmpOf
  <2>3. \A i \in 1..n + 1 : Tells(s7'[i].pkt, s7', i, ToldIn(s5'))
    BY <1>9, <1>10, <2>1, <2>2
  <2> QED BY <1>9, <2>3 DEF AllTell
<1>12. AllWarranted(s5', s7')
  <2>1. \A y \in ToldIn(s5) : Warranted(y, s7')
    <3> SUFFICES ASSUME NEW y \in ToldIn(s5) PROVE Warranted(y, s7')
      OBVIOUS
    <3>1. Warranted(y, s7) /\ IsFiniteSet(SynPortsIn(s7, y[2], Len(s7)))
      BY DEF PacketInv, AllWarranted, ScansKept
    <3> QED BY <1>3, <3>1, StaysWarranted
  <2>2. Warranted(ScanOf(p), s7')
    <3> DEFINE a == ScanOf(p)
    <3>1. a[1] = "port_scan" /\ a[2] = p.src /\ a[3] = Cardinality(hit)
      BY DEF ScanOf
    <3> HIDE DEF a
    <3>2. Cardinality(SynPortsIn(s7', a[2], Len(s7'))) = Cardinality(hit)
      BY <1>4, <3>1
    <3>3. a[3] \in Nat /\ Cardinality(SynPortsIn(s7', a[2], Len(s7'))) >= a[3]
      BY <1>5, <3>1, <3>2
    <3>4. Warranted(a, s7')
      BY <3>1, <3>3 DEF Warranted
    <3> QED BY <3>4 DEF a
  <2>3. BeaconFound(p) => Warranted(BeaconOf(p), s7')
    <3> SUFFICES ASSUME BeaconFound(p) PROVE Warranted(BeaconOf(p), s7')
      OBVIOUS
    <3> DEFINE a == BeaconOf(p)
    <3>1. a[1] = "c2_beaconing" /\ a[2] = key
      BY DEF BeaconOf
    <3>2. Packets!Regular(times) /\ RowOf(times, s7', key)
      BY <1>6 DEF BeaconFound
    <3>3. PICK at : RowIn(at, BeaconFull, s7', key) /\ times = [j \in 1..BeaconFull |-> s7'[at[j]].at]
      BY <3>2 DEF RowOf
    <3> HIDE DEF a, times, key
    <3>4. Packets!Regular([j \in 1..BeaconFull |-> s7'[at[j]].at])
      BY <3>2, <3>3
    <3>5. Warranted(a, s7')
      BY <3>1, <3>3, <3>4 DEF Warranted
    <3> QED BY <3>5 DEF a
  <2>4. Warranted(Packets!TunnelKey(p), s7')
    <3> DEFINE a == Packets!TunnelKey(p)
    <3>1. a[1] = "dns_tunnel" /\ a[2] = p.src /\ a[3] = p.label
      BY DEF Packets!TunnelKey
    <3> HIDE DEF a
    <3>2. n + 1 \in DOMAIN s7' /\ s7'[n + 1].pkt.src = a[2] /\ s7'[n + 1].pkt.label = a[3]
      BY <1>9, <3>1
    <3>3. Warranted(a, s7')
      BY <3>1, <3>2 DEF Warranted
    <3> QED BY <3>3 DEF a
  <2>5. IcmpFound(p) => Warranted(IcmpOf(p), s7')
    <3> SUFFICES ASSUME IcmpFound(p) PROVE Warranted(IcmpOf(p), s7')
      OBVIOUS
    <3> DEFINE a == IcmpOf(p)
    <3>1. a[1] = "icmp_tunnel" /\ a[2] = p.src /\ p.oversized
      BY DEF IcmpOf, IcmpFound
    <3> HIDE DEF a
    <3>2. n + 1 \in DOMAIN s7' /\ s7'[n + 1].pkt.src = a[2] /\ s7'[n + 1].pkt.oversized
      BY <1>9, <3>1
    <3>3. Warranted(a, s7')
      BY <3>1, <3>2 DEF Warranted
    <3> QED BY <3>3 DEF a
  <2>6. \A y \in ToldIn(s5') : Warranted(y, s7')
    BY <1>8, <2>1, <2>2, <2>3, <2>4, <2>5
  <2> QED BY <2>6 DEF AllWarranted
<1>13. s1' \in Nat /\ s7' \in Seq(Captured)
  BY <1>1, <1>2, <1>3 DEF Grows
<1> QED BY <1>4, <1>6, <1>7, <1>8, <1>11, <1>12, <1>13 DEF PacketInv

LEMMA PacketInvStep == part = "packets" /\ PacketInv /\ [Next]_slots => PacketInv'
<1> SUFFICES ASSUME part = "packets", PacketInv, [Next]_slots PROVE PacketInv'
  OBVIOUS
<1>1. CASE UNCHANGED <<s1, s2, s3, s4, s5, s6, s7>>
  <2>1. s1' = s1 /\ s2' = s2 /\ s3' = s3 /\ s4' = s4 /\ s5' = s5 /\ s6' = s6 /\ s7' = s7
    BY <1>1
  <2> QED BY <2>1 DEF PacketInv
<1>2. CASE Packets!PktPass
  <2>1. s1' = s1 + 1 /\ s2' = s2 /\ s3' = s3 /\ s4' = s4 /\ s5' = s5 /\ s6' = s6 /\ s7' = s7
    BY <1>2 DEF Packets!PktPass
  <2> QED BY <2>1 DEF PacketInv
<1> QED BY OnlyPackets, <1>1, <1>2, ProcessKeeps DEF Packets!PacketNext

LEMMA PacketInvGives == PacketInv => Packets!AnomaliesMatchPackets
<1> SUFFICES ASSUME PacketInv PROVE Packets!AnomaliesMatchPackets
  OBVIOUS
<1>1. /\ OnceIn(s5) /\ s5 \in Seq(Anomaly) /\ AllTell(s7, s5) /\ AllWarranted(s5, s7) /\ FlowsCounted(s6, s7)
      /\ Packets!Told = ToldIn(s5)
  BY DEF PacketInv, Packets!Told, ToldIn
<1>2. \A src, n : Packets!SynPorts(src, n) = SynPortsIn(s7, src, n)
  BY DEF Packets!SynPorts, SynPortsIn
<1>3. \A key : Packets!Hits(key) = HitsIn(s7, key)
  BY DEF Packets!Hits, Packets!Logged, HitsIn
<1>4. \A k : {i \in DOMAIN s7 : Packets!FlowKey(s7[i].pkt) = k} = PacketsOf(s7, k)
  BY DEF PacketsOf
<1>5. \A i \in DOMAIN s7 :
        /\ Packets!Syn(s7[i].pkt) /\ Packets!Cardinality(Packets!SynPorts(s7[i].pkt.src, i)) \in ScanLevels =>
             <<"port_scan", s7[i].pkt.src, Packets!Cardinality(Packets!SynPorts(s7[i].pkt.src, i))>> \in Packets!Told
        /\ s7[i].pkt.transport = "udp" /\ s7[i].pkt.port = 53 /\ s7[i].pkt.label # "none" =>
             <<"dns_tunnel", s7[i].pkt.src, s7[i].pkt.label>> \in Packets!Told
        /\ s7[i].pkt.transport = "icmp" /\ s7[i].pkt.oversized => <<"icmp_tunnel", s7[i].pkt.src>> \in Packets!Told
  <2> SUFFICES ASSUME NEW i \in DOMAIN s7
               PROVE  /\ Packets!Syn(s7[i].pkt) /\ Cardinality(SynPortsIn(s7, s7[i].pkt.src, i)) \in ScanLevels =>
                           <<"port_scan", s7[i].pkt.src, Cardinality(SynPortsIn(s7, s7[i].pkt.src, i))>> \in ToldIn(s5)
                      /\ s7[i].pkt.transport = "udp" /\ s7[i].pkt.port = 53 /\ s7[i].pkt.label # "none" =>
                           <<"dns_tunnel", s7[i].pkt.src, s7[i].pkt.label>> \in ToldIn(s5)
                      /\ s7[i].pkt.transport = "icmp" /\ s7[i].pkt.oversized =>
                           <<"icmp_tunnel", s7[i].pkt.src>> \in ToldIn(s5)
    BY <1>1, <1>2, PacketsCount
  <2>1. Tells(s7[i].pkt, s7, i, ToldIn(s5))
    BY <1>1 DEF AllTell
  <2> QED BY <2>1 DEF Tells
<1>6. \A i, j \in DOMAIN s5 : i # j /\ s5[i][1] # "port_scan" => s5[i] # s5[j]
  BY <1>1 DEF OnceIn
<1>7. ASSUME NEW a \in Packets!Told
      PROVE  CASE a[1] = "port_scan" -> Packets!Cardinality(Packets!SynPorts(a[2], Len(s7))) >= a[3]
               [] a[1] = "c2_beaconing" ->
                    \E at \in [1 .. BeaconFull -> Packets!Hits(a[2])] :
                      Packets!InARow(at, BeaconFull, a[2]) /\ Packets!Regular([j \in 1 .. BeaconFull |-> s7[at[j]].at])
               [] a[1] = "dns_tunnel" -> {i \in DOMAIN s7 : s7[i].pkt.src = a[2] /\ s7[i].pkt.label = a[3]} # {}
               [] a[1] = "icmp_tunnel" -> {i \in DOMAIN s7 : s7[i].pkt.src = a[2] /\ s7[i].pkt.oversized} # {}
  <2>1. Warranted(a, s7)
    BY <1>1 DEF AllWarranted
  <2>2. a \in Anomaly
    BY <1>1 DEF ToldIn
  <2>3. CASE a[1] = "port_scan"
    <3>1. Cardinality(SynPortsIn(s7, a[2], Len(s7))) >= a[3]
      BY <2>1, <2>3 DEF Warranted
    <3>2. Packets!Cardinality(Packets!SynPorts(a[2], Len(s7))) >= a[3]
      BY <1>2, <3>1, PacketsCount
    <3> QED BY <2>3, <3>2
  <2>4. CASE a[1] = "c2_beaconing"
    <3>1. PICK at : RowIn(at, BeaconFull, s7, a[2]) /\ Packets!Regular([j \in 1..BeaconFull |-> s7[at[j]].at])
      BY <2>1, <2>4 DEF Warranted
    <3>2. at \in [1 .. BeaconFull -> Packets!Hits(a[2])] /\ Packets!InARow(at, BeaconFull, a[2])
      BY <1>3, <3>1 DEF RowIn, Packets!InARow
    <3> QED BY <2>4, <3>1, <3>2
  <2>5. CASE a[1] = "dns_tunnel"
    <3>1. PICK i \in DOMAIN s7 : s7[i].pkt.src = a[2] /\ s7[i].pkt.label = a[3]
      BY <2>1, <2>5 DEF Warranted
    <3> QED BY <2>5, <3>1
  <2>6. CASE a[1] = "icmp_tunnel"
    <3>1. PICK i \in DOMAIN s7 : s7[i].pkt.src = a[2] /\ s7[i].pkt.oversized
      BY <2>1, <2>6 DEF Warranted
    <3> QED BY <2>6, <3>1
  <2> QED BY <2>2, <2>3, <2>4, <2>5, <2>6, KindsOfAnomaly
<1>8. \A k \in DOMAIN s6 :
        s6[k].packets = Packets!Cardinality({i \in DOMAIN s7 : Packets!FlowKey(s7[i].pkt) = k})
  BY <1>1, <1>4, PacketsCount DEF FlowsCounted
<1> QED BY <1>5, <1>6, <1>7, <1>8 DEF Packets!AnomaliesMatchPackets, Packets!Logged

-----------------------------------------------------------------------------
\* The memory scanner.

LEMMA OnlyMemory ==
  part = "memory" /\ [Next]_slots =>
    part' = part /\ (Memory!MemoryNext \/ UNCHANGED <<s1, s2, s3, s4, s5, s6>>)
BY DEF Next, slots

(* What a scan of a process should have told, of it or of an earlier one   *)
(* under its id.                                                           *)
ShouldBeTold(pid, proc) == {k \in Memory!Keys(pid, proc) : k[1] # "known"}
TracedOf(k, owner) == \E f \in s4 : f.key = k /\ f.owner <= owner

(* What is found is found once; what is reported is found, unless it is    *)
(* the address of a well-known site; and what was scanned is told.         *)
OthersStand ==
  /\ \A f, g \in s4 : f.key = g.key => f = g
  /\ \A k \in s3 : k[1] # "known" => \E f \in s4 : f.key = k
  /\ \A pid \in DOMAIN s6 : \A k \in ShouldBeTold(pid, s6[pid]) : TracedOf(k, s6[pid].owner)

(* Owners are numbered as they come, so that what was found under an id is *)
(* of no later owner than the one that has it now.                         *)
MemInv ==
  /\ s2 \in Nat
  /\ \A pid \in DOMAIN s1 : s1[pid].owner \in Nat /\ s1[pid].owner <= s2
  /\ \A f \in s4 : /\ f.key \in s3 /\ f.owner \in Nat /\ f.owner <= s2
                   /\ f.key[2] \in DOMAIN s1 => f.owner <= s1[f.key[2]].owner
  /\ OthersStand

(* A key names the process it was found in.                                *)
LEMMA KeysNameTheirProcess == \A pid, proc : \A k \in Memory!Keys(pid, proc) : k[2] = pid
<1>1. ASSUME NEW pid, NEW r, NEW k \in Memory!RegionKeys(pid, r) PROVE k[2] = pid
  BY <1>1 DEF Memory!RegionKeys
<1> QED BY <1>1 DEF Memory!Keys

LEMMA MemInvInit == Memory!MemoryInit => MemInv
<1> SUFFICES ASSUME Memory!MemoryInit PROVE MemInv
  OBVIOUS
<1>1. s2 = 0 /\ s3 = {} /\ s4 = {} /\ DOMAIN s1 = {} /\ DOMAIN s6 = {}
  BY DEF Memory!MemoryInit
<1>2. s2 \in Nat
  BY <1>1
<1>3. OthersStand
  BY <1>1 DEF OthersStand
<1> QED BY <1>1, <1>2, <1>3 DEF MemInv

LEMMA StartKeeps ==
  ASSUME MemInv, NEW pid, NEW regions, Memory!Start(pid, regions) PROVE MemInv'
<1> DEFINE new == [owner |-> s2 + 1, regions |-> regions]
<1>1. /\ pid \notin DOMAIN s1 /\ s2' = s2 + 1 /\ s3' = s3 /\ s4' = s4 /\ s6' = s6
      /\ s1' = [p \in DOMAIN s1 \cup {pid} |-> IF p = pid THEN new ELSE s1[p]]
  BY DEF Memory!Start, Memory!Running
<1>2. new.owner = s2 + 1
  OBVIOUS
<1> HIDE DEF new
<1>3. /\ DOMAIN s1' = DOMAIN s1 \cup {pid}
      /\ s1'[pid] = new /\ \A p \in DOMAIN s1 : s1'[p] = s1[p]
  BY <1>1
<1>4. s2 \in Nat /\ s2' \in Nat /\ new.owner \in Nat /\ new.owner <= s2' /\ s2 <= new.owner
  BY <1>1, <1>2 DEF MemInv
<1>5. \A p \in DOMAIN s1' : s1'[p].owner \in Nat /\ s1'[p].owner <= s2'
  <2>1. \A p \in DOMAIN s1 : s1[p].owner \in Nat /\ s1[p].owner <= s2'
    BY <1>1, <1>4 DEF MemInv
  <2> QED BY <1>3, <1>4, <2>1
<1>6. \A f \in s4' : /\ f.key \in s3' /\ f.owner \in Nat /\ f.owner <= s2'
                     /\ f.key[2] \in DOMAIN s1' => f.owner <= s1'[f.key[2]].owner
  <2> SUFFICES ASSUME NEW f \in s4
               PROVE  /\ f.key \in s3' /\ f.owner \in Nat /\ f.owner <= s2'
                      /\ f.key[2] \in DOMAIN s1' => f.owner <= s1'[f.key[2]].owner
    BY <1>1
  <2>1. /\ f.key \in s3 /\ f.owner \in Nat /\ f.owner <= s2
        /\ f.key[2] \in DOMAIN s1 => f.owner <= s1[f.key[2]].owner
    BY DEF MemInv
  <2>2. f.owner <= s2' /\ f.owner <= new.owner
    BY <1>1, <1>4, <2>1
  <2>3. CASE f.key[2] = pid
    BY <1>1, <1>3, <2>1, <2>2, <2>3
  <2>4. CASE f.key[2] # pid
    BY <1>1, <1>3, <2>1, <2>2, <2>4
  <2> QED BY <2>3, <2>4
<1>7. OthersStand'
  BY <1>1 DEF MemInv, OthersStand, TracedOf, ShouldBeTold
<1> QED BY <1>4, <1>5, <1>6, <1>7 DEF MemInv

LEMMA RewriteImageKeeps ==
  ASSUME MemInv, NEW pid, NEW regions, Memory!Rewrite(pid, regions) PROVE MemInv'
<1>1. /\ pid \in DOMAIN s1 /\ s2' = s2 /\ s3' = s3 /\ s4' = s4 /\ s6' = s6
      /\ s1' = [p \in DOMAIN s1 \cup {pid} |-> IF p = pid THEN [s1[pid] EXCEPT !.regions = regions] ELSE s1[p]]
  BY DEF Memory!Rewrite, Memory!Running
<1>2. DOMAIN s1' = DOMAIN s1 /\ \A p \in DOMAIN s1 : s1'[p].owner = s1[p].owner
  BY <1>1
<1>3. \A p \in DOMAIN s1' : s1'[p].owner \in Nat /\ s1'[p].owner <= s2'
  BY <1>1, <1>2 DEF MemInv
<1>4. \A f \in s4' : /\ f.key \in s3' /\ f.owner \in Nat /\ f.owner <= s2'
                     /\ f.key[2] \in DOMAIN s1' => f.owner <= s1'[f.key[2]].owner
  BY <1>1, <1>2 DEF MemInv
<1>5. OthersStand'
  BY <1>1 DEF MemInv, OthersStand, TracedOf, ShouldBeTold
<1> QED BY <1>1, <1>3, <1>4, <1>5 DEF MemInv

LEMMA EndKeeps ==
  ASSUME MemInv, NEW pid, Memory!End(pid) PROVE MemInv'
<1>1. /\ s2' = s2 /\ s3' = s3 /\ s4' = s4 /\ s6' = s6 /\ s1' = [p \in DOMAIN s1 \ {pid} |-> s1[p]]
  BY DEF Memory!End
<1>2. DOMAIN s1' \subseteq DOMAIN s1 /\ \A p \in DOMAIN s1' : s1'[p] = s1[p]
  BY <1>1
<1>3. OthersStand'
  BY <1>1 DEF MemInv, OthersStand, TracedOf, ShouldBeTold
<1> QED BY <1>1, <1>2, <1>3 DEF MemInv

LEMMA ScanKeeps ==
  ASSUME MemInv, NEW pid, Memory!ScanProcess(pid) PROVE MemInv'
<1> DEFINE proc == s1[pid]
           fresh == Memory!Keys(pid, proc) \ s3
           heard == {k \in fresh : k[1] # "known"}
           note(k) == [key |-> k, owner |-> proc.owner]
<1>1. /\ pid \in DOMAIN s1 /\ s3' = s3 \cup fresh
      /\ s4' = s4 \cup {note(k) : k \in heard} /\ s1' = s1 /\ s2' = s2
      /\ s6' = [p \in DOMAIN s6 \cup {pid} |-> IF p = pid THEN proc ELSE s6[p]]
  BY DEF Memory!ScanProcess
<1>2. /\ \A k : note(k).key = k /\ note(k).owner = proc.owner
      /\ \A k \in fresh : k \notin s3 /\ k[2] = pid
  BY KeysNameTheirProcess
<1>3. proc.owner \in Nat /\ proc.owner <= s2
  BY <1>1 DEF MemInv
<1>4. ShouldBeTold(pid, proc) \subseteq s3 \cup heard /\ \A k \in ShouldBeTold(pid, proc) : k[2] = pid /\ k[1] # "known"
  BY KeysNameTheirProcess DEF ShouldBeTold
<1>5. heard \subseteq fresh /\ \A k \in fresh : k[1] # "known" => k \in heard
  OBVIOUS
<1> HIDE DEF fresh, heard, note
<1>6. \A f \in s4' : f \in s4 \/ \E k \in heard : f = note(k)
  BY <1>1
<1>7. s4 \subseteq s4' /\ \A k \in heard : note(k) \in s4'
  BY <1>1
<1>8. \A f \in s4' : /\ f.key \in s3' /\ f.owner \in Nat /\ f.owner <= s2
                     /\ f.key[2] \in DOMAIN s1 => f.owner <= s1[f.key[2]].owner
  <2> SUFFICES ASSUME NEW f \in s4'
               PROVE  /\ f.key \in s3' /\ f.owner \in Nat /\ f.owner <= s2
                      /\ f.key[2] \in DOMAIN s1 => f.owner <= s1[f.key[2]].owner
    OBVIOUS
  <2>1. CASE f \in s4
    BY <1>1, <2>1 DEF MemInv
  <2>2. ASSUME NEW k \in heard, f = note(k)
        PROVE  /\ f.key \in s3' /\ f.owner \in Nat /\ f.owner <= s2
               /\ f.key[2] \in DOMAIN s1 => f.owner <= s1[f.key[2]].owner
    <3>1. f.key = k /\ f.owner = proc.owner /\ k \in fresh /\ k[2] = pid
      BY <1>2, <1>5, <2>2
    <3> QED BY <1>1, <1>3, <3>1
  <2> QED BY <1>6, <2>1, <2>2
<1>9. \A f, g \in s4' : f.key = g.key => f = g
  <2> SUFFICES ASSUME NEW f \in s4', NEW g \in s4', f.key = g.key PROVE f = g
    OBVIOUS
  <2>1. CASE f \in s4 /\ g \in s4
    BY <2>1 DEF MemInv, OthersStand
  <2>2. \A h \in s4 : h.key \notin fresh
    BY <1>2 DEF MemInv
  <2>3. \A k \in heard : note(k).key \in fresh /\ note(k).key = k
    BY <1>2, <1>5
  <2> QED BY <1>6, <2>1, <2>2, <2>3
<1>10. \A k \in s3' : k[1] # "known" => \E f \in s4' : f.key = k
  BY <1>1, <1>2, <1>5, <1>7 DEF MemInv, OthersStand
<1>11. s6'[pid] = proc /\ DOMAIN s6' = DOMAIN s6 \cup {pid} /\ \A p \in DOMAIN s6 : p # pid => s6'[p] = s6[p]
  BY <1>1
<1>12. \A k \in ShouldBeTold(pid, proc) : TracedOf(k, proc.owner)'
  <2> SUFFICES ASSUME NEW k \in ShouldBeTold(pid, proc) PROVE TracedOf(k, proc.owner)'
    OBVIOUS
  <2>1. k \in s3' /\ k[2] = pid /\ k[1] # "known"
    BY <1>1, <1>4, <1>5
  <2>2. PICK f \in s4' : f.key = k
    BY <1>10, <2>1
  <2>3. f.owner <= proc.owner
    BY <1>1, <1>8, <2>1, <2>2
  <2> QED BY <1>1, <2>2, <2>3 DEF TracedOf
<1>13. \A p \in DOMAIN s6 : \A k \in ShouldBeTold(p, s6[p]) : \E f \in s4' : f.key = k /\ f.owner <= s6[p].owner
  BY <1>7 DEF MemInv, OthersStand, TracedOf
<1>14. \A p \in DOMAIN s6' : \A k \in ShouldBeTold(p, s6'[p]) : \E f \in s4' : f.key = k /\ f.owner <= s6'[p].owner
  <2> SUFFICES ASSUME NEW p \in DOMAIN s6'
               PROVE  \A k \in ShouldBeTold(p, s6'[p]) : \E f \in s4' : f.key = k /\ f.owner <= s6'[p].owner
    OBVIOUS
  <2>1. CASE p = pid
    BY <1>1, <1>11, <1>12, <2>1 DEF TracedOf
  <2>2. CASE p # pid
    BY <1>11, <1>13, <2>2
  <2> QED BY <2>1, <2>2
<1>15. OthersStand'
  BY <1>9, <1>10, <1>14 DEF OthersStand, ShouldBeTold, TracedOf
<1>16. \A p \in DOMAIN s1 : s1[p].owner \in Nat /\ s1[p].owner <= s2
  BY DEF MemInv
<1>17. s2 \in Nat
  BY DEF MemInv
<1> QED BY <1>1, <1>8, <1>15, <1>16, <1>17 DEF MemInv

LEMMA MemInvStep == part = "memory" /\ MemInv /\ [Next]_slots => MemInv'
<1> SUFFICES ASSUME part = "memory", MemInv, [Next]_slots PROVE MemInv'
  OBVIOUS
<1>1. CASE UNCHANGED <<s1, s2, s3, s4, s5, s6>>
  BY <1>1 DEF MemInv, OthersStand, TracedOf, ShouldBeTold
<1> QED BY OnlyMemory, <1>1, StartKeeps, RewriteImageKeeps, EndKeeps, ScanKeeps DEF Memory!MemoryNext

(* The field of a core dump's header that is taken for the place of the    *)
(* table holds the version of the format, so no segment is ever read.      *)
LEMMA NothingOfACore == \A dump \in CoreDump : Memory!AnalyzedCore(dump) = {}
<1> SUFFICES ASSUME NEW dump \in CoreDump PROVE Memory!AnalyzedCore(dump) = {}
  OBVIOUS
<1>1. Memory!FieldAt[5] = 16 /\ Memory!FieldBytes[5] = 8 /\ Memory!HeaderStart = 0
  BY DEF Memory!FieldAt, Memory!FieldBytes, Memory!HeaderStart
<1>2. Memory!FieldWords(dump.words, 5) = SubSeq(dump.words, 9, 12)
  <2>1. (0 + 16) \div 2 + 1 = 9 /\ (0 + 16 + 8) \div 2 = 12
    OBVIOUS
  <2> QED BY <1>1, <2>1 DEF Memory!FieldWords
<1>3. SubSeq(dump.words, 9, 12)[3] = dump.words[11]
  <2> DEFINE w == dump.words
  <2>1. w \in Seq(Nat) /\ Len(w) >= 32
    BY CoreAssumption
  <2> HIDE DEF w
  <2>2. \A i \in 9..12 : w[i] \in Nat
    BY <2>1, LenProperties
  <2>3. \A i \in 1..12 - 9 + 1 : SubSeq(w, 9, 12)[i] = w[9 + i - 1]
    BY <2>2, SubSeqProperties
  <2> QED BY <2>3 DEF w
<1>4. Memory!FieldWords(dump.words, 5) # dump.table_at
  <2>1. Memory!FieldWords(dump.words, 5)[3] = dump.words[11]
    BY <1>2, <1>3
  <2>2. dump.words[11] = 1 /\ dump.table_at[3] = 0
    BY CoreAssumption
  <2> QED BY <2>1, <2>2
<1>5. Memory!Segments(dump) = <<>>
  BY <1>4 DEF Memory!Segments
<1> QED BY <1>5 DEF Memory!AnalyzedCore

LEMMA MemInvGives == MemInv => Memory!MemoryToldOnce
<1> SUFFICES ASSUME MemInv PROVE Memory!MemoryToldOnce
  OBVIOUS
<1>1. ASSUME NEW pid \in DOMAIN s6, NEW r \in s6[pid].regions, "r" \in r.perms /\ ~r.huge
      PROVE  /\ ("x" \in r.perms /\ Memory!InHeap(r)) =>
                  \E f \in s4 : f.key = <<"exec", pid, r.start>> /\ f.owner <= s6[pid].owner
             /\ "malware" \in r.holds => \E f \in s4 : f.key = <<"malware", pid, "any">> /\ f.owner <= s6[pid].owner
  <2>1. Memory!RegionKeys(pid, r) \subseteq Memory!Keys(pid, s6[pid])
    BY <1>1 DEF Memory!Keys
  <2>2. "x" \in r.perms /\ Memory!InHeap(r) => <<"exec", pid, r.start>> \in Memory!RegionKeys(pid, r)
    BY DEF Memory!RegionKeys
  <2>3. "malware" \in r.holds => <<"malware", pid, "any">> \in Memory!RegionKeys(pid, r)
    BY DEF Memory!RegionKeys
  <2>4. \A k \in Memory!RegionKeys(pid, r) : k[1] # "known" => TracedOf(k, s6[pid].owner)
    BY <2>1 DEF MemInv, OthersStand, ShouldBeTold
  <2>5. <<"exec", pid, r.start>>[1] # "known" /\ <<"malware", pid, "any">>[1] # "known"
    OBVIOUS
  <2> QED BY <2>2, <2>3, <2>4, <2>5 DEF TracedOf
<1>2. \A f, g \in s4 : f.key = g.key => f = g
  BY DEF MemInv, OthersStand
<1> QED BY <1>1, <1>2, NothingOfACore DEF Memory!MemoryToldOnce

-----------------------------------------------------------------------------
\* The timeline.

LEMMA OnlyTimeline ==
  part = "timeline" /\ [Next]_slots =>
    part' = part /\ (Timeline!TlNext \/ UNCHANGED <<s1, s2, s3, s4, s5>>)
BY DEF Next, slots

(* The events of a file that was given are there, unless the start of the  *)
(* window could not be compared and the run is over.                       *)
FilesAreThere ==
  s5 \in {"collect", "exported"} =>
    \A f \in TlFile : <<"file", f>> \in s3 => Timeline!FileEvents(f) \subseteq s2

(* An event of a log has the time of its line, put into the year.          *)
LogsAreStamped ==
  \A e \in s2 : e.source = "log" => e.of \in TlLine /\ e.ts = Timeline!Stamped(e.of.at)

(* What is exported is the events of the window, or all of them.           *)
ExportIsFiltered ==
  s5 = "exported" => s4 = IF Timeline!Filtered # {} THEN Timeline!Filtered ELSE s2

TlInv ==
  /\ s1 \in TlWindow /\ s5 \in {"collect", "raised", "exported"}
  /\ FilesAreThere /\ LogsAreStamped /\ ExportIsFiltered

LEMMA TlInvInit == Timeline!TlInit => TlInv
BY DEF Timeline!TlInit, TlInv, FilesAreThere, LogsAreStamped, ExportIsFiltered

(* A source is added. Its events are none of a log, or those of a line.    *)
LEMMA SourceKeeps ==
  ASSUME TlInv, NEW facts, NEW events, NEW compares, Timeline!AddSource(facts, events, compares),
         \A f \in TlFile : <<"file", f>> \in facts => Timeline!FileEvents(f) \subseteq events,
         \A e \in events : e.source = "log" => e.of \in TlLine /\ e.ts = Timeline!Stamped(e.of.at)
  PROVE  TlInv'
<1>1. /\ s5 = "collect" /\ s3' = s3 \cup facts /\ s1' = s1 /\ s4' = s4
      /\ \/ s5' = "raised" /\ s2' = s2
         \/ s2' = s2 \cup events /\ s5' = "collect"
  BY DEF Timeline!AddSource
<1>2. CASE s5' = "raised" /\ s2' = s2
  BY <1>1, <1>2 DEF TlInv, FilesAreThere, LogsAreStamped, ExportIsFiltered
<1>3. CASE s2' = s2 \cup events /\ s5' = "collect"
  <2>1. FilesAreThere'
    <3> SUFFICES ASSUME NEW f \in TlFile, <<"file", f>> \in s3' PROVE Timeline!FileEvents(f)' \subseteq s2'
      BY DEF FilesAreThere
    <3>1. Timeline!FileEvents(f)' = Timeline!FileEvents(f)
      BY <1>1 DEF Timeline!FileEvents, Timeline!InWindow
    <3>2. CASE <<"file", f>> \in s3
      BY <1>1, <1>3, <3>1, <3>2 DEF TlInv, FilesAreThere
    <3>3. CASE <<"file", f>> \in facts
      BY <1>3, <3>1, <3>3
    <3> QED BY <1>1, <3>2, <3>3
  <2>2. LogsAreStamped'
    BY <1>3 DEF TlInv, LogsAreStamped, Timeline!Stamped
  <2> QED BY <1>1, <1>3, <2>1, <2>2 DEF TlInv, ExportIsFiltered
<1> QED BY <1>1, <1>2, <1>3

LEMMA TimelineExported == ASSUME TlInv, Timeline!Export PROVE TlInv'
<1>1. /\ s5 = "collect" /\ s1' = s1 /\ s2' = s2 /\ s3' = s3
      /\ \/ s5' = "raised"
         \/ s5' = "exported" /\ s4' = IF Timeline!Filtered # {} THEN Timeline!Filtered ELSE s2
  BY DEF Timeline!Export
<1>2. FilesAreThere'
  BY <1>1 DEF TlInv, FilesAreThere, Timeline!FileEvents, Timeline!InWindow
<1>3. LogsAreStamped'
  BY <1>1 DEF TlInv, LogsAreStamped, Timeline!Stamped
<1>4. Timeline!Filtered' = Timeline!Filtered
  BY <1>1 DEF Timeline!Filtered
<1>5. ExportIsFiltered'
  BY <1>1, <1>4 DEF ExportIsFiltered
<1> QED BY <1>1, <1>2, <1>3, <1>5 DEF TlInv

LEMMA FileKeeps == ASSUME TlInv, NEW f \in TlFile, Timeline!AddFile(f) PROVE TlInv'
<1> DEFINE facts == {<<"file", f>>}
           events == Timeline!FileEvents(f)
<1>1. Timeline!AddSource(facts, events, TRUE)
  BY DEF Timeline!AddFile
<1>2. \A g \in TlFile : <<"file", g>> \in facts => Timeline!FileEvents(g) \subseteq events
  OBVIOUS
<1>3. \A e \in events : e.source # "log"
  BY DEF Timeline!FileEvents, Timeline!Event
<1> HIDE DEF facts, events
<1> QED BY <1>1, <1>2, <1>3, SourceKeeps

LEMMA LineKeeps == ASSUME TlInv, NEW l \in TlLine, Timeline!AddLine(l) PROVE TlInv'
<1> DEFINE facts == {<<"line", l>>}
           events == Timeline!LineEvents(l)
<1>1. Timeline!AddSource(facts, events, TRUE)
  BY DEF Timeline!AddLine
<1>2. \A g \in TlFile : <<"file", g>> \notin facts
  OBVIOUS
<1>3. \A e \in events : e.of = l /\ e.ts = Timeline!Stamped(l.at)
  BY DEF Timeline!LineEvents, Timeline!Event
<1> HIDE DEF facts, events
<1> QED BY <1>1, <1>2, <1>3, SourceKeeps

LEMMA OtherSourceKeeps ==
  ASSUME TlInv,
         \/ \E p \in TlProcess : Timeline!AddProcess(p)
         \/ \E c \in TlConnection : Timeline!AddConnection(c)
         \/ \E i \in TlItem : Timeline!AddItem(i)
  PROVE  TlInv'
<1>1. ASSUME NEW p, Timeline!AddProcess(p) PROVE TlInv'
  <2> DEFINE facts == {<<"process", p>>}
             events == Timeline!ProcessEvents(p)
  <2>1. Timeline!AddSource(facts, events, FALSE)
    BY <1>1 DEF Timeline!AddProcess
  <2>2. \A g \in TlFile : <<"file", g>> \notin facts
    OBVIOUS
  <2>3. \A e \in events : e.source # "log"
    BY DEF Timeline!ProcessEvents, Timeline!Event
  <2> HIDE DEF facts, events
  <2> QED BY <2>1, <2>2, <2>3, SourceKeeps
<1>2. ASSUME NEW c, Timeline!AddConnection(c) PROVE TlInv'
  <2> DEFINE facts == {<<"connection", c>>}
             events == Timeline!ConnectionEvents(c)
  <2>1. Timeline!AddSource(facts, events, FALSE)
    BY <1>2 DEF Timeline!AddConnection
  <2>2. \A g \in TlFile : <<"file", g>> \notin facts
    OBVIOUS
  <2>3. \A e \in events : e.source # "log"
    BY DEF Timeline!ConnectionEvents, Timeline!Event
  <2> HIDE DEF facts, events
  <2> QED BY <2>1, <2>2, <2>3, SourceKeeps
<1>3. ASSUME NEW i, Timeline!AddItem(i) PROVE TlInv'
  <2> DEFINE facts == {<<"item", i>>}
             events == Timeline!ItemEvents(i)
  <2>1. Timeline!AddSource(facts, events, FALSE)
    BY <1>3 DEF Timeline!AddItem
  <2>2. \A g \in TlFile : <<"file", g>> \notin facts
    OBVIOUS
  <2>3. \A e \in events : e.source # "log"
    BY DEF Timeline!ItemEvents, Timeline!Event
  <2> HIDE DEF facts, events
  <2> QED BY <2>1, <2>2, <2>3, SourceKeeps
<1> QED BY <1>1, <1>2, <1>3

LEMMA TlInvStep == part = "timeline" /\ TlInv /\ [Next]_slots => TlInv'
<1> SUFFICES ASSUME part = "timeline", TlInv, [Next]_slots PROVE TlInv'
  OBVIOUS
<1>1. CASE UNCHANGED <<s1, s2, s3, s4, s5>>
  <2>1. s1' = s1 /\ s2' = s2 /\ s3' = s3 /\ s4' = s4 /\ s5' = s5
    BY <1>1
  <2>2. FilesAreThere'
    BY <2>1 DEF TlInv, FilesAreThere, Timeline!FileEvents, Timeline!InWindow
  <2>3. LogsAreStamped'
    BY <2>1 DEF TlInv, LogsAreStamped, Timeline!Stamped
  <2>4. Timeline!Filtered' = Timeline!Filtered
    BY <2>1 DEF Timeline!Filtered
  <2>5. ExportIsFiltered'
    BY <2>1, <2>4 DEF TlInv, ExportIsFiltered
  <2> QED BY <2>1, <2>2, <2>3, <2>5 DEF TlInv
<1> QED BY OnlyTimeline, <1>1, TimelineExported, FileKeeps, LineKeeps, OtherSourceKeeps DEF Timeline!TlNext

-----------------------------------------------------------------------------
(* Of two times of one year, the earlier is the one earlier in the year.   *)
LEMMA OneYear ==
  ASSUME NEW a \in Int, NEW b \in Int, NEW y \in Nat, 0 < y, a \div y = b \div y
  PROVE  a % y < b % y <=> a < b
<1> DEFINE q == a \div y
           m == a % y
           n == b % y
<1>1. a = y * q + m /\ b = y * q + n /\ q \in Int /\ m \in Int /\ n \in Int
  OBVIOUS
<1> DEFINE base == y * q
<1>2. base \in Int
  BY <1>1
<1> HIDE DEF q, m, n, base
<1>3. a = base + m /\ b = base + n
  BY <1>1 DEF base
<1> QED BY <1>1, <1>2, <1>3 DEF m, n

LEMMA TlInvGives == TlInv => Timeline!TimelineTellsWhatHappened
<1> SUFFICES ASSUME TlInv, s5 = "exported" PROVE Timeline!TimelineTellsWhatHappened
  BY DEF Timeline!TimelineTellsWhatHappened
<1>1. s4 = (IF Timeline!Filtered # {} THEN Timeline!Filtered ELSE s2) /\ s4 \subseteq s2
  BY DEF TlInv, ExportIsFiltered, Timeline!Filtered
<1>2. ASSUME NEW f \in TlFile, <<"file", f>> \in s3, Timeline!Inside(f.ctime),
             Timeline!Apart(f) >= Backdated, Timeline!Apart(f) > MetadataSlack,
             s1.min \in {"info", "low", "medium"}
      PROVE  Timeline!Tells(f)
  <2> DEFINE e == Timeline!Event(f.ctime, "changed", IF Timeline!Apart(f) < Backdated THEN "low" ELSE "medium", "aware", f)
  <2>1. e.ts = f.ctime /\ e.source = "changed" /\ e.of = f /\ e.severity \in {"low", "medium"}
    BY DEF Timeline!Event
  <2>2. e \in s2
    <3>1. Timeline!InWindow(f.ctime)
      BY <1>2 DEF Timeline!Inside, Timeline!InWindow
    <3>2. e \in Timeline!FileEvents(f)
      BY <1>2, <3>1 DEF Timeline!FileEvents
    <3> QED BY <1>2, <3>2 DEF TlInv, FilesAreThere
  <2>3. f.ctime >= s1.since /\ f.ctime <= s1.until
    BY <1>2, TimelineAssumption DEF Timeline!Inside, TlInv
  <2>4. Timeline!Rank[e.severity] >= Timeline!Rank[s1.min]
    <3>1. e.severity = "low" \/ e.severity = "medium"
      BY <2>1
    <3>2. e.severity = "low" => Timeline!Apart(f) < Backdated
      BY DEF Timeline!Event
    <3>3. e.severity = "medium"
      <4>1. Timeline!Apart(f) \in Int /\ Backdated \in Int
        BY TimelineAssumption DEF Timeline!Apart
      <4> HIDE DEF e
      <4> QED BY <1>2, <3>1, <3>2, <4>1
    <3> HIDE DEF e
    <3> QED BY <1>2, <3>3 DEF Timeline!Rank
  <2> HIDE DEF e
  <2>5. e \in Timeline!Filtered
    BY <2>1, <2>2, <2>3, <2>4 DEF Timeline!Filtered
  <2> QED BY <1>1, <2>1, <2>5 DEF Timeline!Tells
<1>3. ASSUME NEW e \in s4, NEW g \in s4, e.source = "log", g.source = "log",
             e.of.at \div YearLength = g.of.at \div YearLength
      PROVE  e.ts < g.ts <=> e.of.at < g.of.at
  <2>1. /\ e.of \in TlLine /\ e.ts = e.of.at % YearLength
        /\ g.of \in TlLine /\ g.ts = g.of.at % YearLength
    BY <1>1, <1>3 DEF TlInv, LogsAreStamped, Timeline!Stamped
  <2>2. e.of.at \in Int /\ g.of.at \in Int
    BY <2>1, TimelineAssumption
  <2> QED BY <1>3, <2>1, <2>2, OneYear, TimelineAssumption
<1>4. ASSUME NEW e \in s4, ~Timeline!Inside(e.ts), NEW g \in s2, Timeline!Inside(g.ts)
      PROVE  ~(Timeline!Rank[g.severity] >= Timeline!Rank[s1.min])
  <2> SUFFICES ASSUME Timeline!Rank[g.severity] >= Timeline!Rank[s1.min] PROVE FALSE
    OBVIOUS
  <2>1. g \in Timeline!Filtered
    BY <1>4 DEF Timeline!Filtered, Timeline!Inside
  <2>2. e \in Timeline!Filtered
    BY <1>1, <2>1
  <2> QED BY <1>4, <2>2 DEF Timeline!Filtered, Timeline!Inside
<1> QED BY <1>2, <1>3, <1>4 DEF Timeline!TimelineTellsWhatHappened

-----------------------------------------------------------------------------
\* The file integrity monitor.

LEMMA OnlyIntegrity ==
  part = "integrity" /\ [Next]_slots =>
    part' = part /\ (Integrity!FimNext \/ UNCHANGED <<s1, s2, s3, s4>>)
BY DEF Next, slots

(* A path nobody touched since the baseline was saved is as it was then.   *)
UntouchedStands ==
  \A p : p \notin s3 => /\ p \in DOMAIN s1 <=> p \in DOMAIN s2
                        /\ p \in DOMAIN s1 => s1[p] = s2[p]

LEMMA UntouchedStandsInit == Integrity!FimInit => UntouchedStands
BY DEF Integrity!FimInit, UntouchedStands

LEMMA UntouchedStandsStep ==
  part = "integrity" /\ UntouchedStands /\ [Next]_slots => UntouchedStands'
<1> SUFFICES ASSUME part = "integrity", UntouchedStands, [Next]_slots PROVE UntouchedStands'
  OBVIOUS
<1> USE DEF UntouchedStands
<1>1. ASSUME NEW p \in DOMAIN Monitored, NEW r \in FileStates, Integrity!Write(p, r)
      PROVE  UntouchedStands'
  BY <1>1 DEF Integrity!Write, Integrity!Touch
<1>2. ASSUME NEW p \in DOMAIN Monitored, Integrity!Remove(p) PROVE UntouchedStands'
  BY <1>2 DEF Integrity!Remove, Integrity!Touch
<1>3. CASE Integrity!SaveRecords
  BY <1>3 DEF Integrity!SaveRecords
<1>4. CASE UNCHANGED <<s1, s2, s3, s4>>
  BY <1>4
<1> QED BY OnlyIntegrity, <1>1, <1>2, <1>3, <1>4 DEF Integrity!FimNext

(* What is said of two files whose content did not change: the kinds of    *)
(* change whose test holds, each with the path.                            *)
LEMMA ChangesOf ==
  ASSUME NEW p, NEW b, NEW c
  PROVE  LET perm == Integrity!Found(p, "PERM_CHANGED", IF {"suid", "ww"} \cap (c.mode \ b.mode) # {}
                                                       THEN "critical" ELSE "low")
             owner == Integrity!Found(p, "OWNER_CHANGED", IF Monitored[p] >= 50 THEN "high" ELSE "low")
             link == Integrity!Found(p, "SYMLINK_CHANGED", "high")
         IN ~Integrity!ContentChanged(b, c) =>
              Integrity!Changes(p, b, c) =
                (IF b.mode # c.mode THEN {perm} ELSE {}) \cup (IF b.owner # c.owner THEN {owner} ELSE {})
                \cup (IF "none" \notin {b.link_target, c.link_target} /\ b.link_target # c.link_target
                      THEN {link} ELSE {})
<1> DEFINE perm == Integrity!Found(p, "PERM_CHANGED", IF {"suid", "ww"} \cap (c.mode \ b.mode) # {}
                                                       THEN "critical" ELSE "low")
           owner == Integrity!Found(p, "OWNER_CHANGED", IF Monitored[p] >= 50 THEN "high" ELSE "low")
           link == Integrity!Found(p, "SYMLINK_CHANGED", "high")
           says(f) == CASE f.change_type = "PERM_CHANGED"    -> b.mode # c.mode
                        [] f.change_type = "OWNER_CHANGED"   -> b.owner # c.owner
                        [] f.change_type = "SYMLINK_CHANGED" ->
                             "none" \notin {b.link_target, c.link_target} /\ b.link_target # c.link_target
<1>1. ~Integrity!ContentChanged(b, c) => Integrity!Changes(p, b, c) = {f \in {perm, owner, link} : says(f)}
  BY DEF Integrity!Changes
<1>2. /\ perm.change_type = "PERM_CHANGED" /\ owner.change_type = "OWNER_CHANGED"
      /\ link.change_type = "SYMLINK_CHANGED"
  BY DEF Integrity!Found
<1> HIDE DEF perm, owner, link
<1>3. /\ says(perm) <=> b.mode # c.mode
      /\ says(owner) <=> b.owner # c.owner
      /\ says(link) <=> "none" \notin {b.link_target, c.link_target} /\ b.link_target # c.link_target
  BY <1>2
<1> HIDE DEF says
<1> QED BY <1>1, <1>3 DEF perm, owner, link

(* A comparison names its path, each kind of change once, and nothing at   *)
(* all exactly when the two files look the same.                           *)
LEMMA ChangesNamed ==
  ASSUME NEW p, NEW b, NEW c
  PROVE  /\ \A f \in Integrity!Changes(p, b, c) : f.path = p /\ f.change_type \notin {"NEW", "DELETED"}
         /\ \A f, g \in Integrity!Changes(p, b, c) : f.change_type = g.change_type => f = g
         /\ Integrity!Changes(p, b, c) = {} <=> Integrity!LooksSame(b, c)
<1>1. CASE Integrity!ContentChanged(b, c)
  <2> DEFINE modified == Integrity!Found(p, "MODIFIED", Integrity!Severity(p, 70, 40, "medium"))
  <2>1. Integrity!Changes(p, b, c) = {modified}
    BY <1>1 DEF Integrity!Changes
  <2>2. ~Integrity!LooksSame(b, c)
    BY <1>1 DEF Integrity!ContentChanged, Integrity!LooksSame
  <2>3. modified.path = p /\ modified.change_type = "MODIFIED"
    BY DEF Integrity!Found
  <2> HIDE DEF modified
  <2> QED BY <2>1, <2>2, <2>3
<1>2. CASE ~Integrity!ContentChanged(b, c)
  <2> DEFINE perm == Integrity!Found(p, "PERM_CHANGED", IF {"suid", "ww"} \cap (c.mode \ b.mode) # {}
                                                         THEN "critical" ELSE "low")
             owner == Integrity!Found(p, "OWNER_CHANGED", IF Monitored[p] >= 50 THEN "high" ELSE "low")
             link == Integrity!Found(p, "SYMLINK_CHANGED", "high")
             linked == "none" \notin {b.link_target, c.link_target} /\ b.link_target # c.link_target
  <2>1. Integrity!Changes(p, b, c) =
           (IF b.mode # c.mode THEN {perm} ELSE {}) \cup (IF b.owner # c.owner THEN {owner} ELSE {})
           \cup (IF linked THEN {link} ELSE {})
    BY <1>2, ChangesOf
  <2>2. /\ perm.change_type = "PERM_CHANGED" /\ owner.change_type = "OWNER_CHANGED"
        /\ link.change_type = "SYMLINK_CHANGED" /\ perm.path = p /\ owner.path = p /\ link.path = p
    BY DEF Integrity!Found
  <2>3. Integrity!LooksSame(b, c) <=> b.mode = c.mode /\ b.owner = c.owner /\ ~linked
    BY <1>2 DEF Integrity!ContentChanged, Integrity!LooksSame
  <2> HIDE DEF perm, owner, link, linked
  <2> QED BY <2>1, <2>2, <2>3
<1> QED BY <1>1, <1>2

LEMMA UntouchedStandsGives == UntouchedStands => Integrity!VerdictCoversDrift
<1> SUFFICES ASSUME UntouchedStands PROVE Integrity!VerdictCoversDrift
  OBVIOUS
<1> DEFINE found == Integrity!Drift(s2, s1)
           both == DOMAIN s2 \cap DOMAIN s1
           changes(p) == Integrity!Changes(p, s2[p], s1[p])
           new(p) == Integrity!Found(p, "NEW", Integrity!Severity(p, 80, 50, "low"))
           gone(p) == Integrity!Found(p, "DELETED", Integrity!Severity(p, 80, 50, "medium"))
<1>1. /\ \A f \in found : \/ \E p \in DOMAIN s1 \ DOMAIN s2 : f = new(p)
                          \/ \E p \in DOMAIN s2 \ DOMAIN s1 : f = gone(p)
                          \/ \E p \in both : f \in changes(p)
      /\ \A p \in DOMAIN s1 \ DOMAIN s2 : new(p) \in found
      /\ \A p \in DOMAIN s2 \ DOMAIN s1 : gone(p) \in found
      /\ \A p \in both : changes(p) \subseteq found
  BY DEF Integrity!Drift
<1>2. /\ \A p : new(p).path = p /\ new(p).change_type = "NEW"
      /\ \A p : gone(p).path = p /\ gone(p).change_type = "DELETED"
  BY DEF Integrity!Found
<1>3. \A p \in both : /\ changes(p) = {} <=> Integrity!LooksSame(s2[p], s1[p])
                      /\ \A f \in changes(p) : f.path = p /\ f.change_type \notin {"NEW", "DELETED"}
                      /\ \A f, g \in changes(p) : f.change_type = g.change_type => f = g
  BY ChangesNamed
<1>4. \A p \in both : Integrity!ContentChanged(s2[p], s1[p]) =>
        changes(p) = {Integrity!Found(p, "MODIFIED", Integrity!Severity(p, 70, 40, "medium"))}
  BY DEF Integrity!Changes
<1>5. \A p \in DOMAIN Monitored : Monitored[p] >= 80 =>
        /\ new(p).severity = "critical" /\ gone(p).severity = "critical"
        /\ Integrity!Found(p, "MODIFIED", Integrity!Severity(p, 70, 40, "medium")).severity = "critical"
  BY IntegrityAssumption DEF Integrity!Found, Integrity!Severity
<1> HIDE DEF found, changes, new, gone
<1>6. Integrity!OverallVerdict(found) = "TRUSTED" <=> found = {}
  BY DEF Integrity!OverallVerdict
<1>7. (\E f \in found : f.severity = "critical") => Integrity!OverallVerdict(found) = "COMPROMISED"
  BY DEF Integrity!OverallVerdict
<1>8. found = {} <=> DOMAIN s2 = DOMAIN s1 /\ \A p \in both : Integrity!LooksSame(s2[p], s1[p])
  BY <1>1, <1>3
<1>9. \A f \in found : f.path \in s3
  <2>1. \A p \in both : p \notin s3 => Integrity!LooksSame(s2[p], s1[p])
    BY DEF UntouchedStands, Integrity!LooksSame
  <2> QED BY <1>1, <1>2, <1>3, <2>1 DEF UntouchedStands
<1>10. \A f, g \in found : (f.path = g.path /\ f.change_type = g.change_type) => f = g
  BY <1>1, <1>2, <1>3
<1>11. ASSUME NEW p \in DOMAIN Monitored, Monitored[p] >= 80,
              \/ p \in (DOMAIN s1 \ DOMAIN s2) \cup (DOMAIN s2 \ DOMAIN s1)
              \/ p \in both /\ Integrity!ContentChanged(s2[p], s1[p])
       PROVE  Integrity!OverallVerdict(found) = "COMPROMISED"
  BY <1>1, <1>4, <1>5, <1>7, <1>11
<1> QED
  BY <1>6, <1>8, <1>9, <1>10, <1>11 DEF Integrity!VerdictCoversDrift, found

-----------------------------------------------------------------------------
\* The indicator database.

LEMMA OnlyIndicators ==
  part = "indicators" /\ [Next]_slots =>
    part' = part /\ (Indicators!IocNext \/ UNCHANGED <<s1, s2, s3, s4, s5>>)
BY DEF Next, slots

IocKind == FeedType \cup {SeenType[k] : k \in DOMAIN SeenType} \cup {BuiltIn[k].ioc_type : k \in DOMAIN BuiltIn}
IocTags == FeedTag \cup UNION {BuiltIn[k].tags : k \in DOMAIN BuiltIn}
IocItem == [key : IocKey, type : IocKind, score : Nat, tags : SUBSET IocTags]
IocEntry == [ioc_type : IocKind, score : Nat, tags : SUBSET IocTags, hit_count : Nat]
Database == [index : UNION {[K -> IocEntry] : K \in SUBSET IocKey}, bloom : SUBSET Int,
             stats : [total : Nat, hits : Nat, misses : Nat]]

(* What the database s must be when A is what was added: <<key, score,     *)
(* tags>>.                                                                 *)
Holds(s, A) ==
  /\ s \in Database /\ A \subseteq IocKey \X Nat \X SUBSET IocTags
  /\ \A k : k \in DOMAIN s.index <=> \E x \in A : x[1] = k
  /\ s.stats.total = Cardinality(DOMAIN s.index)
  /\ \A k \in DOMAIN s.index :
       /\ BloomBits[k] \subseteq s.bloom
       /\ \A x \in A : x[1] = k => x[2] <= s.index[k].score
       /\ \E x \in A : x[1] = k /\ x[2] = s.index[k].score
       /\ \A tag : tag \in s.index[k].tags <=> \E x \in A : x[1] = k /\ tag \in x[3]

LEMMA IocKeysFinite == \A K \in SUBSET IocKey : IsFiniteSet(K)
BY IndicatorAssumption, FS_Subset

LEMMA BloomBitsType == \A k \in IocKey : BloomBits[k] \subseteq Int
BY IndicatorAssumption

LEMMA DatabaseType ==
  ASSUME NEW s \in Database
  PROVE  /\ s.index \in [DOMAIN s.index -> IocEntry] /\ DOMAIN s.index \in SUBSET IocKey
         /\ s.bloom \in SUBSET Int /\ s.stats \in [total : Nat, hits : Nat, misses : Nat]
         /\ s = [index |-> s.index, bloom |-> s.bloom, stats |-> s.stats]
<1>1. /\ s.index \in UNION {[K -> IocEntry] : K \in SUBSET IocKey}
      /\ s.bloom \in SUBSET Int /\ s.stats \in [total : Nat, hits : Nat, misses : Nat]
      /\ s = [index |-> s.index, bloom |-> s.bloom, stats |-> s.stats]
  BY DEF Database
<1>2. PICK K \in SUBSET IocKey : s.index \in [K -> IocEntry]
  BY <1>1
<1> QED BY <1>1, <1>2

LEMMA IsDatabase ==
  ASSUME NEW K \in SUBSET IocKey, NEW i \in [K -> IocEntry], NEW b \in SUBSET Int,
         NEW c \in [total : Nat, hits : Nat, misses : Nat]
  PROVE  [index |-> i, bloom |-> b, stats |-> c] \in Database
BY DEF Database

(* An addition keeps what was held, adds what is new, and counts no query. *)
LEMMA AddHolds ==
  ASSUME NEW s, NEW A, Holds(s, A), NEW key \in IocKey, NEW type \in IocKind, NEW score \in Nat,
         NEW tags \in SUBSET IocTags
  PROVE  /\ Holds(Indicators!Add(s, key, type, score, tags), A \cup {<<key, score, tags>>})
         /\ Indicators!Add(s, key, type, score, tags).stats.hits = s.stats.hits
         /\ Indicators!Add(s, key, type, score, tags).stats.misses = s.stats.misses
<1> DEFINE t == Indicators!Add(s, key, type, score, tags)
           n == <<key, score, tags>>
           B == A \cup {n}
<1>0. /\ s \in Database /\ A \subseteq IocKey \X Nat \X SUBSET IocTags
      /\ s.index \in [DOMAIN s.index -> IocEntry] /\ DOMAIN s.index \in SUBSET IocKey
      /\ s.bloom \in SUBSET Int /\ s.stats \in [total : Nat, hits : Nat, misses : Nat]
      /\ s = [index |-> s.index, bloom |-> s.bloom, stats |-> s.stats]
  <2>1. s \in Database /\ A \subseteq IocKey \X Nat \X SUBSET IocTags
    BY DEF Holds
  <2> QED BY <2>1, DatabaseType
<1>1. B \subseteq IocKey \X Nat \X SUBSET IocTags
  BY <1>0
<1>2. n[1] = key /\ n[2] = score /\ n[3] = tags
  OBVIOUS
<1>3. \A k \in DOMAIN s.index :
        /\ BloomBits[k] \subseteq s.bloom
        /\ \A x \in A : x[1] = k => x[2] <= s.index[k].score
        /\ \E x \in A : x[1] = k /\ x[2] = s.index[k].score
        /\ \A tag : tag \in s.index[k].tags <=> \E x \in A : x[1] = k /\ tag \in x[3]
  BY DEF Holds
<1>4. /\ \A k : k \in DOMAIN s.index <=> \E x \in A : x[1] = k
      /\ s.stats.total = Cardinality(DOMAIN s.index)
  BY DEF Holds
<1>5. \A x \in A : x[2] \in Nat
  BY <1>0
<1> HIDE DEF n
<1>6. CASE key \in DOMAIN s.index
  <2> DEFINE e == s.index[key]
             larger == IF e.score > score THEN e.score ELSE score
             f == [e EXCEPT !.score = larger, !.tags = e.tags \cup tags]
  <2>1. e \in IocEntry /\ e.score \in Nat
    BY <1>0, <1>6 DEF IocEntry
  <2>2. f \in IocEntry /\ f.score = larger /\ f.tags = e.tags \cup tags
    BY <2>1 DEF IocEntry
  <2>3. t = [s EXCEPT !.index = [s.index EXCEPT ![key] = f]]
    BY <1>0, <1>6 DEF Indicators!Add, Indicators!Merged, Indicators!Larger
  <2> HIDE DEF f
  <2>4. /\ t = [index |-> [s.index EXCEPT ![key] = f], bloom |-> s.bloom, stats |-> s.stats]
        /\ t.index = [s.index EXCEPT ![key] = f] /\ t.bloom = s.bloom /\ t.stats = s.stats
    BY <1>0, <2>3
  <2>5. /\ t.index \in [DOMAIN s.index -> IocEntry] /\ DOMAIN t.index = DOMAIN s.index
        /\ t.index[key] = f /\ \A k \in DOMAIN s.index \ {key} : t.index[k] = s.index[k]
    BY <1>0, <1>6, <2>2, <2>4
  <2>6. t \in Database
    BY <1>0, <2>4, <2>5, IsDatabase
  <2> HIDE DEF t
  <2>7. ASSUME NEW k \in DOMAIN s.index
        PROVE  /\ \A x \in B : x[1] = k => x[2] <= t.index[k].score
               /\ \E x \in B : x[1] = k /\ x[2] = t.index[k].score
               /\ \A tag : tag \in t.index[k].tags <=> \E x \in B : x[1] = k /\ tag \in x[3]
    <3>1. CASE k # key
      BY <1>2, <1>3, <2>5, <3>1
    <3>2. CASE k = key
      <4>1. t.index[k].tags = e.tags \cup tags /\ t.index[k].score = larger
        BY <2>2, <2>5, <3>2
      <4>2. \A x \in B : x[1] = k => x[2] <= larger
        BY <1>2, <1>3, <1>5, <1>6, <2>1, <3>2
      <4>3. \E x \in B : x[1] = k /\ x[2] = larger
        BY <1>2, <1>3, <1>6, <2>1, <3>2
      <4>4. \A tag : tag \in e.tags \cup tags <=> \E x \in B : x[1] = k /\ tag \in x[3]
        BY <1>2, <1>3, <1>6, <3>2
      <4> QED BY <4>1, <4>2, <4>3, <4>4
    <3> QED BY <3>1, <3>2
  <2>8. \A k : k \in DOMAIN t.index <=> \E x \in B : x[1] = k
    BY <1>2, <1>4, <1>6, <2>5
  <2>9. Holds(t, B)
    BY <1>1, <1>3, <1>4, <2>4, <2>5, <2>6, <2>7, <2>8 DEF Holds
  <2> QED BY <2>4, <2>9 DEF t, n
<1>7. CASE key \notin DOMAIN s.index
  <2> DEFINE f == [ioc_type |-> type, score |-> score, tags |-> tags, hit_count |-> 0]
             D == DOMAIN s.index \cup {key}
  <2>1. f \in IocEntry /\ f.score = score /\ f.tags = tags
    BY DEF IocEntry
  <2>2. t = [index |-> [k \in D |-> IF k = key THEN f ELSE s.index[k]], bloom |-> s.bloom \cup BloomBits[key],
             stats |-> [s.stats EXCEPT !.total = @ + 1]]
    BY <1>7 DEF Indicators!Add
  <2> HIDE DEF f
  <2>3. /\ t.index = [k \in D |-> IF k = key THEN f ELSE s.index[k]]
        /\ t.bloom = s.bloom \cup BloomBits[key] /\ t.stats = [s.stats EXCEPT !.total = @ + 1]
        /\ t = [index |-> t.index, bloom |-> t.bloom, stats |-> t.stats]
    BY <2>2
  <2> HIDE DEF t
  <2>4. t.index \in [D -> IocEntry] /\ D \in SUBSET IocKey
    BY <1>0, <2>1, <2>3
  <2>5. /\ t.stats \in [total : Nat, hits : Nat, misses : Nat] /\ t.stats.total = s.stats.total + 1
        /\ t.stats.hits = s.stats.hits /\ t.stats.misses = s.stats.misses
    BY <1>0, <2>3
  <2>6. t.bloom \in SUBSET Int
    <3>1. BloomBits[key] \subseteq Int /\ s.bloom \subseteq Int /\ t.bloom = s.bloom \cup BloomBits[key]
      BY <1>0, <2>3, BloomBitsType
    <3> HIDE DEF Database
    <3> QED BY <3>1
  <2>7. t \in Database
    <3>1. t = [index |-> t.index, bloom |-> t.bloom, stats |-> t.stats]
      BY <2>3
    <3> HIDE DEF D
    <3>2. [index |-> t.index, bloom |-> t.bloom, stats |-> t.stats] \in Database
      BY <2>4, <2>5, <2>6, IsDatabase
    <3> QED BY <3>1, <3>2
  <2>8. t.stats.total = Cardinality(DOMAIN t.index)
    <3>1. IsFiniteSet(DOMAIN s.index)
      BY <1>0, IocKeysFinite
    <3>2. Cardinality(D) = Cardinality(DOMAIN s.index) + 1
      BY <1>7, <3>1, FS_AddElement
    <3> QED BY <1>4, <2>3, <2>5, <3>2
  <2>9. /\ DOMAIN t.index = D /\ t.index[key] = f /\ \A k \in DOMAIN s.index : t.index[k] = s.index[k]
    BY <1>7, <2>3
  <2>10. ASSUME NEW k \in D
         PROVE  /\ BloomBits[k] \subseteq t.bloom
                /\ \A x \in B : x[1] = k => x[2] <= t.index[k].score
                /\ \E x \in B : x[1] = k /\ x[2] = t.index[k].score
                /\ \A tag : tag \in t.index[k].tags <=> \E x \in B : x[1] = k /\ tag \in x[3]
    <3>1. CASE k # key
      BY <1>2, <1>3, <2>3, <2>9, <3>1
    <3>2. CASE k = key
      <4>1. \A x \in A : x[1] # k
        BY <1>4, <1>7, <3>2
      <4>2. t.index[k].tags = tags /\ t.index[k].score = score /\ BloomBits[k] \subseteq t.bloom
        BY <2>1, <2>3, <2>9, <3>2
      <4> QED BY <1>2, <3>2, <4>1, <4>2
    <3> QED BY <3>1, <3>2
  <2>11. \A k : k \in DOMAIN t.index <=> \E x \in B : x[1] = k
    BY <1>2, <1>4, <2>9
  <2>12. Holds(t, B)
    BY <1>1, <2>7, <2>8, <2>9, <2>10, <2>11 DEF Holds
  <2> QED BY <2>5, <2>12 DEF t, n
<1> QED BY <1>6, <1>7

(* The additions told by the first n of a sequence of items.               *)
Tuples(items, n) == {<<items[i].key, items[i].score, items[i].tags>> : i \in 1..n}

LEMMA AddAllHolds ==
  ASSUME NEW s, NEW A, Holds(s, A), NEW items \in Seq(IocItem)
  PROVE  /\ Holds(Indicators!AddAll(s, items), A \cup Tuples(items, Len(items)))
         /\ Indicators!AddAll(s, items).stats.hits = s.stats.hits
         /\ Indicators!AddAll(s, items).stats.misses = s.stats.misses
<1> DEFINE n == Len(items)
           Held == {t \in Database : \E B : Holds(t, B)}
           after(t, i) == Indicators!Add(t, items[i].key, items[i].type, items[i].score, items[i].tags)
           step == [i \in Nat |-> [t \in Held |-> IF i \in 1..n THEN after(t, i) ELSE t]]
<1>1. n \in Nat /\ \A i \in 1..n : items[i] \in IocItem
  OBVIOUS
<1>2. \A i \in 1..n : /\ items[i].key \in IocKey /\ items[i].type \in IocKind /\ items[i].score \in Nat
                      /\ items[i].tags \in SUBSET IocTags
  BY <1>1 DEF IocItem
<1>3. \A t, B : Holds(t, B) => t \in Held
  BY DEF Holds
<1>4. \A i \in 1..n : \A t, B : Holds(t, B) =>
        /\ Holds(after(t, i), B \cup {<<items[i].key, items[i].score, items[i].tags>>})
        /\ after(t, i).stats.hits = t.stats.hits /\ after(t, i).stats.misses = t.stats.misses
  <2> TAKE i \in 1..n
  <2> TAKE t, B
  <2> HAVE Holds(t, B)
  <2> DEFINE key == items[i].key
             type == items[i].type
             score == items[i].score
             tags == items[i].tags
  <2>1. key \in IocKey /\ type \in IocKind /\ score \in Nat /\ tags \in SUBSET IocTags
    BY <1>2
  <2> HIDE DEF key, type, score, tags, after
  <2>2. /\ Holds(Indicators!Add(t, key, type, score, tags), B \cup {<<key, score, tags>>})
        /\ Indicators!Add(t, key, type, score, tags).stats.hits = t.stats.hits
        /\ Indicators!Add(t, key, type, score, tags).stats.misses = t.stats.misses
    BY <2>1, AddHolds, SMTT(60)
  <2> QED BY <2>2 DEF key, type, score, tags, after
<1> HIDE DEF n
<1> HIDE DEF after
<1>5. \A i \in 1..n, t \in Held : after(t, i) \in Held
  <2> SUFFICES ASSUME NEW i \in 1..n, NEW t \in Held PROVE after(t, i) \in Held
    OBVIOUS
  <2>1. PICK B : Holds(t, B)
    OBVIOUS
  <2> HIDE DEF Held
  <2> QED BY <1>3, <1>4, <2>1
<1> HIDE DEF Held
<1>6. step \in [Nat -> [Held -> Held]] /\ s \in Held
  BY <1>3, <1>5
<1>7. PICK h : IsRecursive(h, n, Held, s, step)
  <2> HIDE DEF step
  <2> QED BY <1>1, <1>6, PrimRec
<1>8. h \in [0..n -> Held] /\ h[0] = s /\ \A i \in 1..n : h[i] = step[i][h[i - 1]]
  BY <1>7 DEF IsRecursive
<1>9. \A i \in 1..n : h[i] = after(h[i - 1], i)
  <2> TAKE i \in 1..n
  <2>1. i \in Nat /\ h[i - 1] \in Held
    BY <1>1, <1>8
  <2> QED BY <1>8, <2>1
<1> HIDE DEF step
<1>10. Indicators!AddAll(s, items) = h[n]
  <2> DEFINE f == CHOOSE f : f = [i \in 0..n |-> IF i = 0 THEN s ELSE after(f[i - 1], i)]
  <2>1. h = [i \in 0..n |-> IF i = 0 THEN s ELSE after(h[i - 1], i)]
    BY <1>1, <1>8, <1>9
  <2>2. f = [i \in 0..n |-> IF i = 0 THEN s ELSE after(f[i - 1], i)]
    BY <2>1
  <2>3. Indicators!AddAll(s, items) = f[n]
    BY DEF Indicators!AddAll, n, after
  <2> HIDE DEF f
  <2> DEFINE D == {i \in Nat : i <= n => f[i] = h[i]}
  <2>4. 0 \in D
    BY <1>1, <1>8, <2>2
  <2>5. ASSUME NEW i \in D PROVE i + 1 \in D
    BY <1>1, <1>9, <2>2, <2>5
  <2>6. D = Nat
    <3> HIDE DEF D
    <3>1. D \in SUBSET Nat
      BY DEF D
    <3> QED BY <2>4, <2>5, <3>1, NatSetInduction
  <2> QED BY <1>1, <2>3, <2>6
<1> DEFINE D == {i \in Nat : i <= n => /\ Holds(h[i], A \cup Tuples(items, i))
                                      /\ h[i].stats.hits = s.stats.hits /\ h[i].stats.misses = s.stats.misses}
<1>11. 0 \in D
  <2>1. Tuples(items, 0) = {}
    BY DEF Tuples
  <2>2. A \cup Tuples(items, 0) = A
    BY <2>1
  <2> QED BY <1>8, <2>2
<1>12. ASSUME NEW i \in D PROVE i + 1 \in D
  <2> SUFFICES ASSUME i + 1 <= n
               PROVE  /\ Holds(h[i + 1], A \cup Tuples(items, i + 1))
                      /\ h[i + 1].stats.hits = s.stats.hits /\ h[i + 1].stats.misses = s.stats.misses
    OBVIOUS
  <2>1. i \in Nat /\ i + 1 \in 1..n /\ (i + 1) - 1 = i
    BY <1>1
  <2>2. /\ Holds(h[i], A \cup Tuples(items, i))
        /\ h[i].stats.hits = s.stats.hits /\ h[i].stats.misses = s.stats.misses
    BY <1>1, <2>1
  <2>3. h[i + 1] = after(h[i], i + 1)
    BY <1>9, <2>1
  <2> DEFINE new == <<items[i + 1].key, items[i + 1].score, items[i + 1].tags>>
  <2>4. Tuples(items, i + 1) = Tuples(items, i) \cup {new}
    <3>1. 1..(i + 1) = (1..i) \cup {i + 1}
      BY <2>1
    <3> QED BY <3>1 DEF Tuples
  <2> HIDE DEF new
  <2>5. A \cup Tuples(items, i + 1) = (A \cup Tuples(items, i)) \cup {new}
    BY <2>4
  <2>6. /\ Holds(after(h[i], i + 1), (A \cup Tuples(items, i)) \cup {new})
        /\ after(h[i], i + 1).stats.hits = h[i].stats.hits /\ after(h[i], i + 1).stats.misses = h[i].stats.misses
    BY <1>4, <2>1, <2>2 DEF new
  <2> QED BY <2>2, <2>3, <2>5, <2>6
<1>13. D = Nat
  <2> HIDE DEF D
  <2>1. D \in SUBSET Nat
    BY DEF D
  <2> QED BY <1>11, <1>12, <2>1, NatSetInduction
<1>14. /\ Holds(h[n], A \cup Tuples(items, n))
       /\ h[n].stats.hits = s.stats.hits /\ h[n].stats.misses = s.stats.misses
  <2>1. n \in D /\ n <= n
    <3> HIDE DEF D
    <3> QED BY <1>1, <1>13
  <2> QED BY <2>1
<1> QED BY <1>10, <1>14 DEF n

(* The additions and the queries a process was told.                       *)
IocAddition == IocKey \X Nat \X SUBSET IocTags
IocQuery == {<<k>> : k \in IocKey}
AddsIn(seq) == {seq[i] : i \in {j \in DOMAIN seq : Len(seq[j]) = 3}}
AskedIn(seq) == {i \in DOMAIN seq : Len(seq[i]) = 1}

LEMMA ToldLengths ==
  /\ \A x \in IocAddition : Len(x) = 3
  /\ \A x \in IocQuery : Len(x) = 1
<1>1. ASSUME NEW x \in IocAddition PROVE Len(x) = 3
  <2>1. x = <<x[1], x[2], x[3]>>
    BY DEF IocAddition
  <2> QED BY <2>1
<1>2. ASSUME NEW x \in IocQuery PROVE Len(x) = 1
  <2>1. PICK k \in IocKey : x = <<k>>
    BY DEF IocQuery
  <2> QED BY <2>1
<1> QED BY <1>1, <1>2

LEMMA ToldMore ==
  ASSUME NEW seq \in Seq(IocAddition \cup IocQuery), NEW e \in IocAddition \cup IocQuery
  PROVE  /\ Append(seq, e) \in Seq(IocAddition \cup IocQuery)
         /\ e \in IocAddition => /\ AddsIn(Append(seq, e)) = AddsIn(seq) \cup {e}
                                 /\ AskedIn(Append(seq, e)) = AskedIn(seq)
         /\ e \in IocQuery => /\ AddsIn(Append(seq, e)) = AddsIn(seq)
                              /\ Cardinality(AskedIn(Append(seq, e))) = Cardinality(AskedIn(seq)) + 1
<1> DEFINE n == Len(seq)
           more == Append(seq, e)
           T == IocAddition \cup IocQuery
<1>1. /\ more \in Seq(T) /\ DOMAIN more = 1..(n + 1) /\ DOMAIN seq = 1..n /\ n \in Nat
      /\ more[n + 1] = e /\ \A i \in 1..n : more[i] = seq[i]
  <2> HIDE DEF T
  <2> QED BY DEF T
<1> HIDE DEF more, n
<1>2. ASSUME e \in IocAddition
      PROVE  AddsIn(more) = AddsIn(seq) \cup {e} /\ AskedIn(more) = AskedIn(seq)
  <2>1. Len(e) = 3
    BY <1>2, ToldLengths
  <2>2. {j \in DOMAIN more : Len(more[j]) = 3} = {j \in DOMAIN seq : Len(seq[j]) = 3} \cup {n + 1}
    BY <1>1, <2>1
  <2>3. {j \in DOMAIN more : Len(more[j]) = 1} = {j \in DOMAIN seq : Len(seq[j]) = 1}
    <3>1. \A j \in DOMAIN more : Len(more[j]) = 1 => j \in DOMAIN seq
      <4>1. Len(more[n + 1]) = 3
        BY <1>1, <2>1
      <4>2. \A j \in DOMAIN more : j \in DOMAIN seq \/ j = n + 1
        BY <1>1
      <4> QED BY <4>1, <4>2
    <3>2. \A j \in DOMAIN seq : j \in DOMAIN more /\ Len(more[j]) = Len(seq[j])
      BY <1>1
    <3>3. \A j : j \in DOMAIN more /\ Len(more[j]) = 1 <=> j \in DOMAIN seq /\ Len(seq[j]) = 1
      BY <3>1, <3>2
    <3> QED BY <3>3, Zenon
  <2>4. \A j \in {i \in DOMAIN seq : Len(seq[i]) = 3} : more[j] = seq[j]
    BY <1>1
  <2> QED BY <1>1, <2>2, <2>3, <2>4 DEF AddsIn, AskedIn
<1>3. ASSUME e \in IocQuery
      PROVE  AddsIn(more) = AddsIn(seq) /\ Cardinality(AskedIn(more)) = Cardinality(AskedIn(seq)) + 1
  <2>1. Len(e) = 1
    BY <1>3, ToldLengths
  <2>2. AddsIn(more) = AddsIn(seq)
    <3>1. {j \in DOMAIN more : Len(more[j]) = 3} = {j \in DOMAIN seq : Len(seq[j]) = 3}
      <4>1. \A j \in DOMAIN more : Len(more[j]) = 3 => j \in DOMAIN seq
        <5>1. Len(more[n + 1]) = 1
          BY <1>1, <2>1
        <5>2. \A j \in DOMAIN more : j \in DOMAIN seq \/ j = n + 1
          BY <1>1
        <5> QED BY <5>1, <5>2
      <4>2. \A j \in DOMAIN seq : j \in DOMAIN more /\ Len(more[j]) = Len(seq[j])
        BY <1>1
      <4> QED BY <4>1, <4>2
    <3>2. \A j \in {i \in DOMAIN seq : Len(seq[i]) = 3} : more[j] = seq[j]
      BY <1>1
    <3> QED BY <3>1, <3>2 DEF AddsIn
  <2>3. AskedIn(more) = AskedIn(seq) \cup {n + 1} /\ n + 1 \notin AskedIn(seq)
    BY <1>1, <2>1 DEF AskedIn
  <2>4. IsFiniteSet(AskedIn(seq))
    <3>1. IsFiniteSet(1..n)
      BY <1>1, FS_Interval
    <3> QED BY <1>1, <3>1, FS_Subset DEF AskedIn
  <2> QED BY <2>2, <2>3, <2>4, FS_AddElement
<1> QED BY <1>1, <1>2, <1>3 DEF more

LEMMA ToldItems ==
  ASSUME NEW items \in Seq(IocItem)
  PROVE  /\ Indicators!Told(items) \in Seq(IocAddition \cup IocQuery)
         /\ AddsIn(Indicators!Told(items)) = Tuples(items, Len(items))
         /\ AskedIn(Indicators!Told(items)) = {}
<1> DEFINE n == Len(items)
           seq == Indicators!Told(items)
<1>1. /\ n \in Nat /\ DOMAIN items = 1..n /\ DOMAIN seq = 1..n
      /\ seq = [i \in 1..n |-> <<items[i].key, items[i].score, items[i].tags>>]
  BY DEF Indicators!Told
<1>2. \A i \in 1..n : items[i] \in IocItem
  BY <1>1
<1>3. \A i \in 1..n : seq[i] \in IocAddition /\ seq[i] = <<items[i].key, items[i].score, items[i].tags>>
  BY <1>1, <1>2 DEF IocItem, IocAddition
<1> HIDE DEF seq, n
<1>4. seq \in Seq(IocAddition \cup IocQuery)
  BY <1>1, <1>3
<1>5. \A i \in 1..n : Len(seq[i]) = 3
  BY <1>3, ToldLengths
<1>6. AddsIn(seq) = Tuples(items, n)
  BY <1>1, <1>3, <1>5 DEF AddsIn, Tuples
<1>7. AskedIn(seq) = {}
  BY <1>1, <1>5 DEF AskedIn
<1> QED BY <1>4, <1>6, <1>7 DEF n, seq

(* Each key of the entries is one of the items they are turned into.       *)
LEMMA ItemsOfEntries ==
  ASSUME NEW entries, NEW types, DOMAIN entries \in SUBSET IocKey,
         \A k \in DOMAIN entries : entries[k].score \in Nat /\ entries[k].tags \in SUBSET IocTags /\ types[k] \in IocKind
  PROVE  /\ Indicators!Items(entries, types) \in Seq(IocItem)
         /\ \A k \in DOMAIN entries : \E i \in 1..Len(Indicators!Items(entries, types)) :
              /\ Indicators!Items(entries, types)[i].key = k
              /\ Indicators!Items(entries, types)[i].score = entries[k].score
              /\ Indicators!Items(entries, types)[i].tags = entries[k].tags
<1> DEFINE K == DOMAIN entries
           keys == Indicators!SetToSeq(K)
           items == Indicators!Items(entries, types)
<1>1. keys = CHOOSE g \in [1..Cardinality(K) -> K] : \A a, b \in DOMAIN g : g[a] = g[b] => a = b
  BY DEF Indicators!SetToSeq, Indicators!IsInjective, Indicators!Cardinality, Cardinality
<1>2. items = [i \in DOMAIN keys |-> [key |-> keys[i], type |-> types[keys[i]],
                                      score |-> entries[keys[i]].score, tags |-> entries[keys[i]].tags]]
  BY DEF Indicators!Items
<1>3. IsFiniteSet(K)
  BY IocKeysFinite
<1> HIDE DEF keys, items
<1>4. keys \in Seq(K) /\ \A k \in K : \E i \in DOMAIN keys : keys[i] = k
  <2> HIDE DEF K
  <2>1. keys \in [1..Cardinality(K) -> K] /\ \A a, b \in DOMAIN keys : keys[a] = keys[b] => a = b
    BY <1>1, <1>3, SequencesExist
  <2> QED BY <1>3, <2>1, SequenceOfSet
<1>5. \A i \in DOMAIN keys : /\ keys[i] \in K
                             /\ items[i].key = keys[i] /\ items[i].score = entries[keys[i]].score
                             /\ items[i].tags = entries[keys[i]].tags /\ items[i] \in IocItem
  <2> TAKE i \in DOMAIN keys
  <2>1. keys[i] \in K /\ keys[i] \in IocKey
    BY <1>4
  <2> QED BY <1>2, <2>1 DEF IocItem
<1>6. DOMAIN keys = 1..Len(keys) /\ Len(keys) \in Nat
  BY <1>4
<1>7. items \in Seq(IocItem) /\ Len(items) = Len(keys)
  BY <1>2, <1>5, <1>6
<1> QED BY <1>4, <1>5, <1>6, <1>7 DEF items

(* A process that starts from items holds what they tell.                  *)
LEMMA FreshHolds ==
  ASSUME NEW items \in Seq(IocItem)
  PROVE  /\ Holds(Indicators!AddAll(Indicators!Empty, items), AddsIn(Indicators!Told(items)))
         /\ Indicators!AddAll(Indicators!Empty, items).stats.hits = 0
         /\ Indicators!AddAll(Indicators!Empty, items).stats.misses = 0
<1>1. <<>> \in [{} -> IocEntry] /\ DOMAIN <<>> = {}
  OBVIOUS
<1>2. Indicators!Empty \in Database
  BY <1>1, IsDatabase DEF Indicators!Empty
<1>3. Holds(Indicators!Empty, {})
  <2>1. /\ DOMAIN Indicators!Empty.index = {} /\ Indicators!Empty.stats.total = 0
        /\ Indicators!Empty.stats.hits = 0 /\ Indicators!Empty.stats.misses = 0
    BY DEF Indicators!Empty
  <2> QED BY <1>2, <2>1, FS_EmptySet DEF Holds
<1>4. Indicators!Empty.stats.hits = 0 /\ Indicators!Empty.stats.misses = 0
  BY DEF Indicators!Empty
<1>5. {} \cup Tuples(items, Len(items)) = AddsIn(Indicators!Told(items))
  BY ToldItems
<1> QED BY <1>3, <1>4, <1>5, AddAllHolds

(* That an entry of this score and these tags has been told of.            *)
Covered(A, k, score, tags) ==
  /\ \E x \in A : x[1] = k /\ score <= x[2]
  /\ \A tag \in tags : \E x \in A : x[1] = k /\ tag \in x[3]

IocInv ==
  /\ s5 \in Seq(IocAddition \cup IocQuery)
  /\ Holds([index |-> s1, bloom |-> s2, stats |-> s3], AddsIn(s5))
  /\ s3.hits + s3.misses = Cardinality(AskedIn(s5))
  /\ DOMAIN s4 \in SUBSET IocKey
  /\ \A k \in DOMAIN s4 : /\ s4[k].score \in Nat /\ s4[k].tags \in SUBSET IocTags
                          /\ Covered(AddsIn(s5), k, s4[k].score, s4[k].tags)

LEMMA HoldsCovers ==
  ASSUME NEW s, NEW A, Holds(s, A), NEW k, NEW score \in Nat, NEW tags, Covered(A, k, score, tags)
  PROVE  k \in DOMAIN s.index /\ score <= s.index[k].score /\ tags \subseteq s.index[k].tags
<1>1. k \in DOMAIN s.index
  BY DEF Holds, Covered
<1>2. s.index[k].score \in Nat /\ \A x \in A : x[2] \in Nat
  <2>1. s \in Database
    BY DEF Holds
  <2>2. s.index \in [DOMAIN s.index -> IocEntry]
    BY <2>1, DatabaseType
  <2> QED BY <1>1, <2>2 DEF Holds, IocEntry
<1> QED BY <1>1, <1>2 DEF Holds, Covered

LEMMA BuiltInType ==
  /\ DOMAIN BuiltIn \in SUBSET IocKey
  /\ \A k \in DOMAIN BuiltIn : /\ BuiltIn[k].score \in Nat /\ BuiltIn[k].tags \in SUBSET IocTags
                               /\ BuiltIn[k].ioc_type \in IocKind
BY IndicatorAssumption DEF IocKind, IocTags

LEMMA DemoItemsType == Indicators!DemoItems \in Seq(IocItem)
<1> DEFINE types == [k \in DOMAIN BuiltIn |-> BuiltIn[k].ioc_type]
<1>1. \A k \in DOMAIN BuiltIn : types[k] \in IocKind
  BY BuiltInType
<1>2. Indicators!DemoItems = Indicators!Items(BuiltIn, types)
  BY DEF Indicators!DemoItems
<1> HIDE DEF types
<1> QED BY <1>1, <1>2, BuiltInType, ItemsOfEntries

LEMMA FreshKeeps ==
  ASSUME NEW items \in Seq(IocItem), NEW index, NEW bloom, NEW stats, NEW told,
         LET s == Indicators!AddAll(Indicators!Empty, items)
         IN index = s.index /\ bloom = s.bloom /\ stats = s.stats,
         told = Indicators!Told(items)
  PROVE  /\ told \in Seq(IocAddition \cup IocQuery)
         /\ Holds([index |-> index, bloom |-> bloom, stats |-> stats], AddsIn(told))
         /\ stats.hits + stats.misses = Cardinality(AskedIn(told))
<1> DEFINE s == Indicators!AddAll(Indicators!Empty, items)
<1>1. index = s.index /\ bloom = s.bloom /\ stats = s.stats
  OBVIOUS
<1>2. Holds(s, AddsIn(told)) /\ s.stats.hits = 0 /\ s.stats.misses = 0
  BY FreshHolds
<1> HIDE DEF s
<1>3. s \in Database
  BY <1>2 DEF Holds
<1>4. s = [index |-> index, bloom |-> bloom, stats |-> stats]
  BY <1>1, <1>3, DatabaseType
<1>5. Cardinality(AskedIn(told)) = 0
  BY ToldItems, FS_EmptySet
<1>6. told \in Seq(IocAddition \cup IocQuery)
  BY ToldItems
<1> QED BY <1>1, <1>2, <1>4, <1>5, <1>6

LEMMA IocInvInit == Indicators!IocInit => IocInv
<1> SUFFICES ASSUME Indicators!IocInit PROVE IocInv
  OBVIOUS
<1>1. /\ s5 = Indicators!Told(Indicators!DemoItems) /\ s4 = <<>>
      /\ LET s == Indicators!AddAll(Indicators!Empty, Indicators!DemoItems)
         IN s1 = s.index /\ s2 = s.bloom /\ s3 = s.stats
  BY DEF Indicators!IocInit
<1>2. /\ s5 \in Seq(IocAddition \cup IocQuery)
      /\ Holds([index |-> s1, bloom |-> s2, stats |-> s3], AddsIn(s5))
      /\ s3.hits + s3.misses = Cardinality(AskedIn(s5))
  BY <1>1, DemoItemsType, FreshKeeps
<1>3. DOMAIN s4 = {}
  BY <1>1
<1> QED BY <1>2, <1>3 DEF IocInv

(* More that is told leaves covered what was.                              *)
LEMMA CoveredMore ==
  ASSUME NEW A, NEW B, A \subseteq B, NEW k, NEW score, NEW tags, Covered(A, k, score, tags)
  PROVE  Covered(B, k, score, tags)
BY DEF Covered

LEMMA AddIndicatorKeeps ==
  ASSUME IocInv, NEW key \in IocKey, NEW type \in FeedType, NEW score \in {60, 90}, NEW tags \in SUBSET FeedTag,
         Indicators!AddIndicator(key, type, score, tags)
  PROVE  IocInv'
<1> DEFINE s == [index |-> s1, bloom |-> s2, stats |-> s3]
           t == Indicators!Add(s, key, type, score, tags)
           e == <<key, score, tags>>
<1>1. /\ s5' = Append(s5, e) /\ s4' = s4
      /\ s1' = t.index /\ s2' = t.bloom /\ s3' = t.stats
  BY DEF Indicators!AddIndicator, Indicators!Become, Indicators!Now
<1>2. score \in Nat /\ type \in IocKind /\ tags \in SUBSET IocTags /\ e \in IocAddition
  BY DEF IocKind, IocTags, IocAddition
<1>3. Holds(s, AddsIn(s5)) /\ s5 \in Seq(IocAddition \cup IocQuery)
  BY DEF IocInv
<1>4. Holds(t, AddsIn(s5) \cup {e}) /\ t.stats.hits = s.stats.hits /\ t.stats.misses = s.stats.misses
  <2> HIDE DEF s
  <2>1. \A A : Holds(s, A) =>
          /\ Holds(Indicators!Add(s, key, type, score, tags), A \cup {<<key, score, tags>>})
          /\ Indicators!Add(s, key, type, score, tags).stats.hits = s.stats.hits
          /\ Indicators!Add(s, key, type, score, tags).stats.misses = s.stats.misses
    BY <1>2, AddHolds
  <2> QED BY <1>3, <2>1
<1>5. s.stats = s3
  OBVIOUS
<1> HIDE DEF s, t, e
<1>6. /\ s5' \in Seq(IocAddition \cup IocQuery) /\ AddsIn(s5') = AddsIn(s5) \cup {e}
      /\ AskedIn(s5') = AskedIn(s5)
  BY <1>1, <1>2, <1>3, ToldMore
<1>7. t = [index |-> s1', bloom |-> s2', stats |-> s3']
  <2>1. t \in Database
    BY <1>4 DEF Holds
  <2> QED BY <1>1, <2>1, DatabaseType
<1>8. Holds([index |-> s1', bloom |-> s2', stats |-> s3'], AddsIn(s5'))
  BY <1>4, <1>6, <1>7
<1>9. s3'.hits + s3'.misses = Cardinality(AskedIn(s5'))
  BY <1>1, <1>4, <1>5, <1>6 DEF IocInv
<1>10. \A k \in DOMAIN s4' : /\ s4'[k].score \in Nat /\ s4'[k].tags \in SUBSET IocTags
                             /\ Covered(AddsIn(s5'), k, s4'[k].score, s4'[k].tags)
  BY <1>1, <1>6, CoveredMore DEF IocInv
<1>11. DOMAIN s4' \in SUBSET IocKey
  BY <1>1 DEF IocInv
<1> QED BY <1>6, <1>8, <1>9, <1>10, <1>11 DEF IocInv

LEMMA QueryKeeps ==
  ASSUME IocInv, NEW key \in IocKey, Indicators!Query(key)
  PROVE  IocInv'
<1> DEFINE s == [index |-> s1, bloom |-> s2, stats |-> s3]
           A == AddsIn(s5)
           e == <<key>>
<1>1. /\ s5' = Append(s5, e) /\ s4' = s4 /\ s2' = s2
  BY DEF Indicators!Query
<1>2. e \in IocQuery /\ s5 \in Seq(IocAddition \cup IocQuery)
  BY DEF IocQuery, IocInv
<1>3. Holds(s, A)
  BY DEF IocInv
<1>4. /\ s1 \in [DOMAIN s1 -> IocEntry] /\ DOMAIN s1 \in SUBSET IocKey /\ s2 \in SUBSET Int
      /\ s3 \in [total : Nat, hits : Nat, misses : Nat]
  <2>1. s \in Database
    BY <1>3 DEF Holds
  <2>2. s.index = s1 /\ s.bloom = s2 /\ s.stats = s3
    OBVIOUS
  <2> HIDE DEF s
  <2> QED BY <2>1, <2>2, DatabaseType
<1>5. /\ \/ s1' = s1
         \/ key \in DOMAIN s1 /\ s1' = [s1 EXCEPT ![key].hit_count = @ + 1]
      /\ \/ s3' = [s3 EXCEPT !.hits = @ + 1]
         \/ s3' = [s3 EXCEPT !.misses = @ + 1]
  BY DEF Indicators!Query
<1>6. /\ s3' \in [total : Nat, hits : Nat, misses : Nat] /\ s3'.total = s3.total
      /\ s3'.hits + s3'.misses = (s3.hits + s3.misses) + 1
  BY <1>4, <1>5
<1>7. /\ s1' \in [DOMAIN s1 -> IocEntry] /\ DOMAIN s1' = DOMAIN s1
      /\ \A k \in DOMAIN s1 : s1'[k].score = s1[k].score /\ s1'[k].tags = s1[k].tags
  <2>1. CASE s1' = s1
    BY <1>4, <2>1
  <2>2. CASE key \in DOMAIN s1 /\ s1' = [s1 EXCEPT ![key].hit_count = @ + 1]
    <3> DEFINE f == [s1[key] EXCEPT !.hit_count = @ + 1]
    <3>1. s1[key] \in IocEntry
      BY <1>4, <2>2
    <3>2. f \in IocEntry /\ f.score = s1[key].score /\ f.tags = s1[key].tags
      BY <3>1 DEF IocEntry
    <3>3. s1' = [s1 EXCEPT ![key] = f]
      BY <2>2
    <3> HIDE DEF f
    <3> QED BY <1>4, <2>2, <3>2, <3>3
  <2> QED BY <1>5, <2>1, <2>2
<1> DEFINE t == [index |-> s1', bloom |-> s2', stats |-> s3']
<1>8. t \in Database
  BY <1>1, <1>4, <1>6, <1>7, IsDatabase
<1>9. t.index = s1' /\ t.bloom = s2' /\ t.stats = s3' /\ s.index = s1 /\ s.bloom = s2 /\ s.stats = s3
  OBVIOUS
<1> HIDE DEF s, t, e
<1>10. Holds(t, A)
  <2>1. /\ A \subseteq IocKey \X Nat \X SUBSET IocTags
        /\ \A k : k \in DOMAIN s1 <=> \E x \in A : x[1] = k
        /\ s3.total = Cardinality(DOMAIN s1)
        /\ \A k \in DOMAIN s1 :
             /\ BloomBits[k] \subseteq s2
             /\ \A x \in A : x[1] = k => x[2] <= s1[k].score
             /\ \E x \in A : x[1] = k /\ x[2] = s1[k].score
             /\ \A tag : tag \in s1[k].tags <=> \E x \in A : x[1] = k /\ tag \in x[3]
    BY <1>3, <1>9 DEF Holds
  <2>2. \A k \in DOMAIN s1' :
             /\ BloomBits[k] \subseteq s2'
             /\ \A x \in A : x[1] = k => x[2] <= s1'[k].score
             /\ \E x \in A : x[1] = k /\ x[2] = s1'[k].score
             /\ \A tag : tag \in s1'[k].tags <=> \E x \in A : x[1] = k /\ tag \in x[3]
    <3> SUFFICES ASSUME NEW k \in DOMAIN s1
                 PROVE  /\ BloomBits[k] \subseteq s2'
                        /\ \A x \in A : x[1] = k => x[2] <= s1'[k].score
                        /\ \E x \in A : x[1] = k /\ x[2] = s1'[k].score
                        /\ \A tag : tag \in s1'[k].tags <=> \E x \in A : x[1] = k /\ tag \in x[3]
      BY <1>7
    <3>1. s1'[k].score = s1[k].score /\ s1'[k].tags = s1[k].tags /\ s2' = s2
      BY <1>1, <1>7
    <3>2. /\ BloomBits[k] \subseteq s2
          /\ \A x \in A : x[1] = k => x[2] <= s1[k].score
          /\ \E x \in A : x[1] = k /\ x[2] = s1[k].score
          /\ \A tag : tag \in s1[k].tags <=> \E x \in A : x[1] = k /\ tag \in x[3]
      BY <2>1
    <3> QED BY <3>1, <3>2
  <2>3. s3'.total = Cardinality(DOMAIN s1') /\ \A k : k \in DOMAIN s1' <=> \E x \in A : x[1] = k
    BY <1>6, <1>7, <2>1
  <2> QED BY <1>8, <1>9, <2>1, <2>2, <2>3 DEF Holds
<1> HIDE DEF A
<1>11. /\ s5' \in Seq(IocAddition \cup IocQuery) /\ AddsIn(s5') = A
       /\ Cardinality(AskedIn(s5')) = Cardinality(AskedIn(s5)) + 1
  BY <1>1, <1>2, ToldMore DEF A
<1>12. Holds([index |-> s1', bloom |-> s2', stats |-> s3'], AddsIn(s5'))
  BY <1>10, <1>11 DEF t
<1>13. s3'.hits + s3'.misses = Cardinality(AskedIn(s5'))
  BY <1>6, <1>11 DEF IocInv
<1>14. \A k \in DOMAIN s4' : /\ s4'[k].score \in Nat /\ s4'[k].tags \in SUBSET IocTags
                             /\ Covered(AddsIn(s5'), k, s4'[k].score, s4'[k].tags)
  BY <1>1, <1>11 DEF IocInv, A
<1>15. DOMAIN s4' \in SUBSET IocKey
  BY <1>1 DEF IocInv
<1> QED BY <1>11, <1>12, <1>13, <1>14, <1>15 DEF IocInv

LEMMA ExportKeeps ==
  ASSUME IocInv, Indicators!ExportJson
  PROVE  IocInv'
<1> DEFINE s == [index |-> s1, bloom |-> s2, stats |-> s3]
           A == AddsIn(s5)
<1>1. /\ s4' = [k \in DOMAIN s1 |-> [score |-> s1[k].score, tags |-> s1[k].tags]]
      /\ s1' = s1 /\ s2' = s2 /\ s3' = s3 /\ s5' = s5
  BY DEF Indicators!ExportJson
<1>2. Holds(s, A) /\ s.index = s1
  BY DEF IocInv
<1> HIDE DEF s, A
<1>3. /\ DOMAIN s1 \in SUBSET IocKey
      /\ \A k \in DOMAIN s1 : s1[k].score \in Nat /\ s1[k].tags \in SUBSET IocTags
  <2>1. s \in Database
    BY <1>2 DEF Holds
  <2>2. s1 \in [DOMAIN s1 -> IocEntry] /\ DOMAIN s1 \in SUBSET IocKey
    BY <1>2, <2>1, DatabaseType
  <2> QED BY <2>2 DEF IocEntry
<1>4. \A k \in DOMAIN s1 : Covered(A, k, s1[k].score, s1[k].tags)
  BY <1>2, <1>3 DEF Holds, Covered
<1>5. \A k \in DOMAIN s4' : /\ k \in DOMAIN s1 /\ s4'[k].score = s1[k].score /\ s4'[k].tags = s1[k].tags
  BY <1>1
<1>6. \A k \in DOMAIN s4' : /\ s4'[k].score \in Nat /\ s4'[k].tags \in SUBSET IocTags
                            /\ Covered(AddsIn(s5'), k, s4'[k].score, s4'[k].tags)
  BY <1>1, <1>3, <1>4, <1>5 DEF A
<1>7. DOMAIN s4' \in SUBSET IocKey
  BY <1>3, <1>5
<1>8. /\ s5' \in Seq(IocAddition \cup IocQuery)
      /\ Holds([index |-> s1', bloom |-> s2', stats |-> s3'], AddsIn(s5'))
      /\ s3'.hits + s3'.misses = Cardinality(AskedIn(s5'))
  BY <1>1 DEF IocInv
<1> QED BY <1>6, <1>7, <1>8 DEF IocInv

LEMMA RestartKeeps ==
  ASSUME IocInv, Indicators!RestartFromExport
  PROVE  IocInv'
<1> DEFINE demo == Indicators!DemoItems
           read == Indicators!Items(s4, SeenType)
           items == demo \o read
           n == Len(items)
<1>1. /\ s5' = Indicators!Told(items) /\ s4' = s4
      /\ LET s == Indicators!AddAll(Indicators!Empty, items)
         IN s1' = s.index /\ s2' = s.bloom /\ s3' = s.stats
  BY DEF Indicators!RestartFromExport, Indicators!Become
<1>2. /\ DOMAIN s4 \in SUBSET IocKey
      /\ \A k \in DOMAIN s4 : s4[k].score \in Nat /\ s4[k].tags \in SUBSET IocTags
  BY DEF IocInv
<1>3. \A k \in DOMAIN s4 : SeenType[k] \in IocKind
  BY <1>2, IndicatorAssumption DEF IocKind
<1>4. /\ read \in Seq(IocItem)
      /\ \A k \in DOMAIN s4 : \E i \in 1..Len(read) :
           read[i].key = k /\ read[i].score = s4[k].score /\ read[i].tags = s4[k].tags
  BY <1>2, <1>3, ItemsOfEntries
<1> HIDE DEF demo, read
<1>5. demo \in Seq(IocItem)
  BY DemoItemsType DEF demo
<1>6. items \in Seq(IocItem) /\ \A i \in 1..Len(read) : Len(demo) + i \in 1..n /\ items[Len(demo) + i] = read[i]
  BY <1>4, <1>5
<1> HIDE DEF items, n
<1>7. /\ s5' \in Seq(IocAddition \cup IocQuery)
      /\ Holds([index |-> s1', bloom |-> s2', stats |-> s3'], AddsIn(s5'))
      /\ s3'.hits + s3'.misses = Cardinality(AskedIn(s5'))
  BY <1>1, <1>6, FreshKeeps
<1>8. AddsIn(s5') = Tuples(items, n)
  BY <1>1, <1>6, ToldItems DEF n
<1>9. ASSUME NEW k \in DOMAIN s4
      PROVE  Covered(AddsIn(s5'), k, s4[k].score, s4[k].tags)
  <2>1. PICK i \in 1..Len(read) : read[i].key = k /\ read[i].score = s4[k].score /\ read[i].tags = s4[k].tags
    BY <1>4
  <2>2. /\ Len(demo) + i \in 1..n /\ items[Len(demo) + i].key = k
        /\ items[Len(demo) + i].score = s4[k].score /\ items[Len(demo) + i].tags = s4[k].tags
    BY <1>6, <2>1
  <2>3. <<k, s4[k].score, s4[k].tags>> \in AddsIn(s5')
    BY <1>8, <2>2 DEF Tuples
  <2>4. s4[k].score <= s4[k].score
    BY <1>2
  <2> DEFINE x == <<k, s4[k].score, s4[k].tags>>
  <2>5. x[1] = k /\ x[2] = s4[k].score /\ x[3] = s4[k].tags /\ x \in AddsIn(s5')
    BY <2>3
  <2> HIDE DEF x
  <2> QED BY <2>4, <2>5 DEF Covered
<1>10. \A k \in DOMAIN s4' : /\ s4'[k].score \in Nat /\ s4'[k].tags \in SUBSET IocTags
                             /\ Covered(AddsIn(s5'), k, s4'[k].score, s4'[k].tags)
  BY <1>1, <1>2, <1>9
<1>11. DOMAIN s4' \in SUBSET IocKey
  BY <1>1, <1>2
<1> QED BY <1>7, <1>10, <1>11 DEF IocInv

LEMMA IocInvStep ==
  part = "indicators" /\ IocInv /\ [Next]_slots => IocInv'
<1> SUFFICES ASSUME part = "indicators", IocInv, [Next]_slots PROVE IocInv'
  OBVIOUS
<1>1. CASE UNCHANGED <<s1, s2, s3, s4, s5>>
  BY <1>1 DEF IocInv
<1> QED
  BY OnlyIndicators, <1>1, AddIndicatorKeeps, QueryKeeps, ExportKeeps, RestartKeeps DEF Indicators!IocNext

LEMMA IocInvGives == IocInv => Indicators!IndicatorsAreKept
<1> SUFFICES ASSUME IocInv PROVE Indicators!IndicatorsAreKept
  OBVIOUS
<1> DEFINE s == [index |-> s1, bloom |-> s2, stats |-> s3]
           A == AddsIn(s5)
<1>1. Holds(s, A) /\ s.index = s1 /\ s.bloom = s2 /\ s.stats = s3
  BY DEF IocInv
<1>2. Indicators!Adds = A /\ Indicators!Asked = AskedIn(s5)
  BY DEF Indicators!Adds, Indicators!Asked, AddsIn, AskedIn
<1> HIDE DEF s, A
<1>3. \A k \in DOMAIN s1 : BloomBits[k] \subseteq s2
  BY <1>1 DEF Holds
<1>4. DOMAIN s1 = {x[1] : x \in A} /\ s3.total = Cardinality(DOMAIN s1)
  BY <1>1 DEF Holds
<1>5. ASSUME NEW k \in DOMAIN s1
      PROVE  LET mine == {x \in A : x[1] = k}
             IN s1[k].score = Indicators!Max({x[2] : x \in mine}) /\ s1[k].tags = UNION {x[3] : x \in mine}
  <2> DEFINE mine == {x \in A : x[1] = k}
             S == {x[2] : x \in mine}
  <2>1. /\ \A x \in A : x[1] = k => x[2] <= s1[k].score
        /\ \E x \in A : x[1] = k /\ x[2] = s1[k].score
        /\ \A tag : tag \in s1[k].tags <=> \E x \in A : x[1] = k /\ tag \in x[3]
        /\ \A x \in A : x[2] \in Nat
    BY <1>1 DEF Holds
  <2>2. s1[k].score \in S /\ \A y \in S : s1[k].score >= y /\ y \in Nat
    BY <2>1
  <2> HIDE DEF S
  <2>3. Indicators!Max(S) = CHOOSE x \in S : \A y \in S : x >= y
    BY DEF Indicators!Max
  <2>4. Indicators!Max(S) \in S /\ \A y \in S : Indicators!Max(S) >= y
    BY <2>2, <2>3
  <2>5. s1[k].score = Indicators!Max(S)
    BY <2>2, <2>4
  <2>6. s1[k].tags = UNION {x[3] : x \in mine}
    BY <2>1
  <2> QED BY <2>5, <2>6 DEF S
<1>6. \A k \in DOMAIN s4 : k \in DOMAIN s1 /\ s4[k].score <= s1[k].score /\ s4[k].tags \subseteq s1[k].tags
  <2> SUFFICES ASSUME NEW k \in DOMAIN s4
               PROVE k \in DOMAIN s1 /\ s4[k].score <= s1[k].score /\ s4[k].tags \subseteq s1[k].tags
    OBVIOUS
  <2>1. s4[k].score \in Nat /\ Covered(A, k, s4[k].score, s4[k].tags)
    BY DEF IocInv, A
  <2> QED BY <1>1, <2>1, HoldsCovers
<1>7. s3.hits + s3.misses = Cardinality(AskedIn(s5))
  BY DEF IocInv
<1>8. \A T : Indicators!Cardinality(T) = Cardinality(T)
  BY DEF Indicators!Cardinality, Cardinality
<1> QED
  BY <1>2, <1>3, <1>4, <1>5, <1>6, <1>7, <1>8 DEF Indicators!IndicatorsAreKept

-----------------------------------------------------------------------------
\* The deception engine.

LEMMA OnlyCanaries ==
  part = "canaries" /\ [Next]_slots =>
    part' = part /\ (Canaries!DeceptionNext \/ UNCHANGED <<s1, s2, s3, s4, s5, s6, s7, s8, s9, s10>>)
BY DEF Next, slots

(* Of a finding, what was done to the canary.                              *)
TellsTruth(told, touched) ==
  \A f \in told : \/ f.type = "accessed" /\ <<f.canary, "read">> \in touched
                  \/ f.type = "modified" /\ <<f.canary, "write">> \in touched
                  \/ f.type = "missing"  /\ <<f.canary, "delete">> \in touched
                  \/ f.type = "exfil"    /\ <<f.canary, "copy">> \in touched
                  \/ f.type = "executed" /\ <<f.canary, "run">> \in touched

(* Of the world, what was done to it.                                      *)
WorldAsTouched(disk, copied, procs, touched) ==
  /\ DOMAIN disk \subseteq DOMAIN Canary
  /\ \A c \in DOMAIN Canary : c \notin DOMAIN disk => <<c, "delete">> \in touched
  /\ \A c \in DOMAIN disk : /\ disk[c].atime \in Nat
                            /\ disk[c].atime # 0 => <<c, "read">> \in touched
                            /\ disk[c].size # 1 => <<c, "write">> \in touched
  /\ \A f \in copied : <<f.canary, "copy">> \in touched
  /\ \A c \in procs : <<c, "run">> \in touched

(* Of what is noted, what was told.                                        *)
ToldOf(told, c, type) == \E f \in told : f.canary = c /\ f.type = type
NotedAsTold(notes, told) ==
  \A c \in DOMAIN Canary : /\ notes[c].atime \in Nat
                           /\ notes[c].atime # 0 => ToldOf(told, c, "accessed")
                           /\ notes[c].size # 1 => ToldOf(told, c, "modified")

CanaryInv ==
  /\ s4 \in Nat
  /\ WorldAsTouched(s1, s2, s3, s9) /\ TellsTruth(s8, s9)
  /\ NotedAsTold(s5, s8) /\ NotedAsTold(s6, s8)
  /\ \A s \in s7 : ToldOf(s8, s[2], s[1])

LEMMA CanaryInvInit == Canaries!DeceptionInit => CanaryInv
BY DEF Canaries!DeceptionInit, Canaries!Deployed, Canaries!Names, CanaryInv, WorldAsTouched, TellsTruth,
       NotedAsTold, ToldOf

(* What is done to a canary is written into the history of it.             *)
LEMMA TouchKeeps ==
  ASSUME CanaryInv, NEW c \in DOMAIN Canary,
         \/ Canaries!ReadCanary(c) \/ Canaries!Grow(c) \/ Canaries!Delete(c) \/ Canaries!Copy(c) \/ Canaries!Run(c)
  PROVE  CanaryInv'
<1>1. /\ s9 \subseteq s9' /\ c \in DOMAIN s1
      /\ s4' = s4 /\ s5' = s5 /\ s6' = s6 /\ s7' = s7 /\ s8' = s8
  BY DEF Canaries!ReadCanary, Canaries!Grow, Canaries!Delete, Canaries!Copy, Canaries!Run, Canaries!Touch
<1>2. WorldAsTouched(s1, s2, s3, s9) /\ s4 \in Nat
  BY DEF CanaryInv
<1>3. WorldAsTouched(s1', s2', s3', s9')
  <2>1. CASE Canaries!ReadCanary(c)
    <3>1. s9' = s9 \cup {<<c, "read">>} /\ s1' = [s1 EXCEPT ![c].atime = s4] /\ s2' = s2 /\ s3' = s3
      BY <2>1 DEF Canaries!ReadCanary, Canaries!Touch
    <3>2. /\ DOMAIN s1' = DOMAIN s1
          /\ \A d \in DOMAIN s1 : /\ s1'[d].size = s1[d].size \/ s1'[d] = [s1[d] EXCEPT !.atime = s4]
                                  /\ d # c => s1'[d] = s1[d]
      BY <1>1, <3>1
    <3> QED BY <1>1, <1>2, <3>1, <3>2 DEF WorldAsTouched
  <2>2. CASE Canaries!Grow(c)
    BY <1>1, <1>2, <2>2 DEF Canaries!Grow, Canaries!Touch, WorldAsTouched
  <2>3. CASE Canaries!Delete(c)
    BY <1>1, <1>2, <2>3 DEF Canaries!Delete, Canaries!Touch, WorldAsTouched
  <2>4. CASE Canaries!Copy(c)
    BY <1>1, <1>2, <2>4 DEF Canaries!Copy, Canaries!Touch, WorldAsTouched
  <2>5. CASE Canaries!Run(c)
    BY <1>1, <1>2, <2>5 DEF Canaries!Run, Canaries!Touch, WorldAsTouched
  <2> QED BY <2>1, <2>2, <2>3, <2>4, <2>5
<1>4. TellsTruth(s8', s9')
  BY <1>1 DEF CanaryInv, TellsTruth
<1> QED BY <1>1, <1>3, <1>4 DEF CanaryInv

(* A pass tells of what it notes, and only of what was done.               *)
LEMMA RunOnceKeeps ==
  ASSUME CanaryInv, Canaries!RunOnce
  PROVE  CanaryInv'
<1> DEFINE missing == Canaries!Missing
           accessed == Canaries!Accessed
           resized == Canaries!Resized
           executed == Canaries!Executed
           staged == Canaries!Staged
           told(type, c) == [canary |-> c, type |-> type, at |-> s4]
           seen(type, c) == <<type, c>> \in s7
<1>1. /\ s1' = s1 /\ s2' = s2 /\ s3' = s3 /\ s4' = s4 /\ s6' = s6 /\ s9' = s9
      /\ s8' = s8 \cup {told("missing", c) : c \in missing} \cup {told("accessed", c) : c \in accessed}
                  \cup {told("modified", c) : c \in resized} \cup {told("executed", c) : c \in {d \in executed : ~seen("executed", d)}}
                  \cup {told("exfil", c) : c \in {d \in staged : ~seen("exfil", d)}}
      /\ s7' = s7 \cup ({"executed"} \X executed) \cup ({"exfil"} \X staged)
      /\ s5' = [c \in DOMAIN Canary |->
                 [atime |-> IF c \in accessed THEN s1[c].atime ELSE s5[c].atime,
                  size |-> IF c \in resized THEN s1[c].size ELSE s5[c].size]]
  BY DEF Canaries!RunOnce, Canaries!New, Canaries!Unseen, Canaries!NotedAtime, Canaries!worldVars, Canaries!Names
<1>2. /\ \A c \in missing : c \in DOMAIN Canary /\ c \notin DOMAIN s1
      /\ \A c \in accessed : c \in DOMAIN Canary /\ c \in DOMAIN s1 /\ s1[c].atime > s5[c].atime + Tolerance
      /\ \A c \in resized : c \in DOMAIN Canary /\ c \in DOMAIN s1 /\ s1[c].size # s5[c].size
      /\ \A c \in executed : c \in s3
      /\ \A c \in staged : \E f \in s2 : f.canary = c
  BY DEF Canaries!Missing, Canaries!Accessed, Canaries!Resized, Canaries!Executed, Canaries!Staged,
         Canaries!Watched, Canaries!Names
<1>3. \A type, c : told(type, c).canary = c /\ told(type, c).type = type
  OBVIOUS
<1> HIDE DEF missing, accessed, resized, executed, staged, told, seen
<1>4. /\ \A f \in s8' : \/ f \in s8
                        \/ \E c \in missing : f = told("missing", c)
                        \/ \E c \in accessed : f = told("accessed", c)
                        \/ \E c \in resized : f = told("modified", c)
                        \/ \E c \in executed : f = told("executed", c)
                        \/ \E c \in staged : f = told("exfil", c)
      /\ s8 \subseteq s8'
      /\ \A c \in accessed : told("accessed", c) \in s8'
      /\ \A c \in resized : told("modified", c) \in s8'
      /\ \A c \in executed : seen("executed", c) \/ told("executed", c) \in s8'
      /\ \A c \in staged : seen("exfil", c) \/ told("exfil", c) \in s8'
  BY <1>1
<1>5. /\ WorldAsTouched(s1, s2, s3, s9) /\ TellsTruth(s8, s9) /\ NotedAsTold(s5, s8) /\ NotedAsTold(s6, s8)
      /\ \A s \in s7 : ToldOf(s8, s[2], s[1])
  BY DEF CanaryInv
<1>6. /\ \A c, type : ToldOf(s8, c, type) => ToldOf(s8', c, type)
      /\ \A c, type : told(type, c) \in s8' => ToldOf(s8', c, type)
  BY <1>3, <1>4 DEF ToldOf
<1>11. \A c, type : seen(type, c) => ToldOf(s8', c, type)
  <2> SUFFICES ASSUME NEW c, NEW type, seen(type, c) PROVE ToldOf(s8', c, type)
    OBVIOUS
  <2> DEFINE s == <<type, c>>
  <2>1. s \in s7 /\ s[1] = type /\ s[2] = c
    BY DEF seen
  <2> HIDE DEF s
  <2> QED BY <1>5, <1>6, <2>1
<1>7. TellsTruth(s8', s9)
  <2>1. \A c \in missing : <<c, "delete">> \in s9
    BY <1>2, <1>5 DEF WorldAsTouched
  <2>2. \A c \in accessed : <<c, "read">> \in s9
    <3> SUFFICES ASSUME NEW c \in accessed PROVE <<c, "read">> \in s9
      OBVIOUS
    <3>1. s1[c].atime > s5[c].atime + Tolerance /\ s1[c].atime \in Nat /\ s5[c].atime \in Nat
      BY <1>2, <1>5 DEF WorldAsTouched, NotedAsTold
    <3>2. s1[c].atime # 0
      BY <3>1, CanaryAssumption
    <3> QED BY <1>2, <1>5, <3>2 DEF WorldAsTouched
  <2>3. \A c \in resized : <<c, "write">> \in s9
    <3> SUFFICES ASSUME NEW c \in resized PROVE <<c, "write">> \in s9
      OBVIOUS
    <3>1. CASE s1[c].size # 1
      BY <1>2, <1>5, <3>1 DEF WorldAsTouched
    <3>2. CASE s5[c].size # 1
      <4>1. ToldOf(s8, c, "modified")
        BY <1>2, <1>5, <3>2 DEF NotedAsTold
      <4> QED BY <1>5, <4>1 DEF ToldOf, TellsTruth
    <3> QED BY <1>2, <3>1, <3>2
  <2>4. \A c \in executed : <<c, "run">> \in s9
    BY <1>2, <1>5 DEF WorldAsTouched
  <2>5. \A c \in staged : <<c, "copy">> \in s9
    BY <1>2, <1>5 DEF WorldAsTouched
  <2> SUFFICES ASSUME NEW f \in s8'
               PROVE  \/ f.type = "accessed" /\ <<f.canary, "read">> \in s9
                      \/ f.type = "modified" /\ <<f.canary, "write">> \in s9
                      \/ f.type = "missing"  /\ <<f.canary, "delete">> \in s9
                      \/ f.type = "exfil"    /\ <<f.canary, "copy">> \in s9
                      \/ f.type = "executed" /\ <<f.canary, "run">> \in s9
    BY DEF TellsTruth
  <2>6. ASSUME NEW c \in missing, f = told("missing", c) PROVE f.type = "missing" /\ <<f.canary, "delete">> \in s9
    BY <1>3, <2>1, <2>6
  <2>7. ASSUME NEW c \in accessed, f = told("accessed", c) PROVE f.type = "accessed" /\ <<f.canary, "read">> \in s9
    BY <1>3, <2>2, <2>7
  <2>8. ASSUME NEW c \in resized, f = told("modified", c) PROVE f.type = "modified" /\ <<f.canary, "write">> \in s9
    BY <1>3, <2>3, <2>8
  <2>9. ASSUME NEW c \in executed, f = told("executed", c) PROVE f.type = "executed" /\ <<f.canary, "run">> \in s9
    BY <1>3, <2>4, <2>9
  <2>10. ASSUME NEW c \in staged, f = told("exfil", c) PROVE f.type = "exfil" /\ <<f.canary, "copy">> \in s9
    BY <1>3, <2>5, <2>10
  <2> QED BY <1>4, <1>5, <2>6, <2>7, <2>8, <2>9, <2>10 DEF TellsTruth
<1>8. NotedAsTold(s5', s8')
  <2>1. \A c \in DOMAIN Canary : /\ s5'[c].atime = IF c \in accessed THEN s1[c].atime ELSE s5[c].atime
                                 /\ s5'[c].size = IF c \in resized THEN s1[c].size ELSE s5[c].size
    BY <1>1
  <2>2. \A c \in accessed : s1[c].atime \in Nat /\ ToldOf(s8', c, "accessed")
    BY <1>2, <1>4, <1>5, <1>6 DEF WorldAsTouched
  <2>3. \A c \in resized : ToldOf(s8', c, "modified")
    BY <1>4, <1>6
  <2> QED BY <1>5, <1>6, <2>1, <2>2, <2>3 DEF NotedAsTold
<1>9. NotedAsTold(s6', s8')
  BY <1>1, <1>5, <1>6 DEF NotedAsTold
<1>10. \A s \in s7' : ToldOf(s8', s[2], s[1])
  <2>1. \A c \in executed : ToldOf(s8', c, "executed")
    BY <1>4, <1>6, <1>11
  <2>2. \A c \in staged : ToldOf(s8', c, "exfil")
    BY <1>4, <1>6, <1>11
  <2> QED BY <1>1, <1>5, <1>6, <2>1, <2>2
<1> QED BY <1>1, <1>5, <1>7, <1>8, <1>9, <1>10 DEF CanaryInv

LEMMA CanaryInvStep ==
  part = "canaries" /\ CanaryInv /\ [Next]_slots => CanaryInv'
<1> SUFFICES ASSUME part = "canaries", CanaryInv, [Next]_slots PROVE CanaryInv'
  OBVIOUS
<1>1. ASSUME NEW n \in 1..2, Canaries!Pass(n) PROVE CanaryInv'
  BY <1>1 DEF Canaries!Pass, Canaries!worldVars, CanaryInv
<1>2. CASE Canaries!StartWatch
  BY <1>2 DEF Canaries!StartWatch, Canaries!worldVars, CanaryInv
<1>3. CASE Canaries!SaveManifest
  BY <1>3 DEF Canaries!SaveManifest, Canaries!worldVars, CanaryInv
<1>4. CASE Canaries!StopWatch
  BY <1>4 DEF Canaries!StopWatch, Canaries!worldVars, CanaryInv
<1>5. CASE UNCHANGED <<s1, s2, s3, s4, s5, s6, s7, s8, s9, s10>>
  BY <1>5 DEF CanaryInv
<1> QED
  BY OnlyCanaries, <1>1, <1>2, <1>3, <1>4, <1>5, TouchKeeps, RunOnceKeeps
  DEF Canaries!DeceptionNext, Canaries!Names

LEMMA CanaryInvGives == CanaryInv => Canaries!CanariesTellTheTruth
<1> SUFFICES ASSUME CanaryInv PROVE Canaries!CanariesTellTheTruth
  OBVIOUS
<1>1. \A f \in s8 : <<f.canary, Canaries!Cause[f.type]>> \in s9
  <2>1. /\ Canaries!Cause["accessed"] = "read" /\ Canaries!Cause["modified"] = "write"
        /\ Canaries!Cause["missing"] = "delete" /\ Canaries!Cause["exfil"] = "copy"
        /\ Canaries!Cause["executed"] = "run"
    BY DEF Canaries!Cause
  <2> QED BY <2>1 DEF CanaryInv, TellsTruth
<1>2. \A c, type : Canaries!Told(c, type) <=> ToldOf(s8, c, type)
  BY DEF Canaries!Told, ToldOf
<1> QED BY <1>1, <1>2 DEF CanaryInv, NotedAsTold, Canaries!CanariesTellTheTruth, Canaries!Names

-----------------------------------------------------------------------------
\* The network mapper.

LEMMA OnlyDevices ==
  part = "devices" /\ [Next]_slots =>
    part' = part /\ (Devices!MapperNext \/ UNCHANGED <<s1, s2, s3, s4, s5, s6>>)
BY DEF Next, slots

Network == [Address -> Device \cup {"free"}]

(* The hosts of a sweep of network n: one each at some of its addresses,   *)
(* known by the MAC address of the device there or by none.                *)
SweptFrom(hosts, n) ==
  /\ \A h \in hosts : h.ip \in Address /\ n[h.ip] # "free" /\ h.mac \in {n[h.ip], "none"}
  /\ \A g, h \in hosts : g.ip = h.ip => g = h

(* What was saved and what was compared are sweeps of the networks that    *)
(* were there, and the rogues are those of the one comparison.             *)
MapInv ==
  /\ s1 \in Network /\ s5.last \in Network /\ s5.saved \in Network
  /\ s2 = {} \/ \E b : s2 = {b}
  /\ \A b \in s2 : SweptFrom(b, s5.saved)
  /\ SweptFrom(s3, s5.last)
  /\ \/ s5.compared = {} /\ s4 = {}
     \/ \E old : /\ s5.compared = {old} /\ s4 = Devices!FindRogues(s3, old.hosts)
                 /\ old.net \in Network /\ SweptFrom(old.hosts, old.net)

LEMMA MapInvInit == Devices!MapperInit => MapInv
<1> SUFFICES ASSUME Devices!MapperInit PROVE MapInv
  OBVIOUS
<1>1. (CHOOSE m \in Device : TRUE) \in Device
  BY DeviceAssumption
<1>2. s1 \in Network
  BY <1>1 DEF Devices!MapperInit, Network
<1>3. s5.last = s1 /\ s5.saved = s1 /\ s5.compared = {} /\ s2 = {} /\ s3 = {} /\ s4 = {}
  BY DEF Devices!MapperInit
<1> QED BY <1>2, <1>3 DEF MapInv, SweptFrom

LEMMA LeaseKeeps ==
  ASSUME MapInv, NEW a \in Address, NEW m \in Device \cup {"free"}, Devices!Lease(a, m)
  PROVE  MapInv'
<1>1. s1' = [s1 EXCEPT ![a] = m] /\ s2' = s2 /\ s3' = s3 /\ s4' = s4 /\ s5' = s5
  BY DEF Devices!Lease
<1>2. s1' \in Network
  BY <1>1 DEF MapInv, Network
<1> QED BY <1>1, <1>2 DEF MapInv

(* Every sweep is one of the network as it is, whatever it can see.        *)
LEMMA SweepIsSwept ==
  ASSUME s1 \in Network, NEW root \in BOOLEAN, NEW probes
  PROVE  SweptFrom(Devices!Sweep(root, probes), s1)
<1>1. ASSUME NEW a, NEW arp, NEW p
      PROVE  Devices!Host(a, arp, p).ip = a /\ Devices!Host(a, arp, p).mac \in {s1[a], "none"}
  BY DEF Devices!Host
<1> DEFINE all(S, arp, p) == {Devices!Host(a, arp, p) : a \in S}
<1>2. ASSUME NEW S \in SUBSET Devices!Live, NEW arp, NEW p
      PROVE  SweptFrom(all(S, arp, p), s1)
  <2>1. \A a \in S : a \in Address /\ s1[a] # "free"
    BY DEF Devices!Live
  <2> DEFINE host(a) == Devices!Host(a, arp, p)
  <2>2. \A a \in S : host(a).ip = a /\ host(a).mac \in {s1[a], "none"}
    BY <1>1
  <2> HIDE DEF host
  <2>3. SweptFrom({host(a) : a \in S}, s1)
    BY <2>1, <2>2 DEF SweptFrom
  <2> QED BY <2>3 DEF host
<1>3. Devices!ArpSweep(root) \cup Devices!PingSweep \in SUBSET Devices!Live
  BY DEF Devices!ArpSweep, Devices!PingSweep
<1> DEFINE found == Devices!ArpSweep(root) \cup Devices!PingSweep
<1>4. /\ SweptFrom(all(found, Devices!ArpSweep(root), probes), s1)
      /\ SweptFrom(all(Devices!Live, Devices!Live, {}), s1)
  <2> HIDE DEF all
  <2> QED BY <1>2, <1>3
<1>5. \/ Devices!Sweep(root, probes) = all(found, Devices!ArpSweep(root), probes)
      \/ Devices!Sweep(root, probes) = all(Devices!Live, Devices!Live, {})
  BY DEF Devices!Sweep
<1> HIDE DEF all, found
<1> QED BY <1>4, <1>5

LEMMA MapNetworkKeeps ==
  ASSUME MapInv, NEW root \in BOOLEAN, NEW save \in BOOLEAN, NEW probes, Devices!MapNetwork(root, probes, save)
  PROVE  MapInv'
<1> DEFINE hosts == Devices!Sweep(root, probes)
<1>1. /\ s3' = hosts /\ s1' = s1
      /\ s4' = UNION {Devices!FindRogues(hosts, saved) : saved \in s2}
      /\ s2' = IF save THEN {hosts} ELSE s2
      /\ s5' = [last |-> s1, saved |-> IF save THEN s1 ELSE s5.saved,
                compared |-> {[net |-> s5.saved, hosts |-> saved] : saved \in s2}]
  BY DEF Devices!MapNetwork
<1>2. SweptFrom(hosts, s1)
  BY SweepIsSwept DEF MapInv
<1> HIDE DEF hosts
<1>3. /\ s5'.last = s1 /\ s5'.saved = IF save THEN s1 ELSE s5.saved
      /\ s5'.compared = {[net |-> s5.saved, hosts |-> saved] : saved \in s2}
  BY <1>1
<1>4. s1' \in Network /\ s5'.last \in Network /\ s5'.saved \in Network
  BY <1>1, <1>3 DEF MapInv
<1>5. (s2' = {} \/ \E b : s2' = {b}) /\ \A b \in s2' : SweptFrom(b, s5'.saved)
  BY <1>1, <1>2, <1>3 DEF MapInv
<1>6. SweptFrom(s3', s5'.last)
  BY <1>1, <1>2, <1>3
<1>7. CASE s2 = {}
  <2>1. s5'.compared = {} /\ s4' = {}
    BY <1>1, <1>3, <1>7
  <2> QED BY <1>4, <1>5, <1>6, <2>1 DEF MapInv
<1>8. CASE s2 # {}
  <2>1. PICK b : s2 = {b}
    BY <1>8 DEF MapInv
  <2> DEFINE old == [net |-> s5.saved, hosts |-> b]
  <2>2. s5'.compared = {old} /\ s4' = Devices!FindRogues(s3', b)
    BY <1>1, <1>3, <2>1
  <2>3. old.net = s5.saved /\ old.hosts = b
    OBVIOUS
  <2> HIDE DEF old
  <2>4. old.net \in Network /\ SweptFrom(old.hosts, old.net)
    BY <2>1, <2>3 DEF MapInv
  <2> QED BY <1>4, <1>5, <1>6, <2>2, <2>3, <2>4 DEF MapInv
<1> QED BY <1>7, <1>8

LEMMA MapInvStep ==
  part = "devices" /\ MapInv /\ [Next]_slots => MapInv'
<1> SUFFICES ASSUME part = "devices", MapInv, [Next]_slots PROVE MapInv'
  OBVIOUS
<1>1. CASE UNCHANGED <<s1, s2, s3, s4, s5, s6>>
  BY <1>1 DEF MapInv
<1> QED
  BY OnlyDevices, <1>1, LeaseKeeps, MapNetworkKeeps DEF Devices!MapperNext

LEMMA MapInvGives == MapInv => Devices!RoguesAreStrangers
<1> SUFFICES ASSUME MapInv PROVE Devices!RoguesAreStrangers
  OBVIOUS
<1>1. s5.compared = {} => s4 = {}
  BY DEF MapInv
<1>2. ASSUME NEW old \in s5.compared, NEW h \in s3
      PROVE  LET m == s5.last[h.ip]
                 answered == \E k \in old.hosts : k.ip = h.ip
                 new == \A a \in Address : old.net[a] # m
                 learnt == h.mac = m /\ \E k \in old.hosts : k.mac = m
             IN IF h.ip \in s4 THEN ~answered /\ (new \/ ~learnt) ELSE answered \/ ~new
  <2> DEFINE m == s5.last[h.ip]
             rogue == h.ip \notin {k.ip : k \in old.hosts} /\ h.mac \notin {k.mac : k \in old.hosts} \ {"none"}
  <2>1. s4 = Devices!FindRogues(s3, old.hosts) /\ SweptFrom(old.hosts, old.net) /\ SweptFrom(s3, s5.last)
    BY DEF MapInv
  <2>2. h.ip \in s4 <=> rogue
    BY <2>1 DEF Devices!FindRogues, Devices!KnownMacs, SweptFrom
  <2>3. m \in Device /\ h.mac \in {m, "none"}
    BY <2>1 DEF MapInv, Network, SweptFrom
  <2>4. \A k \in old.hosts : k.ip \in Address /\ k.mac \in {old.net[k.ip], "none"}
    BY <2>1 DEF SweptFrom
  <2>5. m # "none"
    BY <2>3, DeviceAssumption
  <2> QED BY <2>2, <2>3, <2>4, <2>5
<1> QED BY <1>1, <1>2 DEF Devices!RoguesAreStrangers

-----------------------------------------------------------------------------
\* The threat hunter: the lines of the logs.

LEMMA OnlyHunts ==
  part = "hunts" /\ [Next]_slots =>
    part' = part /\ (Hunts!HunterNext \/ UNCHANGED <<s1, s2, s3, s4, s5, s6, s7, s8, s9, s10>>)
BY DEF Next, slots

(* That every line of a file is among those of the run.                    *)
Includes(lines, file) == \A j \in DOMAIN file : \E k \in DOMAIN lines : lines[k] = file[j]

LEMMA IncludesBoth ==
  ASSUME NEW T, NEW a \in Seq(T), NEW b \in Seq(T)
  PROVE  /\ a \o b \in Seq(T) /\ Len(a) \in Nat /\ Len(a \o b) \in Nat /\ Len(a) <= Len(a \o b)
         /\ Includes(a \o b, a) /\ Includes(a \o b, b)
<1> DEFINE c == a \o b
<1>1. /\ c \in Seq(T) /\ Len(a) \in Nat /\ Len(b) \in Nat /\ Len(c) = Len(a) + Len(b)
      /\ \A j \in 1..Len(a) : j \in 1..Len(c) /\ c[j] = a[j]
      /\ \A j \in 1..Len(b) : Len(a) + j \in 1..Len(c) /\ c[Len(a) + j] = b[j]
  BY Concatenated
<1> HIDE DEF c
<1>2. DOMAIN a = 1..Len(a) /\ DOMAIN b = 1..Len(b) /\ DOMAIN c = 1..Len(c)
  BY <1>1
<1>3. Includes(c, a) /\ Includes(c, b)
  BY <1>1, <1>2 DEF Includes
<1>4. Len(a) <= Len(c) /\ Len(c) \in Nat
  BY <1>1
<1> QED BY <1>1, <1>3, <1>4 DEF c

(* Lines that are read file after file, some of them only while they are   *)
(* fewer than most, hold all of the wanted files when they are fewer still *)
(* at the end.                                                             *)
LEMMA ReadAll ==
  ASSUME NEW T, NEW n \in Nat, NEW file \in [1..n -> Seq(T)], NEW f, f[0] \in Seq(T),
         \A i \in 1..n : f[i] = f[i - 1] \/ f[i] = f[i - 1] \o file[i],
         NEW most \in Nat, NEW wanted \in SUBSET (1..n),
         \A i \in wanted : Len(f[i - 1]) < most => f[i] = f[i - 1] \o file[i]
  PROVE  /\ f[n] \in Seq(T) /\ Len(f[0]) <= Len(f[n]) /\ Includes(f[n], f[0])
         /\ Len(f[n]) < most => \A i \in wanted : Includes(f[n], file[i])
<1> DEFINE Read(i) == /\ f[i] \in Seq(T) /\ Len(f[0]) <= Len(f[i]) /\ Includes(f[i], f[0])
                      /\ Len(f[i]) < most => \A k \in wanted : k <= i => Includes(f[i], file[k])
           D == {i \in Nat : i <= n => Read(i)}
<1>1. 0 \in D
  <2>1. \A k \in wanted : ~(k <= 0)
    OBVIOUS
  <2>2. Includes(f[0], f[0])
    BY DEF Includes
  <2> QED BY <2>1, <2>2
<1>2. ASSUME NEW i \in D PROVE i + 1 \in D
  <2> SUFFICES ASSUME i + 1 <= n PROVE Read(i + 1)
    OBVIOUS
  <2>1. i \in Nat /\ i + 1 \in 1..n /\ (i + 1) - 1 = i /\ Read(i)
    OBVIOUS
  <2> DEFINE new == file[i + 1]
             old == f[i]
             all == f[i + 1]
  <2>2. old \in Seq(T) /\ new \in Seq(T) /\ (all = old \/ all = old \o new)
    BY <2>1
  <2>3. i + 1 \in wanted => (Len(old) < most => all = old \o new)
    BY <2>1
  <2> HIDE DEF new, old, all
  <2> DEFINE both == old \o new
  <2>4. /\ both \in Seq(T) /\ Len(old) \in Nat /\ Len(both) \in Nat /\ Len(old) <= Len(both)
        /\ Includes(both, old) /\ Includes(both, new)
    BY <2>2, IncludesBoth
  <2>5. /\ all \in Seq(T) /\ Len(old) \in Nat /\ Len(all) \in Nat /\ Len(old) <= Len(all)
        /\ Includes(all, old) /\ (all = both => Includes(all, new))
    <3>1. all = old \/ all = both
      BY <2>2
    <3> HIDE DEF both
    <3>2. Includes(old, old)
      BY DEF Includes
    <3> QED BY <2>2, <2>4, <3>1, <3>2
  <2>6. \A s : Includes(old, s) => Includes(all, s)
    BY <2>5 DEF Includes
  <2>7. Len(f[0]) <= Len(all) /\ Includes(all, f[0])
    BY <2>1, <2>2, <2>5, <2>6 DEF old
  <2>8. ASSUME Len(all) < most, NEW k \in wanted, k <= i + 1 PROVE Includes(all, file[k])
    <3>1. Len(old) < most
      BY <2>5, <2>8
    <3>2. CASE k = i + 1
      BY <2>3, <2>5, <3>1, <3>2 DEF new
    <3>3. CASE k # i + 1
      <4>1. k <= i
        BY <2>1, <2>8, <3>3
      <4> QED BY <2>1, <2>6, <3>1, <4>1 DEF old
    <3> QED BY <3>2, <3>3
  <2> QED BY <2>5, <2>7, <2>8 DEF all
<1>3. D = Nat
  <2> HIDE DEF D
  <2>1. D \in SUBSET Nat
    BY DEF D
  <2> QED BY <1>1, <1>2, <2>1, NatSetInduction
<1>4. Read(n)
  <2> HIDE DEF D, Read
  <2>1. n \in D /\ n <= n
    BY <1>3
  <2> QED BY <2>1 DEF D
<1> QED BY <1>4

LEMMA IncludesTransitive ==
  ASSUME NEW a, NEW b, NEW c, Includes(a, b), Includes(b, c)
  PROVE  Includes(a, c)
BY DEF Includes

AuthNames == {AuthFiles[i] : i \in DOMAIN AuthFiles}

LogsOk(logs) == DOMAIN logs = ReadFiles /\ \A f \in ReadFiles : logs[f].lines \in Seq(STRING)

(* When the run's lines were not cut, no file that counts is missing.      *)
LEMMA LoadedHolds ==
  ASSUME NEW logs, LogsOk(logs)
  PROVE  /\ Hunts!LoadedLogs(logs) \in Seq(STRING)
         /\ Len(Hunts!LoadedLogs(logs)) < MaxLogLines =>
              \A f \in ReadFiles : logs[f].fresh \/ f \in AuthNames =>
                Includes(Hunts!LoadedLogs(logs), logs[f].lines)
<1> DEFINE S == Seq(STRING)
           n == Len(LogFiles)
           m == Len(AuthFiles)
           log(i) == logs[LogFiles[i]]
           auth(i) == logs[AuthFiles[i]]
           f == CHOOSE f : f = [i \in 0..n |-> IF i = 0 THEN <<>> ELSE Hunts!ReadFile(f[i - 1], log(i))]
           g == CHOOSE g : g = [i \in 0..m |-> IF i = 0 THEN f[n] ELSE Hunts!ReadAuth(g[i - 1], auth(i))]
           lines == g[m]
           loaded == SubSeq(lines, 1, IF Len(lines) > MaxLogLines THEN MaxLogLines ELSE Len(lines))
<1>1. Hunts!LoadedLogs(logs) = loaded
  BY DEF Hunts!LoadedLogs
<1>2. /\ n \in Nat /\ m \in Nat /\ MaxLogLines \in Nat
      /\ \A i \in 1..n : LogFiles[i] \in ReadFiles /\ log(i).lines \in S
      /\ \A i \in 1..m : AuthFiles[i] \in ReadFiles /\ auth(i).lines \in S
      /\ \A x \in ReadFiles : \/ \E i \in 1..n : x = LogFiles[i]
                              \/ \E i \in 1..m : x = AuthFiles[i]
      /\ AuthNames = {AuthFiles[i] : i \in 1..m}
  <2>1. /\ LogFiles \in Seq(STRING) /\ AuthFiles \in Seq(STRING) /\ MaxLogLines \in Nat
        /\ DOMAIN LogFiles = 1..n /\ DOMAIN AuthFiles = 1..m /\ n \in Nat /\ m \in Nat
    BY HuntAssumption, LenProperties
  <2> HIDE DEF n, m
  <2>2. \A x : x \in ReadFiles <=> \/ \E i \in 1..n : x = LogFiles[i]
                                  \/ \E i \in 1..m : x = AuthFiles[i]
    BY <2>1 DEF ReadFiles
  <2>3. AuthNames = {AuthFiles[i] : i \in 1..m}
    BY <2>1 DEF AuthNames
  <2> QED BY <2>1, <2>2, <2>3 DEF LogsOk
<1>3. \A a, b \in S : a \o b \in S
  BY ConcatProperties
<1>4. /\ \A i \in 1..n : \A l \in S : Hunts!ReadFile(l, log(i)) \in S
      /\ \A i \in 1..m : \A l \in S : Hunts!ReadAuth(l, auth(i)) \in S
  <2> HIDE DEF S, n, m, log, auth
  <2> QED BY <1>2, <1>3 DEF Hunts!ReadFile, Hunts!ReadAuth
<1>5. <<>> \in S
  OBVIOUS
<1>6. /\ f[0] = <<>>
      /\ \A i \in 1..n : f[i] = Hunts!ReadFile(f[i - 1], log(i))
      /\ DOMAIN f = 0..n /\ f \in [0..n -> S]
  <2> DEFINE step == [i \in 1..n |-> [l \in S |-> Hunts!ReadFile(l, log(i))]]
  <2> HIDE DEF S, n, log
  <2>1. step \in [1..n -> [S -> S]]
    BY <1>4
  <2> HIDE DEF step
  <2>2. PICK h : IsRecursive(h, n, S, <<>>, step)
    BY <1>2, <1>5, <2>1, RecExists
  <2>12. h \in [0..n -> S] /\ h[0] = <<>> /\ \A i \in 1..n : h[i] = step[i][h[i - 1]]
    BY <2>2 DEF IsRecursive
  <2>3. \A i \in 0..n : h[i] = IF i = 0 THEN <<>> ELSE Hunts!ReadFile(h[i - 1], log(i))
    <3> SUFFICES ASSUME NEW i \in 0..n, i # 0 PROVE h[i] = Hunts!ReadFile(h[i - 1], log(i))
      BY <2>12
    <3>1. i \in 1..n /\ i - 1 \in 0..n
      BY <1>2
    <3> QED BY <2>12, <3>1 DEF step
  <2>4. h = [i \in 0..n |-> IF i = 0 THEN <<>> ELSE Hunts!ReadFile(h[i - 1], log(i))]
    BY <2>12, <2>3
  <2>5. f = [i \in 0..n |-> IF i = 0 THEN <<>> ELSE Hunts!ReadFile(f[i - 1], log(i))]
    BY <2>4
  <2> HIDE DEF f
  <2>6. f[0] = <<>> /\ DOMAIN f = 0..n /\ \A i \in 1..n : f[i] = Hunts!ReadFile(f[i - 1], log(i))
    BY <1>2, <2>5
  <2> DEFINE D == {i \in Nat : i <= n => f[i] \in S}
  <2>7. 0 \in D
    BY <1>5, <2>6
  <2>8. ASSUME NEW i \in D PROVE i + 1 \in D
    <3> SUFFICES ASSUME i + 1 <= n PROVE f[i + 1] \in S
      OBVIOUS
    <3>1. i + 1 \in 1..n /\ (i + 1) - 1 = i /\ f[i] \in S
      BY <1>2
    <3>2. f[i + 1] = Hunts!ReadFile(f[i], log(i + 1))
      BY <2>6, <3>1
    <3> QED BY <1>4, <3>1, <3>2
  <2>9. D = Nat
    <3> HIDE DEF D
    <3>1. D \in SUBSET Nat
      BY DEF D
    <3> QED BY <2>7, <2>8, <3>1, NatSetInduction
  <2>10. \A i \in 0..n : f[i] \in S
    BY <1>2, <2>9
  <2>11. f \in [0..n -> S]
    BY <2>5, <2>10
  <2> QED BY <2>6, <2>11
<1> HIDE DEF f
<1>7. f[n] \in S
  BY <1>2, <1>6
<1>8. /\ g[0] = f[n]
      /\ \A i \in 1..m : g[i] = Hunts!ReadAuth(g[i - 1], auth(i))
  <2> DEFINE step == [i \in 1..m |-> [l \in S |-> Hunts!ReadAuth(l, auth(i))]]
             base == f[n]
  <2> HIDE DEF S, n, auth
  <2>1. step \in [1..m -> [S -> S]]
    BY <1>4
  <2> HIDE DEF step, base, m
  <2>2. PICK h : IsRecursive(h, m, S, base, step)
    BY <1>2, <1>7, <2>1, RecExists DEF base
  <2>12. h \in [0..m -> S] /\ h[0] = base /\ \A i \in 1..m : h[i] = step[i][h[i - 1]]
    BY <2>2 DEF IsRecursive
  <2>3. \A i \in 0..m : h[i] = IF i = 0 THEN base ELSE Hunts!ReadAuth(h[i - 1], auth(i))
    <3> SUFFICES ASSUME NEW i \in 0..m, i # 0 PROVE h[i] = Hunts!ReadAuth(h[i - 1], auth(i))
      BY <2>12
    <3>1. i \in 1..m /\ i - 1 \in 0..m
      BY <1>2
    <3> QED BY <2>12, <3>1 DEF step
  <2>4. h = [i \in 0..m |-> IF i = 0 THEN base ELSE Hunts!ReadAuth(h[i - 1], auth(i))]
    BY <2>12, <2>3
  <2>5. g = [i \in 0..m |-> IF i = 0 THEN f[n] ELSE Hunts!ReadAuth(g[i - 1], auth(i))]
    BY <2>4 DEF base
  <2> HIDE DEF g
  <2> QED BY <1>2, <2>5
<1> HIDE DEF g
<1>9. /\ Len(f[n]) < MaxLogLines => \A i \in 1..n : log(i).fresh => Includes(f[n], log(i).lines)
  <2> DEFINE file == [i \in 1..n |-> log(i).lines]
             wanted == {i \in 1..n : log(i).fresh}
  <2> HIDE DEF S, n, log
  <2>1. file \in [1..n -> Seq(STRING)] /\ wanted \in SUBSET (1..n) /\ f[0] \in Seq(STRING)
    BY <1>2, <1>5, <1>6 DEF S
  <2>2. \A i \in 1..n : f[i] = f[i - 1] \/ f[i] = f[i - 1] \o file[i]
    BY <1>6 DEF Hunts!ReadFile
  <2>3. \A i \in wanted : Len(f[i - 1]) < MaxLogLines => f[i] = f[i - 1] \o file[i]
    BY <1>6 DEF Hunts!ReadFile
  <2> HIDE DEF file, wanted
  <2>4. Len(f[n]) < MaxLogLines => \A i \in wanted : Includes(f[n], file[i])
    BY <1>2, <2>1, <2>2, <2>3, ReadAll
  <2> QED BY <2>4 DEF file, wanted
<1>10. /\ g[m] \in Seq(STRING) /\ Len(f[n]) <= Len(g[m]) /\ Includes(g[m], f[n])
       /\ Len(g[m]) < MaxLogLines => \A i \in 1..m : Includes(g[m], auth(i).lines)
  <2> DEFINE file == [i \in 1..m |-> auth(i).lines]
             wanted == 1..m
  <2> HIDE DEF S, m, n, auth
  <2>1. file \in [1..m -> Seq(STRING)] /\ wanted \in SUBSET (1..m) /\ g[0] \in Seq(STRING)
    BY <1>2, <1>7, <1>8 DEF S
  <2>2. \A i \in 1..m : g[i] = g[i - 1] \o file[i]
    BY <1>8 DEF Hunts!ReadAuth
  <2> HIDE DEF file
  <2>3. /\ g[m] \in Seq(STRING) /\ Len(g[0]) <= Len(g[m]) /\ Includes(g[m], g[0])
        /\ Len(g[m]) < MaxLogLines => \A i \in wanted : Includes(g[m], file[i])
    BY <1>2, <2>1, <2>2, ReadAll
  <2> QED BY <1>8, <2>3 DEF file
<1> HIDE DEF log, auth, n, m
<1>11. loaded \in Seq(STRING) /\ (Len(loaded) < MaxLogLines => loaded = lines)
  <2>1. lines \in Seq(STRING) /\ Len(lines) \in Nat
    BY <1>10, LenProperties
  <2> HIDE DEF lines
  <2>2. CASE Len(lines) > MaxLogLines
    <3>1. loaded = SubSeq(lines, 1, MaxLogLines)
      BY <2>2
    <3>2. 1 <= MaxLogLines + 1 /\ MaxLogLines <= Len(lines)
      BY <1>2, <2>1, <2>2
    <3>3. loaded \in Seq(STRING) /\ Len(loaded) = MaxLogLines
      BY <1>2, <2>1, <3>1, <3>2, SubSeqProperties
    <3> QED BY <1>2, <3>3
  <2>3. CASE ~(Len(lines) > MaxLogLines)
    <3>1. loaded = SubSeq(lines, 1, Len(lines))
      BY <2>3
    <3>2. loaded = lines
      BY <2>1, <3>1, SubSeqFull
    <3> QED BY <2>1, <3>2
  <2> QED BY <2>2, <2>3
<1>12. ASSUME Len(loaded) < MaxLogLines, NEW x \in ReadFiles, logs[x].fresh \/ x \in AuthNames
       PROVE  Includes(loaded, logs[x].lines)
  <2>1. loaded = lines /\ Len(lines) < MaxLogLines
    BY <1>11, <1>12
  <2>2. Len(lines) \in Nat /\ Len(f[n]) \in Nat
    BY <1>7, <1>10, LenProperties
  <2>3. Len(f[n]) < MaxLogLines
    BY <1>2, <1>10, <2>1, <2>2
  <2>4. CASE \E i \in 1..m : x = AuthFiles[i]
    BY <1>10, <2>1, <2>4 DEF auth
  <2>5. CASE \E i \in 1..n : x = LogFiles[i] /\ logs[x].fresh
    <3>2. PICK i \in 1..n : x = LogFiles[i] /\ logs[x].fresh
      BY <2>5
    <3>3. log(i) = logs[x]
      BY <3>2 DEF log
    <3>1. Includes(f[n], logs[x].lines)
      BY <1>9, <2>3, <3>2, <3>3
    <3>4. Includes(loaded, f[n])
      BY <1>10, <2>1
    <3> HIDE DEF loaded
    <3> QED BY <3>1, <3>4, IncludesTransitive
  <2> QED BY <1>2, <1>12, <2>4, <2>5
<1> QED BY <1>1, <1>11, <1>12

(* Ranking: every result has a rank of its own, and a graver one a smaller *)
(* rank.                                                                   *)
Statuses == {"CONFIRMED", "SUSPECT", "INSUFFICIENT_DATA", "NEGATIVE"}
Judged(r) == r.found.status \in Statuses /\ r.found.confidence \in Int
Gravity(r) == Hunts!StatusOrder[r.found.status]

LEMMA HuntsCount == \A S : Hunts!Cardinality(S) = Cardinality(S)
BY DEF Hunts!Cardinality, Cardinality

LEMMA BeforeOrders ==
  ASSUME NEW r, NEW s, Judged(r), Judged(s)
  PROVE  /\ Gravity(r) \in Nat /\ Gravity(s) \in Nat
         /\ Hunts!Before(r, s) <=> \/ Gravity(r) < Gravity(s)
                                   \/ Gravity(r) = Gravity(s) /\ r.found.confidence > s.found.confidence
<1>1. /\ Hunts!StatusOrder["CONFIRMED"] = 0 /\ Hunts!StatusOrder["SUSPECT"] = 1
      /\ Hunts!StatusOrder["INSUFFICIENT_DATA"] = 2 /\ Hunts!StatusOrder["NEGATIVE"] = 3
  BY DEF Hunts!StatusOrder
<1>2. \A a, b \in Statuses : /\ Hunts!StatusOrder[a] \in Nat
                             /\ Hunts!StatusOrder[a] = Hunts!StatusOrder[b] => a = b
  BY <1>1 DEF Statuses
<1> QED BY <1>2 DEF Hunts!Before, Judged, Gravity

LEMMA RanksAreOrdered ==
  ASSUME NEW T, NEW results \in Seq(T), \A i \in DOMAIN results : Judged(results[i])
  PROVE  /\ \A m \in DOMAIN results : \E i \in DOMAIN results : Hunts!Rank(results, i) = m
         /\ \A i, j \in DOMAIN results :
              /\ Hunts!Rank(results, i) \in Nat
              /\ Hunts!Before(results[i], results[j]) => Hunts!Rank(results, i) < Hunts!Rank(results, j)
<1> DEFINE n == Len(results)
           g == [i \in 1..n |-> Gravity(results[i])]
           c == [i \in 1..n |-> results[i].found.confidence]
           More(i, j) == g[i] < g[j] \/ (g[i] = g[j] /\ c[i] > c[j])
           Prec(j, i) == More(j, i) \/ (~More(i, j) /\ j <= i)
           upto(i) == {j \in 1..n : Prec(j, i)}
           rank == [i \in 1..n |-> Hunts!Rank(results, i)]
<1>1. n \in Nat /\ DOMAIN results = 1..n
  BY LenProperties
<1>2. /\ \A i \in 1..n : g[i] \in Nat /\ c[i] \in Int
      /\ \A i, j \in 1..n : Hunts!Before(results[i], results[j]) <=> More(i, j)
  <2> HIDE DEF n
  <2>1. \A i \in 1..n : Judged(results[i])
    BY <1>1
  <2>2. \A i \in 1..n : g[i] = Gravity(results[i]) /\ c[i] = results[i].found.confidence
    OBVIOUS
  <2> HIDE DEF g, c
  <2>3. \A i \in 1..n : g[i] \in Nat /\ c[i] \in Int
    BY <2>1, <2>2, BeforeOrders DEF Judged
  <2> QED BY <2>1, <2>2, <2>3, BeforeOrders
<1> HIDE DEF n, g, c
<1>3. \A i, j \in 1..n : More(i, j) => ~More(j, i)
  BY <1>2
<1>4. \A i, j, k \in 1..n : Prec(i, j) /\ Prec(j, k) => Prec(i, k)
  BY <1>1, <1>2
<1>5. \A i, j \in 1..n : /\ Prec(i, j) \/ Prec(j, i)
                         /\ Prec(i, j) /\ Prec(j, i) => i = j
                         /\ More(i, j) => Prec(i, j) /\ i # j
  BY <1>1, <1>2
<1>6. \A i \in 1..n : rank[i] = Cardinality(upto(i))
  <2> SUFFICES ASSUME NEW i \in 1..n PROVE rank[i] = Cardinality(upto(i))
    OBVIOUS
  <2> DEFINE S == {j \in DOMAIN results : \/ Hunts!Before(results[j], results[i])
                                          \/ ~Hunts!Before(results[i], results[j]) /\ j <= i}
  <2>1. rank[i] = Hunts!Cardinality(S)
    BY DEF Hunts!Rank
  <2>2. S = upto(i)
    BY <1>1, <1>2
  <2> HIDE DEF S, rank, upto
  <2> QED BY <2>1, <2>2, HuntsCount
<1> HIDE DEF rank
<1>7. \A i \in 1..n : IsFiniteSet(upto(i)) /\ rank[i] \in 1..n
  <2> SUFFICES ASSUME NEW i \in 1..n PROVE IsFiniteSet(upto(i)) /\ rank[i] \in 1..n
    OBVIOUS
  <2>1. IsFiniteSet(1..n) /\ Cardinality(1..n) = n
    BY <1>1, FS_Interval
  <2>2. upto(i) \in SUBSET (1..n) /\ i \in upto(i)
    BY <1>5
  <2> HIDE DEF upto
  <2>3. IsFiniteSet(upto(i)) /\ Cardinality(upto(i)) <= n
    BY <2>1, <2>2, FS_Subset
  <2>4. Cardinality(upto(i)) \in Nat /\ Cardinality(upto(i)) # 0
    BY <2>2, <2>3, FS_CardinalityType, FS_EmptySet
  <2> QED BY <1>1, <1>6, <2>3, <2>4
<1>8. \A i, j \in 1..n : Prec(i, j) /\ i # j => rank[i] < rank[j]
  <2> SUFFICES ASSUME NEW i \in 1..n, NEW j \in 1..n, Prec(i, j), i # j PROVE rank[i] < rank[j]
    OBVIOUS
  <2>1. j \in upto(j) /\ j \notin upto(i)
    BY <1>5
  <2>2. upto(i) \subseteq upto(j)
    <3> SUFFICES ASSUME NEW k \in 1..n, Prec(k, i) PROVE Prec(k, j)
      OBVIOUS
    <3> HIDE DEF Prec
    <3> QED BY <1>4
  <2> HIDE DEF upto, Prec
  <2>3. upto(i) \in SUBSET upto(j) /\ upto(i) # upto(j)
    BY <2>1, <2>2
  <2>4. /\ Cardinality(upto(i)) <= Cardinality(upto(j))
        /\ Cardinality(upto(j)) = Cardinality(upto(i)) => upto(j) = upto(i)
    BY <1>7, <2>3, FS_Subset
  <2>5. rank[i] <= rank[j] /\ rank[i] # rank[j]
    BY <1>6, <2>3, <2>4
  <2> QED BY <1>1, <1>7, <2>5
<1>9. rank \in Surjection(1..n, 1..n)
  <2>1. rank \in [1..n -> 1..n]
    BY <1>7 DEF rank
  <2>2. \A i, j \in 1..n : rank[i] = rank[j] => i = j
    <3> SUFFICES ASSUME NEW i \in 1..n, NEW j \in 1..n, i # j PROVE rank[i] # rank[j]
      OBVIOUS
    <3>1. rank[i] \in Nat /\ rank[j] \in Nat
      <4> HIDE DEF upto
      <4> QED BY <1>1, <1>7
    <3>2. rank[i] < rank[j] \/ rank[j] < rank[i]
      <4> HIDE DEF Prec
      <4> QED BY <1>5, <1>8
    <3> QED BY <3>1, <3>2
  <2>3. rank \in Injection(1..n, 1..n)
    BY <2>1, <2>2 DEF Injection, IsInjective
  <2> QED BY <1>1, <2>3, FS_Injection, FS_Interval
<1>10. \A m \in 1..n : \E i \in 1..n : rank[i] = m
  BY <1>9 DEF Surjection
<1>11. \A i, j \in 1..n : More(i, j) => rank[i] < rank[j]
  <2> HIDE DEF More, Prec
  <2> QED BY <1>5, <1>8
<1>12. \A i \in 1..n : rank[i] = Hunts!Rank(results, i)
  BY DEF rank
<1> HIDE DEF More, Prec, upto
<1>13. \A i \in 1..n : rank[i] \in Nat
  BY <1>1, <1>7
<1>14. \A m \in 1..n : \E i \in 1..n : Hunts!Rank(results, i) = m
  BY <1>10, <1>12
<1>15. \A i, j \in 1..n : /\ Hunts!Rank(results, i) \in Nat
                          /\ Hunts!Before(results[i], results[j]) => Hunts!Rank(results, i) < Hunts!Rank(results, j)
  BY <1>2, <1>11, <1>12, <1>13
<1> QED BY <1>1, <1>14, <1>15

(* What is ranked is what there was, and no result stands before a graver  *)
(* one.                                                                    *)
LEMMA RankedOrders ==
  ASSUME NEW T, NEW results \in Seq(T), \A i \in DOMAIN results : Judged(results[i])
  PROVE  /\ Hunts!Ranked(results) \in Seq(T)
         /\ \A i \in DOMAIN Hunts!Ranked(results) : \E j \in DOMAIN results : Hunts!Ranked(results)[i] = results[j]
         /\ \A i, j \in DOMAIN Hunts!Ranked(results) :
              i < j => ~Hunts!Before(Hunts!Ranked(results)[j], Hunts!Ranked(results)[i])
<1> DEFINE n == Len(results)
           from == [m \in 1..n |-> CHOOSE i \in 1..n : Hunts!Rank(results, i) = m]
           ranked == Hunts!Ranked(results)
<1>1. n \in Nat /\ DOMAIN results = 1..n /\ \A i \in 1..n : results[i] \in T
  BY LenProperties
<1>2. /\ \A m \in 1..n : \E i \in 1..n : Hunts!Rank(results, i) = m
      /\ \A i, j \in 1..n : Hunts!Before(results[i], results[j]) => Hunts!Rank(results, i) < Hunts!Rank(results, j)
  BY <1>1, RanksAreOrdered
<1>3. ranked = [m \in 1..n |-> results[from[m]]]
  BY <1>1 DEF Hunts!Ranked
<1> HIDE DEF ranked, n
<1>4. \A m \in 1..n : from[m] \in 1..n /\ Hunts!Rank(results, from[m]) = m
  BY <1>2
<1> HIDE DEF from
<1>5. DOMAIN ranked = 1..n /\ \A m \in 1..n : ranked[m] = results[from[m]] /\ ranked[m] \in T
  BY <1>1, <1>3, <1>4
<1>6. ranked \in Seq(T)
  BY <1>1, <1>3, <1>4, <1>5, SeqDef
<1>7. ASSUME NEW i \in 1..n, NEW j \in 1..n, i < j PROVE ~Hunts!Before(ranked[j], ranked[i])
  <2>1. ~(j < i)
    BY <1>1, <1>7
  <2>2. Hunts!Before(results[from[j]], results[from[i]]) => Hunts!Rank(results, from[j]) < Hunts!Rank(results, from[i])
    BY <1>2, <1>4
  <2> QED BY <1>4, <1>5, <2>1, <2>2
<1>8. \A i \in 1..n : \E j \in 1..n : ranked[i] = results[j]
  BY <1>4, <1>5
<1> QED BY <1>1, <1>5, <1>6, <1>7, <1>8 DEF ranked

(* The processes: a parent named was born before its child, and whoever    *)
(* took its id since was born after.                                       *)
ProcsOk(procs, now) ==
  /\ IsFiniteSet(DOMAIN procs) /\ DOMAIN procs \subseteq HuntPid \cup {1}
  /\ \A p \in DOMAIN procs :
       /\ procs[p].born \in 0..now /\ procs[p].parent_born \in Nat
       /\ procs[p].parent # 0 => procs[p].parent_born < procs[p].born
       /\ procs[p].parent \in DOMAIN procs =>
            \/ procs[procs[p].parent].born = procs[p].parent_born
            \/ procs[procs[p].parent].born > procs[p].born

(* What a run's results are to say, of the lines read and of the processes *)
(* there were.                                                             *)
Sought == {<<"CRED-01", "cred">>, <<"EXEC-01", "exec">>, <<"LMOV-01", "smb">>}
NoLine(cache, topic) == \A i \in DOMAIN cache : cache[i] # topic
EvasionSeen(procs) ==
  \E pid \in DOMAIN procs : LET p == procs[pid] IN
    \/ p.parent \in DOMAIN procs /\ procs[p.parent].born # p.parent_born
    \/ p.parent \notin DOMAIN procs \cup {0} /\ "script" \in p.traits
ResultOk(r, read, cache) ==
  /\ Judged(r)
  /\ \A t \in Sought : r.hunt = t[1] /\ r.found.status = "NEGATIVE" => read # <<>> /\ NoLine(cache, t[2])
  /\ r.hunt = "EVAD-01" => (r.found.status = "CONFIRMED" <=> EvasionSeen(r.procs))

LEMMA CountOfSome ==
  ASSUME NEW S, IsFiniteSet(S), NEW T \in SUBSET S
  PROVE  /\ IsFiniteSet(T) /\ Hunts!Cardinality(T) \in Nat
         /\ Hunts!Cardinality(T) = 0 <=> T = {}
<1>1. IsFiniteSet(T)
  BY FS_Subset
<1> QED BY <1>1, HuntsCount, FS_CardinalityType, FS_EmptySet

(* The counts of processes and of lines.                                   *)
LEMMA CountsAreNaturals ==
  ASSUME ProcsOk(s1, s9), Hunts!Lines \in Seq(STRING), NEW trait, NEW topic
  PROVE  /\ \A T \in SUBSET DOMAIN s1 : Hunts!Cardinality(T) \in Nat
         /\ Hunts!Having(trait) \in Nat
         /\ Hunts!GrepLogs(topic) \in Nat
         /\ Hunts!GrepLogs(topic) = 0 => NoLine(Hunts!Lines, topic)
<1> DEFINE D == DOMAIN s1
<1>1. IsFiniteSet(D)
  BY DEF ProcsOk
<1>2. \A T \in SUBSET D : Hunts!Cardinality(T) \in Nat
  <2> HIDE DEF D
  <2> QED BY <1>1, CountOfSome
<1>3. Hunts!Having(trait) \in Nat
  <2> DEFINE T == {pid \in DOMAIN s1 : trait \in s1[pid].traits}
  <2>1. Hunts!Having(trait) = Hunts!Cardinality(T)
    BY DEF Hunts!Having, Hunts!Procs
  <2>2. T \in SUBSET D
    OBVIOUS
  <2> HIDE DEF T, D
  <2> QED BY <1>2, <2>1, <2>2
<1>7. /\ Hunts!GrepLogs(topic) \in Nat
      /\ Hunts!GrepLogs(topic) = 0 => NoLine(Hunts!Lines, topic)
  <2> DEFINE lines == Hunts!Lines
             T == {i \in DOMAIN lines : lines[i] = topic}
             n == Len(lines)
  <2>1. DOMAIN lines = 1..n /\ n \in Nat
    BY LenProperties
  <2>2. IsFiniteSet(1..n)
    <3> HIDE DEF n
    <3> QED BY <2>1, FS_Interval
  <2>3. Hunts!GrepLogs(topic) = Hunts!Cardinality(T)
    BY DEF Hunts!GrepLogs
  <2>4. T \in SUBSET (1..n)
    BY <2>1
  <2>5. T = {} => NoLine(lines, topic)
    BY DEF NoLine
  <2> HIDE DEF T, n, lines
  <2> QED BY <2>2, <2>3, <2>4, <2>5, CountOfSome DEF lines
<1> QED BY <1>2, <1>3, <1>7

LEMMA LesserIsInt ==
  ASSUME NEW a \in Int, NEW b \in Int PROVE Hunts!Lesser(a, b) \in Int
BY DEF Hunts!Lesser

LEMMA EvasionIsFound ==
  ASSUME ProcsOk(s1, s9), 0 \notin HuntPid, s9 \in Nat
  PROVE  /\ Hunts!Evad01 \in {Hunts!Result("NEGATIVE", 85), Hunts!Result("CONFIRMED", 80)}
         /\ Hunts!Evad01 = Hunts!Result("CONFIRMED", 80) <=> EvasionSeen(s1)
<1> DEFINE D == DOMAIN s1
           ghosts == {pid \in D : Hunts!GhostParent(s1[pid])}
           newer == {pid \in D : Hunts!NewerParent(s1[pid])}
           seen(pid) == \/ s1[pid].parent \in D /\ s1[s1[pid].parent].born # s1[pid].parent_born
                        \/ s1[pid].parent \notin D \cup {0} /\ "script" \in s1[pid].traits
<1>1. ghosts \in SUBSET D /\ newer \in SUBSET D /\ IsFiniteSet(D)
  BY DEF ProcsOk
<1>2. Hunts!Procs(Hunts!GhostParent) = Hunts!Cardinality(ghosts)
  BY DEF Hunts!Procs
<1>3. Hunts!Procs(Hunts!NewerParent) = Hunts!Cardinality(newer)
  BY DEF Hunts!Procs
<1>4. EvasionSeen(s1) <=> \E pid \in D : seen(pid)
  BY DEF EvasionSeen
<1>5. ASSUME NEW pid \in D PROVE seen(pid) <=> pid \in ghosts \/ pid \in newer
  <2>1. /\ s1[pid].born \in 0..s9 /\ s1[pid].parent_born \in Nat
        /\ s1[pid].parent # 0 => s1[pid].parent_born < s1[pid].born
        /\ s1[pid].parent \in D =>
             /\ s1[s1[pid].parent].born \in 0..s9
             /\ \/ s1[s1[pid].parent].born = s1[pid].parent_born
                \/ s1[s1[pid].parent].born > s1[pid].born
    BY DEF ProcsOk
  <2>2. 0 \notin D
    BY DEF ProcsOk
  <2> DEFINE q == s1[pid].parent
             b == s1[pid].born
             a == s1[pid].parent_born
             c == s1[q].born
  <2>3. pid \in ghosts <=> q # 0 /\ q \notin D /\ "script" \in s1[pid].traits
    BY DEF Hunts!GhostParent
  <2>4. pid \in newer <=> q \in D /\ c > b
    BY DEF Hunts!NewerParent
  <2>5. seen(pid) <=> (q \in D /\ c # a) \/ (q \notin D \cup {0} /\ "script" \in s1[pid].traits)
    OBVIOUS
  <2>6. q \in D => (c # a <=> c > b)
    <3> SUFFICES ASSUME q \in D PROVE c # a <=> c > b
      OBVIOUS
    <3>1. b \in Nat /\ a \in Nat /\ c \in Nat /\ a < b /\ (c = a \/ c > b)
      BY <2>1, <2>2
    <3> HIDE DEF a, b, c, q
    <3> QED BY <3>1
  <2> HIDE DEF q, b, a, c, ghosts, newer, seen
  <2> QED BY <2>3, <2>4, <2>5, <2>6
<1> HIDE DEF ghosts, newer, D, seen
<1>6. /\ Hunts!Cardinality(ghosts) \in Nat /\ Hunts!Cardinality(newer) \in Nat
      /\ Hunts!Cardinality(ghosts) = 0 <=> ghosts = {}
      /\ Hunts!Cardinality(newer) = 0 <=> newer = {}
  BY <1>1, CountOfSome
<1>7. Hunts!Cardinality(ghosts) + Hunts!Cardinality(newer) = 0 <=> ghosts = {} /\ newer = {}
  BY <1>6
<1>8. EvasionSeen(s1) <=> ~(ghosts = {} /\ newer = {})
  BY <1>1, <1>4, <1>5
<1>9. Hunts!Evad01 = IF ghosts = {} /\ newer = {} THEN Hunts!Result("NEGATIVE", 85) ELSE Hunts!Result("CONFIRMED", 80)
  BY <1>2, <1>3, <1>7 DEF Hunts!Evad01
<1>10. Hunts!Result("NEGATIVE", 85) # Hunts!Result("CONFIRMED", 80)
  <2>1. Hunts!Result("NEGATIVE", 85).status = "NEGATIVE" /\ Hunts!Result("CONFIRMED", 80).status = "CONFIRMED"
    BY DEF Hunts!Result
  <2> QED BY <2>1
<1> QED BY <1>8, <1>9, <1>10

(* A verdict is one of the four, a playbook that searches the lines is     *)
(* negative only when none is against it.                                  *)
LEMMA VerdictIsOk ==
  ASSUME ProcsOk(s1, s9), s9 \in Nat, IsFiniteSet(s2), Hunts!Lines \in Seq(STRING), NEW hunt \in Playbooks
  PROVE  /\ Hunts!Verdict(hunt).status \in Statuses /\ Hunts!Verdict(hunt).confidence \in Int
         /\ \A t \in Sought : hunt = t[1] /\ Hunts!Verdict(hunt).status = "NEGATIVE" => NoLine(Hunts!Lines, t[2])
         /\ hunt = "EVAD-01" => (Hunts!Verdict(hunt).status = "CONFIRMED" <=> EvasionSeen(s1))
<1> DEFINE Fine(v) == v.status \in Statuses /\ v.confidence \in Int
<1>1. \A s \in Statuses, c \in Int :
        /\ Fine(Hunts!Result(s, c)) /\ Hunts!Result(s, c).status = s
  BY DEF Hunts!Result
<1>2. /\ "CONFIRMED" \in Statuses /\ "SUSPECT" \in Statuses
      /\ "INSUFFICIENT_DATA" \in Statuses /\ "NEGATIVE" \in Statuses
  BY DEF Statuses
<1>9. ASSUME NEW c \in Int
      PROVE  /\ Fine(Hunts!Result("CONFIRMED", c)) /\ Hunts!Result("CONFIRMED", c).status = "CONFIRMED"
             /\ Fine(Hunts!Result("SUSPECT", c)) /\ Hunts!Result("SUSPECT", c).status = "SUSPECT"
             /\ Fine(Hunts!Result("INSUFFICIENT_DATA", c))
             /\ Fine(Hunts!Result("NEGATIVE", c)) /\ Hunts!Result("NEGATIVE", c).status = "NEGATIVE"
  BY <1>1, <1>2
<1> HIDE DEF Fine
<1>3. CASE hunt = "CRED-01"
  <2> DEFINE a == Hunts!Having("dump_tool")
             b == Hunts!Procs(LAMBDA p : {"dump_tool", "encoded"} \cap p.traits = {"encoded"})
             c == Hunts!Procs(LAMBDA p : {"dump_tool", "lsass"} \cap p.traits = {"lsass"})
             d == Hunts!GrepLogs("cred")
  <2>1. a \in Nat /\ d \in Nat /\ (d = 0 => NoLine(Hunts!Lines, "cred"))
    BY CountsAreNaturals
  <2>6. b \in Nat
    <3> DEFINE T == {pid \in DOMAIN s1 : {"dump_tool", "encoded"} \cap s1[pid].traits = {"encoded"}}
    <3>1. b = Hunts!Cardinality(T)
      BY DEF Hunts!Procs
    <3>2. T \in SUBSET DOMAIN s1
      OBVIOUS
    <3> HIDE DEF T, b
    <3> QED BY <3>1, <3>2, CountsAreNaturals
  <2>7. c \in Nat
    <3> DEFINE T == {pid \in DOMAIN s1 : {"dump_tool", "lsass"} \cap s1[pid].traits = {"lsass"}}
    <3>1. c = Hunts!Cardinality(T)
      BY DEF Hunts!Procs
    <3>2. T \in SUBSET DOMAIN s1
      OBVIOUS
    <3> HIDE DEF T, c
    <3> QED BY <3>1, <3>2, CountsAreNaturals
  <2>2. Hunts!Cred01 = IF a + b + c + d = 0 THEN Hunts!Result("NEGATIVE", 85) ELSE Hunts!Result("CONFIRMED", 90)
    BY DEF Hunts!Cred01
  <2> HIDE DEF a, b, c, d
  <2>3. a + b + c + d = 0 => d = 0
    BY <2>1, <2>6, <2>7
  <2>4. Fine(Hunts!Cred01) /\ (Hunts!Cred01.status = "NEGATIVE" => NoLine(Hunts!Lines, "cred"))
    BY <1>9, <2>1, <2>2, <2>3
  <2>5. Hunts!Verdict(hunt) = Hunts!Cred01
    BY <1>3 DEF Hunts!Verdict
  <2> QED BY <1>3, <2>4, <2>5 DEF Fine, Sought
<1>4. CASE hunt = "EXEC-01"
  <2> DEFINE a == Hunts!Having("lolbin")
             d == Hunts!GrepLogs("exec")
  <2>1. a \in Nat /\ d \in Nat /\ (d = 0 => NoLine(Hunts!Lines, "exec"))
    BY CountsAreNaturals
  <2>2. Hunts!Exec01 = IF a + d = 0 THEN Hunts!Result("NEGATIVE", 85)
                       ELSE Hunts!Result("CONFIRMED", Hunts!Lesser(95, 40 * (a + d)))
    BY DEF Hunts!Exec01
  <2> HIDE DEF a, d
  <2>3. (a + d = 0 => d = 0) /\ 40 * (a + d) \in Int
    BY <2>1
  <2>6. Hunts!Lesser(95, 40 * (a + d)) \in Int
    BY <2>3, LesserIsInt
  <2>4. Fine(Hunts!Exec01) /\ (Hunts!Exec01.status = "NEGATIVE" => NoLine(Hunts!Lines, "exec"))
    BY <1>9, <2>1, <2>2, <2>3, <2>6
  <2>5. Hunts!Verdict(hunt) = Hunts!Exec01
    BY <1>4 DEF Hunts!Verdict
  <2> QED BY <1>4, <2>4, <2>5 DEF Fine, Sought
<1>5. CASE hunt = "LMOV-01"
  <2> DEFINE d == Hunts!GrepLogs("smb")
             smb == s5 /\ \E c \in s2 : c.port = "smb"
  <2>1. d \in Nat /\ (d = 0 => NoLine(Hunts!Lines, "smb"))
    BY CountsAreNaturals
  <2>2. Hunts!Lmov01 = IF d > 0 /\ smb THEN Hunts!Result("CONFIRMED", 80)
                       ELSE IF d > 0 \/ smb THEN Hunts!Result("SUSPECT", 55) ELSE Hunts!Result("NEGATIVE", 80)
    BY DEF Hunts!Lmov01
  <2> HIDE DEF d, smb
  <2>3. d > 0 \/ d = 0
    BY <2>1
  <2>4. Fine(Hunts!Lmov01) /\ (Hunts!Lmov01.status = "NEGATIVE" => NoLine(Hunts!Lines, "smb"))
    BY <1>9, <2>1, <2>2, <2>3
  <2>5. Hunts!Verdict(hunt) = Hunts!Lmov01
    BY <1>5 DEF Hunts!Verdict
  <2> QED BY <1>5, <2>4, <2>5 DEF Fine, Sought
<1>6. CASE hunt = "EVAD-01"
  <2>1. /\ Hunts!Evad01 \in {Hunts!Result("NEGATIVE", 85), Hunts!Result("CONFIRMED", 80)}
        /\ Hunts!Evad01 = Hunts!Result("CONFIRMED", 80) <=> EvasionSeen(s1)
    BY EvasionIsFound, HuntAssumption
  <2>2. Fine(Hunts!Evad01) /\ (Hunts!Evad01.status = "CONFIRMED" <=> EvasionSeen(s1))
    BY <1>9, <2>1
  <2>3. Hunts!Verdict(hunt) = Hunts!Evad01
    BY <1>6 DEF Hunts!Verdict
  <2> QED BY <1>6, <2>2, <2>3 DEF Fine, Sought
<1>7. CASE hunt \in {"EXEC-03", "PERS-01", "DISC-01", "EXFIL-01"}
  <2>1. Fine(Hunts!Exec03) /\ Fine(Hunts!Pers01) /\ Fine(Hunts!Disc01) /\ Fine(Hunts!Exfil01)
    <3>1. Hunts!Exec03 = Hunts!Result("NEGATIVE", 80) \/ Hunts!Exec03 = Hunts!Result("SUSPECT", 65)
      BY ZenonT(30) DEF Hunts!Exec03
    <3>2. \/ Hunts!Pers01 = Hunts!Result("NEGATIVE", 80)
          \/ Hunts!Pers01 = Hunts!Result("CONFIRMED", 85)
          \/ Hunts!Pers01 = Hunts!Result("SUSPECT", 50)
      BY DEF Hunts!Pers01
    <3>3. Hunts!Disc01 = Hunts!Result("NEGATIVE", 80) \/ Hunts!Disc01 = Hunts!Result("SUSPECT", 70)
      BY ZenonT(30) DEF Hunts!Disc01
    <3>4. Hunts!Exfil01 = Hunts!Result("NEGATIVE", 60) \/ Hunts!Exfil01 = Hunts!Result("SUSPECT", 55)
      BY DEF Hunts!Exfil01
    <3> QED BY <1>9, <3>1, <3>2, <3>3, <3>4
  <2>2. Hunts!Verdict(hunt) \in {Hunts!Exec03, Hunts!Pers01, Hunts!Disc01, Hunts!Exfil01}
    BY <1>7 DEF Hunts!Verdict
  <2> QED BY <1>7, <2>1, <2>2 DEF Fine, Sought
<1>8. CASE hunt = "C2-01"
  <2> DEFINE T == {c \in s2 : c.port \notin {"web", "mail"} /\ c.public /\ ~c.trusted}
             hits == Hunts!Cardinality(T)
  <2>1. T \in SUBSET s2
    OBVIOUS
  <2>2. Hunts!C201 = IF ~s5 THEN Hunts!Result("INSUFFICIENT_DATA", 0)
                     ELSE IF hits = 0 THEN Hunts!Result("NEGATIVE", 80)
                     ELSE Hunts!Result("SUSPECT", Hunts!Lesser(85, 30 * hits))
    BY DEF Hunts!C201
  <2> HIDE DEF T
  <2>3. hits \in Nat
    BY <2>1, CountOfSome
  <2> HIDE DEF hits
  <2>4. 30 * hits \in Int
    BY <2>3
  <2>5. Hunts!Lesser(85, 30 * hits) \in Int
    BY <2>4, LesserIsInt
  <2>6. Fine(Hunts!C201)
    BY <1>9, <2>2, <2>5
  <2>7. Hunts!Verdict(hunt) = Hunts!C201
    BY <1>8 DEF Hunts!Verdict
  <2> QED BY <1>8, <2>6, <2>7 DEF Fine, Sought
<1> QED BY <1>3, <1>4, <1>5, <1>6, <1>7, <1>8 DEF Playbooks

(* The invariant of the hunts: lines once read are those of the logs kept  *)
(* beside them, every result is true of these and of the processes it saw, *)
(* and a run that is over is ranked.                                       *)
HuntInv ==
  /\ s9 \in Nat /\ ProcsOk(s1, s9) /\ IsFiniteSet(s2) /\ s7 \in Seq(Playbooks)
  /\ LogsOk(s4)
  /\ s10 # <<>> => LogsOk(s10) /\ s6 = Hunts!LoadedLogs(s10)
  /\ \E T : s8 \in Seq(T)
  /\ \A i \in DOMAIN s8 : ResultOk(s8[i], s10, s6)
  /\ s7 = <<>> => \A i, j \in DOMAIN s8 : i < j => ~Hunts!Before(s8[j], s8[i])

LEMMA LogsAreThere == ASSUME NEW logs, LogsOk(logs) PROVE logs # <<>>
<1>1. AuthFiles[1] \in ReadFiles
  <2>1. 1 \in DOMAIN AuthFiles
    BY HuntAssumption, EmptySeq, LenProperties
  <2> QED BY <2>1 DEF ReadFiles
<1> QED BY <1>1 DEF LogsOk

LEMMA HuntInvInit == Hunts!HunterInit => HuntInv
<1> SUFFICES ASSUME Hunts!HunterInit PROVE HuntInv
  OBVIOUS
<1>1. s9 = 0 /\ s2 = {} /\ s8 = <<>> /\ s10 = <<>> /\ s7 \in HuntPlan /\ s4 \in HuntLogs
  BY DEF Hunts!HunterInit
<1>2. ProcsOk(s1, s9)
  <2>1. DOMAIN s1 = {1} /\ s1[1].parent = 0 /\ s1[1].born = 0 /\ s1[1].parent_born = 0
    BY DEF Hunts!HunterInit
  <2>2. 0..0 = {0}
    OBVIOUS
  <2>3. IsFiniteSet({1})
    BY FS_Singleton
  <2>4. ASSUME NEW p \in DOMAIN s1 PROVE p = 1 /\ s1[p].parent \notin DOMAIN s1
    BY <2>1
  <2> QED BY <1>1, <2>1, <2>2, <2>3, <2>4 DEF ProcsOk
<1>3. LogsOk(s4) /\ s7 \in Seq(Playbooks)
  BY <1>1, HuntAssumption DEF LogsOk
<1>4. s8 \in Seq({}) /\ DOMAIN s8 = {}
  BY <1>1
<1> QED BY <1>1, <1>2, <1>3, <1>4, FS_EmptySet DEF HuntInv

(* The host.                                                               *)
LEMMA SpawnKeeps ==
  ASSUME HuntInv, NEW pid \in HuntPid, NEW traits, NEW user, NEW parent, Hunts!Spawn(pid, traits, user, parent)
  PROVE  HuntInv'
<1> DEFINE new == [traits |-> traits, user |-> user, parent |-> parent, born |-> s9 + 1, parent_born |-> s1[parent].born]
<1>1. /\ s1' = [p \in DOMAIN s1 \cup {pid} |-> IF p = pid THEN new ELSE s1[p]]
      /\ pid \notin DOMAIN s1 /\ parent \in DOMAIN s1 /\ s9' = s9 + 1
      /\ s2' = s2 /\ s4' = s4 /\ s6' = s6 /\ s7' = s7 /\ s8' = s8 /\ s10' = s10
  BY DEF Hunts!Spawn, Hunts!Changes, Hunts!Elsewhere
<1>2. new.parent = parent /\ new.born = s9 + 1 /\ new.parent_born = s1[parent].born
  OBVIOUS
<1> HIDE DEF new
<1> DEFINE D == DOMAIN s1
           E == DOMAIN s1'
<1>3. /\ E = D \cup {pid} /\ s1'[pid] = new /\ \A p \in D : s1'[p] = s1[p] /\ p # pid
  BY <1>1
<1>4. IsFiniteSet(E) /\ E \subseteq HuntPid \cup {1}
  <2>1. IsFiniteSet(D) /\ D \subseteq HuntPid \cup {1}
    BY DEF HuntInv, ProcsOk
  <2> HIDE DEF D, E
  <2> QED BY <1>3, <2>1, FS_AddElement
<1>5. s9 \in Nat /\ \A p \in D : s1[p].born \in Nat /\ s1[p].born <= s9 /\ s1[p].parent_born \in Nat
  BY DEF HuntInv, ProcsOk
<1>6. ASSUME NEW p \in E
      PROVE  /\ s1'[p].born \in 0..s9' /\ s1'[p].parent_born \in Nat
             /\ s1'[p].parent # 0 => s1'[p].parent_born < s1'[p].born
             /\ s1'[p].parent \in E =>
                  \/ s1'[s1'[p].parent].born = s1'[p].parent_born
                  \/ s1'[s1'[p].parent].born > s1'[p].born
  <2>1. CASE p = pid
    <3>1. s1'[p] = new /\ s1'[parent] = s1[parent]
      BY <1>1, <1>3, <2>1
    <3> QED BY <1>1, <1>2, <1>5, <3>1
  <2>2. CASE p # pid
    <3>1. p \in D /\ s1'[p] = s1[p]
      BY <1>3, <2>2
    <3>2. /\ s1[p].born \in 0..s9 /\ s1[p].parent_born \in Nat
          /\ s1[p].parent # 0 => s1[p].parent_born < s1[p].born
          /\ s1[p].parent \in D => \/ s1[s1[p].parent].born = s1[p].parent_born
                                   \/ s1[s1[p].parent].born > s1[p].born
      BY <3>1 DEF HuntInv, ProcsOk
    <3>3. s1'[p].born \in 0..s9'
      BY <1>1, <1>5, <3>1, <3>2
    <3>4. CASE s1[p].parent = pid
      <4>1. s1'[s1'[p].parent].born = s9 + 1 /\ s1[p].born \in Nat /\ s1[p].born <= s9
        BY <1>2, <1>3, <1>5, <3>1, <3>4
      <4>2. s1'[s1'[p].parent].born > s1'[p].born
        BY <1>5, <3>1, <4>1
      <4> QED BY <3>1, <3>2, <3>3, <4>2
    <3>5. CASE s1[p].parent # pid
      <4>1. s1[p].parent \in E => s1[p].parent \in D /\ s1'[s1[p].parent] = s1[s1[p].parent]
        BY <1>3, <3>5
      <4> QED BY <3>1, <3>2, <3>3, <4>1
    <3> QED BY <3>4, <3>5
  <2> QED BY <2>1, <2>2
<1>7. ProcsOk(s1', s9')
  BY <1>4, <1>6 DEF ProcsOk
<1>8. s9' \in Nat
  BY <1>1, <1>5
<1> QED BY <1>1, <1>7, <1>8 DEF HuntInv

LEMMA ExitKeeps ==
  ASSUME HuntInv, NEW pid, Hunts!Exit(pid)
  PROVE  HuntInv'
<1>1. /\ s1' = [p \in DOMAIN s1 \ {pid} |-> s1[p]] /\ s9' = s9 + 1
      /\ s2' = s2 /\ s4' = s4 /\ s6' = s6 /\ s7' = s7 /\ s8' = s8 /\ s10' = s10
  BY DEF Hunts!Exit, Hunts!Changes, Hunts!Elsewhere
<1> DEFINE D == DOMAIN s1
           E == DOMAIN s1'
<1>2. E = D \ {pid} /\ \A p \in E : s1'[p] = s1[p]
  BY <1>1
<1>3. s9 \in Nat /\ s9' \in Nat /\ \A n \in 0..s9 : n \in 0..s9'
  BY <1>1 DEF HuntInv
<1>4. IsFiniteSet(E) /\ E \subseteq HuntPid \cup {1}
  <2>1. IsFiniteSet(D) /\ D \subseteq HuntPid \cup {1}
    BY DEF HuntInv, ProcsOk
  <2> HIDE DEF D, E
  <2> QED BY <1>2, <2>1, FS_RemoveElement
<1>5. ASSUME NEW p \in E
      PROVE  /\ s1'[p].born \in 0..s9' /\ s1'[p].parent_born \in Nat
             /\ s1'[p].parent # 0 => s1'[p].parent_born < s1'[p].born
             /\ s1'[p].parent \in E =>
                  \/ s1'[s1'[p].parent].born = s1'[p].parent_born
                  \/ s1'[s1'[p].parent].born > s1'[p].born
  <2>1. p \in D /\ s1'[p] = s1[p]
    BY <1>2
  <2>2. s1[p].parent \in E => s1[p].parent \in D /\ s1'[s1[p].parent] = s1[s1[p].parent]
    BY <1>2
  <2>3. /\ s1[p].born \in 0..s9 /\ s1[p].parent_born \in Nat
        /\ s1[p].parent # 0 => s1[p].parent_born < s1[p].born
        /\ s1[p].parent \in D => \/ s1[s1[p].parent].born = s1[p].parent_born
                                 \/ s1[s1[p].parent].born > s1[p].born
    BY <2>1 DEF HuntInv, ProcsOk
  <2> QED BY <1>3, <2>1, <2>2, <2>3
<1>6. ProcsOk(s1', s9')
  BY <1>4, <1>5 DEF ProcsOk
<1> QED BY <1>1, <1>3, <1>6 DEF HuntInv

LEMMA HostKeeps ==
  ASSUME HuntInv, s1' = s1, s9' = s9 + 1, IsFiniteSet(s2'), LogsOk(s4'),
         s6' = s6, s7' = s7, s8' = s8, s10' = s10
  PROVE  HuntInv'
<1>1. s9' \in Nat /\ \A n \in 0..s9 : n \in 0..s9'
  BY DEF HuntInv
<1>2. ProcsOk(s1', s9')
  BY <1>1 DEF HuntInv, ProcsOk
<1> QED BY <1>1, <1>2 DEF HuntInv

LEMMA WriteLineKeeps ==
  ASSUME HuntInv, NEW f, NEW topic \in Topic, Hunts!WriteLine(f, topic)
  PROVE  HuntInv'
<1> DEFINE old == s4[f]
           new == [fresh |-> TRUE, lines |-> Append(old.lines, topic)]
<1>1. /\ s4' = [s4 EXCEPT ![f] = new] /\ s9' = s9 + 1
      /\ s1' = s1 /\ s2' = s2 /\ s6' = s6 /\ s7' = s7 /\ s8' = s8 /\ s10' = s10
  BY DEF Hunts!WriteLine, Hunts!Changes, Hunts!Elsewhere
<1>2. topic \in STRING
  BY HuntAssumption
<1>3. LogsOk(s4')
  <2>1. DOMAIN s4 = ReadFiles /\ \A x \in ReadFiles : s4[x].lines \in Seq(STRING)
    BY DEF HuntInv, LogsOk
  <2>2. new.lines = Append(old.lines, topic)
    OBVIOUS
  <2> HIDE DEF new
  <2>3. DOMAIN s4' = ReadFiles /\ \A x \in ReadFiles : s4'[x] = IF x = f THEN new ELSE s4[x]
    BY <1>1, <2>1
  <2>4. f \in ReadFiles => new.lines \in Seq(STRING)
    BY <1>2, <2>1, <2>2, AppendProperties
  <2> QED BY <2>1, <2>3, <2>4 DEF LogsOk
<1>4. IsFiniteSet(s2')
  BY <1>1 DEF HuntInv
<1> QED BY <1>1, <1>3, <1>4, HostKeeps

(* A hunt. What it adds is true of the lines as they are read then, and    *)
(* these are never read again.                                             *)
LEMMA RunHuntKeeps ==
  ASSUME HuntInv, Hunts!RunHunt
  PROVE  HuntInv'
<1> DEFINE hunt == Head(s7)
           found == Hunts!Verdict(hunt)
           new == [hunt |-> hunt, found |-> found, procs |-> s1]
           all == Append(s8, new)
<1>1. /\ s7 # <<>> /\ s7' = Tail(s7) /\ s8' = IF Tail(s7) = <<>> THEN Hunts!Ranked(all) ELSE all
      /\ IF Hunts!Greps(hunt) /\ Hunts!Unread THEN s6' = Hunts!LoadedLogs(s4) /\ s10' = s4
         ELSE s6' = s6 /\ s10' = s10
      /\ s1' = s1 /\ s2' = s2 /\ s4' = s4 /\ s9' = s9
  BY DEF Hunts!RunHunt, Hunts!hostVars
<1>2. hunt \in Playbooks /\ s7' \in Seq(Playbooks)
  BY <1>1, HeadTailProperties DEF HuntInv
<1>3. Hunts!Lines \in Seq(STRING)
  <2>1. LogsOk(s4) /\ (s10 # <<>> => LogsOk(s10) /\ s6 = Hunts!LoadedLogs(s10))
    BY DEF HuntInv
  <2> QED BY <2>1, LoadedHolds DEF Hunts!Lines, Hunts!Unread
<1>4. /\ found.status \in Statuses /\ found.confidence \in Int
      /\ \A t \in Sought : hunt = t[1] /\ found.status = "NEGATIVE" => NoLine(Hunts!Lines, t[2])
      /\ hunt = "EVAD-01" => (found.status = "CONFIRMED" <=> EvasionSeen(s1))
  BY <1>2, <1>3, VerdictIsOk DEF HuntInv
<1>5. s10' # <<>> => LogsOk(s10') /\ s6' = Hunts!LoadedLogs(s10')
  BY <1>1 DEF HuntInv
<1>6. Hunts!Greps(hunt) => s10' # <<>> /\ s6' = Hunts!Lines
  <2>1. s4 # <<>>
    BY LogsAreThere DEF HuntInv
  <2> QED BY <1>1, <2>1 DEF Hunts!Unread, Hunts!Lines
<1>7. new.hunt = hunt /\ new.found = found /\ new.procs = s1
  OBVIOUS
<1> HIDE DEF new, found, hunt
<1>8. \A t \in Sought : hunt = t[1] => Hunts!Greps(hunt)
  BY DEF Sought, Hunts!Greps
<1>9. ResultOk(new, s10', s6')
  <2>1. Judged(new)
    BY <1>4, <1>7 DEF Judged
  <2>2. ASSUME NEW t \in Sought, new.hunt = t[1], new.found.status = "NEGATIVE"
        PROVE  s10' # <<>> /\ NoLine(s6', t[2])
    BY <1>4, <1>6, <1>7, <1>8, <2>2
  <2> QED BY <1>4, <1>7, <2>1, <2>2 DEF ResultOk
<1>10. ASSUME NEW i \in DOMAIN s8 PROVE ResultOk(s8[i], s10', s6')
  <2>1. ResultOk(s8[i], s10, s6)
    BY DEF HuntInv
  <2>2. s10 # <<>> => s10' = s10 /\ s6' = s6
    BY <1>1 DEF Hunts!Unread
  <2> QED BY <2>1, <2>2 DEF ResultOk
<1>11. PICK T : s8 \in Seq(T)
  BY DEF HuntInv
<1> DEFINE n == Len(s8)
           U == T \cup {new}
<1>12. n \in Nat /\ DOMAIN s8 = 1..n
  BY <1>11, LenProperties
<1>13. /\ all \in Seq(U) /\ Len(all) = n + 1
       /\ \A i \in 1..n : all[i] = s8[i] /\ all[n + 1] = new
  <2>1. s8 \in Seq(U) /\ new \in U
    BY <1>11, SeqMonotonic
  <2> HIDE DEF U
  <2>2. all = Append(s8, new)
    OBVIOUS
  <2> HIDE DEF all
  <2> QED BY <2>1, <2>2, AppendProperties
<1>14. DOMAIN all = 1..(n + 1) /\ all[n + 1] = new
  <2>1. s8 \in Seq(U) /\ new \in U
    BY <1>11, SeqMonotonic
  <2> HIDE DEF U
  <2> QED BY <1>12, <1>13, <2>1, AppendProperties, LenProperties
<1> HIDE DEF all, U, n
<1>15. ASSUME NEW i \in DOMAIN all PROVE ResultOk(all[i], s10', s6')
  <2>1. i \in 1..n \/ i = n + 1
    BY <1>12, <1>14
  <2>2. CASE i \in 1..n
    BY <1>10, <1>12, <1>13, <2>2
  <2>3. CASE i = n + 1
    BY <1>9, <1>14, <2>3
  <2> QED BY <2>1, <2>2, <2>3
<1>16. \A i \in DOMAIN all : Judged(all[i])
  BY <1>15 DEF ResultOk
<1>17. /\ Hunts!Ranked(all) \in Seq(U)
       /\ \A i \in DOMAIN Hunts!Ranked(all) : \E j \in DOMAIN all : Hunts!Ranked(all)[i] = all[j]
       /\ \A i, j \in DOMAIN Hunts!Ranked(all) :
            i < j => ~Hunts!Before(Hunts!Ranked(all)[j], Hunts!Ranked(all)[i])
  BY <1>13, <1>16, RankedOrders
<1>18. /\ s8' \in Seq(U) /\ \A i \in DOMAIN s8' : ResultOk(s8'[i], s10', s6')
       /\ s7' = <<>> => \A i, j \in DOMAIN s8' : i < j => ~Hunts!Before(s8'[j], s8'[i])
  <2>1. CASE Tail(s7) = <<>>
    <3>1. s8' = Hunts!Ranked(all)
      BY <1>1, <2>1
    <3>2. \A i \in DOMAIN s8' : \E j \in DOMAIN all : s8'[i] = all[j]
      BY <1>17, <3>1
    <3>3. \A i \in DOMAIN s8' : ResultOk(s8'[i], s10', s6')
      BY <1>15, <3>2
    <3> QED BY <1>17, <3>1, <3>3
  <2>2. CASE Tail(s7) # <<>>
    <3>1. s8' = all /\ s7' # <<>>
      BY <1>1, <2>2
    <3> QED BY <1>13, <1>15, <3>1
  <2> QED BY <2>1, <2>2
<1>19. s9' \in Nat /\ ProcsOk(s1', s9') /\ IsFiniteSet(s2') /\ LogsOk(s4')
  BY <1>1 DEF HuntInv
<1> QED BY <1>2, <1>5, <1>18, <1>19 DEF HuntInv

LEMMA HuntInvStep ==
  part = "hunts" /\ HuntInv /\ [Next]_slots => HuntInv'
<1> SUFFICES ASSUME part = "hunts", HuntInv, [Next]_slots PROVE HuntInv'
  OBVIOUS
<1>1. ASSUME NEW pid \in HuntPid, NEW parent \in HuntPid, NEW traits \in HuntProgram, NEW u \in HuntUser,
             Hunts!Spawn(pid, traits, u, parent)
      PROVE  HuntInv'
  BY <1>1, SpawnKeeps
<1>2. ASSUME NEW pid \in HuntPid, Hunts!Exit(pid) PROVE HuntInv'
  BY <1>2, ExitKeeps
<1>3. ASSUME NEW c \in Connection, Hunts!Connect(c) PROVE HuntInv'
  <2>1. /\ s2' = s2 \cup {c} /\ s1' = s1 /\ s9' = s9 + 1 /\ s4' = s4
        /\ s6' = s6 /\ s7' = s7 /\ s8' = s8 /\ s10' = s10
    BY <1>3 DEF Hunts!Connect, Hunts!Changes, Hunts!Elsewhere
  <2>2. IsFiniteSet(s2') /\ LogsOk(s4')
    BY <2>1, FS_AddElement DEF HuntInv
  <2> QED BY <2>1, <2>2, HostKeeps
<1>4. ASSUME NEW suspicious \in BOOLEAN, Hunts!Install(suspicious) PROVE HuntInv'
  <2>1. /\ s2' = s2 /\ s1' = s1 /\ s9' = s9 + 1 /\ s4' = s4
        /\ s6' = s6 /\ s7' = s7 /\ s8' = s8 /\ s10' = s10
    BY <1>4 DEF Hunts!Install, Hunts!Changes, Hunts!Elsewhere
  <2>2. IsFiniteSet(s2') /\ LogsOk(s4')
    BY <2>1 DEF HuntInv
  <2> QED BY <2>1, <2>2, HostKeeps
<1>5. ASSUME NEW f, NEW topic \in Topic, Hunts!WriteLine(f, topic) PROVE HuntInv'
  BY <1>5, WriteLineKeeps
<1>6. CASE Hunts!RunHunt
  BY <1>6, RunHuntKeeps
<1>7. CASE UNCHANGED <<s1, s2, s3, s4, s5, s6, s7, s8, s9, s10>>
  BY <1>7 DEF HuntInv
<1> QED
  BY OnlyHunts, <1>1, <1>2, <1>3, <1>4, <1>5, <1>6, <1>7 DEF Hunts!HunterNext

LEMMA HuntInvGives == HuntInv => Hunts!HuntsHoldTogether
<1> SUFFICES ASSUME HuntInv PROVE Hunts!HuntsHoldTogether
  OBVIOUS
<1>1. /\ Hunts!Files = ReadFiles /\ Hunts!ToSet(AuthFiles) = AuthNames
      /\ \A s : Hunts!ToSet(s) = {s[i] : i \in DOMAIN s}
  BY DEF Hunts!Files, Hunts!ToSet, ReadFiles, AuthNames
<1>2. ASSUME NEW i \in DOMAIN s8, NEW t \in Sought,
             s8[i].hunt = t[1], s8[i].found.status = "NEGATIVE", Len(s6) < MaxLogLines,
             NEW f \in ReadFiles, s10[f].fresh \/ f \in AuthNames
      PROVE  t[2] \notin Hunts!ToSet(s10[f].lines)
  <2>1. s10 # <<>> /\ NoLine(s6, t[2])
    BY <1>2 DEF HuntInv, ResultOk
  <2>2. LogsOk(s10) /\ s6 = Hunts!LoadedLogs(s10)
    BY <2>1 DEF HuntInv
  <2>3. Includes(s6, s10[f].lines)
    BY <1>2, <2>2, LoadedHolds
  <2> QED BY <1>1, <2>1, <2>3 DEF Includes, NoLine
<1>3. ASSUME NEW i \in DOMAIN s8, s8[i].hunt = "EVAD-01"
      PROVE  s8[i].found.status = "CONFIRMED" <=> EvasionSeen(s8[i].procs)
  BY <1>3 DEF HuntInv, ResultOk
<1>4. s7 = <<>> => \A i, j \in DOMAIN s8 : i < j => ~Hunts!Before(s8[j], s8[i])
  BY DEF HuntInv
<1> QED BY <1>1, <1>2, <1>3, <1>4 DEF Hunts!HuntsHoldTogether, Sought, EvasionSeen

-----------------------------------------------------------------------------
\* The hunt for indicators: the directories.

LEMMA OnlyIoc ==
  part = "ioc" /\ [Next]_slots =>
    part' = part /\ (Ioc!IocNext \/ UNCHANGED <<s1, s2, s3, s4, s5, s6, s7, s8, s9, s10>>)
BY DEF Next, slots

Directories == DOMAIN DirTree
Parent(d) == DirTree[d].parent

(* What holds of the top and passes from a directory to those in it holds  *)
(* of all of them.                                                         *)
LEMMA TreeInduction ==
  ASSUME NEW Q, Top \in Q, \A d \in Directories \ {Top} : Parent(d) \in Q => d \in Q
  PROVE  Directories \subseteq Q
<1> DEFINE most == Cardinality(Directories)
<1>1. PICK depth \in [Directories -> 0..most] :
        \A d \in Directories \ {Top} : depth[Parent(d)] < depth[d]
  BY TreeAssumption DEF Directories, Parent
<1>2. most \in Nat /\ \A d \in Directories \ {Top} : Parent(d) \in Directories
  BY TreeAssumption, FS_CardinalityType DEF Directories, Parent
<1> HIDE DEF most
<1> DEFINE K == {k \in Nat : \A d \in Directories : depth[d] <= k => d \in Q}
<1>3. \A d \in Directories : depth[d] \in Nat
  BY <1>1, <1>2
<1>4. 0 \in K
  <2> SUFFICES ASSUME NEW d \in Directories, depth[d] <= 0, d # Top PROVE FALSE
    OBVIOUS
  <2>1. depth[Parent(d)] < depth[d] /\ depth[Parent(d)] \in Nat /\ depth[d] \in Nat
    BY <1>1, <1>2, <1>3
  <2> QED BY <2>1
<1>5. ASSUME NEW k \in K PROVE k + 1 \in K
  <2> SUFFICES ASSUME NEW d \in Directories, depth[d] <= k + 1, d # Top PROVE d \in Q
    OBVIOUS
  <2>1. depth[Parent(d)] < depth[d] /\ depth[Parent(d)] \in Nat /\ depth[d] \in Nat /\ Parent(d) \in Directories
    BY <1>1, <1>2, <1>3
  <2>2. depth[Parent(d)] <= k
    BY <2>1
  <2> QED BY <2>1, <2>2
<1>6. K = Nat
  <2> HIDE DEF K
  <2>1. K \in SUBSET Nat
    BY DEF K
  <2> QED BY <1>4, <1>5, <2>1, NatSetInduction
<1> QED BY <1>2, <1>3, <1>6

(* There is a function that does what Above is defined by.                 *)
LEMMA AboveExists ==
  \E f : f = [d \in Directories |-> IF d = Top THEN {} ELSE {d} \cup f[Parent(d)]]
<1> DEFINE D == Directories
           most == Cardinality(D)
<1>1. PICK depth \in [D -> 0..most] : \A d \in D \ {Top} : depth[Parent(d)] < depth[d]
  BY TreeAssumption DEF Directories, Parent
<1>2. most \in Nat /\ \A d \in D \ {Top} : Parent(d) \in D
  BY TreeAssumption, FS_CardinalityType DEF Directories, Parent
<1>3. \A d \in D : depth[d] \in Nat /\ depth[d] <= most
  BY <1>1, <1>2
<1> HIDE DEF D, most
<1> DEFINE S == [D -> SUBSET D]
           up(f) == [d \in D |-> IF d = Top THEN {} ELSE {d} \cup f[Parent(d)]]
           step == [i \in 1..(most + 1) |-> [f \in S |-> up(f)]]
           none == [d \in D |-> {}]
<1>4. ASSUME NEW f \in S PROVE up(f) \in S
  BY <1>2
<1>5. none \in S
  OBVIOUS
<1> HIDE DEF S, up, none
<1>6. step \in [1..(most + 1) -> [S -> S]] /\ most + 1 \in Nat
  BY <1>2, <1>4
<1> HIDE DEF step
<1>7. PICK h : IsRecursive(h, most + 1, S, none, step)
  BY <1>5, <1>6, RecExists
<1>8. h[0] = none /\ \A i \in 0..(most + 1) : h[i] \in S
  BY <1>7 DEF IsRecursive
<1>9. \A i \in 0..most : h[i + 1] = up(h[i])
  <2> SUFFICES ASSUME NEW i \in 0..most PROVE h[i + 1] = up(h[i])
    OBVIOUS
  <2>1. i + 1 \in 1..(most + 1) /\ (i + 1) - 1 = i /\ h[i] \in S
    BY <1>2, <1>8
  <2>2. h[i + 1] = step[i + 1][h[i]]
    BY <1>7, <2>1 DEF IsRecursive
  <2> QED BY <2>1, <2>2 DEF step
<1> DEFINE K == {k \in Nat : k <= most => \A d \in D : depth[d] <= k => h[k + 1][d] = h[k][d]}
<1>10. \A f : \A d \in D : up(f)[d] = IF d = Top THEN {} ELSE {d} \cup f[Parent(d)]
  BY DEF up
<1>11. 0 \in K
  <2> SUFFICES ASSUME NEW d \in D, depth[d] <= 0 PROVE h[0 + 1][d] = h[0][d]
    OBVIOUS
  <2>1. d = Top
    <3> SUFFICES ASSUME d # Top PROVE FALSE
      OBVIOUS
    <3>1. depth[Parent(d)] < depth[d] /\ depth[Parent(d)] \in Nat /\ depth[d] \in Nat
      BY <1>1, <1>2, <1>3
    <3> QED BY <3>1
  <2>2. 0 \in 0..most
    BY <1>2
  <2>3. h[0 + 1] = up(h[0])
    BY <1>9, <2>2
  <2>4. up(h[0])[d] = {}
    BY <1>10, <2>1
  <2>5. h[0][d] = {}
    BY <1>8 DEF none
  <2> QED BY <2>3, <2>4, <2>5
<1>12. ASSUME NEW k \in K PROVE k + 1 \in K
  <2> SUFFICES ASSUME k + 1 <= most, NEW d \in D, depth[d] <= k + 1 PROVE h[(k + 1) + 1][d] = h[k + 1][d]
    OBVIOUS
  <2>1. k \in Nat /\ k \in 0..most /\ k + 1 \in 0..most
    BY <1>2
  <2>2. h[(k + 1) + 1][d] = up(h[k + 1])[d] /\ h[k + 1][d] = up(h[k])[d]
    BY <1>9, <2>1
  <2>3. CASE d = Top
    BY <1>10, <2>2, <2>3
  <2>4. CASE d # Top
    <3>1. /\ depth[Parent(d)] < depth[d] /\ depth[Parent(d)] \in Nat /\ depth[d] \in Nat /\ Parent(d) \in D
      BY <1>1, <1>2, <1>3, <2>4
    <3>2. depth[Parent(d)] <= k
      BY <2>1, <3>1
    <3>3. k <= most
      BY <2>1, <1>2
    <3>4. h[k + 1][Parent(d)] = h[k][Parent(d)]
      BY <3>1, <3>2, <3>3
    <3>5. up(h[k + 1])[d] = {d} \cup h[k + 1][Parent(d)]
      BY <1>10, <2>4
    <3>6. up(h[k])[d] = {d} \cup h[k][Parent(d)]
      BY <1>10, <2>4
    <3> QED BY <2>2, <3>4, <3>5, <3>6
  <2> QED BY <2>3, <2>4
<1>13. K = Nat
  <2> HIDE DEF K
  <2>1. K \in SUBSET Nat
    BY DEF K
  <2> QED BY <1>11, <1>12, <2>1, NatSetInduction
<1> DEFINE f == h[most]
<1>14. \A d \in D : up(f)[d] = f[d]
  <2>1. most \in 0..most /\ most <= most
    BY <1>2
  <2>2. \A d \in D : h[most + 1][d] = h[most][d]
    BY <1>2, <1>3, <1>13, <2>1
  <2> QED BY <1>9, <2>1, <2>2
<1>15. f \in S
  <2>1. most \in 0..(most + 1)
    BY <1>2
  <2> QED BY <1>8, <2>1
<1> HIDE DEF f
<1>16. f = up(f)
  <2>1. f \in [D -> SUBSET D] /\ up(f) \in [D -> SUBSET D]
    BY <1>4, <1>15 DEF S
  <2> QED BY <1>14, <2>1
<1> QED BY <1>16 DEF up, D

(* What lies above a directory, itself among it and the top not.           *)
LEMMA AboveIs ==
  /\ Ioc!Above[Top] = {} /\ Top \in Directories
  /\ \A d \in Directories \ {Top} :
       Parent(d) \in Directories /\ Ioc!Above[d] = {d} \cup Ioc!Above[Parent(d)]
<1>1. Ioc!Above = CHOOSE f : f = [d \in Directories |-> IF d = Top THEN {} ELSE {d} \cup f[Parent(d)]]
  BY DEF Ioc!Above, Directories, Parent
<1>2. Ioc!Above = [d \in Directories |-> IF d = Top THEN {} ELSE {d} \cup Ioc!Above[Parent(d)]]
  <2> DEFINE above == Ioc!Above
  <2>1. above = CHOOSE f : f = [d \in Directories |-> IF d = Top THEN {} ELSE {d} \cup f[Parent(d)]]
    BY <1>1
  <2> HIDE DEF above
  <2>2. above = [d \in Directories |-> IF d = Top THEN {} ELSE {d} \cup above[Parent(d)]]
    BY <2>1, AboveExists
  <2> QED BY <2>2 DEF above
<1>3. Top \in Directories /\ \A d \in Directories \ {Top} : Parent(d) \in Directories
  BY TreeAssumption DEF Directories, Parent
<1> DEFINE above == Ioc!Above
<1> HIDE DEF above
<1>4. above = [d \in Directories |-> IF d = Top THEN {} ELSE {d} \cup above[Parent(d)]]
  BY <1>2 DEF above
<1>5. \A d \in Directories : above[d] = IF d = Top THEN {} ELSE {d} \cup above[Parent(d)]
  BY <1>4
<1> QED BY <1>3, <1>5 DEF above

(* From the top, or from a directory above another, a directory in it      *)
(* leads on to the other.                                                  *)
LEMMA WayDown ==
  ASSUME NEW x \in Directories, NEW d \in {Top} \cup Ioc!Above[x], d # x
  PROVE  \E c \in Directories : c # Top /\ Parent(c) = d /\ c \in Ioc!Above[x]
<1> DEFINE Down(y) == \A e \in {Top} \cup Ioc!Above[y] :
                        e # y => \E c \in Directories : c # Top /\ Parent(c) = e /\ c \in Ioc!Above[y]
           Q == {y \in Directories : Down(y)}
<1>1. Top \in Q
  BY AboveIs
<1>2. ASSUME NEW y \in Directories \ {Top}, Parent(y) \in Q PROVE y \in Q
  <2> SUFFICES ASSUME NEW e \in {Top} \cup Ioc!Above[y], e # y
               PROVE  \E c \in Directories : c # Top /\ Parent(c) = e /\ c \in Ioc!Above[y]
    OBVIOUS
  <2>1. Ioc!Above[y] = {y} \cup Ioc!Above[Parent(y)] /\ Down(Parent(y))
    BY <1>2, AboveIs
  <2>2. CASE e = Parent(y)
    BY <2>1, <2>2
  <2>3. CASE e # Parent(y)
    <3>1. e \in {Top} \cup Ioc!Above[Parent(y)]
      BY <2>1
    <3>2. PICK c \in Directories : c # Top /\ Parent(c) = e /\ c \in Ioc!Above[Parent(y)]
      BY <2>1, <2>3, <3>1
    <3> QED BY <2>1, <3>2
  <2> QED BY <2>2, <2>3
<1>3. x \in Q
  <2> HIDE DEF Q
  <2> QED BY <1>1, <1>2, TreeInduction
<1> QED BY <1>3

-----------------------------------------------------------------------------
\* The hunt for indicators: the files.

FileTold(hits, p) == {h \in hits : h[1] = "file" /\ h[2] = p}

(* What there is to tell of a file that stands still.                      *)
Full(p) == IF s1[p].size \in {"empty", "huge"} THEN {}
           ELSE Ioc!StatHits(p, s1[p]) \cup Ioc!ContentHits(p, s1[p].size, s1[p])

Unburied(d) == d \in Directories /\ ~Ioc!Buried(d)
OnTheWay(x) == \E i \in DOMAIN s2 : s2[i] \in {Top} \cup Ioc!Above[x]

(* All is told of it already, or it is being checked, or its directory is  *)
(* yet to come.                                                            *)
ToBeTold(p) ==
  /\ FileTold(s8, p) \subseteq Full(p)
  /\ \/ FileTold(s8, p) = Full(p)
     \/ p \in s3
     \/ \E s \in s4 : s.path = p
     \/ OnTheWay(p[1])
  /\ \A s \in s4 : s.path = p => /\ s.size = s1[p].size /\ s.size \in {"small", "large"}
                                 /\ Ioc!StatHits(p, s1[p]) \subseteq FileTold(s8, p)

(* What the hunt reaches of the artifacts of persistence, and has told of  *)
(* when it is past the stage.                                              *)
Reported(hits, h) == \E hit \in hits : hit[1] = "persistence" /\ hit[2] = h

IocScanInv ==
  /\ DOMAIN s1 \subseteq Ioc!FilePath /\ \A p \in DOMAIN s1 : s1[p] \in FileKind
  /\ s2 \in Seq(Directories) /\ \A i \in DOMAIN s2 : Unburied(s2[i])
  /\ \A p \in s3 : Unburied(p[1])
  /\ s4 = {} \/ \E s : s4 = {s} /\ Unburied(s.path[1])
  /\ s7 \in 1..9 /\ (s7 > 1 => s2 = <<>> /\ s3 = {} /\ s4 = {})
  /\ s10 \subseteq Ioc!FilePath
  /\ \A p \in s10 \cap DOMAIN s1 : IF Ioc!Buried(p[1]) THEN FileTold(s8, p) = {} ELSE ToBeTold(p)
  /\ s6.hideouts \in HideoutSets
  /\ \A h \in s6.hideouts : h.marks # {} /\ Ioc!Scanned(h, h.place) =>
       \A i \in 3..8 : i < s7 /\ Ioc!Stages[i] = h.place => Reported(s8, h)

LEMMA StagesAre ==
  /\ Ioc!Stages[1] = "files" /\ Ioc!Stages[2] = "processes" /\ Ioc!Stages[3] = "cron" /\ Ioc!Stages[4] = "preload"
  /\ Ioc!Stages[5] = "units" /\ Ioc!Stages[6] = "home" /\ Ioc!Stages[7] = "root" /\ Ioc!Stages[8] = "scratch"
  /\ Ioc!Stages[9] = "over"
  /\ \A i \in 1..9 : /\ Ioc!Stages[i] = "files" => i = 1
                     /\ Ioc!Stages[i] = "processes" => i = 2
                     /\ Ioc!Stages[i] = "over" => i = 9
<1>1. /\ Ioc!Stages[1] = "files" /\ Ioc!Stages[2] = "processes" /\ Ioc!Stages[3] = "cron" /\ Ioc!Stages[4] = "preload"
      /\ Ioc!Stages[5] = "units" /\ Ioc!Stages[6] = "home" /\ Ioc!Stages[7] = "root" /\ Ioc!Stages[8] = "scratch"
      /\ Ioc!Stages[9] = "over"
  BY DEF Ioc!Stages
<1>2. \A i \in 1..9 : i \in {1, 2, 3, 4, 5, 6, 7, 8, 9}
  OBVIOUS
<1> QED BY <1>1, <1>2

(* A directory entered from one that is not buried is not buried either.   *)
LEMMA EnteredIsUnburied ==
  ASSUME NEW d, Unburied(d), NEW c \in Ioc!Entered(d)
  PROVE  Unburied(c)
<1>1. c \in Directories /\ Parent(c) = d /\ (d = Top \/ ~DirTree[c].hidden)
  BY DEF Ioc!Entered, Ioc!Child, Directories, Parent
<1>2. c # Top
  BY <1>1, TreeAssumption DEF Unburied, Directories, Parent
<1>3. Ioc!Above[c] = {c} \cup Ioc!Above[d]
  BY <1>1, <1>2, AboveIs
<1>4. \A a \in Ioc!Above[d] : ~(DirTree[a].hidden /\ DirTree[a].parent # Top)
  BY DEF Unburied, Ioc!Buried
<1>5. ~(DirTree[c].hidden /\ DirTree[c].parent # Top)
  BY <1>1 DEF Parent
<1> QED BY <1>1, <1>3, <1>4, <1>5 DEF Unburied, Ioc!Buried

(* On the way to a directory that is not buried, the next one is entered.  *)
LEMMA WayIsEntered ==
  ASSUME NEW x, Unburied(x), NEW d \in {Top} \cup Ioc!Above[x], d # x
  PROVE  \E c \in Ioc!Entered(d) : c \in Ioc!Above[x]
<1>1. PICK c \in Directories : c # Top /\ Parent(c) = d /\ c \in Ioc!Above[x]
  BY WayDown DEF Unburied
<1>2. ~(DirTree[c].hidden /\ DirTree[c].parent # Top)
  BY <1>1 DEF Unburied, Ioc!Buried
<1> QED BY <1>1, <1>2 DEF Ioc!Entered, Ioc!Child, Directories, Parent

LEMMA TopIsUnburied == Unburied(Top)
BY AboveIs DEF Unburied, Ioc!Buried

LEMMA IocScanInvInit == Ioc!IocInit => IocScanInv
<1> SUFFICES ASSUME Ioc!IocInit PROVE IocScanInv
  OBVIOUS
<1>1. /\ s2 = <<Top>> /\ s3 = {} /\ s4 = {} /\ s6 \in [root : BOOLEAN, hideouts : HideoutSets, home : BOOLEAN]
      /\ s7 = 1 /\ s8 = {} /\ s10 = Ioc!FilePath
      /\ s1 \in UNION {[P -> FileKind] : P \in {Q \in SUBSET Ioc!FilePath : Ioc!Cardinality(Q) <= 1}}
  BY DEF Ioc!IocInit
<1>2. DOMAIN s1 \subseteq Ioc!FilePath /\ \A p \in DOMAIN s1 : s1[p] \in FileKind
  <2>1. PICK P \in {Q \in SUBSET Ioc!FilePath : Ioc!Cardinality(Q) <= 1} : s1 \in [P -> FileKind]
    BY <1>1
  <2> QED BY <2>1
<1>3. s2 \in Seq(Directories) /\ DOMAIN s2 = {1} /\ s2[1] = Top /\ Unburied(Top)
  BY <1>1, TopIsUnburied DEF Unburied
<1>4. ASSUME NEW p PROVE FileTold(s8, p) = {} /\ OnTheWay(p[1])
  BY <1>1, <1>3 DEF FileTold, OnTheWay
<1>5. \A p : ToBeTold(p)
  BY <1>1, <1>4 DEF ToBeTold
<1>6. \A i \in 3..8 : ~(i < s7)
  BY <1>1
<1> QED BY <1>1, <1>2, <1>3, <1>4, <1>5, <1>6 DEF IocScanInv

(* The host.                                                               *)
LEMMA ChangedFilesKeep ==
  ASSUME IocScanInv, NEW path, s10' = s10 \ {path},
         \A p \in DOMAIN s1' \ {path} : p \in DOMAIN s1 /\ s1'[p] = s1[p],
         DOMAIN s1' \subseteq Ioc!FilePath, \A p \in DOMAIN s1' : s1'[p] \in FileKind,
         UNCHANGED <<s2, s3, s4, s5, s6, s7, s8>>
  PROVE  IocScanInv'
<1>1. ASSUME NEW p \in s10' \cap DOMAIN s1'
      PROVE  IF Ioc!Buried(p[1]) THEN FileTold(s8', p) = {} ELSE ToBeTold(p)'
  <2>1. p \in s10 \cap DOMAIN s1 /\ s1'[p] = s1[p]
    OBVIOUS
  <2>2. Full(p)' = Full(p)
    BY <2>1 DEF Full
  <2>3. IF Ioc!Buried(p[1]) THEN FileTold(s8, p) = {} ELSE ToBeTold(p)
    BY <2>1 DEF IocScanInv
  <2>4. OnTheWay(p[1])' <=> OnTheWay(p[1])
    BY DEF OnTheWay
  <2> QED BY <2>1, <2>2, <2>3, <2>4 DEF ToBeTold
<1>2. s10' \subseteq Ioc!FilePath
  BY DEF IocScanInv
<1> QED BY <1>1, <1>2 DEF IocScanInv

LEMMA RewriteKeeps ==
  ASSUME IocScanInv, NEW path \in Ioc!FilePath, NEW kind \in FileKind, Ioc!Rewrite(path, kind)
  PROVE  IocScanInv'
<1>1. /\ s1' = [p \in DOMAIN s1 \cup {path} |-> IF p = path THEN kind ELSE s1[p]]
      /\ s10' = s10 \ {path} /\ UNCHANGED <<s2, s3, s4, s5, s6, s7, s8>>
  BY DEF Ioc!Rewrite, Ioc!hunterVars
<1>2. DOMAIN s1 \subseteq Ioc!FilePath /\ \A p \in DOMAIN s1 : s1[p] \in FileKind
  BY DEF IocScanInv
<1>3. /\ \A p \in DOMAIN s1' \ {path} : p \in DOMAIN s1 /\ s1'[p] = s1[p]
      /\ DOMAIN s1' \subseteq Ioc!FilePath /\ \A p \in DOMAIN s1' : s1'[p] \in FileKind
  BY <1>1, <1>2
<1> QED BY <1>1, <1>3, ChangedFilesKeep

LEMMA DeleteKeeps ==
  ASSUME IocScanInv, NEW path, Ioc!Delete(path)
  PROVE  IocScanInv'
<1>1. /\ s1' = [p \in DOMAIN s1 \ {path} |-> s1[p]]
      /\ s10' = s10 \ {path} /\ UNCHANGED <<s2, s3, s4, s5, s6, s7, s8>>
  BY DEF Ioc!Delete, Ioc!hunterVars
<1>2. DOMAIN s1 \subseteq Ioc!FilePath /\ \A p \in DOMAIN s1 : s1[p] \in FileKind
  BY DEF IocScanInv
<1>3. /\ \A p \in DOMAIN s1' \ {path} : p \in DOMAIN s1 /\ s1'[p] = s1[p]
      /\ DOMAIN s1' \subseteq Ioc!FilePath /\ \A p \in DOMAIN s1' : s1'[p] \in FileKind
  BY <1>1, <1>2
<1> QED BY <1>1, <1>3, ChangedFilesKeep

(* The hunt. Listing a directory puts those entered in its place, and its  *)
(* files are looked at next.                                               *)
LEMMA ListDirKeeps ==
  ASSUME IocScanInv, Ioc!ListDir
  PROVE  IocScanInv'
<1> DEFINE d == Head(s2)
           inside == Ioc!Entered(d)
           next == Ioc!SetToSeq(inside)
<1>1. /\ Ioc!Stages[s7] = "files" /\ s3 = {} /\ s4 = {} /\ s2 # <<>>
      /\ s3' = {p \in DOMAIN s1 : p[1] = d} /\ s2' = next \o Tail(s2)
      /\ s1' = s1 /\ s4' = s4 /\ s6' = s6 /\ s7' = s7 /\ s8' = s8 /\ s10' = s10
  BY DEF Ioc!ListDir, Ioc!filesVars
<1>2. s2 \in Seq(Directories) /\ \A i \in DOMAIN s2 : Unburied(s2[i])
  BY DEF IocScanInv
<1>3. /\ Tail(s2) \in Seq(Directories) /\ d \in Directories
      /\ DOMAIN s2 = 1..Len(s2) /\ Len(s2) \in Nat /\ Len(s2) # 0 /\ d = s2[1]
      /\ Len(Tail(s2)) = Len(s2) - 1 /\ \A i \in 1..(Len(s2) - 1) : Tail(s2)[i] = s2[i + 1]
  BY <1>1, <1>2, HeadTailProperties, LenProperties, EmptySeq
<1>4. 1 \in DOMAIN s2 /\ Unburied(d)
  BY <1>2, <1>3
<1>5. IsFiniteSet(inside) /\ inside \subseteq Directories
  <2>1. inside \in SUBSET Directories /\ IsFiniteSet(Directories)
    BY TreeAssumption DEF Ioc!Entered, Ioc!Child, Directories
  <2> QED BY <2>1, FS_Subset
<1> HIDE DEF d, inside
<1>6. next \in Seq(inside) /\ \A c \in inside : \E i \in DOMAIN next : next[i] = c
  <2>1. next = CHOOSE g \in [1..Cardinality(inside) -> inside] : \A a, b \in DOMAIN g : g[a] = g[b] => a = b
    BY DEF Ioc!SetToSeq, Ioc!IsInjective, Ioc!Cardinality, Cardinality
  <2>2. \E g \in [1..Cardinality(inside) -> inside] : \A a, b \in DOMAIN g : g[a] = g[b] => a = b
    BY <1>5, SequencesExist
  <2> HIDE DEF next
  <2>3. next \in [1..Cardinality(inside) -> inside] /\ \A a, b \in DOMAIN next : next[a] = next[b] => a = b
    BY <2>1, <2>2
  <2> QED BY <1>5, <2>3, SequenceOfSet
<1>7. next \in Seq(Directories) /\ DOMAIN next = 1..Len(next) /\ \A i \in DOMAIN next : next[i] \in inside
  <2> HIDE DEF next
  <2> QED BY <1>5, <1>6, SeqMonotonic, LenProperties, ElementOfSeq
<1> HIDE DEF next
<1> DEFINE k == Len(next)
           m == Len(s2)
<1>8. /\ s2' \in Seq(Directories) /\ k \in Nat /\ m \in Nat /\ DOMAIN s2' = 1..(k + (m - 1))
      /\ \A i \in 1..k : s2'[i] = next[i]
      /\ \A i \in 1..(m - 1) : s2'[k + i] = s2[i + 1]
  <2> DEFINE rest == Tail(s2)
  <2>1. rest \in Seq(Directories) /\ Len(rest) = m - 1 /\ \A i \in 1..(m - 1) : rest[i] = s2[i + 1]
    BY <1>3
  <2> HIDE DEF rest
  <2> DEFINE both == next \o rest
  <2>2. /\ both \in Seq(Directories) /\ k \in Nat /\ Len(both) = k + (m - 1)
        /\ \A j \in 1..k : both[j] = next[j]
        /\ \A j \in 1..(m - 1) : both[k + j] = rest[j]
    <3>1. /\ next \o rest \in Seq(Directories) /\ Len(next) \in Nat /\ Len(rest) \in Nat
          /\ Len(next \o rest) = Len(next) + Len(rest)
          /\ \A j \in 1..Len(next) : (next \o rest)[j] = next[j]
          /\ \A j \in 1..Len(rest) : (next \o rest)[Len(next) + j] = rest[j]
      <4>1. next \in Seq(Directories) /\ rest \in Seq(Directories)
        BY <1>7, <2>1
      <4> QED BY <4>1, Concatenated
    <3>2. Len(rest) = m - 1
      BY <2>1
    <3> HIDE DEF m
    <3> QED BY <3>1, <3>2
  <2>3. DOMAIN both = 1..Len(both)
    BY <2>2, LenProperties
  <2>4. s2' = both
    BY <1>1 DEF rest
  <2>5. \A j \in 1..(m - 1) : both[k + j] = s2[j + 1]
    BY <2>1, <2>2
  <2> HIDE DEF both, k, m
  <2>6. m \in Nat
    BY <1>3 DEF m
  <2> QED BY <2>2, <2>3, <2>4, <2>5, <2>6
<1>9. ASSUME NEW i \in DOMAIN s2' PROVE Unburied(s2'[i])
  <2>1. CASE i \in 1..k
    <3>1. s2'[i] \in inside
      BY <1>7, <1>8, <2>1
    <3> QED BY <1>4, <3>1, EnteredIsUnburied DEF inside
  <2>2. CASE i \notin 1..k
    <3>1. i - k \in 1..(m - 1) /\ k + (i - k) = i /\ (i - k) + 1 \in 1..m
      BY <1>8, <2>2
    <3>2. s2'[i] = s2[(i - k) + 1]
      BY <1>8, <3>1
    <3> QED BY <1>2, <1>3, <3>1, <3>2
  <2> QED BY <2>1, <2>2
<1>10. ASSUME NEW x, Unburied(x), OnTheWay(x), x # d PROVE OnTheWay(x)'
  <2>1. PICK i \in 1..m : s2[i] \in {Top} \cup Ioc!Above[x]
    BY <1>3, <1>10 DEF OnTheWay
  <2>2. CASE i = 1
    <3>1. d \in {Top} \cup Ioc!Above[x]
      BY <1>3, <2>1, <2>2
    <3>2. PICK c \in inside : c \in Ioc!Above[x]
      BY <1>10, <3>1, WayIsEntered DEF inside
    <3>3. PICK j \in 1..k : next[j] = c
      BY <1>6, <1>7
    <3>4. j \in DOMAIN s2' /\ s2'[j] = c
      BY <1>3, <1>8, <3>3
    <3> QED BY <3>2, <3>4 DEF OnTheWay
  <2>3. CASE i # 1
    <3>1. i - 1 \in 1..(m - 1) /\ (i - 1) + 1 = i /\ k + (i - 1) \in 1..(k + (m - 1))
      BY <1>8, <2>3
    <3>2. k + (i - 1) \in DOMAIN s2' /\ s2'[k + (i - 1)] = s2[i]
      BY <1>8, <3>1
    <3> QED BY <2>1, <3>2 DEF OnTheWay
  <2> QED BY <2>2, <2>3
<1>11. ASSUME NEW p \in s10' \cap DOMAIN s1'
       PROVE  IF Ioc!Buried(p[1]) THEN FileTold(s8', p) = {} ELSE ToBeTold(p)'
  <2>1. p \in s10 \cap DOMAIN s1 /\ s1' = s1 /\ s8' = s8
    BY <1>1
  <2>2. IF Ioc!Buried(p[1]) THEN FileTold(s8, p) = {} ELSE ToBeTold(p)
    BY <2>1 DEF IocScanInv
  <2>3. Full(p)' = Full(p)
    BY <2>1 DEF Full
  <2>4. ASSUME ~Ioc!Buried(p[1]) PROVE ToBeTold(p)'
    <3>1. ToBeTold(p) /\ p[1] \in Directories
      BY <2>1, <2>2, <2>4 DEF IocScanInv, Ioc!FilePath, Directories
    <3>2. Unburied(p[1])
      BY <2>4, <3>1 DEF Unburied
    <3>3. FileTold(s8, p) = Full(p) \/ OnTheWay(p[1])
      BY <1>1, <3>1 DEF ToBeTold
    <3>4. p[1] = d => p \in s3'
      BY <1>1, <2>1
    <3>5. FileTold(s8', p) = Full(p)' \/ p \in s3' \/ OnTheWay(p[1])'
      BY <1>10, <2>1, <2>3, <3>2, <3>3, <3>4
    <3>6. FileTold(s8', p) \subseteq Full(p)'
      BY <2>1, <2>3, <3>1 DEF ToBeTold
    <3>7. s4' = {}
      BY <1>1
    <3> QED BY <3>5, <3>6, <3>7 DEF ToBeTold
  <2> QED BY <2>1, <2>2, <2>4
<1>12. \A p \in s3' : Unburied(p[1])
  BY <1>1, <1>4
<1>13. ~(s7 > 1)
  BY <1>1 DEF IocScanInv
<1> QED BY <1>1, <1>8, <1>9, <1>11, <1>12, <1>13 DEF IocScanInv

(* What is told later does not change what was told of other files.        *)
LEMMA FileToldMore ==
  ASSUME NEW hits, NEW more, NEW p
  PROVE  /\ FileTold(hits \cup more, p) = FileTold(hits, p) \cup FileTold(more, p)
         /\ (\A h \in more : h[1] # "file" \/ h[2] # p) => FileTold(hits \cup more, p) = FileTold(hits, p)
BY DEF FileTold

LEMMA HitsOfFile ==
  ASSUME NEW p, NEW q, NEW size, NEW kind
  PROVE  /\ FileTold(Ioc!StatHits(p, kind), p) = Ioc!StatHits(p, kind)
         /\ FileTold(Ioc!ContentHits(p, size, kind), p) = Ioc!ContentHits(p, size, kind)
         /\ p # q => /\ \A h \in Ioc!StatHits(p, kind) : h[1] # "file" \/ h[2] # q
                     /\ \A h \in Ioc!ContentHits(p, size, kind) : h[1] # "file" \/ h[2] # q
<1>1. \A h \in Ioc!StatHits(p, kind) : h[1] = "file" /\ h[2] = p
  BY DEF Ioc!StatHits
<1>2. \A h \in Ioc!ContentHits(p, size, kind) : h[1] = "file" /\ h[2] = p
  BY DEF Ioc!ContentHits
<1> QED BY <1>1, <1>2 DEF FileTold

(* A step that adds to what is told keeps what was reported.               *)
LEMMA ReportedStays ==
  ASSUME IocScanInv, s8 \subseteq s8', s6' = s6, s7' = s7
  PROVE  /\ s6'.hideouts \in HideoutSets
         /\ \A h \in s6'.hideouts : h.marks # {} /\ Ioc!Scanned(h, h.place) =>
              \A i \in 3..8 : i < s7' /\ Ioc!Stages[i] = h.place => Reported(s8', h)
BY DEF IocScanInv, Reported

LEMMA StatFileKeeps ==
  ASSUME IocScanInv, NEW path, Ioc!StatFile(path)
  PROVE  IocScanInv'
<1> DEFINE there == path \in DOMAIN s1 /\ s1[path].size \in {"small", "large"}
           seen == [path |-> path, size |-> s1[path].size]
           more == IF there THEN Ioc!StatHits(path, s1[path]) ELSE {}
<1>1. /\ path \in s3 /\ s4 = {} /\ s3' = s3 \ {path}
      /\ s1' = s1 /\ s2' = s2 /\ s6' = s6 /\ s7' = s7 /\ s10' = s10
      /\ s4' = IF there THEN {seen} ELSE {}
      /\ s8' = s8 \cup more
  BY DEF Ioc!StatFile, Ioc!filesVars
<1>2. seen.path = path /\ seen.size = s1[path].size
  OBVIOUS
<1> HIDE DEF seen
<1>3. s4' = {} \/ \E s : s4' = {s} /\ Unburied(s.path[1])
  BY <1>1, <1>2 DEF IocScanInv
<1>4. ASSUME NEW p \in s10' \cap DOMAIN s1'
      PROVE  IF Ioc!Buried(p[1]) THEN FileTold(s8', p) = {} ELSE ToBeTold(p)'
  <2>1. p \in s10 \cap DOMAIN s1 /\ s1[p] \in FileKind
    BY <1>1 DEF IocScanInv
  <2>2. IF Ioc!Buried(p[1]) THEN FileTold(s8, p) = {} ELSE ToBeTold(p)
    BY <2>1 DEF IocScanInv
  <2>3. Full(p)' = Full(p) /\ OnTheWay(p[1])' = OnTheWay(p[1])
    BY <1>1 DEF Full, OnTheWay
  <2>4. CASE p # path
    <3>1. \A h \in more : h[1] # "file" \/ h[2] # p
      BY <2>4, HitsOfFile
    <3> HIDE DEF more
    <3>2. FileTold(s8', p) = FileTold(s8, p)
      BY <1>1, <3>1, FileToldMore
    <3>3. \A s \in s4' : s.path # p
      BY <1>1, <1>2, <2>4
    <3>4. p \in s3 => p \in s3'
      BY <1>1, <2>4
    <3> QED BY <1>1, <2>2, <2>3, <3>2, <3>3, <3>4 DEF ToBeTold
  <2>5. CASE p = path
    <3>1. ~Ioc!Buried(p[1])
      BY <1>1, <2>5 DEF IocScanInv, Unburied
    <3>2. FileTold(s8, p) \subseteq Full(p)
      BY <2>2, <3>1 DEF ToBeTold
    <3>3. CASE there
      <4>1. s1[p].size \in {"small", "large"} /\ more = Ioc!StatHits(p, s1[p])
        BY <2>5, <3>3
      <4>2. Full(p) = Ioc!StatHits(p, s1[p]) \cup Ioc!ContentHits(p, s1[p].size, s1[p])
        BY <4>1 DEF Full
      <4>3. FileTold(s8', p) = FileTold(s8, p) \cup Ioc!StatHits(p, s1[p])
        <5>1. FileTold(more, p) = Ioc!StatHits(p, s1[p])
          BY <4>1, HitsOfFile
        <5> HIDE DEF more
        <5> QED BY <1>1, <5>1, FileToldMore
      <4>4. s4' = {seen} /\ seen.path = p /\ seen.size = s1[p].size
        BY <1>1, <1>2, <2>5, <3>3
      <4>5. FileTold(s8', p) \subseteq Full(p)'
        BY <2>3, <3>2, <4>2, <4>3
      <4>6. \E s \in s4' : s.path = p
        BY <4>4
      <4>7. \A s \in s4' : s.size = s1'[p].size /\ s.size \in {"small", "large"}
        BY <1>1, <4>1, <4>4
      <4>8. Ioc!StatHits(p, s1'[p]) \subseteq FileTold(s8', p)
        BY <1>1, <4>3
      <4> QED BY <3>1, <4>5, <4>6, <4>7, <4>8 DEF ToBeTold
    <3>4. CASE ~there
      <4>1. s1[p].size \notin {"small", "large"}
        BY <2>1, <2>5, <3>4
      <4>2. s1[p].size \in {"empty", "huge"}
        BY <2>1, <4>1, FileAssumption
      <4>3. Full(p) = {} /\ s4' = {} /\ s8' = s8
        BY <1>1, <3>4, <4>2 DEF Full
      <4> QED BY <2>3, <3>1, <3>2, <4>3 DEF ToBeTold
    <3> QED BY <3>3, <3>4
  <2> QED BY <2>4, <2>5
<1>5. ~(s7 > 1)
  BY <1>1 DEF IocScanInv
<1>6. /\ s6'.hideouts \in HideoutSets
      /\ \A h \in s6'.hideouts : h.marks # {} /\ Ioc!Scanned(h, h.place) =>
           \A i \in 3..8 : i < s7' /\ Ioc!Stages[i] = h.place => Reported(s8', h)
  BY <1>1, ReportedStays
<1>7. \A p \in s3' : Unburied(p[1])
  BY <1>1 DEF IocScanInv
<1> HIDE DEF there, more
<1>8. /\ DOMAIN s1' \subseteq Ioc!FilePath /\ \A p \in DOMAIN s1' : s1'[p] \in FileKind
      /\ s2' \in Seq(Directories) /\ \A i \in DOMAIN s2' : Unburied(s2'[i])
      /\ s10' \subseteq Ioc!FilePath /\ s7' \in 1..9
  BY <1>1 DEF IocScanInv
<1> QED BY <1>1, <1>3, <1>4, <1>5, <1>6, <1>7, <1>8 DEF IocScanInv

LEMMA ReadFileKeeps ==
  ASSUME IocScanInv, Ioc!ReadFile
  PROVE  IocScanInv'
<1>1. PICK s \in s4 : s8' = s8 \cup (IF s.path \in DOMAIN s1 THEN Ioc!ContentHits(s.path, s.size, s1[s.path]) ELSE {})
  BY DEF Ioc!ReadFile
<1>2. /\ s4' = {} /\ s1' = s1 /\ s2' = s2 /\ s3' = s3 /\ s6' = s6 /\ s7' = s7 /\ s10' = s10
  BY DEF Ioc!ReadFile, Ioc!filesVars
<1>3. s4 = {s} /\ Unburied(s.path[1])
  BY <1>1 DEF IocScanInv
<1> DEFINE more == IF s.path \in DOMAIN s1 THEN Ioc!ContentHits(s.path, s.size, s1[s.path]) ELSE {}
<1>4. s8' = s8 \cup more
  BY <1>1
<1>5. ASSUME NEW p \in s10' \cap DOMAIN s1'
      PROVE  IF Ioc!Buried(p[1]) THEN FileTold(s8', p) = {} ELSE ToBeTold(p)'
  <2>1. p \in s10 \cap DOMAIN s1
    BY <1>2
  <2>2. IF Ioc!Buried(p[1]) THEN FileTold(s8, p) = {} ELSE ToBeTold(p)
    BY <2>1 DEF IocScanInv
  <2>3. Full(p)' = Full(p) /\ OnTheWay(p[1])' = OnTheWay(p[1])
    BY <1>2 DEF Full, OnTheWay
  <2>4. CASE p # s.path
    <3>1. \A h \in more : h[1] # "file" \/ h[2] # p
      BY <2>4, HitsOfFile
    <3> HIDE DEF more
    <3>2. FileTold(s8', p) = FileTold(s8, p)
      BY <1>4, <3>1, FileToldMore
    <3>3. ~(\E t \in s4 : t.path = p)
      BY <1>3, <2>4
    <3> QED BY <1>2, <2>2, <2>3, <3>2, <3>3 DEF ToBeTold
  <2>5. CASE p = s.path
    <3>1. ~Ioc!Buried(p[1])
      BY <1>3, <2>5 DEF Unburied
    <3>2. /\ FileTold(s8, p) \subseteq Full(p) /\ s.size = s1[p].size /\ s.size \in {"small", "large"}
          /\ Ioc!StatHits(p, s1[p]) \subseteq FileTold(s8, p)
      BY <1>3, <2>2, <2>5, <3>1 DEF ToBeTold
    <3>3. Full(p) = Ioc!StatHits(p, s1[p]) \cup Ioc!ContentHits(p, s.size, s1[p])
      BY <3>2 DEF Full
    <3>4. more = Ioc!ContentHits(p, s.size, s1[p])
      BY <2>1, <2>5
    <3>5. FileTold(s8', p) = FileTold(s8, p) \cup Ioc!ContentHits(p, s.size, s1[p])
      <4>1. FileTold(more, p) = Ioc!ContentHits(p, s.size, s1[p])
        <5> HIDE DEF more
        <5>1. FileTold(Ioc!ContentHits(p, s.size, s1[p]), p) = Ioc!ContentHits(p, s.size, s1[p])
          BY HitsOfFile
        <5> QED BY <3>4, <5>1
      <4> HIDE DEF more
      <4> QED BY <1>4, <4>1, FileToldMore
    <3>6. FileTold(s8', p) = Full(p)
      BY <3>2, <3>3, <3>5
    <3> QED BY <1>2, <2>3, <3>1, <3>6 DEF ToBeTold
  <2> QED BY <2>4, <2>5
<1>6. /\ s6'.hideouts \in HideoutSets
      /\ \A h \in s6'.hideouts : h.marks # {} /\ Ioc!Scanned(h, h.place) =>
           \A i \in 3..8 : i < s7' /\ Ioc!Stages[i] = h.place => Reported(s8', h)
  BY <1>2, <1>4, ReportedStays
<1> HIDE DEF more
<1>7. /\ DOMAIN s1' \subseteq Ioc!FilePath /\ \A p \in DOMAIN s1' : s1'[p] \in FileKind
      /\ s2' \in Seq(Directories) /\ \A i \in DOMAIN s2' : Unburied(s2'[i])
      /\ \A p \in s3' : Unburied(p[1])
      /\ s10' \subseteq Ioc!FilePath /\ s7' \in 1..9 /\ ~(s7' > 1)
  BY <1>2, <1>3 DEF IocScanInv
<1> QED BY <1>2, <1>5, <1>6, <1>7 DEF IocScanInv

(* Steps that leave the files alone and tell of other things.              *)
LEMMA OtherHitsKeep ==
  ASSUME IocScanInv, NEW more, s8' = s8 \cup more, \A h \in more : h[1] # "file",
         UNCHANGED <<s1, s2, s3, s4, s6, s10>>, s7' \in 1..9, s7' > 1 => s7 > 1 \/ Ioc!FilesDone,
         \A h \in s6.hideouts : h.marks # {} /\ Ioc!Scanned(h, h.place) =>
           \A i \in 3..8 : i < s7' /\ Ioc!Stages[i] = h.place => Reported(s8', h)
  PROVE  IocScanInv'
<1>1. ASSUME NEW p \in s10' \cap DOMAIN s1'
      PROVE  IF Ioc!Buried(p[1]) THEN FileTold(s8', p) = {} ELSE ToBeTold(p)'
  <2>1. IF Ioc!Buried(p[1]) THEN FileTold(s8, p) = {} ELSE ToBeTold(p)
    BY DEF IocScanInv
  <2>2. Full(p)' = Full(p) /\ OnTheWay(p[1])' = OnTheWay(p[1])
    BY DEF Full, OnTheWay
  <2>3. FileTold(s8', p) = FileTold(s8, p)
    BY FileToldMore
  <2> QED BY <2>1, <2>2, <2>3 DEF ToBeTold
<1>2. s7' > 1 => s2' = <<>> /\ s3' = {} /\ s4' = {}
  BY DEF IocScanInv, Ioc!FilesDone
<1>3. /\ DOMAIN s1' \subseteq Ioc!FilePath /\ \A p \in DOMAIN s1' : s1'[p] \in FileKind
      /\ s2' \in Seq(Directories) /\ \A i \in DOMAIN s2' : Unburied(s2'[i])
      /\ \A p \in s3' : Unburied(p[1])
      /\ s4' = {} \/ \E s : s4' = {s} /\ Unburied(s.path[1])
      /\ s10' \subseteq Ioc!FilePath /\ s6'.hideouts \in HideoutSets
  BY DEF IocScanInv
<1> QED BY <1>1, <1>2, <1>3 DEF IocScanInv

LEMMA CheckProcessKeeps ==
  ASSUME IocScanInv, NEW pid, Ioc!CheckProcess(pid)
  PROVE  IocScanInv'
<1> DEFINE proc == HuntedProc[pid]
           regions == IF s6.root THEN {q \in proc.regions : Ioc!RegionHit(q)} ELSE {}
           more == {<<"process", pid, m>> : m \in proc.marks} \cup {<<"memory", pid, r>> : r \in regions}
<1>1. s8' = s8 \cup more /\ UNCHANGED <<s1, s2, s3, s4, s6, s7, s10>>
  BY DEF Ioc!CheckProcess, Ioc!filesVars
<1>2. \A h \in more : h[1] # "file"
  <2> HIDE DEF proc, regions
  <2> QED OBVIOUS
<1> HIDE DEF more
<1>3. s7' \in 1..9 /\ (s7' > 1 => s7 > 1)
  BY <1>1 DEF IocScanInv
<1>4. \A h \in s6.hideouts : h.marks # {} /\ Ioc!Scanned(h, h.place) =>
        \A i \in 3..8 : i < s7' /\ Ioc!Stages[i] = h.place => Reported(s8', h)
  BY <1>1, ReportedStays
<1> QED BY <1>1, <1>2, <1>3, <1>4, OtherHitsKeep

(* A stage of persistence tells of all the artifacts of its place.         *)
LEMMA PersistKeeps ==
  ASSUME IocScanInv, Ioc!Persist
  PROVE  IocScanInv'
<1> DEFINE found == {g \in s6.hideouts : Ioc!Scanned(g, Ioc!Stages[s7])}
           more == UNION {Ioc!HideoutHits(h) : h \in found}
<1>1. /\ s7 \in 3..8 /\ s7' = s7 + 1 /\ s8' = s8 \cup more
      /\ UNCHANGED <<s1, s2, s3, s4, s6, s10>>
  BY DEF Ioc!Persist, Ioc!filesVars
<1>2. ASSUME NEW h PROVE /\ \A hit \in Ioc!HideoutHits(h) : hit[1] = "persistence" /\ hit[2] = h
                         /\ h.marks # {} => \E hit : hit \in Ioc!HideoutHits(h)
  <2>1. CASE h.marks = {}
    BY <2>1 DEF Ioc!HideoutHits
  <2> DEFINE told(m) == <<"persistence", h, m>>
  <2>4. \A m : told(m)[1] = "persistence" /\ told(m)[2] = h
    OBVIOUS
  <2>2. CASE h.marks # {} /\ h.place = "cron"
    <3>1. Ioc!HideoutHits(h) = {told(m) : m \in h.marks}
      BY <2>2 DEF Ioc!HideoutHits
    <3> HIDE DEF told
    <3>2. PICK m : m \in h.marks
      BY <2>2
    <3>3. told(m) \in Ioc!HideoutHits(h)
      BY <3>1, <3>2
    <3> QED BY <2>4, <3>1, <3>3
  <2>3. CASE h.marks # {} /\ h.place # "cron"
    <3>1. Ioc!HideoutHits(h) = {told("found")}
      BY <2>3 DEF Ioc!HideoutHits
    <3> HIDE DEF told
    <3> QED BY <2>4, <3>1
  <2> QED BY <2>1, <2>2, <2>3
<1>3. \A hit \in more : \E h \in found : hit \in Ioc!HideoutHits(h)
  OBVIOUS
<1>4. \A h \in found : \A hit \in Ioc!HideoutHits(h) : hit \in more
  OBVIOUS
<1> HIDE DEF more
<1>5. \A hit \in more : hit[1] # "file"
  BY <1>2, <1>3
<1>6. ASSUME NEW h \in s6.hideouts, h.marks # {}, Ioc!Scanned(h, h.place),
             NEW i \in 3..8, i < s7', Ioc!Stages[i] = h.place
      PROVE  Reported(s8', h)
  <2>1. CASE i < s7
    <3>1. Reported(s8, h)
      BY <1>6, <2>1 DEF IocScanInv
    <3> QED BY <1>1, <3>1 DEF Reported
  <2>2. CASE ~(i < s7)
    <3>1. i = s7
      BY <1>1, <1>6, <2>2
    <3>2. h \in found
      BY <1>6, <3>1
    <3> HIDE DEF found
    <3>3. PICK hit : hit \in Ioc!HideoutHits(h)
      BY <1>2, <1>6
    <3>4. hit \in s8' /\ hit[1] = "persistence" /\ hit[2] = h
      BY <1>1, <1>2, <1>4, <3>2, <3>3
    <3> QED BY <3>4 DEF Reported
  <2> QED BY <2>1, <2>2
<1>7. s7' \in 1..9 /\ s7 > 1
  BY <1>1
<1> QED BY <1>1, <1>5, <1>6, <1>7, OtherHitsKeep

LEMMA NextHuntKeeps ==
  ASSUME IocScanInv, Ioc!NextHunt
  PROVE  IocScanInv'
<1>1. /\ \/ Ioc!Stages[s7] = "files" /\ Ioc!FilesDone
         \/ Ioc!Stages[s7] = "processes"
      /\ s7' = s7 + 1 /\ UNCHANGED <<s1, s2, s3, s4, s6, s8, s10>>
  BY DEF Ioc!NextHunt, Ioc!filesVars
<1>2. (s7 = 1 /\ Ioc!FilesDone) \/ s7 = 2
  BY <1>1, StagesAre DEF IocScanInv
<1>3. s7' \in 1..9 /\ (s7' > 1 => s7 > 1 \/ Ioc!FilesDone) /\ \A i \in 3..8 : ~(i < s7')
  BY <1>1, <1>2
<1> DEFINE none == {}
<1>4. s8' = s8 \cup none /\ \A h \in none : h[1] # "file"
  BY <1>1
<1> HIDE DEF none
<1> QED BY <1>1, <1>3, <1>4, OtherHitsKeep

LEMMA IocScanInvStep ==
  part = "ioc" /\ IocScanInv /\ [Next]_slots => IocScanInv'
<1> SUFFICES ASSUME part = "ioc", IocScanInv, [Next]_slots PROVE IocScanInv'
  OBVIOUS
<1>1. ASSUME NEW p \in Ioc!FilePath, Ioc!Delete(p) PROVE IocScanInv'
  BY <1>1, DeleteKeeps
<1>2. ASSUME NEW p \in Ioc!FilePath, Ioc!StatFile(p) PROVE IocScanInv'
  BY <1>2, StatFileKeeps
<1>3. ASSUME NEW p \in Ioc!FilePath, NEW k \in FileKind, Ioc!Rewrite(p, k) PROVE IocScanInv'
  BY <1>3, RewriteKeeps
<1>4. CASE Ioc!ListDir
  BY <1>4, ListDirKeeps
<1>5. CASE Ioc!ReadFile
  BY <1>5, ReadFileKeeps
<1>6. CASE Ioc!NextHunt
  BY <1>6, NextHuntKeeps
<1>7. CASE Ioc!Persist
  BY <1>7, PersistKeeps
<1>8. ASSUME NEW pid, Ioc!CheckProcess(pid) PROVE IocScanInv'
  BY <1>8, CheckProcessKeeps
<1>9. CASE UNCHANGED <<s1, s2, s3, s4, s5, s6, s7, s8, s9, s10>>
  <2>1. UNCHANGED <<s1, s2, s3, s4, s6, s7, s8, s10>>
    BY <1>9
  <2>2. s7' \in 1..9 /\ (s7' > 1 => s7 > 1)
    BY <2>1 DEF IocScanInv
  <2>3. \A h \in s6.hideouts : h.marks # {} /\ Ioc!Scanned(h, h.place) =>
          \A i \in 3..8 : i < s7' /\ Ioc!Stages[i] = h.place => Reported(s8', h)
    BY <2>1, ReportedStays
  <2> DEFINE none == {}
  <2>4. s8' = s8 \cup none /\ \A h \in none : h[1] # "file"
    BY <2>1
  <2> HIDE DEF none
  <2> QED BY <2>1, <2>2, <2>3, <2>4, OtherHitsKeep
<1> QED
  BY OnlyIoc, <1>1, <1>2, <1>3, <1>4, <1>5, <1>6, <1>7, <1>8, <1>9 DEF Ioc!IocNext

LEMMA IocScanInvGives == IocScanInv => Ioc!HuntMissesNothing
<1> SUFFICES ASSUME IocScanInv PROVE Ioc!HuntMissesNothing
  OBVIOUS
<1>1. ASSUME s7 > 1, NEW p \in s10 \cap DOMAIN s1
      PROVE  IF Ioc!Buried(p[1]) \/ s1[p].size \in {"empty", "huge"} THEN FileTold(s8, p) = {}
             ELSE FileTold(s8, p) = Ioc!StatHits(p, s1[p]) \cup Ioc!ContentHits(p, s1[p].size, s1[p])
  <2>1. s2 = <<>> /\ s3 = {} /\ s4 = {}
    BY <1>1 DEF IocScanInv
  <2>2. ~OnTheWay(p[1])
    BY <2>1 DEF OnTheWay
  <2>3. IF Ioc!Buried(p[1]) THEN FileTold(s8, p) = {} ELSE FileTold(s8, p) = Full(p)
    BY <2>1, <2>2 DEF IocScanInv, ToBeTold
  <2> QED BY <2>3 DEF Full
<1>2. ASSUME Ioc!Stages[s7] = "over", NEW h \in s6.hideouts, h.marks # {}, Ioc!Scanned(h, h.place)
      PROVE  Reported(s8, h)
  <2>1. s7 = 9
    BY <1>2, StagesAre DEF IocScanInv
  <2>2. h.place \in {"cron", "preload", "units", "home", "root", "scratch"}
    BY <1>2, HideoutAssumption DEF IocScanInv
  <2>3. PICK i \in {3, 4, 5, 6, 7, 8} : Ioc!Stages[i] = h.place
    BY <2>2, StagesAre
  <2>4. i \in 3..8 /\ i < s7
    BY <2>1, <2>3
  <2> QED BY <1>2, <2>3, <2>4 DEF IocScanInv
<1> QED BY <1>1, <1>2 DEF Ioc!HuntMissesNothing, FileTold, Reported

-----------------------------------------------------------------------------
\* The tools together.

(* A behaviour belongs to one tool, which keeps its invariant.             *)
ToolInv ==
  /\ part = "ids" => IdsInv
  /\ part = "packets" => PacketInv
  /\ part = "memory" => MemInv
  /\ part = "timeline" => TlInv
  /\ part = "integrity" => UntouchedStands
  /\ part = "indicators" => IocInv
  /\ part = "canaries" => CanaryInv
  /\ part = "devices" => MapInv
  /\ part = "hunts" => HuntInv
  /\ part = "ioc" => IocScanInv

LEMMA PartStays == [Next]_slots => part' = part
BY DEF Next, slots

LEMMA ToolStarts ==
  Init => /\ part = "ids" => Ids!IdsInit
          /\ part = "packets" => Packets!PacketInit
          /\ part = "memory" => Memory!MemoryInit
          /\ part = "timeline" => Timeline!TlInit
          /\ part = "integrity" => Integrity!FimInit
          /\ part = "indicators" => Indicators!IocInit
          /\ part = "canaries" => Canaries!DeceptionInit
          /\ part = "devices" => Devices!MapperInit
          /\ part = "hunts" => Hunts!HunterInit
          /\ part = "ioc" => Ioc!IocInit
BY DEF Init

LEMMA ToolInvInit == Init => ToolInv
BY ToolStarts, IdsInvInit, PacketInvInit, MemInvInit, TlInvInit, UntouchedStandsInit, IocInvInit, CanaryInvInit,
   MapInvInit, HuntInvInit, IocScanInvInit DEF ToolInv

LEMMA ToolInvStep == ToolInv /\ [Next]_slots => ToolInv'
BY PartStays, IdsInvStep, PacketInvStep, MemInvStep, TlInvStep, UntouchedStandsStep, IocInvStep, CanaryInvStep,
   MapInvStep, HuntInvStep, IocScanInvStep DEF ToolInv

(* Whatever the thresholds, windows and bounds, what is reported of what   *)
(* comes is what came holds: an anomaly is raised exactly when the last    *)
(* window of the events reaches its threshold, though each deque is pruned *)
(* only when its own source speaks (ids_engine.py); a scan, a tunnel or a  *)
(* beacon is told of the packets that make it, and flows count theirs,     *)
(* though the times of a beacon are halved again and again                 *)
(* (packet_inspector.py); the traces of every scanned process are told     *)
(* once, of it or an earlier one under its id, and none is found in a core *)
(* dump, whose header is read from the wrong words (memory_forensics.py);  *)
(* and a timeline tells of every file in its window whose times are far    *)
(* apart, orders the lines of a year as they are, and leaves the window    *)
(* only when it holds nothing (timeline_builder.py).                       *)
THEOREM AlarmsAlwaysMatch == Spec => []AlarmsMatchTheStream
<1>1. ToolInv => AlarmsMatchTheStream
  <2>1. IdsInv => Ids!IdsMatchesLog
    BY DEF IdsInv
  <2> QED BY <2>1, PacketInvGives, MemInvGives, TlInvGives DEF ToolInv, AlarmsMatchTheStream
<1> QED BY <1>1, ToolInvInit, ToolInvStep, PTL DEF Spec

(* Whatever holds the host against something stored tells neither too      *)
(* little nor what did not happen, for every baseline, list of indicators, *)
(* set of canaries, network, log and tree of directories: the drift of     *)
(* files (file_integrity.py), indicators added and looked up               *)
(* (threat_intel.py), canaries touched (deception_engine.py), strange      *)
(* devices (network_mapper.py), the lines, processes and ranking of a run  *)
(* of playbooks (threat_hunter.py), and the files and artifacts of a hunt  *)
(* over a host that goes on changing (ioc_hunter.py).                      *)
THEOREM ComparisonsAlwaysHold == Spec => []ComparedWithWhatIsStored
<1>1. ToolInv => ComparedWithWhatIsStored
  BY UntouchedStandsGives, IocInvGives, CanaryInvGives, MapInvGives, HuntInvGives, IocScanInvGives
  DEF ToolInv, ComparedWithWhatIsStored
<1> QED BY <1>1, ToolInvInit, ToolInvStep, PTL DEF Spec
=============================================================================
