---------------------------- MODULE ThreatIntel ----------------------------
(***************************************************************************)
(* The indicator database: entries by normalized value behind a Bloom      *)
(* filter, fed by hand, by feeds and from an export of an earlier process. *)
(* The server has one thread.                                              *)
(***************************************************************************)
EXTENDS Integers, Sequences, FiniteSets, FiniteSetsExt, SequencesExt

CONSTANTS Key,            \* normalized values
          Positions,      \* per key, the bits of the filter it sets
          DetectedType,   \* per key, the type that _detect_type sees in it
          IocType, Tag,
          Demo,           \* the built-in entries: key -> [ioc_type, score, tags]
          IocBound        \* bound: additions and queries of a process

VARIABLES index,          \* key -> [ioc_type, score, tags, hit_count]
          bloom,          \* bits set
          stats,          \* [total, hits, misses]
          exported,       \* the export: key -> [score, tags], or nothing
          told            \* history: what this process was told, <<key, score, tags>>, and
                          \* asked, <<key>>, in order

iocVars == <<index, bloom, stats, exported, told>>

Adds == {told[i] : i \in {j \in DOMAIN told : Len(told[j]) = 3}}
Asked == {i \in DOMAIN told : Len(told[i]) = 1}

Larger(a, b) == IF a > b THEN a ELSE b

(* Mutant of Merged: a feed read later overrides the score.                *)
MergedLast(entry, score, tags) == [entry EXCEPT !.score = score, !.tags = @ \cup tags]

Merged(entry, score, tags) == [entry EXCEPT !.score = Larger(@, score), !.tags = @ \cup tags]

(* add, on the state s of the database.                                    *)
Add(s, key, type, score, tags) ==
  IF key \in DOMAIN s.index THEN [s EXCEPT !.index[key] = Merged(@, score, tags)]
  ELSE [index |-> [k \in DOMAIN s.index \cup {key} |->
                     IF k = key THEN [ioc_type |-> type, score |-> score, tags |-> tags, hit_count |-> 0]
                     ELSE s.index[k]],
        bloom |-> s.bloom \cup Positions[key],
        stats |-> [s.stats EXCEPT !.total = @ + 1]]

(* One load of a feed is its additions in order.                           *)
AddAll(s, items) ==
  LET after[i \in 0 .. Len(items)] ==
        IF i = 0 THEN s ELSE Add(after[i - 1], items[i].key, items[i].type, items[i].score, items[i].tags)
  IN after[Len(items)]

Empty == [index |-> <<>>, bloom |-> {}, stats |-> [total |-> 0, hits |-> 0, misses |-> 0]]
Items(entries, types) ==
  LET keys == SetToSeq(DOMAIN entries)
  IN [i \in DOMAIN keys |-> [key |-> keys[i], type |-> types[keys[i]],
                             score |-> entries[keys[i]].score, tags |-> entries[keys[i]].tags]]

Become(s) == index' = s.index /\ bloom' = s.bloom /\ stats' = s.stats
Told(items) == [i \in DOMAIN items |-> <<items[i].key, items[i].score, items[i].tags>>]

DemoItems == Items(Demo, [k \in DOMAIN Demo |-> Demo[k].ioc_type])

IocInit == /\ LET s == AddAll(Empty, DemoItems)
              IN index = s.index /\ bloom = s.bloom /\ stats = s.stats
           /\ exported = <<>> /\ told = Told(DemoItems)

Now == [index |-> index, bloom |-> bloom, stats |-> stats]

AddIndicator(key, type, score, tags) ==
  /\ Len(told) < IocBound
  /\ Become(Add(Now, key, type, score, tags))
  /\ told' = Append(told, <<key, score, tags>>) /\ UNCHANGED exported

(* query: a value outside the filter is not looked up.                     *)
Query(key) ==
  /\ Len(told) < IocBound
  /\ IF Positions[key] \subseteq bloom /\ key \in DOMAIN index
     THEN /\ index' = [index EXCEPT ![key].hit_count = @ + 1]
          /\ stats' = [stats EXCEPT !.hits = @ + 1]
     ELSE /\ stats' = [stats EXCEPT !.misses = @ + 1] /\ UNCHANGED index
  /\ told' = Append(told, <<key>>) /\ UNCHANGED <<bloom, exported>>

ExportJson == /\ exported' = [k \in DOMAIN index |-> [score |-> index[k].score, tags |-> index[k].tags]]
              /\ UNCHANGED <<index, bloom, stats, told>>

(* A new process starts from the built-in entries and reads the export as  *)
(* a feed. The export calls the type ioc_type and load_json reads type, so *)
(* types are detected anew, and the hits of an entry are not read.         *)
RestartFromExport ==
  /\ exported # <<>>
  /\ LET items == DemoItems \o Items(exported, DetectedType)
     IN Become(AddAll(Empty, items)) /\ told' = Told(items)
  /\ UNCHANGED exported

IocNext == \/ \E k \in Key, ty \in IocType, score \in {60, 90}, tags \in SUBSET Tag :
                AddIndicator(k, ty, score, tags)
           \/ \E k \in Key : Query(k)
           \/ ExportJson \/ RestartFromExport

-----------------------------------------------------------------------------
(* The filter never hides an indicator; an entry has the highest score and *)
(* every tag it was ever told with, by whichever feed, in whatever order;  *)
(* a key has one entry; every query is counted once; and an export is      *)
(* never lost to a restart that reads it back.                             *)
IndicatorsAreKept ==
  /\ \A k \in DOMAIN index : Positions[k] \subseteq bloom
  /\ DOMAIN index = {x[1] : x \in Adds} /\ stats.total = Cardinality(DOMAIN index)
  /\ \A k \in DOMAIN index :
       LET mine == {x \in Adds : x[1] = k}
       IN /\ index[k].score = Max({x[2] : x \in mine})
          /\ index[k].tags = UNION {x[3] : x \in mine}
  /\ stats.hits + stats.misses = Cardinality(Asked)
  /\ \A k \in DOMAIN exported : /\ k \in DOMAIN index /\ exported[k].score <= index[k].score
                                 /\ exported[k].tags \subseteq index[k].tags
=============================================================================
