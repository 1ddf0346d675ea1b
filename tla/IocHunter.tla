----------------------------- MODULE IocHunter -----------------------------
(***************************************************************************)
(* A hunt for indicators of compromise over everything: the files below a  *)
(* path, the processes and their memory, the places of persistence. The    *)
(* host goes on changing under the hunt, and a file may change between the *)
(* look at its size and the reading of it.                                 *)
(***************************************************************************)
EXTENDS Naturals, Sequences, FiniteSets, SequencesExt

CONSTANTS Top,           \* the path of the hunt
          DirTree,       \* directory -> [parent, hidden, scratch]
          FileName,      \* names, those in WebName with the suffix of a web page
          WebName,
          FileKind,      \* what a file may be: [size, marks, content]
          HuntedProc,    \* pid -> [marks, regions]
          HideoutSets,   \* the artifacts of persistence there may be
          IocChanges     \* bound: changes of files

VARIABLES ioc_files,     \* path -> kind, of the files there are
          ioc_dirs,      \* directories yet to be listed, the next one first
          ioc_paths,     \* files of the directory last listed, not yet looked at
          ioc_statted,   \* the file being checked with its size, if any
          ioc_pids,
          ioc_host,      \* [root, hideouts, home]
          ioc_stage, ioc_hits, ioc_changes,
          ioc_stood      \* history: the paths that did not change so far

filesVars == <<ioc_files, ioc_changes, ioc_stood>>
hunterVars == <<ioc_dirs, ioc_paths, ioc_statted, ioc_pids, ioc_stage, ioc_hits>>
iocVars == <<filesVars, hunterVars, ioc_host>>

Stages == <<"files", "processes", "cron", "preload", "units", "home", "root", "scratch", "over">>
FilePath == (DOMAIN DirTree) \X FileName

IocInit ==
  /\ ioc_files \in UNION {[P -> FileKind] : P \in {Q \in SUBSET FilePath : Cardinality(Q) <= 1}}
  /\ ioc_dirs = <<Top>> /\ ioc_paths = {} /\ ioc_statted = {}
  /\ ioc_pids = DOMAIN HuntedProc /\ ioc_host \in [root : BOOLEAN, hideouts : HideoutSets, home : BOOLEAN]
  /\ ioc_stage = 1 /\ ioc_hits = {} /\ ioc_changes = 0 /\ ioc_stood = FilePath

-----------------------------------------------------------------------------
Rewrite(path, kind) ==
  /\ ioc_changes < IocChanges /\ ioc_changes' = ioc_changes + 1
  /\ ioc_files' = [p \in DOMAIN ioc_files \cup {path} |-> IF p = path THEN kind ELSE ioc_files[p]]
  /\ ioc_stood' = ioc_stood \ {path}
  /\ UNCHANGED <<hunterVars, ioc_host>>

Delete(path) ==
  /\ ioc_changes < IocChanges /\ ioc_changes' = ioc_changes + 1 /\ path \in DOMAIN ioc_files
  /\ ioc_files' = [p \in DOMAIN ioc_files \ {path} |-> ioc_files[p]]
  /\ ioc_stood' = ioc_stood \ {path}
  /\ UNCHANGED <<hunterVars, ioc_host>>

-----------------------------------------------------------------------------
(* "and" binds before "or": whatever lies directly below the path is kept, *)
(* /proc too, and the directories to skip lie nowhere else. What is left   *)
(* of the rule is that hidden directories further down are not entered.    *)
Child(d) == {c \in DOMAIN DirTree : DirTree[c].parent = d}

(* Mutant of Entered: hidden directories are skipped at the top as well.   *)
EnteredNoHidden(d) == {c \in Child(d) : ~DirTree[c].hidden}
Entered(d) == {c \in Child(d) : d = Top \/ ~DirTree[c].hidden}

ListDir ==
  /\ Stages[ioc_stage] = "files" /\ ioc_paths = {} /\ ioc_statted = {} /\ ioc_dirs # <<>>
  /\ ioc_paths' = {p \in DOMAIN ioc_files : p[1] = Head(ioc_dirs)}
  /\ ioc_dirs' = SetToSeq(Entered(Head(ioc_dirs))) \o Tail(ioc_dirs)
  /\ UNCHANGED <<ioc_statted, ioc_pids, ioc_stage, ioc_hits, filesVars, ioc_host>>

StatHits(path, kind) == {<<"file", path, m>> : m \in kind.marks \cap {"timestomped", "suid"}}

(* Empty files and those above the limit are not checked at all.           *)
StatFile(path) ==
  /\ path \in ioc_paths /\ ioc_statted = {} /\ ioc_paths' = ioc_paths \ {path}
  /\ IF path \in DOMAIN ioc_files /\ ioc_files[path].size \in {"small", "large"}
     THEN /\ ioc_statted' = {[path |-> path, size |-> ioc_files[path].size]}
          /\ ioc_hits' = ioc_hits \cup StatHits(path, ioc_files[path])
     ELSE UNCHANGED <<ioc_statted, ioc_hits>>
  /\ UNCHANGED <<ioc_dirs, ioc_pids, ioc_stage, filesVars, ioc_host>>

(* The size is the one seen before, the content the one read now. The hash *)
(* of nothing is on the list of bad ones.                                  *)
KnownBad(kind) == kind.size = "empty" \/ kind.content = "known_bad"
ContentHits(path, size, kind) ==
  (IF DirTree[path[1]].scratch /\ kind.content \in {"program", "packed"} THEN {<<"file", path, "in_scratch">>} ELSE {})
  \cup (IF size = "small" /\ KnownBad(kind) THEN {<<"file", path, "known_bad">>} ELSE {})
  \cup (IF size = "small" /\ path[2] \in WebName /\ kind.content = "webshell" THEN {<<"file", path, "webshell">>} ELSE {})
  \cup (IF kind.content = "packed" THEN {<<"file", path, "packed">>} ELSE {})

ReadFile ==
  /\ ioc_statted' = {}
  /\ \E s \in ioc_statted :
       ioc_hits' = ioc_hits \cup (IF s.path \in DOMAIN ioc_files
                                 THEN ContentHits(s.path, s.size, ioc_files[s.path]) ELSE {})
  /\ UNCHANGED <<ioc_dirs, ioc_paths, ioc_pids, ioc_stage, filesVars, ioc_host>>

FilesDone == ioc_dirs = <<>> /\ ioc_paths = {} /\ ioc_statted = {}

-----------------------------------------------------------------------------
(* Memory is read by root only; of a region its beginning, and none of one *)
(* that is huge.                                                           *)
RegionHit(r) == r.readable /\ ~r.huge /\ r.string = "at_start"

CheckProcess(pid) ==
  /\ Stages[ioc_stage] = "processes" /\ pid \in ioc_pids /\ ioc_pids' = ioc_pids \ {pid}
  /\ LET proc == HuntedProc[pid] IN
       ioc_hits' = ioc_hits \cup {<<"process", pid, m>> : m \in proc.marks}
                            \cup {<<"memory", pid, r>> : r \in IF ioc_host.root THEN {q \in proc.regions : RegionHit(q)} ELSE {}}
  /\ UNCHANGED <<ioc_dirs, ioc_paths, ioc_statted, ioc_stage, filesVars, ioc_host>>

-----------------------------------------------------------------------------
(* Tables of cron in a directory below the ones listed are not read, units *)
(* are; of root's shell files .zshrc is left out. A shell file is reported *)
(* once, a table of cron once for each thing found in it.                  *)
Scanned(h, place) == /\ h.place = place
                     /\ place \in {"cron", "scratch"} => ~h.nested
                     /\ place = "root" => h.name # ".zshrc"
HideoutHits(h) == IF h.marks = {} THEN {}
                  ELSE IF h.place = "cron" THEN {<<"persistence", h, m>> : m \in h.marks} ELSE {<<"persistence", h, "found">>}

(* Without /home the hunt ends there in an exception.                      *)
Aborts == Stages[ioc_stage] = "home" /\ ~ioc_host.home

Persist ==
  /\ ioc_stage \in 3..8 /\ ~Aborts
  /\ ioc_hits' = ioc_hits \cup UNION {HideoutHits(h) : h \in {g \in ioc_host.hideouts : Scanned(g, Stages[ioc_stage])}}
  /\ ioc_stage' = ioc_stage + 1
  /\ UNCHANGED <<ioc_dirs, ioc_paths, ioc_statted, ioc_pids, filesVars, ioc_host>>

NextHunt ==
  /\ \/ Stages[ioc_stage] = "files" /\ FilesDone
     \/ Stages[ioc_stage] = "processes" /\ ioc_pids = {}
  /\ ioc_stage' = ioc_stage + 1
  /\ UNCHANGED <<ioc_dirs, ioc_paths, ioc_statted, ioc_pids, ioc_hits, filesVars, ioc_host>>

IocNext ==
  \/ \E p \in FilePath : Delete(p) \/ StatFile(p) \/ \E k \in FileKind : Rewrite(p, k)
  \/ ListDir \/ ReadFile \/ NextHunt \/ Persist
  \/ \E pid \in DOMAIN HuntedProc : CheckProcess(pid)

-----------------------------------------------------------------------------
Above[d \in DOMAIN DirTree] == IF d = Top THEN {} ELSE {d} \cup Above[DirTree[d].parent]
Buried(d) == \E a \in Above[d] : DirTree[a].hidden /\ DirTree[a].parent # Top

(* The hunt misses nothing that stood still, and makes up nothing about    *)
(* it: once it is through the files, a file that did not change is told of *)
(* for what it is, unless it lies in a hidden directory further down; the  *)
(* hash of nothing is found only of a file emptied while it was checked;   *)
(* and a hunt that ends has told of every artifact it reaches.             *)
HuntMissesNothing ==
  /\ ioc_stage > 1 =>
       \A p \in ioc_stood \cap DOMAIN ioc_files :
         LET kind == ioc_files[p]
             told == {h \in ioc_hits : h[1] = "file" /\ h[2] = p}
         IN IF Buried(p[1]) \/ kind.size \in {"empty", "huge"} THEN told = {}
            ELSE told = StatHits(p, kind) \cup ContentHits(p, kind.size, kind)
  /\ Stages[ioc_stage] = "over" =>
       \A h \in ioc_host.hideouts : (h.marks # {} /\ Scanned(h, h.place)) =>
         \E hit \in ioc_hits : hit[1] = "persistence" /\ hit[2] = h
=============================================================================
