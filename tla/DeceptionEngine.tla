-------------------------- MODULE DeceptionEngine --------------------------
(***************************************************************************)
(* The canary files, DNS names and scripts of the deception engine, the    *)
(* manifest they are saved in, and the monitor that polls them and may be  *)
(* stopped between a finding and the saving of the manifest.               *)
(***************************************************************************)
EXTENDS Integers, FiniteSets

CONSTANTS Canary,          \* canary -> "file" | "dns" | "process"
          Tolerance,       \* an access this soon after the last noted one is taken for noise
          ExfilWindow,     \* only files modified this recently are searched for tokens
          DeceptionClock, DeceptionBound  \* bounds: time; what is done to the canaries

VARIABLES canary_disk,     \* canary -> [atime, size], of those that still exist
          copies,          \* [canary, at]: files its token was copied into, and when
          canary_procs,    \* canaries a process has been started from (its command line)
          deception_now,
          artifacts,       \* the monitor's: canary -> [atime, size] as last noted
          manifest,        \* the same in the manifest file
          exfil_seen,
          canary_told,     \* findings so far: [canary, type, at]
          touches,         \* history: <<canary, what was done to it>>
          watch            \* "stopped" | "rest" | "save"

canaryVars == <<canary_disk, copies, canary_procs, deception_now, artifacts, manifest, exfil_seen,
                canary_told, touches, watch>>
worldVars == <<canary_disk, copies, canary_procs, touches>>
Names == DOMAIN Canary
Deployed == [c \in Names |-> [atime |-> 0, size |-> 1]]

DeceptionInit == /\ canary_disk = Deployed /\ manifest = Deployed /\ artifacts = Deployed
                 /\ copies = {} /\ canary_procs = {} /\ exfil_seen = {} /\ canary_told = {}
                 /\ touches = {} /\ deception_now = 0 /\ watch = "stopped"

-----------------------------------------------------------------------------
Touch(c, what) == /\ c \in DOMAIN canary_disk /\ Cardinality(touches) < DeceptionBound
                  /\ touches' = touches \cup {<<c, what>>}
                  /\ UNCHANGED <<deception_now, artifacts, manifest, exfil_seen, canary_told, watch>>

ReadCanary(c) == /\ Touch(c, "read") /\ canary_disk' = [canary_disk EXCEPT ![c].atime = deception_now]
                 /\ UNCHANGED <<copies, canary_procs>>
Grow(c) == /\ Touch(c, "write") /\ canary_disk' = [canary_disk EXCEPT ![c].size = 2]
           /\ UNCHANGED <<copies, canary_procs>>
Delete(c) == /\ Touch(c, "delete") /\ canary_disk' = [d \in DOMAIN canary_disk \ {c} |-> canary_disk[d]]
             /\ UNCHANGED <<copies, canary_procs>>
Copy(c) == /\ Touch(c, "copy") /\ copies' = copies \cup {[canary |-> c, at |-> deception_now]}
           /\ UNCHANGED <<canary_disk, canary_procs>>
Run(c) == /\ Touch(c, "run") /\ canary_procs' = canary_procs \cup {c} /\ UNCHANGED <<canary_disk, copies>>
Pass(n) == /\ deception_now + n <= DeceptionClock /\ deception_now' = deception_now + n
           /\ UNCHANGED <<worldVars, artifacts, manifest, exfil_seen, canary_told, watch>>

-----------------------------------------------------------------------------
Watched == {c \in Names : Canary[c] \in {"file", "process"}}
Missing == {c \in Watched : c \notin DOMAIN canary_disk}
Accessed == {c \in Watched \ Missing : canary_disk[c].atime > artifacts[c].atime + Tolerance}
Resized == {c \in Watched \ Missing : canary_disk[c].size # artifacts[c].size}
Executed == {c \in canary_procs : Canary[c] = "process"}
Staged == {f.canary : f \in {g \in copies : deception_now - g.at <= ExfilWindow}}

(* Mutant of NotedAtime: the access time is noted at every pass.           *)
NotedAtimeAlways(c) == IF c \in DOMAIN canary_disk THEN canary_disk[c].atime ELSE artifacts[c].atime
NotedAtime(c) == IF c \in Accessed THEN canary_disk[c].atime ELSE artifacts[c].atime

New(type, canaries) ==
  {[canary |-> c, type |-> type, at |-> deception_now] : c \in canaries}
Unseen(type, canaries) == {c \in canaries : <<type, c>> \notin exfil_seen}

StartWatch == /\ watch = "stopped" /\ watch' = "rest" /\ artifacts' = manifest /\ exfil_seen' = {}
              /\ UNCHANGED <<worldVars, deception_now, manifest, canary_told>>

(* A copied token is found once per watch, a missing canary at each pass.  *)
RunOnce == /\ watch = "rest"
           /\ LET found == New("missing", Missing) \cup New("accessed", Accessed)
                           \cup New("modified", Resized) \cup New("executed", Unseen("executed", Executed))
                           \cup New("exfil", Unseen("exfil", Staged))
              IN /\ canary_told' = canary_told \cup found
                 /\ watch' = IF found = {} THEN "rest" ELSE "save"
           /\ artifacts' = [c \in Names |->
                [atime |-> NotedAtime(c),
                 size  |-> IF c \in Resized THEN canary_disk[c].size ELSE artifacts[c].size]]
           /\ exfil_seen' = exfil_seen \cup ({"executed"} \X Executed) \cup ({"exfil"} \X Staged)
           /\ UNCHANGED <<worldVars, deception_now, manifest>>

SaveManifest == /\ watch = "save" /\ manifest' = artifacts /\ watch' = "rest"
                /\ UNCHANGED <<worldVars, deception_now, artifacts, exfil_seen, canary_told>>

(* Ctrl-C, or the end of the process, also before the manifest is saved.   *)
StopWatch == /\ watch # "stopped" /\ watch' = "stopped"
             /\ UNCHANGED <<worldVars, deception_now, artifacts, manifest, exfil_seen, canary_told>>

DeceptionNext == \/ \E c \in Names : ReadCanary(c) \/ Grow(c) \/ Delete(c) \/ Copy(c) \/ Run(c)
                 \/ \E n \in 1 .. 2 : Pass(n)
                 \/ StartWatch \/ RunOnce \/ SaveManifest \/ StopWatch

-----------------------------------------------------------------------------
Told(c, type) == \E f \in canary_told : f.canary = c /\ f.type = type
Cause == [accessed |-> "read", modified |-> "write", missing |-> "delete", exfil |-> "copy",
          executed |-> "run"]

(* Nothing is told of a canary nobody touched; and whatever the manifest,  *)
(* the monitor's notes or its memory no longer compare with the deployment *)
(* has been told: a touch is found later, if not yet, over any restart and *)
(* any stop before the saving.                                             *)
CanariesTellTheTruth ==
  /\ \A f \in canary_told : <<f.canary, Cause[f.type]>> \in touches
  /\ \A c \in Names, noted \in {artifacts, manifest} :
       /\ noted[c].atime # 0 => Told(c, "accessed")
       /\ noted[c].size # 1 => Told(c, "modified")
  /\ \A s \in exfil_seen : Told(s[2], s[1])
=============================================================================
