--------------------------- MODULE StartupProofs ---------------------------
(***************************************************************************)
(* The boot hooks, installed and at work.  install_startup, for any set of *)
(* features, runs and power losses; the runner and the erase-fix hook, for *)
(* any number of boots, runs by hand and restarts of the camera program.   *)
(***************************************************************************)
EXTENDS InstallStartup, BootHooks, SequenceTheorems, TLAPS

----------------------------------------------------------------------------
(* install_startup. *)

\* The script past its guards, the payload it is at, and those still to be moved.
Busy == Running \ {"guards"}
Current == job.payloads[i]
ToDo == {job.payloads[k] : k \in i .. Len(job.payloads)}
Started == script \in Running \union {"ok"}
BothOf(f) == {f, "runner"}

\* Every state a power loss can bring back: managed names hold nothing, another
\* program's file or their own content, never an unsynced one; what they hold
\* now they held since; and a runner has a hook.
ConfigInv ==
    /\ files \in since
    /\ \A d \in since, p \in Managed :
          /\ d[p] \in {"absent", "other", p}
          /\ d[p] = p => p \notin soft /\ files[p] = p
    /\ \A d \in since : d["runner"] = "runner" => \E f \in Features : d[f] = f

\* Past its guards the script has been through some of the feature's two files,
\* which are in place, and the rest were free when it looked.
ScriptInv ==
    /\ Started => job # NoJob /\ i <= Len(job.payloads)
    /\ script = "guards" => i = 1
    /\ script \in Busy =>
          /\ ToDo \subseteq guarded
          /\ \A p \in BothOf(job.feature) \ ToDo : files[p] = p
          /\ \A p \in ToDo : files[p] = p <=> script = "settle" /\ p = Current
    /\ script \in {"sync", "mv"} => files[Temp(i)] = Current
    /\ script \in {"mv", "settle", "ok"} => soft = {}

\* A script that ended well leaves both files in every state that can come back.
DoneInv ==
    script = "ok" => \A d \in since, p \in BothOf(job.feature) : d[p] = p

\* What the host knows of the script it started.
HostInv ==
    /\ host \in {"stage", "recheck", "guards"} => payloads # <<>>
    /\ host \in {"await", "readback", "clean", "installed"} =>
          job # NoJob /\ job.feature = feature
    /\ host \in {"readback", "clean", "installed"} => script = "ok"

IInv == TypeOK /\ ConfigInv /\ ScriptInv /\ DoneInv /\ HostInv

----------------------------------------------------------------------------
(* Names and payloads. *)

\* No name, content or status is mistaken for another.
LEMMA NamesDiffer ==
    /\ "runner" \in Managed /\ Features \subseteq Managed /\ "runner" \notin Features
    /\ Managed \subseteq Names /\ Managed \subseteq Contents
    /\ Managed \intersect {"absent", "partial", "other"} = {}
    /\ \A k \in 1 .. 2 : Temp(k) \in Names /\ Temp(k) \notin Managed
  BY InstallAssumption DEF Managed, Names, Contents, Temp

\* The payloads of a script: the hook, the runner, or the hook and then the runner.
LEMMA JobShape ==
    ASSUME TypeOK, job # NoJob, i <= Len(job.payloads)
    PROVE  /\ job.feature \in Features /\ BothOf(job.feature) \subseteq Managed
           /\ Current \in ToDo /\ ToDo \subseteq BothOf(job.feature)
           /\ i < Len(job.payloads) =>
                 /\ i = 1 /\ Len(job.payloads) = 2 /\ job.payloads[2] = "runner"
                 /\ Current = job.feature /\ ToDo = BothOf(job.feature)
           /\ ~(i < Len(job.payloads)) => ToDo = {Current}
  <1>1. /\ job.feature \in Features
        /\ job.payloads \in {<<job.feature>>, <<"runner">>, <<job.feature, "runner">>}
    BY DEF TypeOK
  <1>2. i \in 1 .. 2
    BY DEF TypeOK
  <1>3. BothOf(job.feature) \subseteq Managed
    BY <1>1, NamesDiffer DEF BothOf
  <1>4. CASE job.payloads = <<job.feature>> \/ job.payloads = <<"runner">>
    <2>1. Len(job.payloads) = 1
      <3>1. CASE job.payloads = <<job.feature>>
        BY <3>1
      <3>2. CASE job.payloads = <<"runner">>
        BY <3>2
      <3> QED
        BY <1>4, <3>1, <3>2
    <2>2. i = 1
      BY <1>2, <2>1
    <2>3. Current \in BothOf(job.feature)
      BY <1>4, <2>2 DEF Current, BothOf
    <2>4. ToDo = {Current}
      BY <2>1, <2>2 DEF ToDo, Current
    <2> QED
      BY <1>1, <1>3, <2>1, <2>2, <2>3, <2>4
  <1>5. CASE job.payloads = <<job.feature, "runner">>
    <2>1. Len(job.payloads) = 2 /\ job.payloads[1] = job.feature /\ job.payloads[2] = "runner"
      BY <1>5
    <2>2. i = 1 => Current = job.feature /\ ToDo = BothOf(job.feature)
      BY <2>1 DEF ToDo, Current, BothOf
    <2>3. i = 2 => Current = "runner" /\ ToDo = {"runner"}
      BY <2>1 DEF ToDo, Current
    <2> QED
      BY <1>1, <1>2, <1>3, <2>1, <2>2, <2>3 DEF BothOf
  <1> QED
    BY <1>1, <1>4, <1>5

\* Where the script goes on with the runner.
LEMMA NextShape ==
    ASSUME TypeOK, job # NoJob, i < Len(job.payloads), NextPayload
    PROVE  /\ i' = 2 /\ i' <= Len(job'.payloads)
           /\ Current' = "runner" /\ ToDo' = {"runner"}
  <1>1. i \in Nat /\ Len(job.payloads) \in Nat
    BY DEF TypeOK
  <1>2. i = 1 /\ Len(job.payloads) = 2 /\ job.payloads[2] = "runner"
    BY <1>1, JobShape
  <1>3. i' = 2 /\ job' = job
    BY <1>2 DEF NextPayload
  <1> QED
    BY <1>2, <1>3 DEF Current, ToDo

\* Two payloads, one after the other.
LEMMA Pair == ASSUME NEW f PROVE <<f>> \o <<"runner">> = <<f, "runner">>
  <1> DEFINE a == <<f>> \o <<"runner">>
             b == <<f, "runner">>
             S == {f, "runner"}
  <1>1. a \in Seq(S)
    <2>1. <<f>> \in Seq(S) /\ <<"runner">> \in Seq(S)
      OBVIOUS
    <2> QED
      BY <2>1
  <1>2. b \in Seq(S)
    OBVIOUS
  <1>3. Len(a) = 2 /\ Len(b) = 2
    OBVIOUS
  <1>4. a[1] = b[1] /\ a[2] = b[2]
    OBVIOUS
  <1> HIDE DEF a, b
  <1>5. \A k \in 1 .. Len(a) : a[k] = b[k]
    BY <1>3, <1>4
  <1>6. a = b
    BY <1>1, <1>2, <1>3, <1>5, SeqEqual
  <1> QED
    BY <1>6 DEF a, b

\* The missing files of a plan, the hook before the runner.
LEMMA PlanShape ==
    Missing(feature) \o Missing("runner")
        \in {<<>>, <<feature>>, <<"runner">>, <<feature, "runner">>}
  <1>1. CASE files[feature] = "absent" /\ files["runner"] = "absent"
    BY <1>1, Pair DEF Missing
  <1>2. CASE files[feature] = "absent" /\ files["runner"] # "absent"
    BY <1>2 DEF Missing
  <1>3. CASE files[feature] # "absent" /\ files["runner"] = "absent"
    BY <1>3 DEF Missing
  <1>4. CASE files[feature] # "absent" /\ files["runner"] # "absent"
    BY <1>4 DEF Missing
  <1> QED
    BY <1>1, <1>2, <1>3, <1>4

----------------------------------------------------------------------------
(* The flash. *)

\* A change of config that takes nothing complete away keeps what may come back.
LEMMA WriteConfig ==
    ASSUME ConfigInv, TypeOK, NEW directory, Write(directory),
           \A p \in Managed :
              \/ directory[p] = files[p]
              \/ directory[p] = "other" /\ files[p] = "absent"
              \/ directory[p] = p,
           \A p \in Managed : directory[p] = p => p \notin soft',
           directory["runner"] = "runner" => \E f \in Features : directory[f] = f
    PROVE  ConfigInv'
  <1> USE NamesDiffer DEF ConfigInv
  <1>1. files' = directory /\ since' = since \union {directory}
    BY DEF Write
  <1>2. \A p \in Managed : directory[p] \in {"absent", "other", p}
    OBVIOUS
  <1>3. \A p \in Managed : files[p] = p => directory[p] = p
    OBVIOUS
  <1>4. ASSUME NEW d \in since', NEW p \in Managed
        PROVE  /\ d[p] \in {"absent", "other", p}
               /\ d[p] = p => p \notin soft' /\ files'[p] = p
    BY <1>1, <1>2, <1>3, <1>4
  <1> QED
    BY <1>1, <1>4

\* sync leaves one state that can come back.
LEMMA SyncConfig == ASSUME ConfigInv, OnFlash PROVE ConfigInv'
  BY DEF ConfigInv, OnFlash

\* A power loss brings back a state of since, and cuts no managed file short.
LEMMA LossConfig ==
    ASSUME ConfigInv, TypeOK, PowerLoss
    PROVE  /\ ConfigInv'
           /\ files' \in Directory
           /\ \E d \in since : \A p \in Managed : files'[p] = d[p]
  <1> USE NamesDiffer
  <1>1. PICK d \in since, lost \in SUBSET soft :
           files' = [n \in Names |-> IF d[n] \in lost THEN "partial" ELSE d[n]]
    BY DEF PowerLoss
  <1>2. \A p \in Managed : d[p] \notin lost
    BY DEF ConfigInv, TypeOK
  <1>3. \A p \in Managed : files'[p] = d[p]
    BY <1>1, <1>2
  <1>4. d \in Directory
    BY DEF TypeOK
  <1>5. files' \in Directory
    BY <1>1, <1>4 DEF Directory, Contents
  <1>6. since' = {files'} /\ soft' = {}
    BY DEF PowerLoss
  <1>7. files'["runner"] = "runner" => \E f \in Features : files'[f] = f
    BY <1>3 DEF ConfigInv
  <1>8. \A p \in Managed : files'[p] \in {"absent", "other", p}
    BY <1>3 DEF ConfigInv
  <1>9. ConfigInv'
    BY <1>6, <1>7, <1>8 DEF ConfigInv
  <1> QED
    BY <1>3, <1>5, <1>9

----------------------------------------------------------------------------
(* The invariant is inductive. *)

\* A camera that was never touched satisfies the invariant.
LEMMA InitInv == Init => IInv
  <1> SUFFICES ASSUME Init PROVE IInv
    OBVIOUS
  <1> USE NamesDiffer, InstallAssumption DEF Init
  <1>1. files \in Directory /\ \A p \in Managed : files[p] \in {"absent", "other"}
    BY DEF Directory, Contents
  <1>2. TypeOK
    <2>1. host \in Ended /\ i \in 1 .. 2
      BY DEF Ended
    <2>2. runs \in 0 .. RUNS /\ powerLosses \in 0 .. MAX_POWER_LOSSES /\ others \in 0 .. MAX_OTHERS
      OBVIOUS
    <2>3. since \subseteq Directory /\ soft \subseteq Managed /\ guarded \subseteq Managed
      BY <1>1
    <2> QED
      BY <1>1, <2>1, <2>2, <2>3, Zenon DEF TypeOK
  <1>3. ConfigInv
    BY <1>1 DEF ConfigInv
  <1>4. ScriptInv /\ DoneInv /\ HostInv
    BY DEF ScriptInv, DoneInv, HostInv, Started, Busy, Running
  <1> QED
    BY <1>2, <1>3, <1>4 DEF IInv

\* Steps that leave the script and config alone keep what is said of them.
LEMMA Aside ==
    ASSUME IInv, UNCHANGED <<script, i, job, configVars, guarded>>
    PROVE  ConfigInv' /\ ScriptInv' /\ DoneInv'
  BY DEF IInv, ConfigInv, ScriptInv, DoneInv, Started, ToDo, Current, configVars

\* A sync leaves the script where it was.
LEMMA SyncAside ==
    ASSUME IInv, OnFlash, UNCHANGED <<script, i, job, guarded>>
    PROVE  ConfigInv' /\ ScriptInv' /\ DoneInv'
  BY SyncConfig DEF IInv, ConfigInv, ScriptInv, DoneInv, Started, ToDo, Current, OnFlash

\* The host keeps the invariant.
LEMMA HostKeeps == ASSUME IInv, HostStep PROVE IInv'
  <1> USE DEF IInv, Goto
  <1>1. CASE ReadLive \/ Stage \/ Answer \/ Readback \/ Clean \/ HostFails
    <2>1. Camera /\ UNCHANGED <<feature, payloads, runs>> /\ (UNCHANGED seen \/ seen' = files)
      BY <1>1 DEF ReadLive, Stage, Answer, Readback, Clean, HostFails
    <2>2. TypeOK'
      <3>1. host' \in {"plan", "recheck", "readback", "clean", "clean_failed", "installed", "error"}
        BY <1>1 DEF ReadLive, Stage, Answer, Readback, Clean, HostFails
      <3>2. staged' \in BOOLEAN
        BY <1>1 DEF ReadLive, Stage, Answer, Readback, Clean, HostFails, TypeOK
      <3>3. seen' \in Directory
        BY <2>1 DEF TypeOK
      <3> QED
        BY <2>1, <3>1, <3>2, <3>3 DEF TypeOK, Ended, Camera, scriptVars, configVars
    <2>3. HostInv'
      BY <1>1, <2>1 DEF HostInv, TypeOK, ReadLive, Stage, Answer, Readback, Clean,
         HostFails,
                        Camera, scriptVars
    <2> QED
      BY <2>1, <2>2, <2>3, Aside DEF Camera, scriptVars
  <1>2. CASE Plan
    <2>1. payloads' \in {<<>>, <<feature>>, <<"runner">>, <<feature, "runner">>}
      BY <1>2, PlanShape DEF Plan
    <2>2. TypeOK'
      BY <1>2, <2>1 DEF Plan, TypeOK, Ended, Camera, scriptVars, configVars
    <2>3. HostInv'
      BY <1>2 DEF Plan, HostInv
    <2> QED
      BY <1>2, <2>2, <2>3, Aside DEF Plan, Camera, scriptVars
  <1>3. CASE Recheck
    <2>1. TypeOK'
      BY <1>3 DEF Recheck, OnFlash, TypeOK, scriptVars
    <2>2. HostInv'
      BY <1>3 DEF Recheck, HostInv
    <2> QED
      BY <1>3, <2>1, <2>2, SyncAside DEF Recheck, scriptVars
  <1>4. CASE Guards
    <2>1. CASE ~Unchanged(feature, payloads)
      <3>1. UNCHANGED <<feature, seen, payloads, runs, staged, scriptVars, configVars, powerLosses,
                        others, guarded>> /\ host' = "clean_failed"
        BY <1>4, <2>1 DEF Guards
      <3>2. TypeOK' /\ HostInv'
        BY <3>1 DEF TypeOK, HostInv, scriptVars, configVars
      <3> QED
        BY <3>1, <3>2, Aside DEF scriptVars
    <2>2. CASE Unchanged(feature, payloads)
      <3>1. /\ host' = "await" /\ script' = "guards" /\ i' = 1 /\ mine' = TRUE /\ left' = FALSE
            /\ job' = [feature |-> feature, payloads |-> payloads]
            /\ UNCHANGED <<feature, seen, payloads, runs, staged, configVars, powerLosses, others,
                           guarded>>
        BY <1>4, <2>2 DEF Guards
      <3>2. payloads \in {<<feature>>, <<"runner">>, <<feature, "runner">>}
        BY <1>4 DEF Guards, HostInv, TypeOK
      <3>3. job'.feature = feature /\ job'.payloads = payloads
        BY <3>1
      <3>4. job' # NoJob
        BY <3>2, <3>3 DEF NoJob
      <3>5. Len(payloads) \in {1, 2}
        BY <3>2
      <3>6. feature \in Features
        BY DEF TypeOK
      <3>7. TypeOK'
        <4>1. script' \in Running /\ i' \in 1 .. 2
          BY <3>1 DEF Running
        <4>2. mine' \in BOOLEAN /\ left' \in BOOLEAN
          BY <3>1, Zenon
        <4>3. /\ job'.feature \in Features
              /\ job'.payloads \in {<<job'.feature>>, <<"runner">>, <<job'.feature, "runner">>}
          BY <3>2, <3>3, <3>6
        <4> QED
          BY <3>1, <4>1, <4>2, <4>3 DEF TypeOK, configVars
      <3>8. ConfigInv'
        BY <3>1 DEF ConfigInv, configVars
      <3>9. ScriptInv' /\ DoneInv'
        BY <3>1, <3>3, <3>4, <3>5 DEF ScriptInv, DoneInv, Busy, Started
      <3>10. HostInv'
        BY <3>1, <3>3, <3>4 DEF HostInv
      <3> QED
        BY <3>7, <3>8, <3>9, <3>10
    <2> QED
      BY <2>1, <2>2
  <1> QED
    BY <1>1, <1>2, <1>3, <1>4 DEF HostStep

\* A command starts, beside the script of an earlier one or after it.
LEMMA BeginKeeps == ASSUME IInv, NEW f \in Features, Begin(f) PROVE IInv'
  <1> USE DEF IInv
  <1>1. runs' \in 0 .. RUNS
    BY InstallAssumption DEF Begin, TypeOK
  <1>2. left' \in BOOLEAN
    BY DEF Begin, TypeOK, ItsStage
  <1>3. HostInv'
    BY DEF Begin, HostInv, Goto
  <1>4. CASE script \in Running
    <2>1. UNCHANGED <<script, i, job, guarded, configVars>>
      BY <1>4 DEF Begin
    <2>2. TypeOK'
      BY <1>1, <1>2, <2>1 DEF Begin, TypeOK, Goto, configVars
    <2> QED
      BY <1>3, <2>1, <2>2, Aside
  <1>5. CASE script \notin Running
    <2>1. script' = "none" /\ i' = 1 /\ job' = NoJob /\ guarded' = {} /\ UNCHANGED configVars
      BY <1>5 DEF Begin
    <2>2. TypeOK'
      <3>1. script' \in {"none"} /\ i' \in 1 .. 2 /\ guarded' \subseteq Managed
        BY <2>1
      <3>2. host' = "live" /\ feature' = f /\ payloads' = <<>> /\ mine' = FALSE /\ staged' = FALSE
        BY DEF Begin, Goto
      <3>3. UNCHANGED <<seen, configVars, powerLosses, others>>
        BY DEF Begin
      <3> QED
        BY <1>1, <1>2, <2>1, <3>1, <3>2, <3>3 DEF TypeOK, configVars
    <2>3. ConfigInv' /\ ScriptInv' /\ DoneInv'
      BY <2>1 DEF ConfigInv, ScriptInv, DoneInv, Started, Busy, Running, configVars
    <2> QED
      BY <1>3, <2>2, <2>3
  <1> QED
    BY <1>4, <1>5

\* The types of the script's own state, and what it does to the other variables.
LEMMA ScriptType ==
    ASSUME TypeOK, ScriptOnly,
           script' \in Running \union {"ok", "dead"}, i' \in 1 .. 2,
           UNCHANGED <<job, mine, left>>, guarded' \subseteq Managed,
           files' \in Directory, since' \subseteq Directory, soft' \subseteq Managed
    PROVE  TypeOK'
  BY DEF TypeOK, ScriptOnly, hostVars

\* The host learns of the script only through its answer.
LEMMA ScriptHost == ASSUME HostInv, ScriptOnly, script # "ok", UNCHANGED job PROVE HostInv'
  BY DEF HostInv, ScriptOnly, hostVars

\* A temporary file is written: the managed names keep what they have.
LEMMA TempWrite ==
    ASSUME IInv, NEW c \in Contents, Write([files EXCEPT ![Temp(i)] = c])
    PROVE  /\ files' \in Directory /\ since' \subseteq Directory
           /\ files'[Temp(i)] = c
           /\ \A p \in Managed : files'[p] = files[p]
  BY NamesDiffer DEF IInv, TypeOK, Write, Directory

\* Every command of the script keeps the invariant.
LEMMA ScriptKeeps == ASSUME IInv, ScriptStep PROVE IInv'
  <1> USE NamesDiffer DEF IInv, At, Then
  <1>0. i \in 1 .. 2 /\ Temp(i) \in Names /\ Temp(i) \notin Managed
    BY DEF TypeOK
  <1>1. CASE ScriptGuards
    <2>1. /\ script = "guards" /\ script' \in {"test", "dead"} /\ ScriptOnly
          /\ UNCHANGED <<i, job, mine, left, configVars>>
          /\ guarded' = {p \in Managed : files[p] = "absent"}
      BY <1>1 DEF ScriptGuards
    <2>2. job # NoJob /\ i <= Len(job.payloads)
      BY <2>1 DEF ScriptInv, Started, Running
    <2>3. TypeOK'
      BY <2>1, <1>0, ScriptType DEF Running, configVars, TypeOK
    <2>4. ConfigInv' /\ DoneInv' /\ HostInv'
      BY <2>1, ScriptHost DEF ConfigInv, DoneInv, configVars
    <2>5. script' = "test" =>
             /\ \A p \in ToDo : files[p] = "absent" /\ p \in Managed
             /\ \A p \in BothOf(job.feature) \ ToDo : files[p] = p
      <3>1. SUFFICES ASSUME script' = "test"
                     PROVE  /\ \A p \in ToDo : files[p] = "absent" /\ p \in Managed
                            /\ \A p \in BothOf(job.feature) \ ToDo : files[p] = p
        OBVIOUS
      <3>2. Unchanged(job.feature, job.payloads)
        BY <1>1, <3>1 DEF ScriptGuards
      <3>3. i = 1
        BY <2>1 DEF ScriptInv
      <3>4. ToDo \subseteq BothOf(job.feature) /\ BothOf(job.feature) \subseteq Managed
        BY <2>2, JobShape
      <3>5. DOMAIN job.payloads = 1 .. Len(job.payloads)
        <4>1. job.payloads \in {<<job.feature>>, <<"runner">>, <<job.feature, "runner">>}
          BY <2>2 DEF TypeOK
        <4> QED
          BY <4>1
      <3>6. \A p \in BothOf(job.feature) :
               files[p] = IF p \in ToDo THEN "absent" ELSE p
        BY <3>2, <3>3, <3>5 DEF Unchanged, ToDo, BothOf
      <3> QED
        BY <3>4, <3>6
    <2>6. ScriptInv'
      BY <2>1, <2>2, <2>5 DEF ScriptInv, Started, Busy, Running, ToDo, Current, configVars
    <2> QED
      BY <2>3, <2>4, <2>6
  <1>2. CASE TestTemp \/ Compare \/ ScriptStops
    <2>1. /\ script \in Running /\ ScriptOnly
          /\ UNCHANGED <<i, job, mine, left, configVars, guarded>>
          /\ \/ script' = "dead"
             \/ script = "test" /\ script' = "cp"
             \/ script = "cmp" /\ script' = "sync" /\ files[Temp(i)] = Current
      BY <1>2 DEF TestTemp, Compare, ScriptStops, Running, Current
    <2>2. TypeOK'
      <3>1. script' \in Running \union {"ok", "dead"}
        BY <2>1 DEF Running
      <3> QED
        BY <2>1, <3>1, ScriptType DEF configVars, TypeOK
    <2>3. ConfigInv' /\ DoneInv' /\ HostInv'
      BY <2>1, ScriptHost DEF ConfigInv, DoneInv, configVars, Running
    <2>4. ScriptInv'
      BY <2>1 DEF ScriptInv, Started, Busy, Running, ToDo, Current, configVars
    <2> QED
      BY <2>2, <2>3, <2>4
  <1>3. CASE CopyBegins \/ CopyEnds
    <2> DEFINE c == IF script = "cp" THEN "partial" ELSE Current
    <2>1. /\ ScriptOnly /\ UNCHANGED <<i, job, mine, left, guarded>>
          /\ Write([files EXCEPT ![Temp(i)] = c])
          /\ \/ script = "cp" /\ script' = "copying" /\ soft' = soft
             \/ script = "copying" /\ script' = "cmp" /\ soft' = soft \union {Current}
      BY <1>3 DEF CopyBegins, CopyEnds, Current
    <2>2. script \in Busy /\ Started
      BY <2>1 DEF Busy, Running, Started
    <2>3. Current \in ToDo /\ Current \in Managed
      BY <2>2, JobShape DEF ScriptInv
    <2>4. c \in Contents
      BY <2>3 DEF Contents
    <2> HIDE DEF c
    <2>5. /\ files' \in Directory /\ since' \subseteq Directory
          /\ \A p \in Managed : files'[p] = files[p]
      BY <2>1, <2>4, TempWrite
    <2>6. TypeOK'
      <3>1. script' \in Running \union {"ok", "dead"} /\ soft' \subseteq Managed
        BY <2>1, <2>3 DEF Running, TypeOK
      <3> QED
        BY <2>1, <2>5, <3>1, ScriptType DEF TypeOK
    <2>7. files[Current] # Current
      BY <2>1, <2>2, <2>3 DEF ScriptInv
    <2>8. ConfigInv'
      <3>1. \A p \in Managed : files'[p] = p => p \notin soft'
        BY <2>1, <2>5, <2>7 DEF ConfigInv
      <3>2. files'["runner"] = "runner" => \E f \in Features : files'[f] = f
        BY <2>5 DEF ConfigInv
      <3>3. files' = [files EXCEPT ![Temp(i)] = c]
        BY <2>1 DEF Write
      <3> QED
        BY <2>1, <2>5, <3>1, <3>2, <3>3, WriteConfig
    <2>9. UNCHANGED <<Current, ToDo>>
      BY <2>1 DEF Current, ToDo
    <2>10. ToDo \subseteq Managed /\ BothOf(job.feature) \subseteq Managed
      BY <2>2, JobShape DEF ScriptInv
    <2>11. ScriptInv'
      BY <2>1, <2>2, <2>5, <2>9, <2>10 DEF ScriptInv, Started, Busy, Running
    <2>12. DoneInv' /\ HostInv'
      BY <2>1, ScriptHost DEF DoneInv
    <2> QED
      BY <2>6, <2>8, <2>11, <2>12
  <1>4. CASE Sync
    <2>1. /\ script = "sync" /\ script' = "mv" /\ ScriptOnly /\ OnFlash
          /\ UNCHANGED <<i, job, mine, left, guarded>>
      BY <1>4 DEF Sync
    <2>2. TypeOK'
      BY <2>1, ScriptType DEF Running, OnFlash, TypeOK
    <2>3. ConfigInv' /\ DoneInv' /\ HostInv'
      BY <2>1, SyncConfig, ScriptHost DEF DoneInv
    <2>4. ScriptInv'
      BY <2>1 DEF ScriptInv, Started, Busy, Running, ToDo, Current, OnFlash
    <2> QED
      BY <2>2, <2>3, <2>4
  <1>5. CASE Move
    <2> DEFINE after == [files EXCEPT ![Current] = files[Temp(i)], ![Temp(i)] = "absent"]
    <2>1. /\ script = "mv" /\ script' = "settle" /\ ScriptOnly /\ Write(after)
          /\ UNCHANGED <<i, job, mine, left, guarded, soft>>
      BY <1>5 DEF Move, Current
    <2>2. script \in Busy /\ Started
      BY <2>1 DEF Busy, Running, Started
    <2>3. /\ Current \in ToDo /\ Current \in Managed /\ job.feature \in Features
          /\ ToDo \subseteq BothOf(job.feature) /\ BothOf(job.feature) \subseteq Managed
          /\ (ToDo = BothOf(job.feature) /\ Current = job.feature) \/ ToDo = {Current}
      BY <2>2, JobShape DEF ScriptInv
    <2>4. files[Temp(i)] = Current /\ soft = {}
      BY <2>1 DEF ScriptInv
    <2>5. /\ after \in Directory /\ after[Current] = Current
          /\ \A p \in Managed \ {Current} : after[p] = files[p]
      BY <1>0, <2>3, <2>4 DEF TypeOK, Directory, Contents
    <2> HIDE DEF after
    <2>6. files' = after /\ since' = since \union {after}
      BY <2>1 DEF Write
    <2>7. TypeOK'
      BY <2>1, <2>5, <2>6, ScriptType DEF Running, TypeOK
    <2>8. ConfigInv'
      <3>1. after["runner"] = "runner" => \E f \in Features : after[f] = f
        <4>1. CASE Current = job.feature
          BY <2>3, <2>5, <4>1
        <4>2. CASE Current # job.feature
          <5>1. job.feature \notin ToDo /\ files[job.feature] = job.feature
            BY <2>2, <2>3, <4>2 DEF ScriptInv, BothOf
          <5>2. after[job.feature] = job.feature
            BY <2>3, <2>5, <4>2, <5>1
          <5> QED
            BY <2>3, <5>2
        <4> QED
          BY <4>1, <4>2
      <3>2. \A p \in Managed : after[p] = files[p] \/ after[p] = p
        BY <2>5
      <3> QED
        BY <2>1, <2>4, <3>1, <3>2, WriteConfig
    <2>9. UNCHANGED <<Current, ToDo>>
      BY <2>1 DEF Current, ToDo
    <2>10. ScriptInv'
      BY <2>1, <2>2, <2>3, <2>4, <2>5, <2>6, <2>9 DEF ScriptInv, Started, Busy, Running
    <2>11. DoneInv' /\ HostInv'
      BY <2>1, ScriptHost DEF DoneInv
    <2> QED
      BY <2>7, <2>8, <2>10, <2>11
  <1>6. CASE Settle
    <2>1. /\ script = "settle" /\ ScriptOnly /\ OnFlash /\ UNCHANGED <<job, mine, left, guarded>>
          /\ soft' = {} /\ since' = {files} /\ files' = files
      BY <1>6 DEF Settle, NextPayload, OnFlash
    <2>2. script \in Busy /\ Started /\ job # NoJob /\ i <= Len(job.payloads)
      BY <2>1 DEF Busy, Running, Started, ScriptInv
    <2>3. /\ Current \in ToDo /\ ToDo \subseteq BothOf(job.feature)
          /\ job.feature \in Features
          /\ i < Len(job.payloads) => Current = job.feature /\ ToDo = BothOf(job.feature)
          /\ ~(i < Len(job.payloads)) => ToDo = {Current}
      BY <2>2, JobShape
    <2>4. ConfigInv' /\ HostInv'
      BY <2>1, SyncConfig, ScriptHost
    <2>5. CASE i < Len(job.payloads)
      <3>1. NextPayload
        BY <1>6, <2>5 DEF Settle
      <3>2. /\ i' = 2 /\ i' <= Len(job'.payloads) /\ Current' = "runner" /\ ToDo' = {"runner"}
        BY <2>2, <2>5, <3>1, NextShape
      <3>3. script' = "test"
        BY <3>1 DEF NextPayload
      <3>4. TypeOK'
        BY <2>1, <3>2, <3>3, ScriptType DEF Running, TypeOK
      <3>5. files[job.feature] = job.feature /\ files["runner"] # "runner"
        BY <2>1, <2>2, <2>3, <2>5 DEF ScriptInv, BothOf
      <3>6. "runner" \in guarded
        BY <2>2, <2>3, <2>5 DEF ScriptInv, BothOf
      <3>7. ScriptInv' /\ DoneInv'
        BY <2>1, <2>2, <3>2, <3>3, <3>5, <3>6 DEF ScriptInv, DoneInv, Started, Busy,
           Running, BothOf
      <3> QED
        BY <2>4, <3>4, <3>7
    <2>6. CASE ~(i < Len(job.payloads))
      <3>1. script' = "ok" /\ i' = i
        BY <1>6, <2>6 DEF Settle
      <3>2. TypeOK'
        BY <2>1, <3>1, ScriptType DEF TypeOK
      <3>3. \A p \in BothOf(job.feature) : files[p] = p
        BY <2>1, <2>2, <2>3, <2>6 DEF ScriptInv
      <3>4. ScriptInv' /\ DoneInv'
        BY <2>1, <2>2, <3>1, <3>3 DEF ScriptInv, DoneInv, Started, Busy, Running
      <3> QED
        BY <2>4, <3>2, <3>4
    <2> QED
      BY <2>5, <2>6
  <1> QED
    BY <1>1, <1>2, <1>3, <1>4, <1>5, <1>6 DEF ScriptStep

\* Another program's file takes a free name.
LEMMA OtherKeeps == ASSUME IInv, NEW p \in Managed, OtherWrites(p) PROVE IInv'
  <1> USE NamesDiffer DEF IInv
  <1> DEFINE after == [files EXCEPT ![p] = "other"]
  <1>1. /\ files[p] = "absent" /\ Write(after) /\ others' = others + 1 /\ others < MAX_OTHERS
        /\ UNCHANGED <<hostVars, staged, scriptVars, soft, powerLosses, guarded>>
    BY DEF OtherWrites
  <1>2. /\ after \in Directory /\ after[p] = "other"
        /\ \A q \in Names \ {p} : after[q] = files[q]
    BY DEF TypeOK, Directory, Contents
  <1> HIDE DEF after
  <1>3. files' = after /\ since' = since \union {after}
    BY <1>1 DEF Write
  <1>4. TypeOK'
    <2>1. others' \in 0 .. MAX_OTHERS
      BY <1>1, InstallAssumption DEF TypeOK
    <2>2. files' \in Directory /\ since' \subseteq Directory
      BY <1>2, <1>3 DEF TypeOK
    <2> QED
      BY <1>1, <2>1, <2>2 DEF TypeOK, hostVars, scriptVars
  <1>5. ConfigInv'
    <2>1. \A q \in Managed : \/ after[q] = files[q]
                             \/ after[q] = "other" /\ files[q] = "absent"
      BY <1>1, <1>2
    <2>2. \A q \in Managed : after[q] = q => q \notin soft'
      BY <1>1, <1>2 DEF ConfigInv
    <2>3. after["runner"] = "runner" => \E f \in Features : after[f] = f
      BY <1>1, <1>2 DEF ConfigInv
    <2> QED
      BY <1>1, <2>1, <2>2, <2>3, WriteConfig
  <1>6. UNCHANGED <<Current, ToDo, Started, script, job, i, soft, guarded>>
    BY <1>1 DEF Current, ToDo, Started, scriptVars
  <1>7. \A q \in Managed : after[q] = q <=> files[q] = q
    BY <1>1, <1>2
  <1>8. ScriptInv'
    <2>1. script \in Busy => ToDo \subseteq Managed /\ BothOf(job.feature) \subseteq Managed
      BY JobShape DEF ScriptInv, Started, Busy
    <2>2. script \in {"sync", "mv"} => files'[Temp(i)] = files[Temp(i)]
      BY <1>2, <1>3 DEF TypeOK
    <2> QED
      BY <1>3, <1>6, <1>7, <2>1, <2>2 DEF ScriptInv
  <1>9. DoneInv'
    <2>1. script = "ok" => BothOf(job.feature) \subseteq Managed
      BY JobShape DEF ScriptInv, Started
    <2> QED
      BY <1>3, <1>6, <1>7, <2>1 DEF DoneInv, ConfigInv
  <1>10. HostInv'
    BY <1>1 DEF HostInv, hostVars, scriptVars
  <1> QED
    BY <1>4, <1>5, <1>8, <1>9, <1>10

\* A power loss keeps the invariant: what the script finished comes back.
LEMMA LossKeeps == ASSUME IInv, PowerLoss PROVE IInv'
  <1> USE DEF IInv
  <1>1. /\ powerLosses < MAX_POWER_LOSSES /\ powerLosses' = powerLosses + 1
        /\ since' = {files'} /\ soft' = {} /\ staged' = FALSE /\ left' = FALSE
        /\ UNCHANGED <<hostVars, i, job, mine, others, guarded>>
    BY DEF PowerLoss
  <1>2. script' = IF script \in Running THEN "dead" ELSE script
    BY DEF PowerLoss
  <1>3. ConfigInv' /\ files' \in Directory
    BY LossConfig
  <1>4. TypeOK'
    <2>1. powerLosses' \in 0 .. MAX_POWER_LOSSES
      BY <1>1, InstallAssumption DEF TypeOK
    <2>2. script' \in Running \union {"none", "ok", "dead"}
      BY <1>2 DEF TypeOK
    <2>3. since' \subseteq Directory /\ soft' \subseteq Managed
      BY <1>1, <1>3
    <2> QED
      BY <1>1, <1>3, <2>1, <2>2, <2>3 DEF TypeOK, hostVars
  <1>5. ScriptInv'
    BY <1>1, <1>2 DEF ScriptInv, Started, Busy, Running
  <1>6. DoneInv'
    <2>1. SUFFICES ASSUME script' = "ok", NEW p \in BothOf(job.feature) PROVE files'[p] = p
      BY <1>1 DEF DoneInv
    <2>2. script = "ok"
      BY <1>2, <2>1
    <2>3. p \in Managed
      BY <2>2, JobShape DEF ScriptInv, Started
    <2> QED
      BY <2>2, <2>3, LossConfig DEF DoneInv
  <1>7. HostInv'
    BY <1>1, <1>2 DEF HostInv, hostVars, Running
  <1> QED
    BY <1>3, <1>4, <1>5, <1>6, <1>7

\* The invariant holds in every state of every installation.
THEOREM Inductive == Spec => []IInv
  <1>1. IInv /\ [Next]_vars => IInv'
    <2> SUFFICES ASSUME IInv, [Next]_vars PROVE IInv'
      OBVIOUS
    <2>1. CASE UNCHANGED vars
      <3>1. TypeOK' /\ HostInv'
        BY <2>1 DEF vars, hostVars, scriptVars, configVars, IInv, TypeOK, HostInv
      <3> QED
        BY <2>1, <3>1, Aside DEF vars, scriptVars, IInv
    <2> QED
      BY <2>1, BeginKeeps, HostKeeps, ScriptKeeps, OtherKeeps, LossKeeps DEF Next
  <1> QED
    BY InitInv, <1>1, PTL DEF Spec

\* Every variable of install_startup keeps its type.
THEOREM TypeCorrect == Spec => []TypeOK
  <1>1. IInv => TypeOK
    BY DEF IInv
  <1> QED
    BY Inductive, <1>1, PTL

\* "An interrupted first installation never exposes a runner referring to an
\* incomplete hook", wherever scripts stop and power is lost.
THEOREM HookFirst == Spec => []RunnerHasHook
  <1>1. IInv => RunnerHasHook
    BY NamesDiffer DEF IInv, ConfigInv, RunnerHasHook
  <1> QED
    BY Inductive, <1>1, PTL

\* "Installed" means durable: hook and runner are in every state a power loss
\* can bring back.
THEOREM Durable == Spec => []InstalledIsDurable
  <1>1. IInv => InstalledIsDurable
    BY DEF IInv, HostInv, DoneInv, ScriptInv, BothOf, InstalledIsDurable
  <1> QED
    BY Inductive, <1>1, PTL

\* "There is no migration or automatic overwrite": only a name that was free at
\* the script's guards is written over, or by what a power loss leaves.
THEOREM Overwrites == Spec => NoOverwrite
  <1>1. IInv /\ [Next]_vars =>
           [\A p \in Managed :
               files[p] \notin {"absent", files'[p]} =>
                   p \in guarded \/ powerLosses' > powerLosses]_vars
    <2> SUFFICES ASSUME IInv, Next, NEW p \in Managed, files'[p] # files[p], files[p] # "absent"
                 PROVE  p \in guarded \/ powerLosses' > powerLosses
      OBVIOUS
    <2> USE NamesDiffer DEF IInv
    <2>0. files \in [Names -> Contents] /\ i \in 1 .. 2
          /\ Temp(i) \in Names /\ Temp(i) \notin Managed
      BY DEF TypeOK, Directory
    <2>1. ASSUME NEW f \in Features, Begin(f) PROVE FALSE
      BY <2>1 DEF Begin, configVars
    <2>2. ASSUME HostStep PROVE FALSE
      BY <2>2 DEF HostStep, ReadLive, Plan, Stage, Recheck, OnFlash, Guards, Answer,
         Readback,
                  Clean, HostFails, Camera, configVars
    <2>3. ASSUME ScriptStep PROVE p \in guarded
      <3>1. \/ Write([files EXCEPT ![Temp(i)] = "partial"])
            \/ Write([files EXCEPT ![Temp(i)] = Current])
            \/ Move
        BY <2>3 DEF ScriptStep, ScriptGuards, TestTemp, CopyBegins, CopyEnds, Compare,
           Sync, Settle,
                    ScriptStops, OnFlash, configVars, Current
      <3>2. Move
        BY <2>0, <3>1 DEF Write
      <3>3. script \in Busy /\ Started
        BY <3>2 DEF Move, At, Busy, Running, Started
      <3>4. Current \in ToDo /\ Current \in Managed
        BY <3>3, JobShape DEF ScriptInv
      <3>5. files' = [files EXCEPT ![Current] = files[Temp(i)], ![Temp(i)] = "absent"]
        BY <3>2 DEF Move, Write, Current
      <3>6. p = Current
        BY <2>0, <3>4, <3>5
      <3> QED
        BY <3>3, <3>4, <3>6 DEF ScriptInv
    <2>4. ASSUME NEW q \in Managed, OtherWrites(q) PROVE FALSE
      BY <2>0, <2>4 DEF OtherWrites, Write
    <2>5. ASSUME PowerLoss PROVE powerLosses' > powerLosses
      BY <2>5 DEF PowerLoss, TypeOK
    <2> QED
      BY <2>1, <2>2, <2>3, <2>4, <2>5 DEF Next
  <1> QED
    BY Inductive, <1>1, PTL DEF Spec, NoOverwrite

----------------------------------------------------------------------------
(* The boot. *)

\* What the variables of the boot range over.
BootTypes ==
    /\ enabled \in Seq(Hooks)
    /\ rc \in {"mount", "hooks", "camera"}
    /\ config \in {"rw", "bad", "none"}
    /\ runner \in {"none", "stage", "refused", "hooks", "check", "hold", "done"}
    /\ todo \in Seq(Hooks)
    /\ hook \in {"none", "gates", "look", "umount", "recheck", "write", "readback",
                 "mount", "confirm", "exit"}
    /\ trap \in BOOLEAN /\ in_config \in BOOLEAN
    /\ erase_size \in {4, 16}
    /\ ucamera \in BOOLEAN /\ manual \in BOOLEAN /\ ran \in BOOLEAN /\ returned \in BOOLEAN
    /\ trouble \in SUBSET {"failed", "killed", "mount", "own"}

\* Who runs when: the hook inside the runner's loop, the runner under rcS or,
\* on a running camera, by hand.
BootControl ==
    /\ hook # "none" => runner = "hooks" /\ todo # <<>>
    /\ runner = "check" => todo # <<>>
    /\ in_config => runner = "stage"
    /\ rc = "mount" => runner = "none"
    /\ rc # "camera" => ~ucamera
    /\ rc = "camera" => manual \/ runner \in {"none", "refused", "done"}
    /\ manual => rc = "camera"

\* The exit of the hook is armed exactly while the hook has config unmounted.
BootTrap ==
    /\ trap => hook \in {"recheck", "write", "readback", "mount", "exit"}
    /\ hook \in {"recheck", "write", "readback", "mount"} => trap /\ config = "none"

\* Config is unusable only in the hook's hands, or for a reason on record.
BootConfig ==
    runner # "none" /\ ~trap => config = "rw" \/ ~(trouble \subseteq {"failed"})

\* On a boot a hook ran on, the loop goes on only with config usable.
BootRelease ==
    /\ rc = "mount" => ~ran
    /\ rc = "hooks" /\ ran =>
        /\ runner \notin {"none", "stage", "refused"}
        /\ runner = "done" \/ (runner = "hooks" /\ hook = "none") => config = "rw"

\* A boot without a failure: until the erase-fix hook has corrected the erase
\* size it is one of the hooks still to run.
BootFix ==
    ~manual /\ trouble = {} /\ Has(enabled, "erase-fix") =>
        /\ runner = "none" => ~ran
        /\ runner # "refused"
        /\ runner = "done" => erase_size = 4
        /\ runner = "check" => erase_size = 4 \/ Has(Tail(todo), "erase-fix")
        /\ hook \in {"readback", "mount", "confirm", "exit"} => erase_size = 4
        /\ runner = "hooks" /\ hook = "none" => erase_size = 4 \/ Has(todo, "erase-fix")

\* A camera program beside the unmount came back after the hook's last look.
BootCamera == hook = "umount" /\ ucamera => returned

BootIInv ==
    BootTypes /\ BootControl /\ BootTrap /\ BootConfig /\ BootRelease /\ BootFix /\ BootCamera

\* A hook that is to run and is not the next one is one of the others.
LEMMA StillToRun ==
    ASSUME NEW s \in Seq(Hooks), NEW h, Has(s, h)
    PROVE  s # <<>> /\ (Head(s) # h => Has(Tail(s), h))
  <1>1. PICK k \in 1 .. Len(s) : s[k] = h
    BY DEF Has
  <1>2. s # <<>> /\ Head(s) = s[1]
    BY <1>1
  <1>3. ASSUME Head(s) # h PROVE Has(Tail(s), h)
    <2>1. k # 1 /\ k - 1 \in 1 .. Len(s) - 1
      BY <1>1, <1>2, <1>3
    <2>2. Len(Tail(s)) = Len(s) - 1 /\ DOMAIN Tail(s) = 1 .. Len(Tail(s))
      BY <1>2
    <2>3. Tail(s)[k - 1] = s[k]
      BY <1>2, <2>1
    <2> QED
      BY <1>1, <2>1, <2>2, <2>3 DEF Has
  <1> QED
    BY <1>2, <1>3

\* A camera that is switched on satisfies the invariant.
LEMMA BootInitInv == BootInit => BootIInv
  <1> SUFFICES ASSUME BootInit PROVE BootIInv
    OBVIOUS
  <1>1. BootTypes
    <2>1. <<>> \in Seq(Hooks)
      OBVIOUS
    <2>2. enabled \in Seq(Hooks)
      BY DEF BootInit, Listings
    <2> QED
      BY <2>1, <2>2 DEF BootInit, BootTypes
  <1>2. BootControl /\ BootTrap /\ BootConfig /\ BootRelease /\ BootCamera
    BY DEF BootInit, BootControl, BootTrap, BootConfig, BootRelease, BootCamera
  <1>3. BootFix
    BY DEF BootInit, BootFix
  <1> QED
    BY <1>1, <1>2, <1>3 DEF BootIInv

\* rcS, the user and the camera program keep the invariant.
LEMMA BootKeeps ==
    ASSUME BootIInv,
           \/ MountConfig \/ StartCamera \/ RunByHand
           \/ CameraDies \/ CameraReturns \/ PowerCut
    PROVE  BootIInv'
  <1> USE DEF BootIInv, BootTypes, BootControl, BootTrap, BootConfig, BootRelease, BootFix,
              BootCamera,
              installedVars, countVars, runVars, Others
  <1>1. CASE MountConfig
    <2>1. BootTypes'
      BY <1>1 DEF MountConfig
    <2>2. BootControl'
      BY <1>1 DEF MountConfig
    <2>3. BootTrap'
      BY <1>1 DEF MountConfig
    <2>4. BootConfig'
      BY <1>1 DEF MountConfig
    <2>5. BootRelease'
      BY <1>1 DEF MountConfig
    <2>6. BootFix'
      BY <1>1 DEF MountConfig
    <2>7. BootCamera'
      BY <1>1 DEF MountConfig
    <2> QED
      BY <2>1, <2>2, <2>3, <2>4, <2>5, <2>6, <2>7 DEF BootIInv
  <1>2. CASE StartCamera
    BY <1>2 DEF StartCamera
  <1>3. CASE RunByHand
    BY <1>3 DEF RunByHand
  <1>4. CASE CameraDies
    <2>1. BootTypes' /\ BootControl' /\ BootTrap' /\ BootConfig'
      BY <1>4 DEF CameraDies
    <2>2. BootRelease' /\ BootFix' /\ BootCamera'
      BY <1>4 DEF CameraDies
    <2> QED
      BY <2>1, <2>2 DEF BootIInv
  <1>5. CASE CameraReturns
    BY <1>5 DEF CameraReturns
  <1>6. CASE PowerCut
    <2>0. <<>> \in Seq(Hooks)
      OBVIOUS
    <2>1. BootTypes'
      BY <1>6, <2>0 DEF PowerCut
    <2>2. BootControl'
      BY <1>6 DEF PowerCut
    <2>3. BootTrap'
      BY <1>6 DEF PowerCut
    <2>4. BootConfig'
      BY <1>6 DEF PowerCut
    <2>5. BootRelease'
      BY <1>6 DEF PowerCut
    <2>6. BootFix'
      BY <1>6 DEF PowerCut
    <2>7. BootCamera'
      BY <1>6 DEF PowerCut
    <2> QED
      BY <2>1, <2>2, <2>3, <2>4, <2>5, <2>6, <2>7 DEF BootIInv
  <1> QED
    BY <1>1, <1>2, <1>3, <1>4, <1>5, <1>6

\* The runner keeps the invariant.
LEMMA RunnerKeeps == ASSUME BootIInv, RunnerStep PROVE BootIInv'
  <1> USE DEF BootIInv, BootControl, BootTrap, BootConfig, BootRelease, BootFix, BootCamera,
              installedVars, countVars, runVars, Others
  <1>1. CASE StageHooks
    BY <1>1 DEF StageHooks, BootTypes
  <1>2. CASE StartHook
    <2>1. Head(todo) \in Hooks
      BY <1>2 DEF StartHook, BootTypes
    <2>5. Has(todo, "erase-fix") /\ Head(todo) # "erase-fix" => Has(Tail(todo), "erase-fix")
      BY StillToRun DEF BootTypes
    <2>2. CASE Head(todo) = "erase-fix"
      BY <1>2, <2>2 DEF StartHook, BootTypes
    <2>3. CASE Head(todo) = "own"
      BY <1>2, <2>3, <2>5 DEF StartHook, BootTypes
    <2>4. CASE Head(todo) = "adb"
      BY <1>2, <2>4, <2>5 DEF StartHook, BootTypes
    <2> QED
      BY <2>1, <2>2, <2>3, <2>4 DEF Hooks
  <1>3. CASE AfterHook
    <2>1. BootTypes'
      BY <1>3 DEF AfterHook, BootTypes
    <2>2. BootControl'
      BY <1>3 DEF AfterHook, BootTypes
    <2>3. BootTrap'
      BY <1>3 DEF AfterHook, BootTypes
    <2>4. BootConfig'
      BY <1>3 DEF AfterHook, BootTypes
    <2>5. BootRelease'
      BY <1>3 DEF AfterHook, BootTypes
    <2>6. BootFix'
      BY <1>3 DEF AfterHook, BootTypes
    <2>7. BootCamera'
      BY <1>3 DEF AfterHook, BootTypes
    <2> QED
      BY <2>1, <2>2, <2>3, <2>4, <2>5, <2>6, <2>7 DEF BootIInv
  <1>4. CASE AllRan
    <2>1. hook = "none"
      BY <1>4 DEF AllRan
    <2>2. BootTypes' /\ BootControl' /\ BootTrap' /\ BootConfig'
      BY <1>4, <2>1 DEF AllRan, BootTypes
    <2>3. ~Has(todo, "erase-fix")
      BY <1>4 DEF AllRan, Has
    <2>4. BootRelease' /\ BootFix' /\ BootCamera'
      BY <1>4, <2>1, <2>3 DEF AllRan, BootTypes
    <2> QED
      BY <2>2, <2>4 DEF BootIInv
  <1> QED
    BY <1>1, <1>2, <1>3, <1>4 DEF RunnerStep

\* Every command of the erase-fix hook keeps the invariant.
LEMMA HookKeeps == ASSUME BootIInv, EraseFix PROVE BootIInv'
  <1> USE DEF BootIInv, BootTypes, BootControl, BootTrap, BootConfig, BootRelease, BootFix,
              BootCamera,
              installedVars, countVars, runVars, Others, HookGoes,
              HookStep
  <1>1. CASE HookFails
    BY <1>1 DEF HookFails
  <1>2. CASE Gates
    BY <1>2 DEF Gates
  <1>3. CASE Look
    BY <1>3 DEF Look
  <1>4. CASE Unmount
    <2>1. BootTypes'
      BY <1>4 DEF Unmount
    <2>2. BootControl'
      BY <1>4 DEF Unmount
    <2>3. BootTrap'
      BY <1>4 DEF Unmount
    <2>4. BootConfig'
      BY <1>4 DEF Unmount
    <2>5. BootRelease'
      BY <1>4 DEF Unmount
    <2>6. BootFix'
      BY <1>4 DEF Unmount
    <2>7. BootCamera'
      BY <1>4 DEF Unmount
    <2> QED
      BY <2>1, <2>2, <2>3, <2>4, <2>5, <2>6, <2>7 DEF BootIInv
  <1>5. CASE RecheckUnmounted
    BY <1>5 DEF RecheckUnmounted
  <1>6. CASE WriteEraseSize
    BY <1>6 DEF WriteEraseSize
  <1>7. CASE ReadBack
    BY <1>7 DEF ReadBack
  <1>8. CASE Remount
    <2>1. BootTypes'
      BY <1>8 DEF Remount, Mount
    <2>2. BootControl'
      BY <1>8 DEF Remount, Mount
    <2>3. BootTrap'
      BY <1>8 DEF Remount, Mount
    <2>4. BootConfig'
      BY <1>8 DEF Remount, Mount
    <2>5. BootRelease'
      BY <1>8 DEF Remount, Mount
    <2>6. BootFix'
      BY <1>8 DEF Remount, Mount
    <2>7. BootCamera'
      BY <1>8 DEF Remount, Mount
    <2> QED
      BY <2>1, <2>2, <2>3, <2>4, <2>5, <2>6, <2>7 DEF BootIInv
  <1>9. CASE ConfirmFix
    BY <1>9 DEF ConfirmFix
  <1>10. CASE Exit
    <2>1. BootTypes'
      BY <1>10 DEF Exit, Mount
    <2>2. BootControl'
      BY <1>10 DEF Exit, Mount
    <2>3. BootTrap'
      BY <1>10 DEF Exit, Mount
    <2>4. BootConfig'
      <3> HIDE DEF BootFix
      <3>1. CASE trap
        <4>1. PICK result \in {"rw", "bad", "none"} : Mount(result)
          BY <1>10, <3>1 DEF Exit
        <4>2. config' = "rw" \/ "mount" \in trouble'
          BY <4>1 DEF Mount
        <4> QED
          BY <4>2
      <3>2. CASE ~trap
        BY <1>10, <3>2 DEF Exit
      <3> QED
        BY <3>1, <3>2
    <2>5. BootRelease'
      BY <1>10 DEF Exit, Mount
    <2>6. BootFix'
      <3>1. /\ hook = "exit" /\ hook' = "none" /\ runner' = "check"
            /\ UNCHANGED <<enabled, manual, erase_size>>
        BY <1>10 DEF Exit
      <3>2. trouble' = {} => trouble = {}
        BY <1>10 DEF Exit, Mount
      <3>3. Has(enabled, "erase-fix")' = Has(enabled, "erase-fix")
        BY <3>1 DEF Has
      <3> QED
        BY <3>1, <3>2, <3>3
    <2>7. BootCamera'
      BY <1>10 DEF Exit, Mount
    <2> QED
      BY <2>1, <2>2, <2>3, <2>4, <2>5, <2>6, <2>7 DEF BootIInv
  <1>11. CASE Killed
    BY <1>11 DEF Killed
  <1> QED
    BY <1>1, <1>2, <1>3, <1>4, <1>5, <1>6, <1>7, <1>8, <1>9, <1>10, <1>11 DEF EraseFix

\* The invariant holds on every boot.
THEOREM BootInductive == BootSpec => []BootIInv
  <1>1. BootIInv /\ [BootNext]_bootVars => BootIInv'
    <2> SUFFICES ASSUME BootIInv, [BootNext]_bootVars PROVE BootIInv'
      OBVIOUS
    <2>1. CASE UNCHANGED bootVars
      BY <2>1 DEF bootVars, installedVars, countVars, runVars, BootIInv,
         BootTypes, BootControl, BootTrap,
                  BootConfig, BootRelease, BootFix, BootCamera
    <2> QED
      BY <2>1, BootKeeps, RunnerKeeps, HookKeeps DEF BootNext, BootStep
  <1> QED
    BY BootInitInv, <1>1, PTL DEF BootSpec

\* "Arrange ordinary recovery mount on every failure after unmount": wherever the
\* erase-fix hook gives up, it leaves config mounted read/write.
THEOREM LeavesConfig == BootSpec => []FixLeavesConfig
  <1>1. BootIInv => FixLeavesConfig
    BY DEF BootIInv, BootControl, BootTrap, BootConfig, BootTypes, FixLeavesConfig
  <1> QED
    BY BootInductive, <1>1, PTL

\* A boot on which no command failed starts the camera program with the erase
\* size corrected, whatever other hooks are enabled.
THEOREM CleanBoot == BootSpec => []CleanBootFixes
  <1>1. BootIInv => CleanBootFixes
    BY DEF BootIInv, BootControl, BootFix, CleanBootFixes
  <1> QED
    BY BootInductive, <1>1, PTL

\* "Never release rcS into camera startup with config missing or unusable".
THEOREM NoRelease == BootSpec => NoCameraWithoutConfig
  <1>1. BootIInv /\ [BootNext]_bootVars =>
           [rc # "camera" /\ rc' = "camera" /\ ran => config = "rw"]_bootVars
    <2> SUFFICES ASSUME BootIInv, BootNext, rc # "camera", rc' = "camera", ran
                 PROVE  config = "rw"
      OBVIOUS
    <2>1. StartCamera
      BY DEF BootNext, BootStep, RunnerStep, EraseFix, MountConfig,
         StageHooks, StartHook, AfterHook,
             AllRan, HookFails, Gates, Look, Unmount,
             RecheckUnmounted, WriteEraseSize, ReadBack,
             Remount, ConfirmFix, Exit, Killed, RunByHand,
             CameraDies, CameraReturns,
             PowerCut, HookGoes, HookStep, runVars
    <2> QED
      BY <2>1 DEF StartCamera, BootIInv, BootRelease, BootTypes
  <1> QED
    BY BootInductive, <1>1, PTL DEF BootSpec, NoCameraWithoutConfig

\* "Never remount under ucamera": the unmount meets a running camera program only
\* if that came back after the hook's last look, in a run by hand.
THEOREM NoUnmountUnder == BootSpec => NotUnderCamera
  <1>1. BootIInv /\ [BootNext]_bootVars =>
           [hook = "umount" /\ config' # config /\ ucamera => returned /\ manual]_bootVars
    BY DEF BootIInv, BootCamera, BootControl, BootTypes
  <1> QED
    BY BootInductive, <1>1, PTL DEF BootSpec, NotUnderCamera
============================================================================
