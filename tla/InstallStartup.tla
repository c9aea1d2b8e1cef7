--------------------------- MODULE InstallStartup ---------------------------
(***************************************************************************)
(* cc2camera/startup.py: install_startup, run again and again for either   *)
(* boot hook against one running camera, and the shell script it has the   *)
(* camera execute on its JFFS2 config.  Each file goes from tmpfs to a     *)
(* fixed temporary name, is compared, synced, renamed and synced again,    *)
(* the hook first and the shared runner last.  The script may stop at any  *)
(* command, the connection may fail at any moment, the camera may lose     *)
(* power, and nothing is ever rolled back.                                 *)
(*                                                                         *)
(* The script outlives a failed connection and may still be at work while  *)
(* the next run reads, plans and stages.  It has ended by the time that    *)
(* run starts its own, three reads of the whole flash later.               *)
(***************************************************************************)
EXTENDS Naturals, Sequences

CONSTANTS
    Features,          \* "adb" and "erase-fix": each names its hook and its content
    RUNS,              \* bound: runs of the two install commands
    MAX_POWER_LOSSES,  \* bound: power losses of the camera
    MAX_OTHERS         \* bound: files other programs create

ASSUME InstallAssumption ==
    /\ Features \intersect {"runner", "new-0", "new-1", "absent", "partial", "other", "none"} = {}
    /\ RUNS \in Nat
    /\ MAX_POWER_LOSSES \in Nat
    /\ MAX_OTHERS \in Nat

\* The managed paths, each named after the content that belongs there, and the
\* fixed temporary names .cc2-new-0 and .cc2-new-1.
Managed == Features \union {"runner"}
Temp(i) == IF i = 1 THEN "new-0" ELSE "new-1"
Names == Managed \union {Temp(1), Temp(2)}
Contents == Managed \union {"absent", "partial", "other"}
Directory == [Names -> Contents]

VARIABLES
    host,          \* where install_startup is, or how it ended
    feature,       \* the functionality of the current or last run
    seen,          \* config in the accepted live image
    payloads,      \* the files to be written, in order
    staged,        \* does this run's tmpfs stage exist
    script,        \* the camera's script: its next command, or how it ended
    i,             \* the payload the script is at
    job,           \* the feature and the payloads it was started with
    mine,          \* was it this run that started it
    left,          \* if not, does the stage of its run exist
    files,         \* config as the running camera sees it
    since,         \* the states of config since the last sync
    soft,          \* contents not synced yet
    runs, powerLosses, others,
    guarded        \* observation: the managed names free when the script's guards ran

hostVars == <<host, feature, seen, payloads, runs>>
scriptVars == <<script, i, job, mine, left>>
configVars == <<files, since, soft>>
vars == <<hostVars, staged, scriptVars, configVars, powerLosses, others, guarded>>

Ended == {"idle", "installed", "present", "error"}
NoJob == [feature |-> "none", payloads |-> <<>>]
Running == {"guards", "test", "cp", "copying", "cmp", "sync", "mv", "settle"}

TypeOK ==
    /\ host \in Ended \union {"live", "plan", "stage", "recheck", "guards", "await",
                              "readback", "clean", "clean_failed"}
    /\ feature \in Features
    /\ seen \in Directory
    /\ payloads \in {<<>>, <<feature>>, <<"runner">>, <<feature, "runner">>}
    /\ staged \in BOOLEAN
    /\ script \in Running \union {"none", "ok", "dead"}
    /\ i \in 1 .. 2
    /\ \/ job = NoJob
       \/ /\ job.feature \in Features
          /\ job.payloads \in {<<job.feature>>, <<"runner">>, <<job.feature, "runner">>}
    /\ mine \in BOOLEAN
    /\ left \in BOOLEAN
    /\ files \in Directory
    /\ since \subseteq Directory
    /\ soft \subseteq Managed
    /\ runs \in 0 .. RUNS
    /\ powerLosses \in 0 .. MAX_POWER_LOSSES
    /\ others \in 0 .. MAX_OTHERS
    /\ guarded \subseteq Managed

\* Config holds none of the files, or the owner's own under some of the names.
Init ==
    /\ host = "idle" /\ feature \in Features /\ payloads = <<>>
    /\ staged = FALSE
    /\ script = "none" /\ i = 1 /\ mine = FALSE /\ left = FALSE
    /\ job = NoJob
    /\ files \in {d \in [Names -> {"absent", "other"}] :
                     d[Temp(1)] = "absent" /\ d[Temp(2)] = "absent"}
    /\ seen = files /\ since = {files} /\ soft = {} /\ guarded = {}
    /\ runs = 0 /\ powerLosses = 0 /\ others = 0

----------------------------------------------------------------------------
(* The host. *)

Goto(step) == host' = step
Camera == UNCHANGED <<scriptVars, configVars, powerLosses, others, guarded>>

\* sync: what config is now is on the flash.
OnFlash == since' = {files} /\ soft' = {} /\ UNCHANGED files

\* The stage the script copies from.
ItsStage == IF mine THEN staged ELSE left

\* A command starts; load_preserved_backup accepts its backup.  The script of an
\* earlier run may go on.
Begin(f) ==
    /\ host \in Ended /\ runs < RUNS
    /\ runs' = runs + 1 /\ feature' = f /\ payloads' = <<>>
    /\ Goto("live")
    /\ mine' = FALSE /\ staged' = FALSE
    /\ IF script \in Running
       THEN left' = ItsStage /\ UNCHANGED <<script, i, job, guarded>>
       ELSE /\ script' = "none" /\ i' = 1 /\ job' = NoJob
            /\ left' = FALSE /\ guarded' = {}
    /\ UNCHANGED <<seen, configVars, powerLosses, others>>

\* acquire_stable, the checks of the live image and of the mounts.
ReadLive ==
    /\ host = "live"
    /\ seen' = files
    /\ Goto("plan")
    /\ UNCHANGED <<feature, payloads, runs, staged>> /\ Camera

Missing(p) == IF files[p] = "absent" THEN <<p>> ELSE <<>>

\* Exact files are kept, absent ones become payloads, anything else is refused.
Plan ==
    /\ host = "plan"
    /\ payloads' = Missing(feature) \o Missing("runner")
    /\ Goto(IF \E p \in {feature, "runner"} : files[p] \notin {"absent", p} THEN "error"
            ELSE IF payloads' = <<>> THEN "present" ELSE "stage")
    /\ UNCHANGED <<feature, seen, runs, staged>> /\ Camera

\* mktemp on tmpfs, and every payload pushed and read back.
Stage ==
    /\ host = "stage"
    /\ staged' = TRUE
    /\ Goto("recheck")
    /\ UNCHANGED <<feature, seen, payloads, runs>> /\ Camera

\* The camera syncs, and config must still be the one in the live image.
Recheck ==
    /\ host = "recheck"
    /\ OnFlash
    /\ Goto(IF files = seen THEN "guards" ELSE "clean_failed")
    /\ UNCHANGED <<feature, seen, payloads, runs, staged, scriptVars, powerLosses, others, guarded>>

\* Mutant of Unchanged: only the temporary names are looked at again.
UnchangedTempsOnly(f, ps) == \A k \in DOMAIN ps : files[Temp(k)] = "absent"

\* Absent where a payload goes, exact where none does, no leftover temporary.
Unchanged(f, ps) ==
    /\ \A p \in {f, "runner"} :
          files[p] = IF \E k \in DOMAIN ps : ps[k] = p THEN "absent" ELSE p
    /\ \A k \in DOMAIN ps : files[Temp(k)] = "absent"

\* The guards run once on their own, then the script starts.
Guards ==
    /\ host = "guards" /\ script \notin Running
    /\ IF Unchanged(feature, payloads)
       THEN /\ Goto("await")
            /\ script' = "guards" /\ i' = 1 /\ mine' = TRUE /\ left' = FALSE
            /\ job' = [feature |-> feature, payloads |-> payloads]
       ELSE Goto("clean_failed") /\ UNCHANGED scriptVars
    /\ UNCHANGED <<feature, seen, payloads, runs, staged, configVars, powerLosses, others, guarded>>

\* The script's answer.
Answer ==
    /\ host = "await"
    /\ \/ script = "ok" /\ Goto("readback")
       \/ script = "dead" /\ Goto("clean_failed")
    /\ UNCHANGED <<feature, seen, payloads, runs, staged>> /\ Camera

\* Both requested files are read back and compared.
Readback ==
    /\ host = "readback"
    /\ Goto(IF \A p \in {feature, "runner"} : files[p] = p THEN "clean" ELSE "clean_failed")
    /\ UNCHANGED <<feature, seen, payloads, runs, staged>> /\ Camera

\* finally: only the stage is removed.
Clean ==
    /\ host \in {"clean", "clean_failed"}
    /\ staged' = FALSE
    /\ Goto(IF host = "clean" THEN "installed" ELSE "error")
    /\ UNCHANGED <<feature, seen, payloads, runs>> /\ Camera

\* Any ADB command fails, times out or reports something unexpected, and any
\* refusal for a reason not kept here (space, geometry, a second camera).  From
\* the stage on, finally still runs; its own failure hides a success.
HostFails ==
    /\ host \notin Ended
    /\ Goto(IF host \in {"live", "plan", "stage", "clean", "clean_failed"} THEN "error"
            ELSE "clean_failed")
    /\ UNCHANGED <<feature, seen, payloads, runs, staged>> /\ Camera

----------------------------------------------------------------------------
(* The camera. *)

ScriptOnly == UNCHANGED <<hostVars, staged, powerLosses, others>>
At(command) == script = command /\ ScriptOnly /\ UNCHANGED guarded
Then(command) == script' = command /\ UNCHANGED <<i, job, mine, left>>

\* config changes, visibly at once and on the flash by the next sync.
Write(directory) == files' = directory /\ since' = since \union {directory}

\* The guards again, now in the script.
ScriptGuards ==
    /\ script = "guards" /\ ScriptOnly
    /\ Then(IF Unchanged(job.feature, job.payloads) THEN "test" ELSE "dead")
    /\ guarded' = {p \in Managed : files[p] = "absent"}
    /\ UNCHANGED configVars

\* A temporary name that exists is refused, never recycled.
TestTemp ==
    /\ At("test")
    /\ Then(IF files[Temp(i)] = "absent" THEN "cp" ELSE "dead")
    /\ UNCHANGED configVars

\* cp creates the temporary file ...
CopyBegins ==
    /\ At("cp") /\ ItsStage
    /\ Write([files EXCEPT ![Temp(i)] = "partial"])
    /\ Then("copying")
    /\ UNCHANGED soft

\* ... and fills it; chmod 755.
CopyEnds ==
    /\ At("copying")
    /\ Write([files EXCEPT ![Temp(i)] = job.payloads[i]])
    /\ soft' = soft \union {job.payloads[i]}
    /\ Then("cmp")

\* cmp with the stage, which may be gone.
Compare ==
    /\ At("cmp")
    /\ Then(IF ItsStage /\ files[Temp(i)] = job.payloads[i] THEN "sync" ELSE "dead")
    /\ UNCHANGED configVars

\* Mutant of Sync: none before the rename.
SyncSkipped ==
    /\ At("sync")
    /\ UNCHANGED configVars
    /\ Then("mv")

\* sync before the rename.
Sync ==
    /\ At("sync")
    /\ OnFlash
    /\ Then("mv")

\* mv replaces without asking.
Move ==
    /\ At("mv")
    /\ Write([files EXCEPT ![job.payloads[i]] = files[Temp(i)], ![Temp(i)] = "absent"])
    /\ Then("settle")
    /\ UNCHANGED soft

NextPayload == script' = "test" /\ i' = i + 1 /\ UNCHANGED <<job, mine, left>>

\* Mutant of Settle: none after the last rename.
SettleSkipped ==
    /\ At("settle")
    /\ IF i < Len(job.payloads)
       THEN OnFlash /\ NextPayload
       ELSE UNCHANGED configVars /\ Then("ok")

\* sync after the rename; the next payload, or the script's success.
Settle ==
    /\ At("settle")
    /\ OnFlash
    /\ IF i < Len(job.payloads)
       THEN NextPayload
       ELSE Then("ok")

\* A command fails under set -e (flash full, stage gone), or the script is hung
\* up with its connection.
ScriptStops ==
    /\ script \in Running /\ ScriptOnly
    /\ Then("dead")
    /\ UNCHANGED <<configVars, guarded>>

\* Another program creates a file under a managed name, at any moment.
OtherWrites(p) ==
    /\ files[p] = "absent" /\ others < MAX_OTHERS
    /\ others' = others + 1
    /\ Write([files EXCEPT ![p] = "other"])
    /\ UNCHANGED <<hostVars, staged, scriptVars, soft, powerLosses, guarded>>

\* The camera loses power: config comes back as some state since the last sync
\* with unsynced contents cut short, tmpfs and the script are gone.
PowerLoss ==
    /\ powerLosses < MAX_POWER_LOSSES
    /\ powerLosses' = powerLosses + 1
    /\ \E d \in since, lost \in SUBSET soft :
          files' = [n \in Names |-> IF d[n] \in lost THEN "partial" ELSE d[n]]
    /\ since' = {files'} /\ soft' = {}
    /\ staged' = FALSE /\ left' = FALSE
    /\ script' = IF script \in Running THEN "dead" ELSE script
    /\ UNCHANGED <<hostVars, i, job, mine, others, guarded>>

HostStep ==
    \/ ReadLive \/ Plan \/ Stage \/ Recheck \/ Guards
    \/ Answer \/ Readback \/ Clean \/ HostFails

ScriptStep ==
    \/ ScriptGuards \/ TestTemp \/ CopyBegins \/ CopyEnds \/ Compare
    \/ Sync \/ Move \/ Settle \/ ScriptStops

Next ==
    \/ \E f \in Features : Begin(f)
    \/ HostStep
    \/ ScriptStep
    \/ \E p \in Managed : OtherWrites(p)
    \/ PowerLoss

Spec == Init /\ [][Next]_vars

----------------------------------------------------------------------------
(* Properties. *)

\* startup.py: "Feature first, runner last: an interrupted first installation
\* never exposes a runner referring to an incomplete hook."  Wherever scripts
\* stopped and power was lost, no managed file is incomplete, and a runner this
\* command wrote has a complete hook to run.
RunnerHasHook ==
    /\ \A p \in Managed : files[p] # "partial"
    /\ files["runner"] = "runner" => \E f \in Features : files[f] = f

\* "Installed and read back hook files": hook and runner are there and stay
\* there through any power loss, until something else changes them.
InstalledIsDurable ==
    host = "installed" =>
        /\ \A d \in since : d[feature] = feature /\ d["runner"] = "runner"
        /\ soft \intersect {feature, "runner"} = {}

\* STARTUP-HOOKS.md: "There is no migration or automatic overwrite".  A file
\* under a managed name is replaced only if it was not there when the script's
\* guards ran (the race with another writer the document concedes) or by what a
\* power loss leaves.
NoOverwrite ==
    [][\A p \in Managed :
          files[p] \notin {"absent", files'[p]} =>
              p \in guarded \/ powerLosses' > powerLosses]_vars
=============================================================================
