------------------------------ MODULE BootHooks ------------------------------
(***************************************************************************)
(* cc2camera/startup_payloads.py: what the installed runner and its hooks  *)
(* do at every boot.  rcS mounts config, runs system.sh and then starts    *)
(* the camera program.  system.sh copies itself and the enabled hooks to   *)
(* tmpfs, execs the copy, runs the hooks in order and looks at the mount   *)
(* after each: with config unusable it holds the boot for ever.  The       *)
(* erase-fix hook unmounts config, corrects the driver's erase size in RAM *)
(* and mounts config again.  Any command may fail, a hook may be killed,   *)
(* the camera may lose power, and the user may run system.sh by hand.      *)
(*                                                                         *)
(* The runner itself is not killed, and every command returns.             *)
(***************************************************************************)
EXTENDS Naturals, Sequences

CONSTANTS
    HOOKS,      \* bound: files in /etc/conf.d/enabled
    BOOTS,      \* bound: boots of the camera
    BY_HAND,    \* bound: times the user runs system.sh
    RESTARTS    \* bound: times monitor.sh finds the camera program dead

ASSUME BootAssumption == HOOKS \in Nat /\ BOOTS \in Nat /\ BY_HAND \in Nat /\ RESTARTS \in Nat

\* The two managed hooks, 10-erase-fix.sh and 90-adb.sh, and the owner's own.
Hooks == {"erase-fix", "own", "adb"}

\* Lists of hooks in the order of their file names, in which the shell expands
\* enabled/*: the owner's may come before, between and after the managed ones.
Listings ==
    {s \in UNION {[1 .. n -> Hooks] : n \in 0 .. HOOKS} :
        \A j, k \in DOMAIN s :
            j < k => "own" \in {s[j], s[k]} \/ (s[j] = "erase-fix" /\ s[k] = "adb")}
Has(s, h) == \E k \in DOMAIN s : s[k] = h

VARIABLES
    enabled,       \* the hooks in /etc/conf.d/enabled, in the order of their names
    irregular,     \* is one of them a symlink or a directory
    rc,            \* how far the boot is: "mount", "hooks" or "camera"
    config,        \* /etc/conf.d: "rw", "none", or mounted "bad"ly
    runner,        \* what system.sh is doing
    in_config,     \* does it have the script in config open
    todo,          \* the staged hooks left, the one running first
    hook,          \* where the erase-fix hook is
    trap,          \* will its exit mount config
    erase_size,    \* RAM: the driver's erase size in KiB
    ucamera, adbd,
    boots, byHand, restarts,
    \* Observation only.
    manual,        \* this run of system.sh is by hand
    ran,           \* a hook ran on this boot
    trouble,       \* since the runner started: "failed", "killed", "mount", "own"
    returned       \* the camera program started since the hook last looked

installedVars == <<enabled, irregular>>
countVars == <<boots, byHand, restarts>>
runVars == <<rc, manual, ran>>
bootVars == <<installedVars, countVars, runVars, config, runner, in_config, todo, hook, trap,
          erase_size, ucamera, adbd, trouble, returned>>

BootInit ==
    /\ enabled \in Listings /\ irregular \in BOOLEAN
    /\ rc = "mount" /\ config = "none"
    /\ runner = "none" /\ in_config = FALSE /\ todo = <<>> /\ hook = "none" /\ trap = FALSE
    /\ erase_size = 16 /\ ucamera = FALSE /\ adbd = FALSE
    /\ boots = 0 /\ byHand = 0 /\ restarts = 0
    /\ manual = FALSE /\ ran = FALSE /\ trouble = {} /\ returned = FALSE

----------------------------------------------------------------------------
(* The boot. *)

Others == UNCHANGED <<installedVars, countVars, ucamera>>

\* rcS mounts config and finds system.sh there, or starts the camera without.
MountConfig ==
    /\ rc = "mount" /\ rc' = "hooks"
    /\ config' \in {"rw", "bad", "none"}
    /\ runner' = (IF config' = "none" THEN "none" ELSE "stage")
    /\ in_config' = (runner' = "stage")
    /\ trouble' = (IF config' = "rw" THEN {} ELSE {"mount"})
    /\ Others /\ UNCHANGED <<manual, ran, todo, hook, trap, erase_size, adbd, returned>>

\* system.sh has returned, or was not there: rcS starts the camera program.
StartCamera ==
    /\ rc = "hooks" /\ runner \in {"none", "refused", "done"}
    /\ rc' = "camera" /\ ucamera' = TRUE /\ returned' = TRUE
    /\ UNCHANGED <<installedVars, countVars, manual, ran, config, runner, in_config, todo, hook,
                   trap, erase_size, adbd, trouble>>

----------------------------------------------------------------------------
(* The runner. *)

\* Mutant of StageHooks: the worker is the script in config, not a copy that replaces it.
StageWithoutExec ==
    /\ runner = "stage"
    /\ runner' = "hooks" /\ todo' = enabled
    /\ Others /\ UNCHANGED <<runVars, in_config, config, hook, trap, erase_size, adbd, trouble,
                             returned>>

\* Everything to tmpfs, then exec: the script in config is closed.  A failure or
\* an entry that is no regular file refuses before any hook.
StageHooks ==
    /\ runner = "stage"
    /\ in_config' = FALSE
    /\ \/ /\ ~irregular
          /\ runner' = "hooks" /\ todo' = enabled
          /\ UNCHANGED trouble
       \/ /\ runner' = "refused"
          /\ trouble' = trouble \union {"failed"}
          /\ UNCHANGED todo
    /\ Others /\ UNCHANGED <<runVars, config, hook, trap, erase_size, adbd, returned>>

\* The next hook starts.  The adb hook is done at once; an owner's own hook may
\* do anything to the mount.
StartHook ==
    /\ runner = "hooks" /\ hook = "none" /\ todo # <<>>
    /\ ran' = TRUE
    /\ CASE Head(todo) = "erase-fix" -> hook' = "gates" /\ UNCHANGED <<runner, config, adbd, trouble>>
         [] Head(todo) = "own" -> /\ config' \in {"rw", "bad", "none"} /\ runner' = "check"
                                  /\ trouble' = IF config' = config THEN trouble
                                                ELSE trouble \union {"own"}
                                  /\ UNCHANGED <<hook, adbd>>
         [] Head(todo) = "adb" -> adbd' = TRUE /\ runner' = "check" /\ UNCHANGED <<hook, config, trouble>>
    /\ Others /\ UNCHANGED <<rc, manual, in_config, todo, trap, erase_size, returned>>

\* Mutant of AfterHook: the hook that just ran stays the next one.
AfterHookRepeats ==
    /\ runner = "check"
    /\ runner' = IF config = "rw" THEN "hooks" ELSE "hold"
    /\ adbd' = (adbd \/ config # "rw")
    /\ Others /\ UNCHANGED <<runVars, in_config, todo, config, hook, trap, erase_size, trouble,
                             returned>>

\* Mutant of AfterHook: an unusable config is logged and the loop goes on.
AfterHookGoesOn ==
    /\ runner = "check" /\ todo' = Tail(todo) /\ runner' = "hooks"
    /\ Others /\ UNCHANGED <<runVars, in_config, config, hook, trap, erase_size, adbd, trouble,
                             returned>>

\* Never release rcS with config missing or unusable: start adbd and hold.
AfterHook ==
    /\ runner = "check" /\ todo' = Tail(todo)
    /\ runner' = IF config = "rw" THEN "hooks" ELSE "hold"
    /\ adbd' = (adbd \/ config # "rw")
    /\ Others /\ UNCHANGED <<runVars, in_config, config, hook, trap, erase_size, trouble, returned>>

AllRan ==
    /\ runner = "hooks" /\ todo = <<>>
    /\ runner' = "done"
    /\ Others /\ UNCHANGED <<runVars, in_config, todo, config, hook, trap, erase_size, adbd,
                             trouble, returned>>

----------------------------------------------------------------------------
(* The erase-fix hook. *)

HookStep == Others /\ UNCHANGED <<runVars, in_config, todo, adbd>>
HookGoes(from, to) == hook = from /\ hook' = to /\ HookStep /\ UNCHANGED runner

\* fail: a command did not give what it must, and the hook exits.
HookFails ==
    /\ hook \notin {"none", "exit", "umount", "mount"}
    /\ HookGoes(hook, "exit")
    /\ trouble' = trouble \union {"failed"}
    /\ UNCHANGED <<config, trap, erase_size, returned>>

\* No camera program, config mounted once and usable, the known kernel and
\* partition map, and a plausible pointer with an erase size of 4 or 16 KiB.
Gates ==
    /\ HookGoes("gates", IF ~ucamera /\ config = "rw" THEN "look" ELSE "exit")
    /\ returned' = FALSE
    /\ UNCHANGED <<config, trap, erase_size, trouble>>

\* Mutant of Look: the camera program is not looked for again.
LookSkipped ==
    /\ HookGoes("look", "umount")
    /\ returned' = FALSE
    /\ UNCHANGED <<config, trap, erase_size, trouble>>

\* "Repeat after potentially lengthy hashing"; sync.
Look ==
    /\ HookGoes("look", IF ucamera THEN "exit" ELSE "umount")
    /\ returned' = FALSE
    /\ UNCHANGED <<config, trap, erase_size, trouble>>

\* Mutant of Unmount: the exit is not armed yet.
UnmountUnarmed ==
    /\ \/ HookGoes("umount", "recheck") /\ ~in_config /\ config' = "none" /\ UNCHANGED trouble
       \/ HookGoes("umount", "exit") /\ trouble' = trouble \union {"failed"} /\ UNCHANGED config
    /\ UNCHANGED <<trap, erase_size, returned>>

\* umount fails while anything in config is open.  From its success on, every
\* exit mounts config.
Unmount ==
    /\ \/ /\ HookGoes("umount", "recheck") /\ ~in_config
          /\ config' = "none" /\ trap' = TRUE
          /\ UNCHANGED trouble
       \/ /\ HookGoes("umount", "exit")
          /\ trouble' = trouble \union (IF in_config THEN {} ELSE {"failed"})
          /\ UNCHANGED <<config, trap>>
    /\ UNCHANGED <<erase_size, returned>>

\* Not mounted any more, pointer, field and instructions as before.
RecheckUnmounted ==
    /\ HookGoes("recheck", IF config = "none" THEN "write" ELSE "exit")
    /\ UNCHANGED <<config, trap, erase_size, trouble, returned>>

\* A field that already holds 4 KiB keeps it.
WriteEraseSize ==
    /\ HookGoes("write", "readback")
    /\ erase_size' = 4
    /\ UNCHANGED <<config, trap, trouble, returned>>

ReadBack ==
    /\ HookGoes("readback", IF erase_size = 4 THEN "mount" ELSE "exit")
    /\ UNCHANGED <<config, trap, erase_size, trouble, returned>>

\* mount works, works badly, or fails.
Mount(result) ==
    /\ config' = result
    /\ trouble' = IF result = "rw" THEN trouble ELSE trouble \union {"mount"}

\* trap - 0 only once config is mounted.
Remount ==
    /\ \/ HookGoes("mount", "confirm") /\ Mount("rw") /\ trap' = FALSE
       \/ HookGoes("mount", "confirm") /\ Mount("bad") /\ trap' = FALSE
       \/ HookGoes("mount", "exit") /\ Mount("none") /\ UNCHANGED trap
    /\ UNCHANGED <<erase_size, returned>>

\* The mount, the geometry and serial.cfg once more.
ConfirmFix ==
    /\ HookGoes("confirm", "exit")
    /\ UNCHANGED <<config, trap, erase_size, trouble, returned>>

\* The shell exits, through the trap if it is armed.
Exit ==
    /\ hook = "exit" /\ hook' = "none" /\ trap' = FALSE
    /\ runner' = "check"
    /\ IF trap THEN \E result \in {"rw", "bad", "none"} : Mount(result) ELSE UNCHANGED <<config, trouble>>
    /\ HookStep /\ UNCHANGED <<erase_size, returned>>

\* Killed: no trap runs.
Killed ==
    /\ hook # "none" /\ hook' = "none" /\ trap' = FALSE
    /\ runner' = "check"
    /\ trouble' = trouble \union {"killed"}
    /\ HookStep /\ UNCHANGED <<config, erase_size, returned>>

----------------------------------------------------------------------------
(* What else happens. *)

\* The user runs system.sh on the running camera.
RunByHand ==
    /\ rc = "camera" /\ config = "rw" /\ runner \in {"none", "refused", "done"}
    /\ byHand < BY_HAND /\ byHand' = byHand + 1
    /\ runner' = "stage" /\ in_config' = TRUE /\ todo' = <<>>
    /\ manual' = TRUE /\ trouble' = {}
    /\ UNCHANGED <<installedVars, boots, restarts, rc, ran, config, hook, trap, erase_size, ucamera,
                   adbd, returned>>

\* The camera program dies, and monitor.sh starts it again.
CameraDies ==
    /\ rc = "camera" /\ ucamera /\ restarts < RESTARTS
    /\ ucamera' = FALSE /\ restarts' = restarts + 1
    /\ UNCHANGED <<installedVars, boots, byHand, runVars, config, runner, in_config, todo, hook, trap,
                   erase_size, adbd, trouble, returned>>

CameraReturns ==
    /\ rc = "camera" /\ ~ucamera
    /\ ucamera' = TRUE /\ returned' = TRUE
    /\ UNCHANGED <<installedVars, countVars, runVars, config, runner, in_config, todo, hook, trap,
                   erase_size, adbd, trouble>>

PowerCut ==
    /\ boots < BOOTS /\ boots' = boots + 1
    /\ rc' = "mount" /\ config' = "none"
    /\ runner' = "none" /\ in_config' = FALSE /\ todo' = <<>> /\ hook' = "none" /\ trap' = FALSE
    /\ erase_size' = 16 /\ ucamera' = FALSE /\ adbd' = FALSE
    /\ manual' = FALSE /\ ran' = FALSE /\ trouble' = {} /\ returned' = FALSE
    /\ UNCHANGED <<installedVars, byHand, restarts>>

RunnerStep == StageHooks \/ StartHook \/ AfterHook \/ AllRan
EraseFix ==
    \/ HookFails \/ Gates \/ Look \/ Unmount \/ RecheckUnmounted \/ WriteEraseSize \/ ReadBack
    \/ Remount \/ ConfirmFix \/ Exit \/ Killed
BootStep == MountConfig \/ StartCamera \/ RunnerStep \/ EraseFix

BootNext == BootStep \/ RunByHand \/ CameraDies \/ CameraReturns \/ PowerCut

\* Commands of the boot return.
BootSpec == BootInit /\ [][BootNext]_bootVars
FairSpec == BootSpec /\ WF_bootVars(BootStep)

----------------------------------------------------------------------------
(* Properties. *)

\* "Never release rcS into camera startup with config missing or unusable": once
\* a hook ran on this boot, rcS starts the camera program only with config
\* mounted read/write, whichever hook failed or was killed wherever.
NoCameraWithoutConfig ==
    [][rc # "camera" /\ rc' = "camera" /\ ran => config = "rw"]_bootVars

\* "Arrange ordinary recovery mount on every failure after unmount": whatever the
\* hook finds wrong and wherever it gives up, config is mounted again when it
\* is over, unless mounting itself failed or the hook was killed.
FixLeavesConfig ==
    runner = "check" /\ todo[1] = "erase-fix" /\ trouble \subseteq {"failed"} =>
        config = "rw"

\* The reason for the copy and the exec: on a boot where nothing failed, the
\* camera program starts with the erase size corrected, whichever hooks of the
\* owner's run before or after the fix.
CleanBootFixes ==
    rc = "camera" /\ ~manual /\ ran /\ trouble = {} /\ Has(enabled, "erase-fix") =>
        erase_size = 4

\* "Never remount under ucamera": config is unmounted beside a running camera
\* program only if that came back after the hook's last look, which needs a run
\* by hand.
NotUnderCamera ==
    [][hook = "umount" /\ config' # config /\ ucamera => returned /\ manual]_bootVars

\* A boot ends: in the camera program or in the recovery hold with adbd.
BootEnds == rc = "mount" ~> rc = "camera" \/ (runner = "hold" /\ adbd) \/ boots > 0
=============================================================================
