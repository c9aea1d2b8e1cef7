------------------------------ MODULE Restore ------------------------------
(***************************************************************************)
(* cc2camera/cli.py: command_restore from the files to the verdict, with   *)
(* prepare_restore (restore_prepare.py), enter_bootloader, wait_for_hid    *)
(* and the temporary ADB start (hid_transport.py), and the camera it       *)
(* drives: the upgrade words in the flash, the SPL gate that reads them,   *)
(* Linux with its in-RAM SFC erase size and its live config, the updater.  *)
(* The camera may restart at any moment, a trigger the host gave up on may *)
(* still be carried out, and the user may run the command again.           *)
(*                                                                         *)
(* acquire_stable and the image transfer are used through what             *)
(* AcquireStable and BootUpdater establish of them: a stable read is the   *)
(* flash's content, an accepted transfer is the image about to be          *)
(* programmed, and a transfer the host saw fail may still be programmed.   *)
(***************************************************************************)
EXTENDS Naturals

CONSTANTS
    Units,             \* cameras whose backups and images the user has
    CAMERA,            \* the one that is connected
    STOCK,             \* units with the known stock kernel
    INVOCATIONS,       \* bound: runs of the command
    MAX_POWER_CYCLES   \* bound: restarts of the camera nobody asked for

ASSUME UnitAssumption ==
    /\ CAMERA \in Units
    /\ STOCK \subseteq Units
    /\ INVOCATIONS \in Nat
    /\ MAX_POWER_CYCLES \in Nat

\* Boot through HWCONFIG: which unit's, and which version of the audited
\* SquashFS window.  An erase or write that fails may leave it DAMAGED.
Windows == {"stock", "fixed"}
Stable == [unit : Units, window : Windows]
DAMAGED == [unit |-> CAMERA, window |-> "damaged"]
Images == [stable : Stable, magic : BOOLEAN]

VARIABLES
    pc,           \* where command_restore is, or how it ended
    invocation,   \* number of runs so far
    image, backup,  \* the files: an image, and the stable content preserved
    old,          \* the erase size prepare_restore read
    expired,      \* has --adb-timeout passed
    \* The camera.
    mode,         \* what it runs
    stable,       \* its flash: boot through HWCONFIG
    config,       \* its flash: is config as the image has it
    flag,         \* its flash: do the upgrade words hold the magic
    erase_size,   \* its RAM: what the SFC driver erases at once, in KiB
    adb,          \* its RAM: is adbd running
    pending,      \* a 0x4000 request it has not handled
    programmed,   \* the image the updater verified and programs
    powerCycles,
    \* Observation only.
    restarted,    \* the camera restarted since its erase size was last verified
    write_failed, \* the erase or write after the last accepted transfer failed
    confirmed,    \* images the user typed RESTORE-CC2 for
    original      \* the stable content before the first run

hostVars == <<pc, invocation, image, backup, old, expired, confirmed>>
flashVars == <<stable, config, flag>>
ramVars == <<erase_size, adb, pending>>
cameraVars == <<mode, flashVars, ramVars, programmed, powerCycles, restarted, write_failed>>
vars == <<hostVars, cameraVars, original>>

Ended == {"idle", "exact", "config_changed", "error", "error_sent"}
BeforeTrigger == {"load", "confirm", "probe", "read", "checks", "patch", "verify", "trigger"}
AfterTrigger == {"reply", "await_boot", "transfer", "await_normal", "adb_probe", "consent",
                 "start_adb", "await_adb", "readback"}

TypeOK ==
    /\ pc \in Ended \union BeforeTrigger \union AfterTrigger
    /\ invocation \in 0 .. INVOCATIONS
    /\ image \in Images
    /\ backup \in Stable
    /\ old \in {4, 16}
    /\ expired \in BOOLEAN
    /\ mode \in {"linux", "updater", "programming", "booting", "bricked"}
    /\ stable \in Stable \union {DAMAGED}
    /\ config \in {"image", "other"}
    /\ flag \in BOOLEAN
    /\ erase_size \in {4, 16}
    /\ adb \in BOOLEAN
    /\ pending \in BOOLEAN
    /\ programmed \in Images
    /\ powerCycles \in 0 .. MAX_POWER_CYCLES
    /\ restarted \in BOOLEAN
    /\ write_failed \in BOOLEAN
    /\ confirmed \subseteq Images
    /\ original \in Stable

\* A running camera with any history of its own.
Init ==
    /\ stable \in {s \in Stable : s.unit = CAMERA}
    /\ config = "other" /\ flag = FALSE
    /\ mode = "linux" /\ erase_size = 16 /\ adb \in BOOLEAN /\ pending = FALSE
    /\ pc = "idle" /\ invocation = 0
    /\ image = [stable |-> stable, magic |-> FALSE] /\ backup = stable
    /\ programmed = image
    /\ old = 16 /\ expired = FALSE
    /\ powerCycles = 0 /\ restarted = FALSE /\ write_failed = FALSE
    /\ confirmed = {}
    /\ original = stable

----------------------------------------------------------------------------
(* The host, before the trigger. *)

Goto(step) == pc' = step
Camera == UNCHANGED cameraVars
Run == UNCHANGED <<invocation, image, backup, confirmed>>

\* The command starts on some pair of files.
Begin(i, b) ==
    /\ pc \in Ended /\ invocation < INVOCATIONS
    /\ invocation' = invocation + 1
    /\ image' = i /\ backup' = b /\ expired' = FALSE
    /\ Goto("load")
    /\ Camera /\ UNCHANGED <<old, confirmed>>

\* Mutant of SameUnit: only the size is compared.
SameUnitUnchecked(x, y) == TRUE

\* validate_replacement_against_backup: equal outside the audited window and
\* config, which is to be the same unit.
SameUnit(x, y) == x.unit = y.unit

\* Mutant of Load: an image with upgrade words is let through.
LoadWithMagic ==
    /\ pc = "load"
    /\ Goto(IF SameUnit(image.stable, backup) /\ backup.unit \in STOCK
            THEN "confirm" ELSE "error")
    /\ Camera /\ Run /\ UNCHANGED <<old, expired>>

\* The local checks of the files; any of them refuses.
Load ==
    /\ pc = "load"
    /\ Goto(IF ~image.magic /\ SameUnit(image.stable, backup) /\ backup.unit \in STOCK
            THEN "confirm" ELSE "error")
    /\ Camera /\ Run /\ UNCHANGED <<old, expired>>

\* RESTORE-CC2 is typed, or not.
Confirm ==
    /\ pc = "confirm"
    /\ \/ Goto("probe") /\ confirmed' = confirmed \union {image}
       \/ Goto("error") /\ UNCHANGED confirmed
    /\ Camera /\ UNCHANGED <<invocation, image, backup, old, expired>>

Online == mode = "linux" /\ adb

\* Any host step of prepare_restore that needs the camera fails without it, or
\* for reasons of its own (ADB error, timeout, ambiguous devices).
PrepareFails ==
    /\ pc \in {"probe", "read", "checks", "patch", "verify"}
    /\ Goto("error")
    /\ Camera /\ Run /\ UNCHANGED <<old, expired>>

\* ensure_available and _single_camera.
Probe ==
    /\ pc = "probe" /\ Online
    /\ Goto("read")
    /\ Camera /\ Run /\ UNCHANGED <<old, expired>>

\* acquire_stable, and the live flash against the known kernel and the backup.
\* Damage is seen unless it is within the audited window.
ReadLive ==
    /\ pc = "read" /\ Online
    /\ \/ stable.unit \in STOCK /\ SameUnit(stable, backup) /\ Goto("checks")
       \/ ~(stable.unit \in STOCK /\ SameUnit(stable, backup)) /\ Goto("error")
       \/ stable = DAMAGED /\ Goto("error")
    /\ Camera /\ Run /\ UNCHANGED <<old, expired>>

\* MTD geometry, symbols, instructions, the pointer, the field's old value,
\* sync, and _single_camera again.
Checks ==
    /\ pc = "checks" /\ Online
    /\ old' = erase_size
    /\ Goto("patch")
    /\ Camera /\ Run /\ UNCHANGED expired

\* One shell invocation rechecks the pointer and the old value, writes 0x1000 and
\* reads it back; the answer may be lost although the write was done.  erase_size
\* stands for the field and the pointer to it, which are taken to change in a
\* restart only.
Patch ==
    /\ pc = "patch" /\ Online
    /\ IF erase_size = old
       THEN erase_size' = 4 /\ pc' \in {"verify", "error"}
       ELSE Goto("error") /\ UNCHANGED erase_size
    /\ Run
    /\ UNCHANGED <<mode, flashVars, adb, pending, programmed, powerCycles, restarted,
                   write_failed, old, expired>>

\* Mutant of Verify: the patch is trusted.
VerifyTrusts ==
    /\ pc = "verify" /\ Online
    /\ Goto("trigger") /\ restarted' = FALSE
    /\ Run
    /\ UNCHANGED <<mode, flashVars, ramVars, programmed, powerCycles, write_failed, old,
                   expired>>

\* Pointer and erase size are read once more.
Verify ==
    /\ pc = "verify" /\ Online
    /\ IF erase_size = 4
       THEN Goto("trigger") /\ restarted' = FALSE
       ELSE Goto("error") /\ UNCHANGED restarted
    /\ Run
    /\ UNCHANGED <<mode, flashVars, ramVars, programmed, powerCycles, write_failed, old,
                   expired>>

\* enter_bootloader opens the one normal HID and writes the 0x4000 report.
Trigger ==
    /\ pc = "trigger"
    /\ IF mode = "linux"
       THEN /\ pending' = TRUE /\ Goto("reply")
            /\ UNCHANGED <<mode, flashVars, erase_size, adb, programmed, powerCycles,
                           restarted, write_failed>>
       ELSE Goto("error") /\ Camera
    /\ Run /\ UNCHANGED <<old, expired>>

----------------------------------------------------------------------------
(* The host, after the trigger. *)

HostGoes(from, to) ==
    /\ pc = from /\ Goto(to)
    /\ Camera /\ Run /\ UNCHANGED <<old, expired>>

\* Status 0 comes back once the words are written; a failure status, a timeout
\* or a disconnect raises, and every later step may raise too.
TriggerReply == ~pending /\ HostGoes("reply", "await_boot")

\* Mutant of FailsAfter: waiting for ADB has no deadline.
FailsAfterNoDeadline ==
    \E step \in AfterTrigger \ {"await_adb"} : HostGoes(step, "error_sent")

FailsAfter == \E step \in AfterTrigger : HostGoes(step, "error_sent")

\* wait_for_hid sees the bootloader HID.
BootSeen == mode = "updater" /\ HostGoes("await_boot", "transfer")

\* restore_blob: an accepted transfer is about to be programmed.  One that
\* raises leaves the updater waiting or, when only the last reply was lost,
\* programming.
Transfer ==
    /\ pc = "transfer" /\ mode = "updater"
    /\ \/ /\ mode' = "programming" /\ programmed' = image /\ write_failed' = FALSE
          /\ pc' \in {"await_normal", "error_sent"}
       \/ Goto("error_sent") /\ UNCHANGED <<mode, programmed, write_failed>>
    /\ Run
    /\ UNCHANGED <<flashVars, ramVars, powerCycles, restarted, old, expired>>

\* wait_for_hid sees the normal HID; --adb-timeout starts to run.
NormalSeen == mode = "linux" /\ HostGoes("await_normal", "adb_probe")

\* The bounded first probe: online, not online (a question to the user), or
\* another error, which FailsAfter covers.
AdbProbe ==
    /\ ~expired
    /\ \/ Online /\ HostGoes("adb_probe", "readback")
       \/ ~Online /\ HostGoes("adb_probe", "consent")

\* The user says yes; the deadline is looked at again before anything is sent.
Consent == ~expired /\ HostGoes("consent", "start_adb")

\* start_adb_through_upload_command, and the deadline once more.  What the
\* normal HID is needed for and does is HidUpload's subject.
StartAdb ==
    /\ pc = "start_adb" /\ mode = "linux"
    /\ adb' = TRUE
    /\ Goto(IF expired THEN "error_sent" ELSE "await_adb")
    /\ Run
    /\ UNCHANGED <<mode, flashVars, erase_size, pending, programmed, powerCycles, restarted,
                   write_failed, old, expired>>

\* wait_for_device polls until adbd answers or the deadline passes.
AdbSeen == Online /\ HostGoes("await_adb", "readback")

\* Mutant of Readback: a camera that is back is a camera restored.
ReadbackTrusts ==
    /\ pc = "readback" /\ Online
    /\ Goto(IF config = "image" THEN "exact" ELSE "config_changed")
    /\ Camera /\ Run /\ UNCHANGED <<old, expired>>

\* acquire_stable and validate_post_restore_readback.
Readback ==
    /\ pc = "readback" /\ Online
    /\ Goto(IF stable # image.stable THEN "error_sent"
            ELSE IF config = "image" THEN "exact" ELSE "config_changed")
    /\ Camera /\ Run /\ UNCHANGED <<old, expired>>

DeadlinePasses ==
    /\ pc \in {"adb_probe", "consent", "start_adb", "await_adb"} /\ ~expired
    /\ expired' = TRUE
    /\ Camera /\ Run /\ UNCHANGED <<pc, old>>

----------------------------------------------------------------------------
(* The camera. *)

CameraOnly == UNCHANGED hostVars

\* set_upgrade_words_and_reboot.  With 4 KiB the sector is erased and the words
\* written, unless the ioctl fails; with 16 KiB the erase does nothing and the
\* words are combined with what was there.  The sector may have held live
\* config records.  Linux reboots in any case.
HandleTrigger ==
    /\ mode = "linux" /\ pending
    /\ flag' \in (IF erase_size = 4 THEN {TRUE, flag} ELSE BOOLEAN)
    /\ config' \in {config, "other"}
    /\ pending' = FALSE
    /\ mode' = "booting"
    /\ CameraOnly
    /\ UNCHANGED <<stable, erase_size, adb, programmed, powerCycles, restarted, write_failed>>

\* SPL reads the first upgrade word; a damaged flash may not boot.  Linux
\* starts with its own erase size, adbd only if config says so, and its scripts
\* may write config; hid_update clears words it finds set.
Boot ==
    /\ mode = "booting"
    /\ \/ mode' = IF flag THEN "updater" ELSE "linux"
       \/ stable = DAMAGED /\ mode' = "bricked"
    /\ config' \in (IF mode' = "linux" THEN {config, "other"} ELSE {config})
    /\ adb' \in (IF mode' = "linux" THEN BOOLEAN ELSE {FALSE})
    /\ erase_size' = 16 /\ pending' = FALSE /\ restarted' = TRUE
    /\ CameraOnly
    /\ UNCHANGED <<stable, flag, programmed, powerCycles, write_failed>>

\* An erase or write that stopped somewhere: the region it stopped in is the old
\* one, the new one or DAMAGED, and the upgrade words are as before, erased or
\* the image's.
HalfWritten ==
    /\ stable' \in {stable, programmed.stable, DAMAGED}
    /\ config' \in {"image", "other"}
    /\ flag' \in {flag, FALSE, programmed.magic}

\* The updater erases and writes the whole flash, upgrade words included, looks
\* at neither result, and restarts.
Program ==
    /\ mode = "programming"
    /\ \/ /\ stable' = programmed.stable /\ config' = "image" /\ flag' = programmed.magic
          /\ UNCHANGED write_failed
       \/ HalfWritten /\ write_failed' = TRUE
    /\ mode' = "booting"
    /\ CameraOnly
    /\ UNCHANGED <<ramVars, programmed, powerCycles, restarted>>

\* JFFS2 activity of the running camera.
ConfigWrite ==
    /\ mode = "linux" /\ config = "image"
    /\ config' = "other"
    /\ CameraOnly
    /\ UNCHANGED <<mode, stable, flag, ramVars, programmed, powerCycles, restarted,
                   write_failed>>

\* The camera loses power, perhaps in the middle of the updater's work.
PowerCycle ==
    /\ mode \in {"linux", "updater", "programming"} /\ powerCycles < MAX_POWER_CYCLES
    /\ powerCycles' = powerCycles + 1
    /\ IF mode = "programming" THEN HalfWritten ELSE UNCHANGED flashVars
    /\ mode' = "booting"
    /\ pending' = FALSE
    /\ CameraOnly
    /\ UNCHANGED <<erase_size, adb, programmed, restarted, write_failed>>

HostStep ==
    \/ Load \/ Confirm
    \/ Probe \/ ReadLive \/ Checks \/ Patch \/ Verify \/ PrepareFails
    \/ Trigger \/ TriggerReply \/ BootSeen \/ Transfer \/ NormalSeen
    \/ AdbProbe \/ Consent \/ StartAdb \/ AdbSeen \/ Readback \/ FailsAfter

CameraStep == HandleTrigger \/ Boot \/ Program

Step ==
    \/ \E i \in Images, b \in Stable : Begin(i, b)
    \/ HostStep
    \/ DeadlinePasses
    \/ CameraStep \/ ConfigWrite \/ PowerCycle

Next == Step /\ UNCHANGED original

\* Every wait of the host is bounded, the user answers, and the camera runs.
Spec == Init /\ [][Next]_vars
FairSpec ==
    /\ Spec
    /\ WF_vars(HostStep /\ UNCHANGED original)
    /\ WF_vars(CameraStep /\ UNCHANGED original)

----------------------------------------------------------------------------
(* Properties. *)

\* "Restore complete" is printed only when the boot-stable flash is the
\* image's, no upgrade words are left to divert the next boot, and no trigger of
\* an earlier run is still to be carried out.
CompleteMeansRestored ==
    pc \in {"exact", "config_changed"} => stable = image.stable /\ ~flag /\ ~pending

\* Docstring of validate_replacement_against_backup: "Require a restore image to
\* be the same unit".  Whatever files the user names and however runs fail,
\* overlap with a late camera and are repeated, the flash never holds another
\* unit's content, nor content nobody typed RESTORE-CC2 for.
OwnConfirmedContent ==
    /\ stable.unit = CAMERA
    /\ stable \in {original, DAMAGED} \union {i.stable : i \in confirmed}

\* SFC-RESTORE-PREPARATION.md: the erase size is reread "before permitting the
\* HID trigger".  A camera is asked to write its upgrade words with a wrong
\* erase size only if it restarted after that check, which takes a power loss
\* or the late trigger of an earlier run.
PreparedTrigger ==
    pending /\ erase_size # 4 => restarted /\ (powerCycles > 0 \/ invocation > 1)

\* validate_full_restore_image refuses an image that "would boot-loop": after an
\* accepted transfer the camera comes back to Linux, unless power was lost or
\* the updater's unchecked erase or write failed.
AcceptedComesBack ==
    pc = "await_normal" ~> mode = "linux" \/ powerCycles > 0 \/ write_failed

\* Every run ends with a verdict, whatever the camera does.
RunEnds == pc \notin Ended ~> pc \in Ended
=============================================================================
