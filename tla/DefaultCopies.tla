--------------------------- MODULE DefaultCopies ---------------------------
(***************************************************************************)
(* The part of the camera's start-up that wears its config partition out:  *)
(* the copies of default files in /home/bashrc.sh, in the stock form       *)
(* (hardware-recovery/bashrc-original.sh) and in the form build-image      *)
(* writes (bashrc-patched.sh).  The stock script copies every default at   *)
(* every boot, the patched one only those that are missing.                *)
(*                                                                         *)
(* JFFS2 appends, and "this firmware cannot reclaim it", so the log is a   *)
(* number of nodes that only grows.  cp makes two: one when it creates or  *)
(* truncates the file, one with the data.                                  *)
(***************************************************************************)
EXTENDS Naturals, Sequences, FiniteSets

CONSTANTS
    Names,          \* files of config other than serial.cfg
    Copies,         \* the defaults, in the order the script copies them
    CAPACITY        \* bound: nodes the config partition holds

Steps == DOMAIN Copies
Defaults == {Copies[i] : i \in Steps}

ASSUME CopiesAssumption ==
    /\ IsFiniteSet(Names)
    /\ Copies \in Seq(Names)
    /\ \A i, j \in Steps : Copies[i] = Copies[j] => i = j
    /\ CAPACITY \in Nat \ {0}

VARIABLES
    flash,          \* the camera's flash
    phase,          \* how far the camera is
    at,             \* the copy the script is at
    writing,        \* its cp has opened the file and not written it
    \* Observation only.
    interrupted     \* power was lost within a cp since the flash was programmed

cameraVars == <<flash, phase, at, writing, interrupted>>

Contents == {"absent", "cut", "default", "own"}

Config ==
    [files : [Names -> Contents],   \* what each file holds
     serial : BOOLEAN,              \* serial.cfg can be read
     used : 0 .. CAPACITY,          \* nodes in the log
     compact : BOOLEAN,             \* as the builder lays it out
     words : BOOLEAN]               \* the upgrade words hold the magic

\* unit: do the fields that differ between units hold this unit's values;
\* "unsupported" when a byte fails that is the same in every unit.
Flash(units) == [unit : units, window : {"stock", "patched"}, config : Config]

CameraTypeOK ==
    /\ flash \in Flash({"own", "other"})
    /\ phase \in {"off", "booting", "up", "hung", "updater"}
    /\ at \in 1 .. Len(Copies) + 1
    /\ writing \in BOOLEAN
    /\ interrupted \in BOOLEAN

\* A camera as it is shipped, or with the script patched before.
CameraInit ==
    /\ flash \in [unit : {"own"}, window : {"stock", "patched"},
                  config : [files : [Names -> {"absent"}], serial : {TRUE},
                            used : {1}, compact : {FALSE}, words : {FALSE}]]
    /\ phase = "off" /\ at = 1 /\ writing = FALSE /\ interrupted = FALSE

----------------------------------------------------------------------------
\* A node for file n is appended.
AppendNode(n, content) ==
    flash' = [flash EXCEPT !.config.files[n] = content,
                           !.config.used = @ + 1,
                           !.config.compact = FALSE]

Full == flash.config.used = CAPACITY

\* Power comes; SPL looks at the upgrade words first.
PowerOn ==
    /\ phase = "off"
    /\ phase' = IF flash.config.words THEN "updater" ELSE "booting"
    /\ at' = 1
    /\ UNCHANGED <<flash, writing, interrupted>>

\* Mutant of Skips: the test is gone.
SkipsNever(window, content) == FALSE

\* Mutant of Skips: the copies are gone.
SkipsAlways(window, content) == window = "patched"

\* Mutant of Skips: only a copy that would change nothing is left out.
SkipsIdentical(window, content) == window = "patched" /\ content = "default"

\* The patched script's [ -f ]: a file that exists is not copied, whatever it
\* holds.
Skips(window, content) == window = "patched" /\ content # "absent"

Skipped == Skips(flash.window, flash.config.files[Copies[at]])

Copying == phase = "booting" /\ at \in Steps

SkipCopy ==
    /\ Copying /\ ~writing /\ Skipped
    /\ at' = at + 1
    /\ UNCHANGED <<flash, phase, writing, interrupted>>

\* cp creates or truncates the file.
OpenCopy ==
    /\ Copying /\ ~writing /\ ~Skipped /\ ~Full
    /\ AppendNode(Copies[at], "cut")
    /\ writing' = TRUE
    /\ UNCHANGED <<phase, at, interrupted>>

\* cp writes the data.
WriteCopy ==
    /\ Copying /\ writing /\ ~Full
    /\ AppendNode(Copies[at], "default")
    /\ writing' = FALSE /\ at' = at + 1
    /\ UNCHANGED <<phase, interrupted>>

\* The log is full: cp fails and the script goes on, or the driver looks for
\* space for ever.
NoSpace ==
    /\ Copying /\ Full /\ (writing \/ ~Skipped)
    /\ \/ phase' = "hung" /\ UNCHANGED <<at, writing>>
       \/ at' = at + 1 /\ writing' = FALSE /\ UNCHANGED phase
    /\ UNCHANGED <<flash, interrupted>>

\* The drivers, the camera program and hid_update are started.
Started ==
    /\ phase = "booting" /\ at = Len(Copies) + 1
    /\ phase' = "up"
    /\ UNCHANGED <<flash, at, writing, interrupted>>

PowerLoss ==
    /\ phase # "off"
    /\ phase' = "off" /\ at' = 1
    /\ interrupted' = (interrupted \/ writing)
    /\ writing' = FALSE
    /\ UNCHANGED flash

\* The owner, or a program, puts a file of its own into config.
OwnerWrites ==
    /\ phase = "up" /\ ~Full
    /\ \E n \in Names : AppendNode(n, "own")
    /\ UNCHANGED <<phase, at, writing, interrupted>>

BootStep == SkipCopy \/ OpenCopy \/ WriteCopy \/ NoSpace \/ Started

CameraNext == PowerOn \/ BootStep \/ PowerLoss \/ OwnerWrites
=============================================================================
