------------------------------ MODULE Recovery ------------------------------
(***************************************************************************)
(* The recovery of one camera from end to end: flash reads with an         *)
(* external programmer or over ADB, build-image (build_recovery of         *)
(* cc2camera/image.py with the validation before it), the programming of   *)
(* what was built, and the boots of the camera before and after it         *)
(* (DefaultCopies).                                                        *)
(*                                                                         *)
(* The parts with modules of their own appear by what those establish:     *)
(* a backup is the flash's content at one moment (AcquireStable), what is  *)
(* read of config is what the camera holds (ConfigReplay), a bundle is     *)
(* published whole or not at all (StagedDirectory), and restore writes the *)
(* image or leaves the camera in its updater (Restore).                    *)
(***************************************************************************)
EXTENDS DefaultCopies, FiniteSetsExt

CONSTANTS
    FIRST_BLOCK,    \* nodes that fit the first eraseblock, 16 KiB
    MAX_DUMPS,      \* bound: files of flash reads
    MAX_CONFIRM,    \* bound: files named with --confirm-read
    MAX_BAD,        \* bound: reads with the programmer that went wrong
    NONE            \* no bundle; there is one bundle at most (bound)

MIN_IDENTICAL_READS == 3
Modes == {"serial-only", "preserve-files"}
Regions == {"system_bashrc_patch", "config"}

\* The first eraseblock and the defaults together do not fill the partition.
ASSUME RecoveryAssumption ==
    /\ FIRST_BLOCK \in Nat
    /\ FIRST_BLOCK + 2 * Len(Copies) <= CAPACITY
    /\ MAX_DUMPS \in Nat
    /\ MAX_CONFIRM \in Nat
    /\ MAX_BAD \in Nat

VARIABLES
    dumps,          \* the files build-image may be given, oldest first
    preserved,      \* the unit fields of the backups there are
    bundle,         \* what build-image published
    \* Observation only.
    bad,            \* reads that went wrong
    recovered,      \* the bundle's image was programmed and read back
    risky           \* how the evidence of images programmed so far fell short

hostVars == <<dumps, preserved, bundle, bad, recovered, risky>>
vars == <<cameraVars, hostVars>>

Images == Flash({"own", "other", "unsupported"})
Dump == [image : Images, reads : {1, MIN_IDENTICAL_READS}]
Bundle == [input : Images, image : Images, mode : Modes,
           regions : SUBSET Regions, evidence : {"fewer", "repeated", "enough"}]

TypeOK ==
    /\ CameraTypeOK
    /\ dumps \in Seq(Dump) /\ Len(dumps) <= MAX_DUMPS
    /\ preserved \subseteq {"own", "other"}
    /\ bundle = NONE \/ bundle \in Bundle
    /\ bad \in 0 .. MAX_BAD
    /\ recovered \in BOOLEAN
    /\ risky \subseteq {"fewer", "repeated"}

Init ==
    /\ CameraInit
    /\ dumps = <<>> /\ preserved = {} /\ bundle = NONE
    /\ bad = 0 /\ recovered = FALSE /\ risky = {}

----------------------------------------------------------------------------
(* Reads. *)

Keep(image, reads) == dumps' = Append(dumps, [image |-> image, reads |-> reads])

\* What a read that goes wrong may yield of flash f: a field that is only
\* checked for its form, a byte that has one right value, or nodes of config,
\* which no longer match their CRCs.
Misread(f) ==
    {[f EXCEPT !.unit = u] : u \in {"other", "unsupported"} \ {f.unit}}
    \union {[f EXCEPT !.config.files[n] = "absent"] :
               n \in {m \in Names : f.config.files[m] # "absent"}}

\* read_image_source of a raw file: one read with the programmer.
ReadChip ==
    /\ phase = "off" /\ bundle = NONE /\ Len(dumps) < MAX_DUMPS
    /\ \/ Keep(flash, 1) /\ UNCHANGED bad
       \/ /\ bad < MAX_BAD
          /\ bad' = bad + 1
          /\ \E image \in Misread(flash) : Keep(image, 1)
    /\ UNCHANGED <<cameraVars, preserved, bundle, recovered, risky>>

\* backup, whose ZIP read_image_source takes as three reads.
Backup ==
    /\ phase = "up" /\ bundle = NONE /\ Len(dumps) < MAX_DUMPS
    /\ Keep(flash, MIN_IDENTICAL_READS)
    /\ preserved' = preserved \union {flash.unit}
    /\ UNCHANGED <<cameraVars, bundle, bad, recovered, risky>>

----------------------------------------------------------------------------
(* build-image. *)

\* Mutant of Confirmed: the confirming reads are counted and not compared.
ConfirmedUncompared(i, confirm) == TRUE

\* verify_confirmation_reads, of the files named with --confirm-read in turn.
Confirmed(i, confirm) == \A k \in DOMAIN confirm : dumps[confirm[k]].image = dumps[i].image

\* The reads that agree, as build_recovery counts them: one for every name on the
\* command line, the same file or not.
TotalReads(i, confirm) ==
    Max({dumps[i].reads, 1 + Len(confirm)} \union
        {dumps[confirm[k]].reads : k \in DOMAIN confirm})

\* The files that were named, and the reads they are evidence of: observation only.
Named(i, confirm) == {i} \union {confirm[k] : k \in DOMAIN confirm}
EvidencedReads(files) == Max({Cardinality(files)} \union {dumps[c].reads : c \in files})
Evidence(i, confirm) ==
    IF TotalReads(i, confirm) < MIN_IDENTICAL_READS THEN "fewer"
    ELSE IF EvidencedReads(Named(i, confirm)) < MIN_IDENTICAL_READS THEN "repeated"
    ELSE "enough"

\* analyze_image: every byte that is the same in all units, one serial, and
\* only names it knows unless others are allowed.
Analyzed(image, anyName) ==
    /\ image.unit # "unsupported"
    /\ image.window \in {"stock", "patched"}
    /\ image.config.serial
    /\ anyName \/ \A n \in Names \ Defaults : image.config.files[n] = "absent"

Compact(files) ==
    [files |-> files, serial |-> TRUE,
     used |-> 1 + Cardinality({n \in Names : files[n] # "absent"}),
     compact |-> TRUE, words |-> FALSE]

\* build_minimal_config or build_preserved_config.
RebuiltConfig(config, mode) ==
    Compact(IF mode = "serial-only" THEN [n \in Names |-> "absent"] ELSE config.files)

\* "... do not fit the supported compact first-eraseblock layout".
Fits(config) == config.used <= FIRST_BLOCK

\* apply_system_patch and the config region, everything else as it was read.
RecoveryImage(image, mode) ==
    [image EXCEPT !.window = "patched", !.config = RebuiltConfig(image.config, mode)]

\* Mutant of ChangedRegions: the live files are compared, not the bytes.
ChangedRegionsByFiles(image, mode) ==
    {r \in Regions :
        \/ r = "system_bashrc_patch" /\ image.window = "stock"
        \/ r = "config" /\ image.config.files # RebuiltConfig(image.config, mode).files}

ChangedRegions(image, mode) ==
    {r \in Regions :
        \/ r = "system_bashrc_patch" /\ image.window = "stock"
        \/ r = "config" /\ image.config # RebuiltConfig(image.config, mode)}

\* build_recovery.  --allow-fewer-reads is given when it is needed: with enough
\* reads it changes nothing.
Build(i, confirm, mode, wipe, fewer) ==
    LET image == dumps[i].image
    IN  /\ bundle = NONE
        /\ wipe => mode = "serial-only"
        /\ Confirmed(i, confirm)
        /\ Analyzed(image, wipe \/ mode = "preserve-files")
        /\ fewer <=> TotalReads(i, confirm) < MIN_IDENTICAL_READS
        /\ Fits(RebuiltConfig(image.config, mode))
        /\ bundle' = [input |-> image, image |-> RecoveryImage(image, mode), mode |-> mode,
                      regions |-> ChangedRegions(image, mode),
                      evidence |-> Evidence(i, confirm)]
        /\ dumps' = <<>>
        /\ UNCHANGED <<cameraVars, preserved, bad, recovered, risky>>

\* The code does not look whether a confirming file is the primary one or is named
\* twice.
BuildSome ==
    \E i \in DOMAIN dumps, mode \in Modes, wipe, fewer \in BOOLEAN :
    \E confirm \in UNION {[1 .. n -> DOMAIN dumps] : n \in 0 .. MAX_CONFIRM} :
        Build(i, confirm, mode, wipe, fewer)

----------------------------------------------------------------------------
(* Programming. *)

\* Flash f after the regions have been written from the image.
Written(f, image, regions) ==
    [f EXCEPT !.window = IF "system_bashrc_patch" \in regions THEN image.window ELSE @,
              !.config = IF "config" \in regions THEN image.config ELSE @]

\* FLASHING.txt: the whole image or only the regions that changed, then a full
\* read-back that is compared with the image.
Program ==
    /\ phase = "off" /\ bundle # NONE
    /\ flash' \in {bundle.image, Written(flash, bundle.image, bundle.regions)}
    /\ recovered' = (flash' = bundle.image)
    /\ risky' = risky \union ({bundle.evidence} \ {"enough"})
    /\ interrupted' = FALSE
    /\ UNCHANGED <<phase, at, writing, dumps, preserved, bundle, bad>>

\* validate_replacement_against_backup: equal but for the patch window and
\* config.
SameUnit(x, y) == x = y

\* What restore asks of the image, of a preserved backup and of the camera.
\* validate_full_restore_image refuses upgrade words.
Restorable(backup) ==
    /\ ~bundle.image.config.words
    /\ SameUnit(bundle.image.unit, backup)
    /\ SameUnit(flash.unit, backup)

\* restore to its end: the image is programmed and the camera starts.
Restore ==
    /\ phase = "up" /\ bundle # NONE
    /\ \E backup \in preserved : Restorable(backup)
    /\ flash' = bundle.image
    /\ recovered' = TRUE
    /\ phase' = "booting" /\ at' = 1 /\ interrupted' = FALSE
    /\ UNCHANGED <<writing, dumps, preserved, bundle, bad, risky>>

\* restore up to its trigger, of the bundle's image or a backup's: the camera
\* has its upgrade words, may have lost records of config to the erase, and
\* waits in the updater.  The command starts from a camera in normal mode and
\* cannot be run again.
RestoreFails ==
    /\ phase = "up"
    /\ \E backup \in preserved : SameUnit(flash.unit, backup)
    /\ \E lost \in SUBSET Names, serial \in {flash.config.serial, FALSE} :
          flash' = [flash EXCEPT !.config.words = TRUE,
                                 !.config.serial = serial,
                                 !.config.compact = FALSE,
                                 !.config.files = [n \in Names |-> IF n \in lost THEN "absent"
                                                                   ELSE @[n]]]
    /\ recovered' = FALSE
    /\ phase' = "updater"
    /\ UNCHANGED <<at, writing, interrupted, dumps, preserved, bundle, bad, risky>>

CameraStep == CameraNext /\ UNCHANGED hostVars

Next ==
    \/ CameraStep
    \/ ReadChip \/ Backup
    \/ BuildSome
    \/ Program \/ Restore \/ RestoreFails

Spec == Init /\ [][Next]_vars

\* A camera that has started its script goes on with it.  Nobody has to plug
\* it in, read it or program it.
FairSpec == Spec /\ WF_vars(BootStep /\ UNCHANGED hostVars)

----------------------------------------------------------------------------
(* Properties. *)

\* "Preserves the entire input HWCONFIG partition": as long as fewer than three
\* reads went wrong and every image programmed rested on three different reads
\* that agreed, the camera keeps its own unit fields, which nothing but the
\* agreement of the reads protects.  restore keeps them with any image, because
\* it compares it with a backup.
IdentityKept ==
    bad < MIN_IDENTICAL_READS /\ risky = {} => flash.unit = "own"

\* TECHNICAL_DETAILS.md: the builder "requires three identical reads for every
\* unit unless reduced confidence is explicitly accepted".  So two bad reads at
\* most could not change a camera's unit fields without --allow-fewer-reads.
UnitConfirmed ==
    bad < MIN_IDENTICAL_READS /\ "fewer" \notin risky => flash.unit = "own"

\* MANIFEST.json's changed_regions: writing only these onto the flash that was
\* read gives the generated image, and with none "the input already equals the
\* generated recovery image".
RegionsSuffice ==
    bundle # NONE =>
        LET image == bundle.input
        IN  Written(image, bundle.image, bundle.regions) = bundle.image

\* preserve-files keeps the owner's files, and the patched script leaves them
\* alone at every later boot: what was the owner's when it was read still is.
OwnFilesSurvive ==
    recovered /\ bundle.mode = "preserve-files" =>
        \A n \in Names :
            bundle.input.config.files[n] = "own" => flash.config.files[n] = "own"

\* TECHNICAL_DETAILS.md: "The patched startup script creates each missing
\* default once on the first successful boot."  A recovered camera that is up
\* has every default whole, unless power was lost within a cp or a cut file was
\* preserved: the script takes any file that exists for whole.
DefaultsWhole ==
    /\ recovered /\ ~interrupted /\ phase = "up"
    /\ \A n \in Defaults : bundle.image.config.files[n] # "cut"
    => \A n \in Defaults : flash.config.files[n] \in {"default", "own"}

\* "Stopping the deterministic write leak": a recovered camera starts every
\* time, however often it boots, loses power or has its files written, and also
\* when it was hung or left in the updater before.
BootsComeUp ==
    recovered /\ phase # "off" ~> phase \in {"up", "off"} \/ ~recovered
=============================================================================
