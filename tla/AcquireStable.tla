--------------------------- MODULE AcquireStable ---------------------------
(***************************************************************************)
(* cc2camera/adb_backup.py: acquire_stable and what it calls, and the      *)
(* bootloader gate of cli.py's command_backup that follows it.  The host   *)
(* reads the whole flash, partition by partition, over `adb pull` while    *)
(* the camera keeps running and its JFFS2 config file system keeps         *)
(* writing.  It accepts an image only after REQUIRED_IDENTICAL_READS       *)
(* identical reads in a row, within MAX_READ_ATTEMPTS reads, and keeps it  *)
(* only when the bootloader in it is the known one or the user named it.   *)
(*                                                                         *)
(* The flash is a row of cells in MTD order; a cell is the unit a pull     *)
(* copies at once.  A cell's content is its version number: a live write   *)
(* produces a content the cell did not have before (JFFS2 nodes carry      *)
(* ever-growing version numbers), which is the one assumption made about   *)
(* the writer.  A read is NOT atomic: writes land between any two cells.   *)
(***************************************************************************)
EXTENDS Integers, FiniteSets

CONSTANTS
    CELLS,                      \* number of cells of the flash
    LIVE,                       \* cells the running camera may write (config)
    MAX_VERSION,                \* bound: writes per live cell
    REQUIRED_IDENTICAL_READS,   \* 3 in the code
    MAX_READ_ATTEMPTS           \* 5 in the code

Cells == 1 .. CELLS
Passes == 1 .. MAX_READ_ATTEMPTS

ASSUME FlashAssumption ==
    /\ CELLS \in Nat \ {0}
    /\ LIVE \subseteq 1 .. CELLS
    /\ MAX_VERSION \in Nat

\* A run of one read is no comparison at all: the policy needs at least two.
ASSUME PolicyAssumption ==
    /\ REQUIRED_IDENTICAL_READS \in Nat \ {0, 1}
    /\ MAX_READ_ATTEMPTS \in Nat
    /\ REQUIRED_IDENTICAL_READS <= MAX_READ_ATTEMPTS

Contents == [Cells -> Nat]
Blank == [c \in Cells |-> 0]

\* The boot partition comes first; its content stands for its SHA-256.
BOOT == 1
KNOWN_BOOTLOADER_SHA256 == 0

VARIABLES
    flash,        \* what the flash chip holds
    phase,        \* where acquire_stable is, or how it ended
    attempts,     \* number of the read in progress or last completed
    next,         \* the cell read_flash_once pulls next
    current,      \* the image being assembled (cells below next are filled)
    previous,     \* the immediately preceding image (None when attempts = 1)
    consecutive,  \* length of the run of identical images
    accepted,     \* the image returned to the caller
    acceptance,   \* command_backup's verdict on the bootloader, once reached
    \* Observation only; the code keeps neither.
    pulled,       \* the image each completed read assembled
    held          \* the contents the flash had at some moment of each read

readerVars == <<phase, attempts, next, current, previous, consecutive, accepted,
                acceptance, pulled>>
vars == <<flash, phase, attempts, next, current, previous, consecutive, accepted,
          acceptance, pulled, held>>

Reading == {"pull", "compare"}
Ended == {"accepted", "unavailable", "error", "unstable"}
Acceptances == {"known-reference", "explicit-hash"}

TypeOK ==
    /\ flash \in Contents
    /\ phase \in {"identify"} \union Reading \union Ended
    /\ attempts \in 0 .. MAX_READ_ATTEMPTS
    /\ next \in 1 .. CELLS + 1
    /\ current \in Contents
    /\ previous \in Contents
    /\ consecutive \in 0 .. REQUIRED_IDENTICAL_READS
    /\ accepted \in Contents
    /\ acceptance \in {"none", "refused"} \union Acceptances
    /\ pulled \in [Passes -> Contents]
    /\ held \in [Passes -> SUBSET Contents]

\* A flash with the known bootloader, or with one it does not know.
Init ==
    /\ flash \in {[Blank EXCEPT ![BOOT] = boot] :
                    boot \in {KNOWN_BOOTLOADER_SHA256, KNOWN_BOOTLOADER_SHA256 + 1}}
    /\ phase = "identify"
    /\ attempts = 0
    /\ next = 1
    /\ current = Blank
    /\ previous = Blank
    /\ consecutive = 0
    /\ accepted = Blank
    /\ acceptance = "none"
    /\ pulled = [k \in Passes |-> Blank]
    /\ held = [k \in Passes |-> {}]

----------------------------------------------------------------------------
(* The camera. *)

\* The running camera rewrites one live cell.  Every content the flash takes
\* while a read is under way is recorded as held during that read.
LiveWrite(c) ==
    /\ flash[c] < MAX_VERSION
    /\ flash' = [flash EXCEPT ![c] = @ + 1]
    /\ held' = IF phase \in Reading
               THEN [held EXCEPT ![attempts] = @ \union {flash'}]
               ELSE held
    /\ UNCHANGED readerVars

----------------------------------------------------------------------------
(* The host. *)

\* Mutant of BeginRead: cells counted from 0.
BeginReadAtZero(k) ==
    phase' = "pull" /\ attempts' = k /\ next' = 0 /\ held' = [held EXCEPT ![k] = {flash}]

\* Mutant of BeginRead: a later read goes on from where the earlier one stopped.
BeginReadKeepsPlace(k) ==
    phase' = "pull" /\ attempts' = k /\ next' = next /\ held' = [held EXCEPT ![k] = {flash}]

\* A read begins: read_flash_once starts again at the first partition.
BeginRead(k) ==
    /\ phase' = "pull"
    /\ attempts' = k
    /\ next' = 1
    /\ held' = [held EXCEPT ![k] = {flash}]

\* identity_and_partitions: get-state, `id`, /proc/mtd and its validation all
\* succeed, and the loop's first read begins.
Identify ==
    /\ phase = "identify"
    /\ BeginRead(1)
    /\ UNCHANGED <<flash, current, previous, consecutive, accepted, acceptance, pulled>>

\* ensure_available finds the camera absent or offline (AdbUnavailable), or any
\* other check of identity_and_partitions raises ProtocolError.
IdentifyFails ==
    /\ phase = "identify"
    /\ phase' \in {"unavailable", "error"}
    /\ UNCHANGED <<flash, attempts, next, current, previous, consecutive, accepted,
                   acceptance, pulled, held>>

\* `adb pull` copies the next cell as it is now; after the last one the
\* assembled image is complete.
PullCell ==
    /\ phase = "pull"
    /\ current' = [current EXCEPT ![next] = flash[next]]
    /\ next' = next + 1
    /\ IF next = CELLS
       THEN /\ phase' = "compare"
            /\ pulled' = [pulled EXCEPT ![attempts] = current']
       ELSE UNCHANGED <<phase, pulled>>
    /\ UNCHANGED <<flash, attempts, previous, consecutive, accepted, acceptance, held>>

\* Mutant of PullFails: a failed pull starts the read over, without a limit.
PullFailsRetries ==
    /\ phase = "pull"
    /\ next' = 1
    /\ UNCHANGED <<flash, phase, attempts, current, previous, consecutive, accepted,
                   acceptance, pulled, held>>

\* A pull that fails, times out, creates no file or returns a short file raises
\* out of acquire_stable: there is no retry of a partition.
PullFails ==
    /\ phase = "pull"
    /\ phase' = "error"
    /\ UNCHANGED <<flash, attempts, next, current, previous, consecutive, accepted,
                   acceptance, pulled, held>>

RunLengthUncompared == consecutive + 1
RunLengthFromZero ==
    IF attempts > 1 /\ current = previous THEN consecutive + 1 ELSE 0

\* The run of identical images after the read just completed.
RunLength ==
    IF attempts > 1 /\ current = previous THEN consecutive + 1 ELSE 1

\* The rest of the loop body: count the run, accept, stop, or read again.
Compare ==
    /\ phase = "compare"
    /\ consecutive' = RunLength
    /\ \/ /\ RunLength >= REQUIRED_IDENTICAL_READS
          /\ accepted' = current
          /\ phase' = "accepted"
          /\ UNCHANGED <<attempts, next, previous, held>>
       \/ /\ RunLength < REQUIRED_IDENTICAL_READS
          /\ previous' = current
          /\ UNCHANGED accepted
          /\ \/ /\ attempts < MAX_READ_ATTEMPTS
                /\ BeginRead(attempts + 1)
             \/ /\ attempts = MAX_READ_ATTEMPTS
                /\ phase' = "unstable"
                /\ UNCHANGED <<attempts, next, held>>
    /\ UNCHANGED <<flash, current, acceptance, pulled>>

\* Mutant of Acceptance: the hash on the command line is looked at before the
\* built-in reference.
AcceptanceTokenFirst(token) ==
    CASE token = "other" -> "refused"
      [] token = "observed" -> "explicit-hash"
      [] OTHER -> IF accepted[BOOT] = KNOWN_BOOTLOADER_SHA256
                  THEN "known-reference" ELSE "refused"

\* The gate's verdict, given how the hash of --accept-bootloader-sha256 compares
\* with the observed one: a hash that differs refuses even a known bootloader.
Acceptance(token) ==
    CASE token = "other" -> "refused"
      [] token # "other" /\ accepted[BOOT] = KNOWN_BOOTLOADER_SHA256 -> "known-reference"
      [] token = "observed" /\ accepted[BOOT] # KNOWN_BOOTLOADER_SHA256 -> "explicit-hash"
      [] OTHER -> "refused"

\* command_backup after acquire_stable returned: the backup is published with
\* its acceptance recorded, or nothing is.
AcceptBootloader ==
    /\ phase = "accepted"
    /\ acceptance = "none"
    /\ \E token \in {"none", "observed", "other"} : acceptance' = Acceptance(token)
    /\ UNCHANGED <<flash, phase, attempts, next, current, previous, consecutive, accepted,
                   pulled, held>>

HostStep == Identify \/ PullCell \/ Compare \/ AcceptBootloader

Next ==
    \/ \E c \in LIVE : LiveWrite(c)
    \/ HostStep
    \/ IdentifyFails
    \/ PullFails

\* The host program runs until it ends; neither the camera's writes nor the
\* failures are ever owed.
Spec == Init /\ [][Next]_vars
FairSpec == Spec /\ WF_vars(HostStep)

----------------------------------------------------------------------------
(* The evidence recorded with the image, and its reader. *)

\* bootloader_reference: the hash of an image's boot partition, and whether it is
\* the built-in one.
bootloader_reference(image) ==
    [sha256 |-> image[BOOT], known_reference |-> image[BOOT] = KNOWN_BOOTLOADER_SHA256]

\* The manifest acquire_stable returns.  An image's hash is the image, and the
\* partition map is the one identity_and_partitions validated.
Manifest ==
    [format |-> "cc2flash-backup-v2",
     read_passes |-> attempts,
     required_identical_reads |-> REQUIRED_IDENTICAL_READS,
     consecutive_identical_reads |-> consecutive,
     maximum_read_attempts |-> MAX_READ_ATTEMPTS,
     bootloader |-> bootloader_reference(accepted),
     sha256 |-> accepted,
     partitions |-> Cells]

\* load_preserved_backup's validation of a manifest and the bootloader acceptance
\* recorded in it against the image of the same archive.
LoadsAsEvidence(m, recorded, image) ==
    /\ m.format = "cc2flash-backup-v2"
    /\ m.sha256 = image
    /\ m.bootloader = bootloader_reference(image)
    /\ recorded = IF bootloader_reference(image).known_reference
                  THEN "known-reference" ELSE "explicit-hash"
    /\ m.required_identical_reads = REQUIRED_IDENTICAL_READS
    /\ m.consecutive_identical_reads = REQUIRED_IDENTICAL_READS
    /\ m.read_passes \in REQUIRED_IDENTICAL_READS .. MAX_READ_ATTEMPTS
    /\ m.maximum_read_attempts = MAX_READ_ATTEMPTS
    /\ m.partitions = Cells

----------------------------------------------------------------------------
(* Properties. *)

\* acquire_stable's docstring: accepting demonstrates that live JFFS2 activity
\* settled.  Each of the last REQUIRED_IDENTICAL_READS reads assembled the accepted
\* image, and all through every one strictly between the first and the last of
\* them (with the code's three, the middle one) the flash held exactly that image,
\* although no single read is atomic.
AcceptedSettled ==
    phase = "accepted" =>
        /\ attempts >= REQUIRED_IDENTICAL_READS
        /\ \A k \in attempts - REQUIRED_IDENTICAL_READS + 1 .. attempts :
               pulled[k] = accepted
        /\ \A k \in attempts - REQUIRED_IDENTICAL_READS + 2 .. attempts - 1 :
               held[k] = {accepted}

\* The accepted image is a consistent snapshot: the flash held it at one moment
\* of the last read, not a mixture of two states the pulls straddled.
AcceptedSnapshot ==
    phase = "accepted" => accepted \in held[attempts]

\* Refusal is not spurious: when five reads gave no run of identical ones
\* (ProtocolError), the flash really changed within every window of
\* REQUIRED_IDENTICAL_READS reads.
RefusedMeansChanged ==
    phase = "unstable" =>
        \A k \in 1 .. MAX_READ_ATTEMPTS - REQUIRED_IDENTICAL_READS + 1 :
            \A image \in held[k] :
                \E j \in k .. k + REQUIRED_IDENTICAL_READS - 1 : held[j] # {image}

\* Whatever command_backup publishes, load_preserved_backup takes back as evidence:
\* the counters of the loop, the bootloader's fingerprint and the acceptance the
\* gate chose are the ones the reader demands of that image, so no published
\* backup turns out unusable at restore time.
EvidenceLoads ==
    acceptance \in Acceptances => LoadsAsEvidence(Manifest, acceptance, accepted)

\* The command ends whatever the camera writes and whenever it writes it, and an
\* accepted acquisition gets its verdict on the bootloader.
Terminates == <>(phase \in Ended /\ (phase = "accepted" => acceptance # "none"))

----------------------------------------------------------------------------
(* The inductive invariant behind the safety properties. *)

\* Cell by cell, x is no newer than y.
NotNewer(x, y) == \A c \in Cells : x[c] <= y[c]

\* Read k assembled its whole image.
IsComplete(k) ==
    k < attempts \/ (k = attempts /\ phase \in {"compare", "accepted", "unstable"})

\* No run of the required length within the first n reads.
NoRunWithin(n) ==
    \A k \in Passes :
        k + REQUIRED_IDENTICAL_READS - 1 <= n =>
            \E j \in k .. k + REQUIRED_IDENTICAL_READS - 2 : pulled[j] # pulled[j + 1]

ControlInv ==
    /\ phase = "identify" => attempts = 0 /\ consecutive = 0
    /\ phase \in Reading \union {"accepted", "unstable"} => attempts \in Passes
    /\ phase = "pull" => next \in Cells
    /\ phase = "compare" => current = pulled[attempts]
    /\ phase = "unstable" => attempts = MAX_READ_ATTEMPTS
    /\ acceptance # "none" => phase = "accepted"
    /\ acceptance \in Acceptances =>
        acceptance = IF accepted[BOOT] = KNOWN_BOOTLOADER_SHA256
                     THEN "known-reference" ELSE "explicit-hash"

\* consecutive counts exactly the longest run of equal images that ends with
\* previous, and no earlier run was long enough.
RunInv ==
    /\ phase \in Reading =>
        /\ consecutive < REQUIRED_IDENTICAL_READS
        /\ attempts > 1 =>
            /\ consecutive \in 1 .. attempts - 1
            /\ previous = pulled[attempts - 1]
            /\ \A k \in attempts - consecutive .. attempts - 1 : pulled[k] = previous
            /\ consecutive < attempts - 1 => pulled[attempts - consecutive - 1] # previous
        /\ NoRunWithin(attempts - 1)
    /\ phase = "accepted" =>
        /\ consecutive = REQUIRED_IDENTICAL_READS
        /\ consecutive <= attempts
        /\ \A k \in attempts - consecutive + 1 .. attempts : pulled[k] = accepted
    /\ phase = "unstable" => NoRunWithin(MAX_READ_ATTEMPTS)

\* Time only adds: what an earlier read saw or the flash held is no newer than
\* what a later read saw or the flash holds.
OrderInv ==
    /\ \A k \in Passes : k <= attempts => \A h \in held[k] :
        /\ NotNewer(h, flash)
        /\ \A j \in Passes :
            /\ j < k /\ IsComplete(j) => NotNewer(pulled[j], h)
            /\ k < j /\ IsComplete(j) => NotNewer(h, pulled[j])
        /\ phase = "pull" /\ k < attempts =>
            \A c \in Cells : c < next => h[c] <= current[c]
    /\ \A j \in Passes : IsComplete(j) => NotNewer(pulled[j], flash)
    /\ phase = "pull" => \A c \in Cells : c < next => current[c] <= flash[c]

\* Every cell of an image is one the flash held during its read, and some
\* content held during the read is no newer than the image.
HeldInv ==
    /\ phase \in Reading => flash \in held[attempts]
    /\ \A k \in Passes : IsComplete(k) =>
        \A c \in Cells : \E h \in held[k] : pulled[k][c] = h[c]
    /\ phase = "pull" =>
        /\ \A c \in Cells : c < next => \E h \in held[attempts] : current[c] = h[c]
        /\ \E s \in held[attempts] : \A c \in Cells : c < next => s[c] <= current[c]
    /\ phase \in {"compare", "accepted"} =>
        \E s \in held[attempts] : NotNewer(s, pulled[attempts])
    /\ \A k \in Passes : k <= attempts => held[k] # {}

IInv == TypeOK /\ ControlInv /\ RunInv /\ OrderInv /\ HeldInv
=============================================================================
