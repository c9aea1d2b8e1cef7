# A TLA+ model of cc2_camera_fix

`cc2camera` backs up, patches and restores the 8 MiB flash of a small USB
camera. It talks to the camera over ADB, over the HID protocol of the stock
daemon `hid_update`, and over the HID protocol of the main U-Boot updater. The
repository also holds reconstructions of those two and of the SPL boot gate,
which tell what the camera does with each report. A mistake can leave a camera
that does not boot, so most of the code is about order: read three times,
publish once, check again, write last.

This directory models that order. Each module's header names the code it
models, and each definition carries the name of the function it translates
where TLA+ allows it. Each module's `TypeOK` says what its variables hold; where
no proof rests on it, it is documentation and not a listed property.

## Inventory

Paths are relative to `src/`; `recon/` stands for
`usb-maintenance/source-reconstruction/`.

**Stable flash acquisition** (`cc2camera/adb_backup.py`). State: the previous
image, the run of identical reads, the number of attempts. Operations: read the
identity and the partition map, pull six partitions, compare, accept after
three identical reads in a row, refuse after five. Hard: the camera writes its
config while it is read, so one read may mix several moments. Correct when an
accepted image is what the flash held at one moment, when a refusal means that
it changed, and when what `backup` publishes of it (the manifest, with the
verdict of `command_backup` on the bootloader) is evidence `restore` accepts
later.
Used by backup, restore (twice), build-image's evidence and install-startup.

**Backup publication** (`save_backup`, `command_backup`). State: a temporary
ZIP and the destination name. Hard: two commands or another program create the
same name, the process dies between any two steps, the host loses power.
Correct when the destination is only ever a complete verified archive, and is
never overwritten.

**Recovery bundle publication** (`cc2camera/bundle.py`, `build_recovery` in
`cc2camera/image.py`). The same promise for a directory, by exclusive rename.

**Boot updater transfer** (`restore_blob` in `cc2camera/hid_transport.py`,
`recon/uboot_updater_reconstructed.c`). State: the host's place in the blob; the
updater's counters, buffer and terminal state; the flash. They interact by
reports in two queues. Hard: lost, damaged and late reports, a second call that
meets the first one's replies, a failing `malloc`, success reported before the
erase. Correct when only a verified image is ever programmed and the host
believes no reply that is not the answer to its own blob.

**Normal-mode upload** (`upload_normal_file`,
`start_adb_through_upload_command`, the 0x3xxx branches of
`recon/hid_update_reconstructed.c`). State: the daemon's upload state, buffer
and destination, which outlive the calls. Hard: an abandoned call, commands
answered "success" without effect, a failing commit, one that is cut short and answered
with success, a freed buffer.

**Restore** (`command_restore` in `cc2camera/cli.py`,
`cc2camera/restore_prepare.py`, `recon/spl_upgrade_gate_reconstructed.c`).
State: the files the user names, the camera's flash, its upgrade words, its
RAM erase size, its mode, the pending trigger. Hard: the camera restarts
between the check and the trigger, an earlier trigger is carried out late, the
transfer's outcome is unknown, one deadline covers several waits. Correct when
only a confirmed image of the same unit is written, when "Restore complete" is
true, and when every run ends.

**Startup hook installation** (`cc2camera/startup.py`,
`cc2camera/startup_payloads.py`). State: config files on JFFS2, the temporary
names, the stage on tmpfs, the script that runs on the camera. Hard: the script
stops anywhere, power is lost between write and sync, another program writes
config, a run follows a half-done run.

**Boot hooks** (`cc2camera/startup_payloads.py`). State: the mount of config,
the runner's place in the staged hooks, the erase-fix hook's place and its exit
trap, the erase size in RAM. `rcS` runs `system.sh` before it starts the camera
program; the erase-fix hook unmounts config and mounts it again. Hard: a command
fails or the hook is killed in between, a script in config stays open, the
camera program returns while the user runs `system.sh` by hand. Correct when
the camera program never starts without config, when a failed hook leaves
config mounted, and when every boot ends.

**Configuration reader and builder** (`cc2camera/image.py`). No state of its
own: it reads the config partition of a dump and builds a new one. The state is
the camera's JFFS2 log, which may be dumped between any two steps of the driver
and may have lost nodes. Correct when the files and the serial it reads are the
camera's, when it refuses only what is ambiguous, and when its own output
passes its own reader.

**Default copies** (`hardware-recovery/bashrc-original.sh`, `bashrc-patched.sh`,
which holds the block `build-image` writes into the system partition). State:
the files of config, the nodes its log has left, how far the boot is. Hard: the
log only grows, so a stock camera ends in a boot that hangs or runs on cut
files; power is lost within a copy; the owner has files under the same names.
Correct when a recovered camera starts every time, has its defaults, and keeps
what is the owner's.

**Recovery** (`build_recovery` and the validation before it in
`cc2camera/image.py`, what `FLASHING.txt` tells the user to do, `restore`).
State: files of flash reads, the bundle, the camera. Hard: a programmer's read
goes wrong in bytes no check protects, one file is named twice, a bundle is built from one read and
programmed later onto a flash that has changed, in part or whole, and a camera
left in the updater cannot be reached by the command that left it there.
Correct when the camera stays the unit it was and starts again.

**Not modelled.** The firmware hashes, the HWCONFIG record and the SquashFS
bytes of `image.py` (`Recovery` has their verdicts only), the encoders of `commands.py` and `protocol.py`,
`stream_identify.py`, the analysis tools and the packaging are functions over
bytes or read-only output. The queries, SET reports and config commands of
`hid_update` have no caller in the command line. The updater's CDC transport
has no host here. Of the start-up scripts, what follows the copies starts
programs that are not in the repository.

How the parts meet: `backup` is acquisition, then publication. `build-image`
is the reader and the builder, then bundle publication; `Recovery` puts it
between the reads and the programming of one camera. `install-startup` is
acquisition, then the installation, whose files are what the next boot runs:
`BootHooks` starts from any set of complete hooks, which is what
`InstallStartup`'s `RunnerHasHook` leaves. `restore` is preparation (which
contains acquisition), the trigger, the boot gate, the transfer, and after it
the upload path for a temporary ADB start and acquisition again. `Restore`
uses acquisition, upload and transfer by what `AcquireStable`, `HidUpload` and
`BootUpdater` establish of them: a stable read is the flash's content, an
accepted transfer is the image about to be programmed, a transfer that failed
for the host may still be programmed.

## Modules

| Module | Code | State | Actions |
|---|---|---|---|
| `AcquireStable` | `acquire_stable`, `AdbClient.read_flash_once`, the bootloader gate of `command_backup`, the manifest's checks in `load_preserved_backup` | `previous`, `consecutive`, `attempts`, the read in progress, the flash, the acceptance | `Identify`, `BeginRead`, `PullCell`, `Compare`, their failures, `AcceptBootloader`, and `LiveWrite` of the camera |
| `AcquireStableProofs` | the same | | theorems, see below |
| `Publish` | what `save_backup` and `staged_directory` promise | a destination, who published it, what each publisher reports | create if absent, report, crash |
| `SaveBackup` | `save_backup` | each command's step and temporary file, the directory entries, what is synced | one per step, `StepFails`, `Undo`, `Clean`, `Crash`, `PowerLoss`, `OtherCreates` |
| `StagedDirectory` | `staged_directory`, `rename_new` | each command's step and staging directory | `CheckAbsent`, `Stage`, `WriteFile`, `RenameNew`, failures, crash |
| `PublishProofs` | both | | theorems |
| `BootUpdater` | `restore_blob`, `updater_receive` | host position, two queues, the updater's `U`, the flash | the host's replies, `Receive`, `Erase`, `Write`, `Fault`, `Stall`, `PowerCycle` |
| `BootUpdaterProofs` | the same | | theorems |
| `HidUpload` | `exchange_normal` and its two callers, `dispatch_upload` | host position, two queues, `g_upload_state`, `daemon_context`, files | `Begin`, `TakeReply`, `GiveUp`, `Dispatch`, `Fault`, `Reboot` |
| `HidUploadProofs` | the same | | theorems |
| `Restore` | `command_restore`, `prepare_restore`, `set_upgrade_words_and_reboot`, `spl_choose_boot_path` | host position, the two files, flash, words, erase size, mode | one per step of the command, the camera's `HandleTrigger`, `Boot`, `Program`, `PowerCycle`, `ConfigWrite` |
| `RestoreProofs` | the same | | theorems |
| `InstallStartup` | `install_startup` and its script | host position, the script's next command, config as seen and as synced | one per host step and per script command, `ScriptStops`, `HostFails`, `OtherWrites`, `PowerLoss` |
| `BootHooks` | the runner and the hooks of `startup_payloads.py` | how far the boot is, the mount, the runner's and the hook's place, the trap, the erase size | one per command or group of checks, `Exit`, `Killed`, the boot around them, `RunByHand`, `CameraReturns`, `PowerCut` |
| `StartupProofs` | both, the hooks installed and at work | | theorems |
| `DefaultCopies` | the copies of `bashrc.sh`, stock and patched | the flash by its parts, the phase and the copy of the boot | `PowerOn`, `SkipCopy`, `OpenCopy`, `WriteCopy`, `NoSpace`, `Started`; `OwnerWrites`, `PowerLoss` |
| `Recovery` | `read_image_source` to `build_recovery`, `FLASHING.txt`, `restore` as a whole; extends `DefaultCopies` | the dumps, the units that have backups, the bundle | `ReadChip`, `Backup`, `Build`, `Program`, `Restore`, `RestoreFails` |
| `RecoveryProofs` | the same | | theorems |
| `ConfigReplay` | `parse_jffs2` to `build_preserved_config` | the log's valid nodes, the camera's directory and files | the driver's writes, `MarkObsolete`, `CopyNode`, `EraseNode`; `Damage`; `RebuildSerialOnly`, `RebuildPreserveFiles` |
| `ConfigReplayProofs` | the same | | theorems |

Each `MC` module gives the constants their values for TLC. `SaveBackup` and
`StagedDirectory` are shown to implement `Publish` by
`INSTANCE Publish WITH ...`: the destination's content maps to complete, foreign
or absent, the steps before the link or rename map to nothing.

An operator that begins with the comment "Mutant of" is a plausible bug in the
definition that follows it. It is used by no specification; substituting it
makes the property it is listed with in `PROJECT.json` fail.

## Runs

| Run | Question | Bounds |
|---|---|---|
| `acquire_stable` | is an accepted image one moment's flash, a refusal a changed flash, a published backup one that `restore` takes | 3 partitions of which the live ones change, 2 later versions of each, the code's 3 of 5 reads |
| `save_backup` | is the destination ever half a backup, overwritten, or reported wrongly | 3 commands, 1 power loss, another creator |
| `staged_directory` | the same for a bundle | 3 commands, 2 files, another creator |
| `boot_updater` | is anything but a verified blob programmed; is any reply believed that is not this blob's | 2 calls, 2 packets, 6 faults (one past the retry limit), 1 power cycle, a buffer of any length when its metadata is damaged |
| `hid_upload` | does an upload that found the uploader idle land; has a `start-adb` that returned started adbd; does the daemon survive; do calls end | 3 calls, up to 3 chunks, 1 fault, 1 restart |
| `hid_upload_stale` | finding: does every upload that returned land | 2 calls, 1 chunk |
| `restore` | is only confirmed content of this unit ever written, is the verdict true, does a run end | 3 units, 2 runs, 2 power cycles |
| `install_startup` | is a hook or runner ever incomplete, lost after success, or overwritten | 2 features, 3 runs, 1 power loss, 1 file of another program beside those config starts with |
| `boot_hooks` | does a boot end, with config in place and, if nothing failed, the fix in effect | every list of up to 4 hooks in the order of their names, 1 power loss, 1 run by hand, 2 restarts of the camera program |
| `recovery` | does the camera keep its identity and the owner's files, are the changed regions enough, does it start and have its defaults | 1 default and 1 other file, 4 nodes of which 2 fit the first eraseblock, 3 reads of which 2 go wrong, up to 2 names to confirm them, 1 bundle |
| `recovery_repeated` | finding: do two bad reads at most keep the unit fields | as `recovery`, 2 reads of which 1 goes wrong |
| `config_replay` | is what the tool reads what the camera holds, what is refused or recovered, does the output pass its own reader | 2 names, files of 2 blocks, 3 writes, 1 node copied, erased or lost or 1 rebuild |

Why the bounds are enough. Three partitions let one change before, one during
and one after another is pulled; two versions let a cell change twice during
the five reads, which is what it takes to alternate. Three publishers give a
loser who checks early and one who checks late. As many calls as packets are
the most for which `AcceptedVerified` is promised; five faults reach the fifth
error in a row, which is terminal, and the sixth comes after it. Two calls or runs give one that is abandoned and one that meets what
it left; the third of the uploads meets the error state and leaves it, the
third installation meets two runs that ended in different places. Three units give the camera's own, another stock one and one with
another kernel. A boot has one look
before the unmount, so one run by hand with two restarts puts the camera program
on either side of it; four hooks put the owner's before, between and after the
managed two. Three writes create a file,
fill it with another serial and link it over serial.cfg, or truncate serial.cfg,
write it anew and delete it; a copy, an erasure, a loss or a rebuild comes
at any point of that. Three reads
of which two go wrong give two wrong reads that differ or agree against a good
one, and two wrong ones are the most for which the promise is made: three agree
with each other; two more names are the least that make three. Four nodes let the stock script fill the log within its second
boot, before or after the file is opened and with or without a file of the
owner's; one bundle is enough, since building one does not touch the camera and
a second is built by another run. Two names are the least that can share an inode or a
version, and the capacity is one that both files can exceed. Symmetry is used
for the publishers only, which differ in nothing and appear in no liveness
property.

**The two findings.** `hid_upload_stale`: a call that ends after 0x3110 leaves
the uploader receiving; the next call's 0x3000 and 0x3110 are answered success
without effect, its data and commit go to the abandoned destination, and
`upload_normal_file` returns normally. `PROTOCOL.md` 5.3 says that host software
must track the state; `exchange_normal` cannot. `FreshUploadLands` is what does
hold. `recovery_repeated`: `build_recovery` counts the names given with
`--confirm-read` (`image.py:1643`) and does not look whether a file was named
before, or is the primary. One bad read named three times agrees with itself and
counts as three, and the image built from it carries its unit fields, without
`--allow-fewer-reads`; `TECHNICAL_DETAILS.md:223` says that the builder "requires
three identical reads for every unit unless reduced confidence is explicitly
accepted". `IdentityKept` is what does hold: it asks that every image programmed
rested on three different reads. The model tells reads apart by their files, so
a copy of a file under another name is a repeated name too; the code has nothing
to tell it by.

`PROTOCOL.md` 5.3 also says that a sequence or capacity error "frees the buffer,
clears its pointer, and enters state `5`"; `dispatch_upload`
(`hid_update_reconstructed.c:461`) only changes the state. `HidUpload` does what
the code does.

Met while modelling, and allowed by the properties as stated: the reason a
trigger can meet the wrong erase size (`PreparedTrigger`) is not only a power
loss between the check and the trigger. A trigger an earlier run gave up on may
restart the camera in the same window.

`PROTOCOL.md` 5.2 says that "the boot script copies the SquashFS default only if
the runtime file is absent". The stock script copies `uvc.config` at every boot
(`bashrc-original.sh:173`); the sentence is true of the patched one, for which
`OwnFilesSurvive` checks it.

Two things `Recovery` shows that no property forbids. The patched script copies
a default only when `[ -f ]` fails, so one that a power loss cut short on the
first boot stays cut (`DefaultsWhole` excludes it), and `preserve-files` carries
one over from a camera whose log was full. And `restore` compares the image
with the backup everywhere but in the patch window and config
(`adb_backup.py:615`), so a bundle damaged after it was built would pass there;
`Restore` of `Recovery` assumes the bundle is as it was published.

`AcceptedVerified` has a bound, which the attempt to prove it for any number of
calls brought out. The replies of the updater carry no mark of the call they
answer and `restore_blob` does not discard old ones. A call that times out right
after its metadata leaves an acknowledgement of packet 0 unread; the next call
takes it for its own and is then one reply ahead of the updater, and each call
that times out in turn can leave the next one a further packet ahead. After as
many such calls as the image has packets, one can read the acknowledgements and
the terminal status of the call before it, and return normally for a blob the
updater never verified. With three calls of two packets TLC finds this. An
image has more than two thousand packets, so the property is stated for no more
calls than packets, for which it is proved. What holds for any number of calls
is `AcceptedPassedMd5`: some image matched its MD5.

An installation may find hook and runner present while the script of an earlier
run has moved the runner and not synced it. It reports them present, not
installed, and `InstalledIsDurable` says nothing of it.

## Assumptions

Fairness is only what the code's loops justify. The host's: every read and wait
in it has a timeout, so a waiting host step is eventually taken
(`WF` on the host's steps as one action, so that which one is taken is left
open). The user answers the prompts. The camera's: its report loops keep
running. Faults, power cycles and other programs are never fair.

Further assumptions, each stated at its definition:

- A partition's content does not return to an earlier value (`AcquireStable`
  numbers versions). JFFS2 appends with rising version numbers.
- The host's file system keeps a synced file's content over a power loss, while
  directory entries and unsynced content may or may not survive: the code syncs
  the file and not the directory, and claims no more.
- A damaged reply of the updater fails its checksum. Damage to data that keeps
  the additive checksum is modelled, since the MD5 is there to catch it.
- Metadata is taken without its checksum. Damaged, it may divide by zero (the
  updater traps), count the packets wrongly or make the buffer too short; a
  damaged `packets_per_ack`, which only withholds acknowledgements, is not
  modelled. A packet stored past the end of a short buffer either traps or lies
  in RAM where the MD5 and the flash write find it; if something else lies there
  by then the stream is damaged, which is among the faults. That such a packet
  hits the updater's own state or code is left out: nothing is claimed then.
- `upload_commit` does not sync what it wrote. Nothing is claimed of an upload
  across a restart of the camera.
- One camera is connected throughout a restore, which `_single_camera` checks
  before the trigger.
- The installation script may outlive a failed connection into the next run's
  reads, plan and stage, but has ended when that run starts its own script,
  which is after three reads of the whole flash.
- The kernel's erase size and the pointer to it change in a restart only, apart
  from what `restore` writes there.
- Config as `build-image` lays it out, with every default copied once, leaves
  the partition's log unfilled: the defaults are a few KiB of 128. A wrong read
  of the programmer shows in a byte with one right value, in nodes that no
  longer match their CRCs, or in a unit field; whoever programs a bundle
  compares the whole flash with it when told to, which `recovered` records.
- A full log either fails the copy or hangs the boot, whichever the driver does.
- The runner at boot is not killed itself and its commands return. An owner's
  hook may do anything to the mount and returns.
- The driver gives a node that replaces another a higher version, its garbage
  collector copies a node as it is, and only nodes that are replaced, or whose
  file has no name, are marked obsolete. A node whose CRCs fail is not read, so
  a damaged or torn node is one that is not there. A camera that has lost nodes
  writes no more until it is rebuilt. A serial text is one fragment and is not
  compressed: it is too short to shrink.
- JFFS2 keeps a prefix of the writes since the last sync; contents not synced
  may be cut short.

## What is proved

`AcquireStableProofs`, for every number of partitions, versions, required reads
and attempts that satisfies the module's assumption:

- `TypeCorrect`: `Spec => []TypeOK`.
- `Settled`: `AcceptedSettled`, each of the last reads, as many as are required,
  assembled the accepted image, and the flash held only it all through every
  read strictly between the first and the last of them: with the code's three,
  through the middle one.
- `Snapshot`: an accepted image is what the whole flash held at one moment,
  though every read is pulled partition by partition from a flash that
  changes.
- `Refused`: a refusal means that the flash changed.
- `Evidence`: what `backup` publishes, the manifest and the acceptance of the
  bootloader, satisfies the loader's checks of it against the image. An image's
  hash is the image here; the checks of the ZIP's structure are not modelled.
- `Inductive`: `Spec => []IInv`, on which the others rest.

None of these is inductive. `IInv` adds four parts. `ControlInv` ties the phase
to the counters. `RunInv` says that `consecutive` is exactly the length of the
run of equal images that ends with `previous`, and that no earlier run was long
enough. `OrderInv` orders what was seen in time: what an earlier read pulled is
no newer, cell by cell, than anything the flash held during a later read.
`HeldInv` says that each cell of a read was held during that read. `Snapshot`
follows from two equal reads: at some moment of the last one the flash held
nothing newer than what that read pulled, and nothing it held then is older than
the read before, so it was that image. `Settled` needs the third: any
content of the flash during the middle one is no older than the first and no
newer than the last, and these are equal. `IInv` is also an
invariant of the run, so TLC checks each part on the small instance.

Each preservation lemma (`TypeStep`, `ControlStep`, `RunStep`, `OrderStep`,
`HeldStep`) has one step per action of `Next`. The temporal step is the last
step of `Inductive`.

The other modules' theorems have the same form. Each proof module defines `IInv`
as a conjunction of named parts, proves `Init => IInv` and
`IInv /\ [Next]_vars => IInv'` with one lemma or step per action, combines them
in `Inductive`, and derives each property from `IInv`. TLC has checked each of
these invariants on the instance of the module's run before it was proved. The
properties hold for every value of the constants that satisfies the module's
`ASSUME`, so the bounds on calls, faults, runs and power losses are gone.

`PublishProofs`, for any number of commands on one path and of power losses:
`NeverHalf` (`NeverHalfBackup`), and `Refinement`, that `save_backup` implements
`Publish`. `ProgressInv` says how much of an archive is written, synced and
verified at each step; `PathInv`, that the destination's name is given to a
synced archive only, which is why a power loss takes nothing from it; `EndInv`,
that a refusal follows another's file. The refinement's safety part has one step
per action: the link or rename maps to `Publish`'s creation, an end to its
report, everything else to a stutter. `BundleInductive` and `BundleRefinement`
are the same for `staged_directory`, an instance in this module, for any number
of files in the bundle.

`RestoreProofs`, for any units, files, runs and restarts: `OwnContent`,
`Restored` and `Prepared`. `FilesInv` says what each step of the command has
established, `ContentInv` that an image in the updater's hands is confirmed and
of this unit although the run that sent it may be over and another be loading
its files, `FlagInv` and `DoneInv` that nothing is pending behind a finished
restore, `TriggerInv` how a camera can have restarted before the trigger.

`StartupProofs`, of the installation, for any set of features, runs, power losses
and other writers: `HookFirst` (`RunnerHasHook`), `Durable`
(`InstalledIsDurable`) and the action property `Overwrites` (`NoOverwrite`). The
properties speak of config as it is; `ConfigInv` speaks of every state that a
power loss can still bring back, which is what makes them inductive. `ScriptInv`
says which of the files are in place, which were free when the guards looked and
which are synced.

The same module, of the boot, for any number of boots, runs by hand and
restarts: `LeavesConfig` (`FixLeavesConfig`), `CleanBoot` (`CleanBootFixes`), and
the action properties `NoRelease` (`NoCameraWithoutConfig`) and `NoUnmountUnder`
(`NotUnderCamera`). They rest on `BootInductive`. `BootTrap` is the core: the exit
trap is set exactly while the hook has config unmounted. `BootRelease` carries
the runner's check over the rest of its loop, and `BootFix` that, while the erase
size is wrong, the erase-fix hook is one of those still to run, with the owner's
before it or not (lemma `StillToRun`). `BootHooks`
names its specification `BootSpec`, so that one module can extend both.

`RecoveryProofs`, for any files, any list of defaults that the partition has
room for, and any number of reads: `Identity`, `ChangedSuffice`
(`RegionsSuffice`), `OwnFiles` and `WholeDefaults`. `ReadsInv` counts: the files
with wrong unit fields are no more than the bad reads, so three that agree are
not all wrong (lemma `EnoughReads`, that files are evidence of three reads only
if there are three of them or one is a backup's). `RecoveredInv` says that the log has two
nodes left for each default after some point of the list, and that all up to
that point exist. Opening a file moves that point to it. Hence a recovered
camera never meets a full log during its copies, which `OwnFiles` and
`WholeDefaults` need.

`BootUpdaterProofs`, for any number of packets, calls, faults and power cycles:
`TypeCorrect`, `EraseVerified` (`EraseOnlyVerified`), `PassedMd5`
(`AcceptedPassedMd5`), `CleanTransfer` (`CleanTransferAgrees`) and `AcceptedSent`
(`AcceptedVerified`). The stream is
filled exactly up to the packet due, and no data frame has a number beyond the
last packet, so nothing is stored further from the buffer's start than an image
is long; when damaged metadata sized the buffer that may be outside it. A success report in the
queue means that a blob was verified. `CleanInv` lists the situations of a first
call on an undisturbed link, in which there is one report on its way at most and
host and updater are at the same packet.

`AcceptedSent` needs to know how far ahead of the updater a call can get on the
replies to calls before it. `Line` puts the replies unread, the packet the
updater would ask for again and the frames on their way to it in one line, each
by the packet that it asks for or will be answered with; taking a reply or a
frame, losing one and asking again only thin the line out or extend it. `LineInv`
says that behind a request for packet 0 nothing reaches beyond the number of the
current call, and nothing that this call did not cause beyond the number of the
call before: a call is carried to packet n by replies of others only if an
earlier one was carried to n - 1. `OrderInv` says that each blob's packets are
sent once and in order. So while there are no more calls than packets, a call
whose last packet was asked for and whose success is reported had its own blob
in the buffer when the MD5 matched.

`HidUploadProofs`, for contents of any length and any number of calls, faults and
restarts: `TypeCorrect`, `Survives` (`SurvivesUntilRefusal`), `FreshLands`
(`FreshUploadLands`) and `AdbStarted` (`ReturnedMeansAdbd`). `BufferInv` says in
which states the daemon has its buffer: in the middle of an upload always, and
in the error state unless a commit was refused. `FreshInv` follows a call that found the uploader idle
and nothing in transit, up to a restart: one report is on the way, the uploader is where the
request expects it (`Before`) until it answers success, and one step on
(`After`) from then. A `start-adb` has no such certainty: it may run on replies
to earlier ones. `AdbInv` says that, until adbd is started, what the camera has
not seen yet ends with the last requests of the call in their order, and that
the uploader is as far as those it has seen, so the commit it is still to see
starts adbd.

`ConfigReplayProofs`, for logs of any length and any capacity: `FilesPreserved`
(`PreservesExactly`), `SerialExtracted` (`SerialIsHeld`), `SerialNotLost`
(`SerialRecoverable`), `CameraServed` (`NotRefused`) and `ChecksPass`
(`InternalChecksHold`). They follow from `LogTellsFiles`, what the log says of
the camera's files. In every log, nodes of one name or file and one version are
copies of each other (`CopiesInv`), and a fragment ends where it says that its
file ended (`ShapeInv`). While no node has been lost, the latest entry of a name
has the directory's inode (`EntryInv`), the latest fragment of a file has its
length, and each block of a file is that of a fragment behind which no other
covers it or cuts it off (`FileInv`). That a node is marked obsolete or erased
keeps this: it is superseded, and the nodes that `FileInv` speaks of are others
(`SupersededUseless`, `UselessDropped`). The reader is tied to it by the lemmas
`LiveIs` and `FileIs`. That there is a greatest version comes from the
well-foundedness of the naturals (`Least`, `MaxOf`), so that none of it is an
induction over the log. `BuiltRead` is what the reader makes of a
partition the builder laid out.

What the proofs changed in the models. `TypeOK` of `BootUpdater` claimed that
the error counters stop at the limit, which held only within the run's faults:
the code goes on counting in a byte, and so does the model now.
`AcceptedVerified` got its bound (see Runs). `ReturnedMeansAdbd` of `HidUpload`
was false for histories longer than the run's: after a file call that timed out,
a `start-adb` could take the success replies of that call for its own while a
`malloc` failed under its 0x3000. `Found` now tells what `start-adb` alone can
have left behind (`LeftByAdb`) from the rest, and the property is about a call
that finds no more than that. `InstallStartup` and `BootHooks` build their lists
by concatenation, since the provers know nothing of `SelectSeq`, and
`WithSerial` of `ConfigReplay` is written without `@@` for the same reason. The assumptions say that files are finitely many, that the
partition holds a node, and that no feature is named like a status of the model.

Only model-checked are the liveness properties (`Terminates`,
`AcceptedIsProgrammed`, `CallsEnd`, `AcceptedComesBack`, `RunEnds`, `BootEnds`,
`BootsComeUp`): the prover does not reason about fairness. Every invariant and
every action property of the passing runs is proved.

## Plan

In order of importance; what is done comes first.

1. `AcquireStable` and its proofs; `SaveBackup`, `StagedDirectory` under
   `Publish`; `BootUpdater`; `HidUpload`; `Restore`; `InstallStartup`;
   `BootHooks`; `ConfigReplay`; `DefaultCopies` and `Recovery`. Done.
2. Proofs of the safety properties of `SaveBackup`, `StagedDirectory`,
   `BootHooks`, `Restore`, `InstallStartup`, `Recovery`, `BootUpdater`,
   `HidUpload` and `ConfigReplay`. Done.
3. `WaitForAdb`: the polling loop of `wait_for_device` with its clock, against
   the states `ensure_available` tells apart.
4. `DeviceConfig`: `config_get` and `config_set` of `hid_update`, which rewrite
   `uvc.config` in place and pad it with zeros, against a map from keys to
   values. The command line has no caller.
