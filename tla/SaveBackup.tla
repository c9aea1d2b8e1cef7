----------------------------- MODULE SaveBackup -----------------------------
(***************************************************************************)
(* cc2camera/adb_backup.py: save_backup.  Several invocations may be given *)
(* the same output path.  Each builds a ZIP (flash.bin, manifest.json,     *)
(* central directory) in a temporary file of its own next to the           *)
(* destination, fsyncs it, reopens and verifies it, and hard-links it to   *)
(* the destination, which fails if the name exists.  A file is the inode   *)
(* its invocation wrote; the destination and the temporary name are two    *)
(* names for it.                                                           *)
(***************************************************************************)
EXTENDS Naturals

CONSTANTS
    Publishers,        \* invocations of save_backup on one path
    NONE, FOREIGN,     \* the destination: free, or somebody else's file
    MAX_POWER_LOSSES   \* bound: power losses of the host

ASSUME NameAssumption ==
    /\ NONE \notin Publishers
    /\ FOREIGN \notin Publishers
    /\ NONE # FOREIGN
    /\ MAX_POWER_LOSSES \in Nat

\* The parts of the archive in the order they are written; COMPLETE of them
\* make an archive.
COMPLETE == 3

VARIABLES
    pc,           \* the next step of each invocation
    temp,         \* does the temporary name exist
    written,      \* parts of the archive in the file
    durable,      \* parts that reached the disk
    intact,       \* are the written bytes the ones that were meant
    path,         \* the inode the destination names: NONE, FOREIGN or an invocation
    outcome,      \* as in Publish
    powerLosses

vars == <<pc, temp, written, durable, intact, path, outcome, powerLosses>>

Steps == {"check", "mktemp", "write", "sync", "verify", "link", "clean",
          "undo_refused", "undo_failed", "end"}
Outcomes == {"running", "saved", "refused", "failed", "crashed"}

TypeOK ==
    /\ pc \in [Publishers -> Steps]
    /\ temp \in [Publishers -> BOOLEAN]
    /\ written \in [Publishers -> 0 .. COMPLETE]
    /\ durable \in [Publishers -> 0 .. COMPLETE]
    /\ intact \in [Publishers -> BOOLEAN]
    /\ path \in Publishers \union {NONE, FOREIGN}
    /\ outcome \in [Publishers -> Outcomes]
    /\ powerLosses \in 0 .. MAX_POWER_LOSSES

Init ==
    /\ pc = [p \in Publishers |-> "check"]
    /\ temp = [p \in Publishers |-> FALSE]
    /\ written = [p \in Publishers |-> 0]
    /\ durable = [p \in Publishers |-> 0]
    /\ intact = [p \in Publishers |-> TRUE]
    /\ path \in {NONE, FOREIGN}
    /\ outcome = [p \in Publishers |-> "running"]
    /\ powerLosses = 0

----------------------------------------------------------------------------
Goto(p, step) == pc' = [pc EXCEPT ![p] = step]
End(p, how) == Goto(p, "end") /\ outcome' = [outcome EXCEPT ![p] = how]

\* An exception inside the try block: the handler removes the temporary file
\* and raises again.
Raise(p, handler) == Goto(p, handler) /\ UNCHANGED outcome

\* The early, advisory test of path.exists().
CheckAbsent(p) ==
    /\ pc[p] = "check"
    /\ IF path = NONE
       THEN Goto(p, "mktemp") /\ UNCHANGED outcome
       ELSE End(p, "refused")
    /\ UNCHANGED <<temp, written, durable, intact, path, powerLosses>>

\* Wrong suffix, wrong image size, mkdir or NamedTemporaryFile failing: the
\* error leaves nothing behind.
FailEarly(p) ==
    /\ pc[p] \in {"check", "mktemp"}
    /\ End(p, "failed")
    /\ UNCHANGED <<temp, written, durable, intact, path, powerLosses>>

\* NamedTemporaryFile(delete=False): a fresh empty file in the directory.
MakeTemp(p) ==
    /\ pc[p] = "mktemp"
    /\ temp' = [temp EXCEPT ![p] = TRUE]
    /\ Goto(p, "write")
    /\ UNCHANGED <<written, durable, intact, path, outcome, powerLosses>>

\* One part of the ZIP goes into the file, possibly damaged; any prefix of
\* what was written may already be on the disk.  Closing writes the last.
WritePart(p) ==
    /\ pc[p] = "write"
    /\ written' = [written EXCEPT ![p] = @ + 1]
    /\ \E d \in durable[p] .. written'[p] : durable' = [durable EXCEPT ![p] = d]
    /\ \E ok \in {intact[p], FALSE} : intact' = [intact EXCEPT ![p] = ok]
    /\ Goto(p, IF written'[p] = COMPLETE THEN "sync" ELSE "write")
    /\ UNCHANGED <<temp, path, outcome, powerLosses>>

\* Mutant of Sync: flush without fsync.
SyncFlushOnly(p) ==
    /\ pc[p] = "sync"
    /\ Goto(p, "verify")
    /\ UNCHANGED <<temp, written, durable, intact, path, outcome, powerLosses>>

\* flush and os.fsync of the complete archive.
Sync(p) ==
    /\ pc[p] = "sync"
    /\ durable' = [durable EXCEPT ![p] = written[p]]
    /\ Goto(p, "verify")
    /\ UNCHANGED <<temp, written, intact, path, outcome, powerLosses>>

\* Mutant of Verify: the member list is looked at, the CRCs are not.
VerifyNamesOnly(p) ==
    /\ pc[p] = "verify"
    /\ Raise(p, IF written[p] = COMPLETE THEN "link" ELSE "undo_failed")
    /\ UNCHANGED <<temp, written, durable, intact, path, powerLosses>>

\* Reopen: the central directory must list exactly the two members and every
\* CRC must match.
Verify(p) ==
    /\ pc[p] = "verify"
    /\ Raise(p, IF written[p] = COMPLETE /\ intact[p] THEN "link" ELSE "undo_failed")
    /\ UNCHANGED <<temp, written, durable, intact, path, powerLosses>>

\* os.link: atomic create-if-absent of the destination.
Link(p) ==
    /\ pc[p] = "link"
    /\ IF path = NONE
       THEN path' = p /\ Goto(p, "clean")
       ELSE Goto(p, "undo_refused") /\ UNCHANGED path
    /\ UNCHANGED <<temp, written, durable, intact, outcome, powerLosses>>

\* Any other exception of the try block: disk full, I/O error, no hard links.
StepFails(p) ==
    /\ pc[p] \in {"write", "sync", "verify", "link"}
    /\ Raise(p, "undo_failed")
    /\ UNCHANGED <<temp, written, durable, intact, path, powerLosses>>

\* except Exception: unlink the temporary name and raise.  If unlink itself
\* fails, that error is raised instead and the name stays.
Undo(p) ==
    /\ pc[p] \in {"undo_refused", "undo_failed"}
    /\ temp' \in {temp, [temp EXCEPT ![p] = FALSE]}
    /\ End(p, IF pc[p] = "undo_refused" /\ ~temp'[p] THEN "refused" ELSE "failed")
    /\ UNCHANGED <<written, durable, intact, path, powerLosses>>

\* After publication the temporary name is removed; failing to is ignored.
Clean(p) ==
    /\ pc[p] = "clean"
    /\ temp' \in {temp, [temp EXCEPT ![p] = FALSE]}
    /\ End(p, "saved")
    /\ UNCHANGED <<written, durable, intact, path, powerLosses>>

\* The process is killed between any two steps.
Crash(p) ==
    /\ pc[p] # "end"
    /\ End(p, "crashed")
    /\ UNCHANGED <<temp, written, durable, intact, path, powerLosses>>

\* Another program creates the destination, at any moment.
OtherCreates ==
    /\ path = NONE
    /\ path' = FOREIGN
    /\ UNCHANGED <<pc, temp, written, durable, intact, outcome, powerLosses>>

\* The host loses power.  Every started invocation dies, every file keeps only
\* what is on the disk, and the destination's directory entry, which nothing
\* fsyncs, may be lost.  Invocations still at "check" are later ones.
PowerLoss ==
    /\ powerLosses < MAX_POWER_LOSSES
    /\ powerLosses' = powerLosses + 1
    /\ LET dead == {p \in Publishers : pc[p] \notin {"check", "end"}}
       IN  /\ pc' = [p \in Publishers |-> IF p \in dead THEN "end" ELSE pc[p]]
           /\ outcome' = [p \in Publishers |->
                            IF p \in dead THEN "crashed" ELSE outcome[p]]
    /\ written' = durable
    /\ path' \in (IF path \in Publishers THEN {path, NONE} ELSE {path})
    /\ UNCHANGED <<temp, durable, intact>>

Step(p) ==
    CheckAbsent(p) \/ MakeTemp(p) \/ WritePart(p) \/ Sync(p) \/ Verify(p)
        \/ Link(p) \/ Undo(p) \/ Clean(p)

Next ==
    \/ \E p \in Publishers : Step(p) \/ FailEarly(p) \/ StepFails(p) \/ Crash(p)
    \/ OtherCreates
    \/ PowerLoss

Spec == Init /\ [][Next]_vars

----------------------------------------------------------------------------
(* Properties. *)

Whole(p) == written[p] = COMPLETE /\ intact[p]

\* The abstract promise.  An incomplete or damaged file under the destination
\* maps to a value Publish never shows.
Promise == INSTANCE Publish WITH
    shown <- IF path \in Publishers /\ ~Whole(path) THEN "partial" ELSE path

\* save_backup publishes by "one atomic create-if-absent link": every step of
\* it, crashes and power losses included, is a step of Publish or invisible.
Publishes == Promise!Spec

\* save_backup's docstring: "never a half-backup".  What the destination names
\* is complete, undamaged and already on the disk, whatever fails afterwards.
NeverHalfBackup ==
    path \in Publishers => Whole(path) /\ durable[path] = COMPLETE
=============================================================================
