-------------------------- MODULE StagedDirectory --------------------------
(***************************************************************************)
(* cc2camera/bundle.py: staged_directory, and its one user, build_recovery *)
(* in cc2camera/image.py, which fills the staging directory file by file.  *)
(* The bundle becomes visible by one exclusive rename.  Unlike save_backup *)
(* nothing is fsynced, so this module covers dying processes and           *)
(* concurrent creators but not a power loss of the host.                   *)
(***************************************************************************)
EXTENDS Naturals

CONSTANTS
    Publishers,       \* invocations of build-image on one output directory
    NONE, FOREIGN,    \* the destination: free, or somebody else's
    FILES             \* files of a complete bundle, SHA256SUMS.txt last

ASSUME BundleAssumption ==
    /\ NONE \notin Publishers
    /\ FOREIGN \notin Publishers
    /\ NONE # FOREIGN
    /\ FILES \in Nat \ {0}

VARIABLES
    pc,               \* the next step of each invocation
    staged,           \* does the private temporary directory exist
    files,            \* files in the invocation's bundle directory
    destination,      \* the bundle the destination names
    outcome           \* as in Publish; "untidy" is told apart below

vars == <<pc, staged, files, destination, outcome>>

Init ==
    /\ pc = [p \in Publishers |-> "check"]
    /\ staged = [p \in Publishers |-> FALSE]
    /\ files = [p \in Publishers |-> 0]
    /\ destination \in {NONE, FOREIGN}
    /\ outcome = [p \in Publishers |-> "running"]

----------------------------------------------------------------------------
Goto(p, step) == pc' = [pc EXCEPT ![p] = step]
End(p, how) == Goto(p, "end") /\ outcome' = [outcome EXCEPT ![p] = how]

\* os.path.lexists(destination): an early refusal.
CheckAbsent(p) ==
    /\ pc[p] = "check"
    /\ IF destination = NONE
       THEN Goto(p, "stage") /\ UNCHANGED outcome
       ELSE End(p, "refused")
    /\ UNCHANGED <<staged, files, destination>>

\* mkdir of the parent, TemporaryDirectory, mkdir of bundle inside it.
Stage(p) ==
    /\ pc[p] = "stage"
    /\ staged' = [staged EXCEPT ![p] = TRUE]
    /\ Goto(p, "fill")
    /\ UNCHANGED <<files, destination, outcome>>

\* The body of the with statement writes the next file of the bundle.
WriteFile(p) ==
    /\ pc[p] = "fill"
    /\ files' = [files EXCEPT ![p] = @ + 1]
    /\ Goto(p, IF files[p] + 1 = FILES THEN "rename" ELSE "fill")
    /\ UNCHANGED <<staged, destination, outcome>>

\* Mutant of RenameNew: the plain rename, which replaces.
RenameReplaces(p) ==
    /\ pc[p] = "rename"
    /\ destination' = p /\ Goto(p, "cleanup")
    /\ UNCHANGED <<staged, files, outcome>>

\* rename_new: the exclusive rename, which a taken name refuses.
RenameNew(p) ==
    /\ pc[p] = "rename"
    /\ IF destination = NONE
       THEN destination' = p /\ Goto(p, "cleanup")
       ELSE Goto(p, "undo_refused") /\ UNCHANGED destination
    /\ UNCHANGED <<staged, files, outcome>>

\* Creating the directories, the body (a validation or I/O error), or a
\* platform without an exclusive rename raises.
StepFails(p) ==
    /\ pc[p] \in {"stage", "fill", "rename"}
    /\ Goto(p, "undo_failed")
    /\ UNCHANGED <<staged, files, destination, outcome>>

\* TemporaryDirectory's exit removes the staging tree on every path.  An error
\* of the removal itself escapes, even after the rename succeeded.
Exit(p) ==
    /\ pc[p] \in {"cleanup", "undo_refused", "undo_failed"}
    /\ \/ /\ staged' = [staged EXCEPT ![p] = FALSE]
          /\ End(p, CASE pc[p] = "cleanup" -> "saved"
                      [] pc[p] = "undo_refused" -> "refused"
                      [] pc[p] = "undo_failed" -> "failed")
       \/ /\ staged[p]
          /\ UNCHANGED staged
          /\ End(p, IF pc[p] = "cleanup" THEN "untidy" ELSE "failed")
    /\ UNCHANGED <<files, destination>>

\* The process is killed between any two steps.
Crash(p) ==
    /\ pc[p] # "end"
    /\ End(p, "crashed")
    /\ UNCHANGED <<staged, files, destination>>

\* Another program creates the destination, at any moment.
OtherCreates ==
    /\ destination = NONE
    /\ destination' = FOREIGN
    /\ UNCHANGED <<pc, staged, files, outcome>>

Next ==
    \/ \E p \in Publishers :
          \/ CheckAbsent(p) \/ Stage(p) \/ WriteFile(p) \/ RenameNew(p)
          \/ StepFails(p) \/ Exit(p) \/ Crash(p)
    \/ OtherCreates

Spec == Init /\ [][Next]_vars

----------------------------------------------------------------------------
(* Properties. *)

\* The abstract promise.  An error escaping after the rename ("untidy") tells
\* the user nothing about the name, just as a crash does.
Promise == INSTANCE Publish WITH
    shown <- IF destination \in Publishers /\ files[destination] # FILES
             THEN "partial" ELSE destination,
    outcome <- [p \in Publishers |->
                  IF outcome[p] = "untidy" THEN "crashed" ELSE outcome[p]]

\* bundle.py: "Publish a complete directory without replacing an existing
\* destination", against concurrent creators and dying processes.
Publishes == Promise!Spec
=============================================================================
