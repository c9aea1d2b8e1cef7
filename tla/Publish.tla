------------------------------ MODULE Publish ------------------------------
(***************************************************************************)
(* What cc2camera promises of everything it puts under a name the user     *)
(* chose (a backup archive, a recovery bundle): the name shows nothing,    *)
(* what was there before, or one publisher's COMPLETE product.  Creation   *)
(* is one atomic step that happens only while the name is free, so nothing *)
(* is ever replaced, and nobody is told "saved" unless its product is what *)
(* the name shows.                                                         *)
(***************************************************************************)
CONSTANTS
    Publishers,   \* invocations of the command on one destination
    NONE,         \* the name is free
    FOREIGN       \* the name belongs to something else

VARIABLES
    shown,        \* what the name shows: NONE, FOREIGN or a publisher's product
    outcome       \* how each invocation ended

vars == <<shown, outcome>>

Outcomes == {"running", "saved", "refused", "failed", "crashed"}

Running(p) == outcome[p] = "running"
End(p, how) == outcome' = [outcome EXCEPT ![p] = how]

Init ==
    /\ shown \in {NONE, FOREIGN}
    /\ outcome = [p \in Publishers |-> "running"]

\* The whole product appears under a free name.
Create(p) ==
    /\ Running(p) /\ shown = NONE
    /\ shown' = p
    /\ UNCHANGED outcome

\* Success is reported only for what is shown.
Save(p) ==
    /\ Running(p) /\ shown = p
    /\ End(p, "saved")
    /\ UNCHANGED shown

\* Overwriting is refused: only a taken name is a reason.
Refuse(p) ==
    /\ Running(p) /\ shown \notin {NONE, p}
    /\ End(p, "refused")
    /\ UNCHANGED shown

\* An error is reported only if nothing of p's is shown.
Fail(p) ==
    /\ Running(p) /\ shown # p
    /\ End(p, "failed")
    /\ UNCHANGED shown

\* The process dies, before or after it created the name.
Crash(p) ==
    /\ Running(p)
    /\ End(p, "crashed")
    /\ UNCHANGED shown

\* Something else takes the free name.
OtherCreates ==
    /\ shown = NONE
    /\ shown' = FOREIGN
    /\ UNCHANGED outcome

\* The host loses power: running invocations die, and a directory entry that
\* never reached the disk is gone.  An incomplete product never appears.
PowerLoss ==
    /\ \E dead \in SUBSET {p \in Publishers : Running(p)} :
          outcome' = [p \in Publishers |-> IF p \in dead THEN "crashed" ELSE outcome[p]]
    /\ shown' \in (IF shown \in Publishers THEN {shown, NONE} ELSE {shown})

Next ==
    \/ \E p \in Publishers :
          Create(p) \/ Save(p) \/ Refuse(p) \/ Fail(p) \/ Crash(p)
    \/ OtherCreates
    \/ PowerLoss

Spec == Init /\ [][Next]_vars
============================================================================
