--------------------------- MODULE PublishProofs ---------------------------
(***************************************************************************)
(* The two implementations of Publish.  save_backup publishes whole        *)
(* archives only, for any number of invocations on one path and any number *)
(* of power losses; staged_directory whole bundles, for any number of      *)
(* invocations on one directory and bundles of any number of files.        *)
(***************************************************************************)
EXTENDS SaveBackup, TLAPS

\* staged_directory's own parameter and variables; its invocations, destination
\* markers, pc and outcome go by the names save_backup's have.
CONSTANT FILES
VARIABLES staged, files, destination

Bundle == INSTANCE StagedDirectory

----------------------------------------------------------------------------
(* save_backup. *)

\* How far an invocation is says how much of its archive is in the file, how
\* much of that is on the disk, and whether it has been verified.
ProgressInv ==
    \A p \in Publishers :
        /\ durable[p] <= written[p]
        /\ pc[p] \in {"check", "mktemp"} => written[p] = 0
        /\ pc[p] = "write" => written[p] < COMPLETE
        /\ pc[p] \in {"sync", "verify", "link", "clean"} => written[p] = COMPLETE
        /\ pc[p] \in {"verify", "link", "clean"} => durable[p] = COMPLETE
        /\ pc[p] \in {"link", "clean"} => intact[p]

\* The destination names an archive only from its link on; by then all of it
\* is on the disk, so that a power loss takes nothing from it.
PathInv ==
    path \in Publishers =>
        Whole(path) /\ durable[path] = COMPLETE /\ pc[path] \in {"clean", "end"}

\* An invocation has an outcome exactly when it has ended, succeeds only from
\* its link, and refuses only what another put under the destination.
EndInv ==
    \A p \in Publishers :
        /\ pc[p] = "end" <=> outcome[p] # "running"
        /\ pc[p] = "clean" => path = p
        /\ pc[p] = "undo_refused" => path \notin {NONE, p}

IInv == TypeOK /\ ProgressInv /\ PathInv /\ EndInv

\* save_backup starts in a state that satisfies the invariant.
LEMMA InitInv == Init => IInv
  BY NameAssumption DEF Init, IInv, TypeOK, ProgressInv, PathInv, EndInv, Steps,
     Outcomes, COMPLETE

\* Every step keeps the types.
LEMMA TypeStep == ASSUME IInv, [Next]_vars PROVE TypeOK'
  <1> USE NameAssumption DEF IInv, TypeOK, Steps, Outcomes, COMPLETE
  <1>1. ASSUME NEW p \in Publishers, Step(p) PROVE TypeOK'
    <2>1. CASE CheckAbsent(p)
      BY <2>1 DEF CheckAbsent, Goto, End
    <2>2. CASE MakeTemp(p)
      BY <2>2 DEF MakeTemp, Goto
    <2>3. CASE WritePart(p)
      <3>1. written[p] \in 0 .. 2 /\ durable[p] \in 0 .. 3
        BY <2>3 DEF WritePart, ProgressInv
      <3>2. written' = [written EXCEPT ![p] = written[p] + 1]
        BY <2>3 DEF WritePart
      <3>3. written'[p] = written[p] + 1
        BY <3>2
      <3>4. PICK d \in durable[p] .. written'[p] : durable' = [durable EXCEPT ![p] = d]
        BY <2>3 DEF WritePart
      <3>5. d \in 0 .. 3
        BY <3>1, <3>3
      <3>6. intact' \in [Publishers -> BOOLEAN]
        BY <2>3 DEF WritePart
      <3> QED
        BY <2>3, <3>1, <3>2, <3>4, <3>5, <3>6 DEF WritePart, Goto
    <2>4. CASE Sync(p)
      BY <2>4 DEF Sync, Goto
    <2>5. CASE Verify(p)
      BY <2>5 DEF Verify, Raise, Goto
    <2>6. CASE Link(p)
      BY <2>6 DEF Link, Goto
    <2>7. CASE Undo(p)
      BY <2>7 DEF Undo, End, Goto
    <2>8. CASE Clean(p)
      BY <2>8 DEF Clean, End, Goto
    <2> QED
      BY <1>1, <2>1, <2>2, <2>3, <2>4, <2>5, <2>6, <2>7, <2>8 DEF Step
  <1>2. ASSUME NEW p \in Publishers, FailEarly(p) \/ StepFails(p) \/ Crash(p)
        PROVE  TypeOK'
    BY <1>2 DEF FailEarly, StepFails, Crash, Raise, End, Goto
  <1>3. CASE OtherCreates
    BY <1>3 DEF OtherCreates
  <1>4. CASE PowerLoss
    BY <1>4 DEF PowerLoss
  <1>5. CASE UNCHANGED vars
    BY <1>5 DEF vars
  <1> QED
    BY <1>1, <1>2, <1>3, <1>4, <1>5 DEF Next

\* Every step keeps the relation of progress, file and disk.
LEMMA ProgressStep == ASSUME IInv, [Next]_vars PROVE ProgressInv'
  <1> USE DEF IInv, TypeOK, ProgressInv, COMPLETE
  <1>1. ASSUME NEW p \in Publishers, Step(p) PROVE ProgressInv'
    <2>1. CASE CheckAbsent(p)
      BY <2>1 DEF CheckAbsent, Goto, End
    <2>2. CASE MakeTemp(p)
      BY <2>2 DEF MakeTemp, Goto
    <2>3. CASE WritePart(p)
      <3>1. written[p] \in 0 .. 2 /\ durable[p] \in 0 .. 3
        BY <2>3 DEF WritePart
      <3>2. written' = [written EXCEPT ![p] = written[p] + 1]
        BY <2>3 DEF WritePart
      <3>3. PICK d \in durable[p] .. written'[p] : durable' = [durable EXCEPT ![p] = d]
        BY <2>3 DEF WritePart
      <3>4. PICK ok \in BOOLEAN : intact' = [intact EXCEPT ![p] = ok]
        BY <2>3 DEF WritePart
      <3>5. pc' = [pc EXCEPT ![p] = IF written'[p] = 3 THEN "sync" ELSE "write"]
        BY <2>3 DEF WritePart, Goto
      <3>6. written'[p] = written[p] + 1 /\ durable'[p] = d /\ d <= written'[p]
        BY <3>1, <3>2, <3>3
      <3> QED
        BY <3>1, <3>2, <3>3, <3>4, <3>5, <3>6
    <2>4. CASE Sync(p)
      BY <2>4 DEF Sync, Goto
    <2>5. CASE Verify(p)
      BY <2>5 DEF Verify, Raise, Goto
    <2>6. CASE Link(p)
      BY <2>6 DEF Link, Goto
    <2>7. CASE Undo(p)
      BY <2>7 DEF Undo, End, Goto
    <2>8. CASE Clean(p)
      BY <2>8 DEF Clean, End, Goto
    <2> QED
      BY <1>1, <2>1, <2>2, <2>3, <2>4, <2>5, <2>6, <2>7, <2>8 DEF Step
  <1>2. ASSUME NEW p \in Publishers, FailEarly(p) \/ StepFails(p) \/ Crash(p)
        PROVE  ProgressInv'
    BY <1>2 DEF FailEarly, StepFails, Crash, Raise, End, Goto
  <1>3. CASE OtherCreates
    BY <1>3 DEF OtherCreates
  <1>4. CASE PowerLoss
    BY <1>4 DEF PowerLoss
  <1>5. CASE UNCHANGED vars
    BY <1>5 DEF vars
  <1> QED
    BY <1>1, <1>2, <1>3, <1>4, <1>5 DEF Next

\* Only Link gives the destination an archive, and no later step, of whatever
\* invocation, touches that archive.
LEMMA PathStep == ASSUME IInv, [Next]_vars PROVE PathInv'
  <1> USE NameAssumption DEF IInv, TypeOK, PathInv, Whole, COMPLETE
  <1>1. ASSUME NEW p \in Publishers, Step(p) PROVE PathInv'
    <2>1. CASE CheckAbsent(p)
      BY <2>1 DEF CheckAbsent, Goto, End
    <2>2. CASE MakeTemp(p)
      BY <2>2 DEF MakeTemp, Goto
    <2>3. CASE WritePart(p)
      <3>1. path # p /\ UNCHANGED path
        BY <2>3 DEF WritePart
      <3>2. \A q \in Publishers \ {p} :
               /\ written'[q] = written[q] /\ durable'[q] = durable[q]
               /\ intact'[q] = intact[q] /\ pc'[q] = pc[q]
        BY <2>3 DEF WritePart, Goto
      <3> QED
        BY <3>1, <3>2
    <2>4. CASE Sync(p)
      BY <2>4 DEF Sync, Goto
    <2>5. CASE Verify(p)
      BY <2>5 DEF Verify, Raise, Goto
    <2>6. CASE Link(p)
      BY <2>6 DEF Link, Goto, ProgressInv
    <2>7. CASE Undo(p)
      BY <2>7 DEF Undo, End, Goto
    <2>8. CASE Clean(p)
      BY <2>8 DEF Clean, End, Goto
    <2> QED
      BY <1>1, <2>1, <2>2, <2>3, <2>4, <2>5, <2>6, <2>7, <2>8 DEF Step
  <1>2. ASSUME NEW p \in Publishers, FailEarly(p) \/ StepFails(p) \/ Crash(p)
        PROVE  PathInv'
    BY <1>2 DEF FailEarly, StepFails, Crash, Raise, End, Goto
  <1>3. CASE OtherCreates
    BY <1>3 DEF OtherCreates
  <1>4. CASE PowerLoss
    BY <1>4 DEF PowerLoss
  <1>5. CASE UNCHANGED vars
    BY <1>5 DEF vars
  <1> QED
    BY <1>1, <1>2, <1>3, <1>4, <1>5 DEF Next

\* Outcomes and the reasons for them.
LEMMA EndStep == ASSUME IInv, [Next]_vars PROVE EndInv'
  <1> USE NameAssumption DEF IInv, TypeOK, EndInv
  <1>1. ASSUME NEW p \in Publishers, Step(p) PROVE EndInv'
    <2>1. CASE CheckAbsent(p)
      BY <2>1 DEF CheckAbsent, Goto, End
    <2>2. CASE MakeTemp(p)
      BY <2>2 DEF MakeTemp, Goto
    <2>3. CASE WritePart(p)
      BY <2>3 DEF WritePart, Goto
    <2>4. CASE Sync(p)
      BY <2>4 DEF Sync, Goto
    <2>5. CASE Verify(p)
      BY <2>5 DEF Verify, Raise, Goto
    <2>6. CASE Link(p)
      BY <2>6 DEF Link, Goto, PathInv
    <2>7. CASE Undo(p)
      BY <2>7 DEF Undo, End, Goto
    <2>8. CASE Clean(p)
      BY <2>8 DEF Clean, End, Goto
    <2> QED
      BY <1>1, <2>1, <2>2, <2>3, <2>4, <2>5, <2>6, <2>7, <2>8 DEF Step
  <1>2. ASSUME NEW p \in Publishers, FailEarly(p) \/ StepFails(p) \/ Crash(p)
        PROVE  EndInv'
    BY <1>2 DEF FailEarly, StepFails, Crash, Raise, End, Goto
  <1>3. CASE OtherCreates
    BY <1>3 DEF OtherCreates
  <1>4. CASE PowerLoss
    BY <1>4 DEF PowerLoss
  <1>5. CASE UNCHANGED vars
    BY <1>5 DEF vars
  <1> QED
    BY <1>1, <1>2, <1>3, <1>4, <1>5 DEF Next

\* The invariant holds in every state of save_backup.
THEOREM Inductive == Spec => []IInv
  <1>1. IInv /\ [Next]_vars => IInv'
    BY TypeStep, ProgressStep, PathStep, EndStep DEF IInv
  <1> QED
    BY InitInv, <1>1, PTL DEF Spec

\* Every variable of save_backup keeps its type.
THEOREM TypeCorrect == Spec => []TypeOK
  <1>1. IInv => TypeOK
    BY DEF IInv
  <1> QED
    BY Inductive, <1>1, PTL

\* The docstring's "never a half-backup": whatever crashes or power losses
\* come, what the destination names is a complete, verified archive on disk.
THEOREM NeverHalf == Spec => []NeverHalfBackup
  <1>1. IInv => NeverHalfBackup
    BY DEF IInv, PathInv, NeverHalfBackup
  <1> QED
    BY Inductive, <1>1, PTL

----------------------------------------------------------------------------
(* Refinement of Publish.  Under the invariant the destination shows what it *)
(* names, so the mapped state is <<path, outcome>>.                          *)

\* An initial state of save_backup is one of Publish.
LEMMA InitPublishes == Init => Promise!Init
  BY NameAssumption DEF Init, Promise!Init

\* Every step of save_backup is a step of Publish or invisible there: Link
\* creates, Clean saves, a refused or failed run tidies before it reports.
LEMMA StepPublishes ==
    ASSUME IInv, IInv', [Next]_vars PROVE [Promise!Next]_(Promise!vars)
  <1> DEFINE shown == IF path \in Publishers /\ ~Whole(path) THEN "partial" ELSE path
  <1>1. shown = path /\ shown' = path'
    BY DEF IInv, PathInv
  <1> HIDE DEF shown
  <1> USE NameAssumption DEF IInv, TypeOK, EndInv, Promise!Running, Promise!End
  <1>2. ASSUME NEW p \in Publishers, Step(p) PROVE Promise!Next \/ UNCHANGED Promise!vars
    <2>1. CASE CheckAbsent(p)
      <3>1. CASE path = NONE
        BY <1>1, <2>1, <3>1 DEF CheckAbsent, Goto, Promise!vars, shown
      <3>2. CASE path # NONE
        <4>1. path # p
          BY <2>1 DEF CheckAbsent, PathInv
        <4>2. Promise!Refuse(p)
          BY <1>1, <2>1, <3>2, <4>1 DEF CheckAbsent, End, Promise!Refuse, shown
        <4> QED
          BY <4>2 DEF Promise!Next
      <3> QED
        BY <3>1, <3>2
    <2>2. CASE MakeTemp(p) \/ WritePart(p) \/ Sync(p) \/ Verify(p)
      BY <1>1, <2>2 DEF MakeTemp, WritePart, Sync, Verify, Raise, Promise!vars, shown
    <2>3. CASE Link(p)
      <3>1. CASE path = NONE
        <4>1. Promise!Create(p)
          BY <1>1, <2>3, <3>1 DEF Link, Promise!Create, shown
        <4> QED
          BY <4>1 DEF Promise!Next
      <3>2. CASE path # NONE
        BY <1>1, <2>3, <3>2 DEF Link, Promise!vars, shown
      <3> QED
        BY <3>1, <3>2
    <2>4. CASE Undo(p)
      <3>1. path # p
        BY <2>4 DEF Undo, PathInv
      <3>2. Promise!Refuse(p) \/ Promise!Fail(p)
        BY <1>1, <2>4, <3>1 DEF Undo, End, Promise!Refuse, Promise!Fail, shown
      <3> QED
        BY <3>2 DEF Promise!Next
    <2>5. CASE Clean(p)
      <3>1. Promise!Save(p)
        BY <1>1, <2>5 DEF Clean, End, Promise!Save, shown
      <3> QED
        BY <3>1 DEF Promise!Next
    <2> QED
      BY <1>2, <2>1, <2>2, <2>3, <2>4, <2>5 DEF Step
  <1>3. ASSUME NEW p \in Publishers, FailEarly(p)
        PROVE  Promise!Next
    <2>1. Promise!Fail(p)
      BY <1>1, <1>3 DEF FailEarly, End, PathInv, Promise!Fail, shown
    <2> QED
      BY <2>1 DEF Promise!Next
  <1>4. ASSUME NEW p \in Publishers, StepFails(p)
        PROVE  UNCHANGED Promise!vars
    BY <1>1, <1>4 DEF StepFails, Raise, Promise!vars, shown
  <1>5. ASSUME NEW p \in Publishers, Crash(p)
        PROVE  Promise!Next
    <2>1. Promise!Crash(p)
      BY <1>1, <1>5 DEF Crash, End, Promise!Crash, shown
    <2> QED
      BY <2>1 DEF Promise!Next
  <1>6. CASE OtherCreates
    <2>1. Promise!OtherCreates
      BY <1>1, <1>6 DEF OtherCreates, Promise!OtherCreates, shown
    <2> QED
      BY <2>1 DEF Promise!Next
  <1>7. CASE PowerLoss
    <2> DEFINE dead == {p \in Publishers : pc[p] \notin {"check", "end"}}
    <2>1. dead \in SUBSET {p \in Publishers : outcome[p] = "running"}
      OBVIOUS
    <2>2. outcome' = [p \in Publishers |-> IF p \in dead THEN "crashed" ELSE outcome[p]]
      BY <1>7 DEF PowerLoss
    <2>3. path' \in (IF path \in Publishers THEN {path, NONE} ELSE {path})
      BY <1>7 DEF PowerLoss
    <2> HIDE DEF dead
    <2>4. Promise!PowerLoss
      BY <1>1, <2>1, <2>2, <2>3 DEF Promise!PowerLoss, shown
    <2> QED
      BY <2>4 DEF Promise!Next
  <1>8. CASE UNCHANGED vars
    BY <1>1, <1>8 DEF vars, Promise!vars, shown
  <1> QED
    BY <1>2, <1>3, <1>4, <1>5, <1>6, <1>7, <1>8 DEF Next

\* save_backup implements Publish: "one atomic create-if-absent link".
THEOREM Refinement == Spec => Publishes
  <1>1. IInv /\ IInv' /\ [Next]_vars => [Promise!Next]_(Promise!vars)
    BY StepPublishes
  <1> QED
    BY InitPublishes, Inductive, <1>1, PTL DEF Spec, Publishes, Promise!Spec

----------------------------------------------------------------------------
(* staged_directory. *)

\* What StagedDirectory assumes of its constants beyond what save_backup does.
BundleSize == FILES \in Nat \ {0}

\* What the variables of staged_directory range over.
BundleTypes ==
    /\ pc \in [Publishers -> {"check", "stage", "fill", "rename", "cleanup",
                              "undo_refused", "undo_failed", "end"}]
    /\ staged \in [Publishers -> BOOLEAN]
    /\ files \in [Publishers -> 0 .. FILES]
    /\ destination \in Publishers \union {NONE, FOREIGN}
    /\ outcome \in [Publishers -> {"running", "saved", "refused", "failed",
                                   "untidy", "crashed"}]

\* A bundle is renamed when it has all its files and not written afterwards.
BundleFilled ==
    /\ \A p \in Publishers :
          /\ pc[p] \in {"check", "stage"} => files[p] = 0
          /\ pc[p] = "fill" => files[p] < FILES
          /\ pc[p] = "rename" => files[p] = FILES
    /\ destination \in Publishers =>
          files[destination] = FILES /\ pc[destination] \in {"cleanup", "end"}

\* An invocation has an outcome exactly when it has ended, succeeds only from
\* its rename, and refuses only what another put under the destination.
BundleEnded ==
    \A p \in Publishers :
        /\ pc[p] = "end" <=> outcome[p] # "running"
        /\ pc[p] = "cleanup" => destination = p
        /\ pc[p] = "undo_refused" => destination \notin {NONE, p}

BundleInv == BundleTypes /\ BundleFilled /\ BundleEnded

\* staged_directory starts in a state that satisfies the invariant.
LEMMA BundleInitInv == ASSUME BundleSize, Bundle!Init PROVE BundleInv
  BY NameAssumption DEF BundleSize, Bundle!Init, BundleInv, BundleTypes, BundleFilled,
     BundleEnded

\* Every step keeps the invariant, action by action.
LEMMA BundleStepInv ==
    ASSUME BundleSize, BundleInv, [Bundle!Next]_(Bundle!vars) PROVE BundleInv'
  <1> USE NameAssumption DEF BundleSize, BundleInv
  <1>1. ASSUME NEW p \in Publishers, Bundle!CheckAbsent(p) PROVE BundleInv'
    BY <1>1 DEF Bundle!CheckAbsent, Bundle!Goto, Bundle!End, BundleTypes, BundleFilled,
       BundleEnded
  <1>2. ASSUME NEW p \in Publishers, Bundle!Stage(p) PROVE BundleInv'
    BY <1>2 DEF Bundle!Stage, Bundle!Goto, BundleTypes, BundleFilled, BundleEnded
  <1>3. ASSUME NEW p \in Publishers, Bundle!WriteFile(p) PROVE BundleInv'
    <2>1. files[p] \in 0 .. FILES - 1 /\ pc[p] = "fill"
      BY <1>3 DEF Bundle!WriteFile, BundleTypes, BundleFilled
    <2>2. files' = [files EXCEPT ![p] = files[p] + 1]
      BY <1>3 DEF Bundle!WriteFile
    <2>3. BundleTypes'
      BY <1>3, <2>1, <2>2 DEF Bundle!WriteFile, Bundle!Goto, BundleTypes
    <2>4. BundleFilled'
      BY <1>3, <2>1, <2>2 DEF Bundle!WriteFile, Bundle!Goto, BundleTypes, BundleFilled
    <2>5. BundleEnded'
      BY <1>3, <2>1 DEF Bundle!WriteFile, Bundle!Goto, BundleTypes, BundleEnded
    <2> QED
      BY <2>3, <2>4, <2>5
  <1>4. ASSUME NEW p \in Publishers, Bundle!RenameNew(p) PROVE BundleInv'
    BY <1>4 DEF Bundle!RenameNew, Bundle!Goto, BundleTypes, BundleFilled, BundleEnded
  <1>5. ASSUME NEW p \in Publishers, Bundle!StepFails(p) PROVE BundleInv'
    BY <1>5 DEF Bundle!StepFails, Bundle!Goto, BundleTypes, BundleFilled, BundleEnded
  <1>6. ASSUME NEW p \in Publishers, Bundle!Exit(p) PROVE BundleInv'
    BY <1>6 DEF Bundle!Exit, Bundle!Goto, Bundle!End, BundleTypes, BundleFilled, BundleEnded
  <1>7. ASSUME NEW p \in Publishers, Bundle!Crash(p) PROVE BundleInv'
    BY <1>7 DEF Bundle!Crash, Bundle!Goto, Bundle!End, BundleTypes, BundleFilled, BundleEnded
  <1>8. CASE Bundle!OtherCreates
    BY <1>8 DEF Bundle!OtherCreates, BundleTypes, BundleFilled, BundleEnded
  <1>9. CASE UNCHANGED Bundle!vars
    BY <1>9 DEF Bundle!vars, BundleTypes, BundleFilled, BundleEnded
  <1> QED
    BY <1>1, <1>2, <1>3, <1>4, <1>5, <1>6, <1>7, <1>8, <1>9 DEF Bundle!Next

\* The invariant holds in every state of staged_directory: in particular the
\* destination never names an incomplete bundle.
THEOREM BundleInductive == ASSUME BundleSize PROVE Bundle!Spec => []BundleInv
  <1>1. BundleInv /\ [Bundle!Next]_(Bundle!vars) => BundleInv'
    BY BundleStepInv
  <1> QED
    BY BundleInitInv, <1>1, PTL DEF Bundle!Spec

----------------------------------------------------------------------------
(* BundleRefinement of Publish. *)

\* An initial state of staged_directory is one of Publish.
LEMMA BundleInitPublishes == ASSUME Bundle!Init PROVE Bundle!Promise!Init
  BY NameAssumption DEF Bundle!Init, Bundle!Promise!Init

\* Every step of staged_directory is a step of Publish or invisible there.
LEMMA BundleStepPublishes ==
    ASSUME BundleSize, BundleInv, BundleInv', [Bundle!Next]_(Bundle!vars)
    PROVE  [Bundle!Promise!Next]_(Bundle!Promise!vars)
  <1> DEFINE shown == IF destination \in Publishers /\ files[destination] # FILES
                      THEN "partial" ELSE destination
             told == [p \in Publishers |->
                        IF outcome[p] = "untidy" THEN "crashed" ELSE outcome[p]]
  <1>1. shown = destination /\ shown' = destination'
    BY DEF BundleInv, BundleFilled
  <1>2. ASSUME NEW p \in Publishers, NEW how, Bundle!End(p, how)
        PROVE  told' = [told EXCEPT ![p] = IF how = "untidy" THEN "crashed" ELSE how]
    BY <1>2 DEF Bundle!End, BundleInv, BundleTypes
  <1>3. \A p \in Publishers : pc[p] # "end" => told[p] = "running"
    BY DEF BundleInv, BundleTypes, BundleEnded
  <1>4. ASSUME UNCHANGED <<destination, outcome>> PROVE UNCHANGED Bundle!Promise!vars
    BY <1>1, <1>4 DEF Bundle!Promise!vars
  <1> HIDE DEF shown, told
  <1> USE NameAssumption DEF BundleSize, BundleInv, Bundle!Promise!Running, Bundle!Promise!End
  <1>5. ASSUME NEW p \in Publishers, Bundle!CheckAbsent(p)
        PROVE  Bundle!Promise!Next \/ UNCHANGED Bundle!Promise!vars
    <2>1. CASE destination = NONE
      BY <1>4, <1>5, <2>1 DEF Bundle!CheckAbsent
    <2>2. CASE destination # NONE
      <3>1. destination # p
        BY <1>5 DEF Bundle!CheckAbsent, BundleFilled
      <3>2. told' = [told EXCEPT ![p] = "refused"]
        BY <1>2, <1>5, <2>2 DEF Bundle!CheckAbsent
      <3>3. Bundle!Promise!Refuse(p)
        BY <1>1, <1>3, <1>5, <2>2, <3>1, <3>2 
          DEF Bundle!CheckAbsent, Bundle!Promise!Refuse, shown, told
      <3> QED
        BY <3>3 DEF Bundle!Promise!Next
    <2> QED
      BY <2>1, <2>2
  <1>6. ASSUME NEW p \in Publishers,
               Bundle!Stage(p) \/ Bundle!WriteFile(p) \/ Bundle!StepFails(p)
        PROVE  UNCHANGED Bundle!Promise!vars
    BY <1>4, <1>6 DEF Bundle!Stage, Bundle!WriteFile, Bundle!StepFails
  <1>7. ASSUME NEW p \in Publishers, Bundle!RenameNew(p)
        PROVE  Bundle!Promise!Next \/ UNCHANGED Bundle!Promise!vars
    <2>1. CASE destination = NONE
      <3>1. Bundle!Promise!Create(p)
        BY <1>1, <1>3, <1>7, <2>1 DEF Bundle!RenameNew, Bundle!Promise!Create, shown, told
      <3> QED
        BY <3>1 DEF Bundle!Promise!Next
    <2>2. CASE destination # NONE
      BY <1>4, <1>7, <2>2 DEF Bundle!RenameNew
    <2> QED
      BY <2>1, <2>2
  <1>8. ASSUME NEW p \in Publishers, Bundle!Exit(p) PROVE Bundle!Promise!Next
    <2>1. UNCHANGED destination /\ told[p] = "running"
      BY <1>3, <1>8 DEF Bundle!Exit
    <2>2. CASE pc[p] = "cleanup"
      <3>1. Bundle!End(p, "saved") \/ Bundle!End(p, "untidy")
        BY <1>8, <2>2 DEF Bundle!Exit
      <3>2. \/ told' = [told EXCEPT ![p] = "saved"]
            \/ told' = [told EXCEPT ![p] = "crashed"]
        BY <1>2, <3>1
      <3>3. Bundle!Promise!Save(p) \/ Bundle!Promise!Crash(p)
        BY <1>1, <2>1, <2>2, <3>2
          DEF BundleEnded, Bundle!Promise!Save, Bundle!Promise!Crash, shown, told
      <3> QED
        BY <3>3 DEF Bundle!Promise!Next
    <2>3. CASE pc[p] \in {"undo_refused", "undo_failed"}
      <3>1. \/ pc[p] = "undo_refused" /\ Bundle!End(p, "refused")
            \/ Bundle!End(p, "failed")
        BY <1>8, <2>3 DEF Bundle!Exit
      <3>2. \/ pc[p] = "undo_refused" /\ told' = [told EXCEPT ![p] = "refused"]
            \/ told' = [told EXCEPT ![p] = "failed"]
        BY <1>2, <3>1
      <3>3. destination # p
        BY <2>3 DEF BundleFilled
      <3>4. Bundle!Promise!Refuse(p) \/ Bundle!Promise!Fail(p)
        BY <1>1, <2>1, <3>2, <3>3
          DEF BundleEnded, Bundle!Promise!Refuse, Bundle!Promise!Fail, shown, told
      <3> QED
        BY <3>4 DEF Bundle!Promise!Next
    <2> QED
      BY <1>8, <2>2, <2>3 DEF Bundle!Exit
  <1>9. ASSUME NEW p \in Publishers, Bundle!Crash(p) PROVE Bundle!Promise!Next
    <2>1. told' = [told EXCEPT ![p] = "crashed"]
      BY <1>2, <1>9 DEF Bundle!Crash
    <2>2. Bundle!Promise!Crash(p)
      BY <1>1, <1>3, <1>9, <2>1 DEF Bundle!Crash, Bundle!Promise!Crash, shown, told
    <2> QED
      BY <2>2 DEF Bundle!Promise!Next
  <1>10. CASE Bundle!OtherCreates
    <2>1. Bundle!Promise!OtherCreates
      BY <1>1, <1>10 DEF Bundle!OtherCreates, Bundle!Promise!OtherCreates, shown
    <2> QED
      BY <2>1 DEF Bundle!Promise!Next
  <1>11. CASE UNCHANGED Bundle!vars
    BY <1>4, <1>11 DEF Bundle!vars
  <1> QED
    BY <1>5, <1>6, <1>7, <1>8, <1>9, <1>10, <1>11 DEF Bundle!Next

\* staged_directory implements Publish: "Publish a complete directory without
\* replacing an existing destination".
THEOREM BundleRefinement == ASSUME BundleSize PROVE Bundle!Spec => Bundle!Publishes
  <1>1. BundleInv /\ BundleInv' /\ [Bundle!Next]_(Bundle!vars)
            => [Bundle!Promise!Next]_(Bundle!Promise!vars)
    BY BundleStepPublishes
  <1> QED
    BY BundleInitPublishes, BundleInductive, <1>1, PTL
       DEF Bundle!Spec, Bundle!Publishes, Bundle!Promise!Spec
============================================================================
