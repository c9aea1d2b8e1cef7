---------------------------- MODULE RestoreProofs ----------------------------
(***************************************************************************)
(* The safety properties of command_restore, for any units and files, any  *)
(* number of runs of the command and any number of restarts of the camera. *)
(***************************************************************************)
EXTENDS Restore, TLAPS

Complete == {"exact", "config_changed"}
Checked == (BeforeTrigger \ {"load"}) \union AfterTrigger \union Complete
Agreed == Checked \ {"confirm"}
Matched == Agreed \ {"probe", "read"}

\* What the run has established of its files: after the local checks a clean
\* image of the backup's unit, after the question one the user confirmed, after
\* the live read one of the connected camera's unit.
FilesInv ==
    /\ pc \in Checked => ~image.magic /\ image.stable.unit = backup.unit
    /\ pc \in Agreed => image \in confirmed
    /\ pc \in Matched => backup.unit = CAMERA

\* The flash holds only the camera's own content, and so does what the updater
\* is about to write, although the run that sent it may be over.
ContentInv ==
    /\ original.unit = CAMERA /\ stable.unit = CAMERA
    /\ stable \in {original, DAMAGED} \/ \E i \in confirmed : stable = i.stable
    /\ mode = "programming" =>
          programmed \in confirmed /\ programmed.stable.unit = CAMERA /\ ~programmed.magic

\* Linux runs only from a flash without the upgrade words; a request is pending
\* only there, and none from the status reply on.
FlagInv ==
    /\ mode = "linux" => ~flag
    /\ pending => mode = "linux"
    /\ pc \in (AfterTrigger \ {"reply"}) \union Complete => ~pending

\* A finished restore stays: nothing is left that would program the flash again.
DoneInv ==
    pc \in Complete =>
        stable = image.stable /\ ~flag /\ mode \in {"linux", "booting", "bricked"}

\* Before its own trigger a run finds the camera restarting, or a request
\* pending, only after a power loss or an earlier run; from its verification on
\* a wrong erase size means such a restart.
TriggerInv ==
    /\ pc # "idle" \/ pending => invocation > 0
    /\ mode # "linux" => powerCycles > 0 \/ invocation > 0
    /\ pc \in BeforeTrigger =>
          /\ pending => invocation > 1
          /\ mode # "linux" => powerCycles > 0 \/ invocation > 1
    /\ (pc = "trigger" \/ pending) /\ erase_size # 4 =>
          restarted /\ (powerCycles > 0 \/ invocation > 1)

IInv == TypeOK /\ FilesInv /\ ContentInv /\ FlagInv /\ DoneInv /\ TriggerInv

\* A camera with any history satisfies the invariant before the first run.
LEMMA InitInv == Init => IInv
  <1> SUFFICES ASSUME Init PROVE IInv
    OBVIOUS
  <1> USE UnitAssumption DEF Init
  <1>1. TypeOK
    <2>1. stable \in Stable
      OBVIOUS
    <2>2. image \in Images
      BY <2>1 DEF Images
    <2>3. invocation \in 0 .. INVOCATIONS /\ powerCycles \in 0 .. MAX_POWER_CYCLES
      OBVIOUS
    <2>4. stable \in Stable \union {DAMAGED} /\ backup \in Stable /\ original \in Stable
      BY <2>1
    <2>5. programmed \in Images /\ confirmed \subseteq Images
      BY <2>2
    <2>6. pc \in Ended /\ old \in {4, 16} /\ erase_size \in {4, 16}
      BY DEF Ended
    <2> QED
      BY <2>2, <2>3, <2>4, <2>5, <2>6, Zenon DEF TypeOK
  <1>2. FilesInv /\ DoneInv /\ TriggerInv
    BY DEF FilesInv, DoneInv, TriggerInv, Complete, Checked, Agreed, Matched, BeforeTrigger,
           AfterTrigger
  <1>3. ContentInv /\ FlagInv
    BY DEF ContentInv, FlagInv, Complete, AfterTrigger
  <1> QED
    BY <1>1, <1>2, <1>3 DEF IInv

\* The steps up to the trigger keep the invariant.
LEMMA PrepareInv ==
    ASSUME IInv, UNCHANGED original, NEW i \in Images, NEW b \in Stable,
           Begin(i, b) \/ Load \/ Confirm \/ PrepareFails \/ Probe \/ ReadLive \/ Checks \/ Patch
               \/ Verify \/ Trigger
    PROVE  IInv'
  <1> USE UnitAssumption DEF IInv, TypeOK, FilesInv, ContentInv, FlagInv, DoneInv, TriggerInv
  <1> USE DEF Goto, Camera, Run, CameraOnly, hostVars, flashVars, ramVars, cameraVars
  <1> USE DEF Complete, Checked, Agreed, Matched, Ended, BeforeTrigger, AfterTrigger
  <1>1. CASE Begin(i, b)
    <2>1. TypeOK'
      <3>1. invocation' \in 0 .. INVOCATIONS
        BY <1>1 DEF Begin
      <3> QED
        BY <1>1, <3>1 DEF Begin
    <2>2. FilesInv' /\ ContentInv' /\ FlagInv' /\ DoneInv' /\ TriggerInv'
      BY <1>1 DEF Begin
    <2> QED
      BY <2>1, <2>2
  <1>2. CASE Load
    BY <1>2 DEF Load, SameUnit
  <1>3. CASE Confirm
    BY <1>3 DEF Confirm
  <1>4. CASE PrepareFails
    BY <1>4 DEF PrepareFails
  <1>5. CASE Probe
    BY <1>5 DEF Probe
  <1>6. CASE ReadLive
    BY <1>6 DEF ReadLive, SameUnit
  <1>7. CASE Checks
    BY <1>7 DEF Checks
  <1>8. CASE Patch
    BY <1>8 DEF Patch
  <1>9. CASE Verify
    <2>1. TypeOK'
      <3>1. restarted' \in BOOLEAN /\ pc' \in {"trigger", "error"}
        BY <1>9 DEF Verify
      <3> QED
        BY <1>9, <3>1 DEF Verify
    <2>2. FilesInv' /\ ContentInv' /\ FlagInv' /\ DoneInv' /\ TriggerInv'
      BY <1>9 DEF Verify
    <2> QED
      BY <2>1, <2>2
  <1>10. CASE Trigger
    <2>1. TypeOK'
      <3>1. pending' \in BOOLEAN /\ pc' \in {"reply", "error"}
        BY <1>10 DEF Trigger
      <3>2. UNCHANGED <<mode, flashVars, erase_size, adb, programmed, powerCycles, restarted,
                        write_failed>>
        BY <1>10 DEF Trigger
      <3> QED
        BY <1>10, <3>1, <3>2 DEF Trigger
    <2>2. FilesInv' /\ ContentInv' /\ FlagInv' /\ DoneInv' /\ TriggerInv'
      BY <1>10 DEF Trigger
    <2> QED
      BY <2>1, <2>2
  <1> QED
    BY <1>1, <1>2, <1>3, <1>4, <1>5, <1>6, <1>7, <1>8, <1>9, <1>10

\* The steps after the trigger keep the invariant.
LEMMA FollowInv ==
    ASSUME IInv, UNCHANGED original, 
           TriggerReply \/ BootSeen \/ Transfer \/ NormalSeen \/ AdbProbe \/ Consent \/ StartAdb
               \/ AdbSeen \/ Readback \/ FailsAfter \/ DeadlinePasses
    PROVE  IInv'
  <1> USE UnitAssumption DEF IInv, TypeOK, FilesInv, ContentInv, FlagInv, DoneInv, TriggerInv
  <1> USE DEF Goto, Camera, Run, CameraOnly, hostVars, flashVars, ramVars, cameraVars
  <1> USE DEF Complete, Checked, Agreed, Matched, Ended, BeforeTrigger, AfterTrigger
  <1>1. CASE TriggerReply
    BY <1>1 DEF TriggerReply, HostGoes
  <1>2. CASE BootSeen
    BY <1>2 DEF BootSeen, HostGoes
  <1>3. CASE Transfer
    <2>1. TypeOK'
      <3>1. write_failed' \in BOOLEAN /\ programmed' \in Images
        BY <1>3 DEF Transfer
      <3> QED
        BY <1>3, <3>1 DEF Transfer
    <2>2. FilesInv' /\ ContentInv' /\ FlagInv' /\ DoneInv' /\ TriggerInv'
      BY <1>3 DEF Transfer
    <2> QED
      BY <2>1, <2>2
  <1>4. CASE NormalSeen
    BY <1>4 DEF NormalSeen, HostGoes
  <1>5. CASE AdbProbe
    BY <1>5 DEF AdbProbe, HostGoes
  <1>6. CASE Consent
    BY <1>6 DEF Consent, HostGoes
  <1>7. CASE StartAdb
    BY <1>7 DEF StartAdb
  <1>8. CASE AdbSeen
    BY <1>8 DEF AdbSeen, HostGoes
  <1>9. CASE Readback
    BY <1>9 DEF Readback, Online
  <1>10. CASE FailsAfter
    BY <1>10 DEF FailsAfter, HostGoes
  <1>11. CASE DeadlinePasses
    BY <1>11 DEF DeadlinePasses
  <1> QED
    BY <1>1, <1>2, <1>3, <1>4, <1>5, <1>6, <1>7, <1>8, <1>9, <1>10, <1>11

\* What an interrupted erase or write leaves is still the camera's own.
LEMMA HalfWrittenContent ==
    ASSUME IInv, mode = "programming", HalfWritten
    PROVE  /\ stable' \in Stable \union {DAMAGED} /\ config' \in {"image", "other"}
           /\ flag' \in BOOLEAN /\ stable'.unit = CAMERA
           /\ stable' \in {original, DAMAGED} \/ \E i \in confirmed : stable' = i.stable
  <1>1. programmed.stable \in Stable /\ programmed.magic \in BOOLEAN
    BY DEF IInv, TypeOK, Images
  <1>2. DAMAGED.unit = CAMERA
    BY DEF DAMAGED
  <1>3. CASE stable' = stable
    BY <1>1, <1>3 DEF IInv, TypeOK, HalfWritten, ContentInv
  <1>4. CASE stable' = programmed.stable
    BY <1>1, <1>4 DEF IInv, TypeOK, HalfWritten, ContentInv
  <1>5. CASE stable' = DAMAGED
    BY <1>1, <1>2, <1>5 DEF IInv, TypeOK, HalfWritten
  <1> QED
    BY <1>3, <1>4, <1>5 DEF HalfWritten

\* The camera keeps the invariant.
LEMMA CameraInv ==
    ASSUME IInv, UNCHANGED original, CameraStep \/ ConfigWrite \/ PowerCycle
    PROVE  IInv'
  <1> USE UnitAssumption DEF IInv, TypeOK, FilesInv, ContentInv, FlagInv, DoneInv, TriggerInv
  <1> USE DEF Goto, Camera, Run, CameraOnly, hostVars, flashVars, ramVars, cameraVars
  <1> USE DEF Complete, Checked, Agreed, Matched, Ended, BeforeTrigger, AfterTrigger
  <1>1. CASE HandleTrigger
    <2>1. TypeOK'
      <3>1. flag' \in BOOLEAN /\ config' \in {"image", "other"}
        BY <1>1 DEF HandleTrigger
      <3>2. UNCHANGED <<stable, erase_size, adb, programmed, powerCycles, restarted, write_failed>>
        BY <1>1 DEF HandleTrigger
      <3>3. UNCHANGED hostVars /\ pending' = FALSE /\ mode' = "booting"
        BY <1>1 DEF HandleTrigger
      <3>4. /\ pending' \in BOOLEAN
            /\ mode' \in {"linux", "updater", "programming", "booting", "bricked"}
        BY <3>3
      <3>5. pc' \in Ended \union BeforeTrigger \union AfterTrigger
        BY <3>3
      <3> HIDE DEF Ended, BeforeTrigger, AfterTrigger
      <3> QED
        BY <3>1, <3>2, <3>3, <3>4, <3>5
    <2>2. FilesInv' /\ ContentInv' /\ FlagInv' /\ DoneInv' /\ TriggerInv'
      BY <1>1 DEF HandleTrigger
    <2> QED
      BY <2>1, <2>2
  <1>2. CASE Boot
    <2>1. TypeOK'
      <3>1. adb' \in BOOLEAN /\ config' \in {"image", "other"}
        BY <1>2 DEF Boot
      <3>2. mode' \in {"linux", "updater", "bricked"}
        BY <1>2 DEF Boot
      <3>3. UNCHANGED hostVars /\ UNCHANGED <<stable, flag, programmed, powerCycles, write_failed>>
        BY <1>2 DEF Boot
      <3>4. erase_size' = 16 /\ pending' = FALSE /\ restarted' = TRUE
        BY <1>2 DEF Boot
      <3> HIDE DEF Ended, BeforeTrigger, AfterTrigger, FilesInv, ContentInv, FlagInv, DoneInv,
                   TriggerInv
      <3> QED
        BY <3>1, <3>2, <3>3, <3>4
    <2>2. FilesInv' /\ ContentInv' /\ FlagInv' /\ DoneInv' /\ TriggerInv'
      BY <1>2 DEF Boot
    <2> QED
      BY <2>1, <2>2
  <1>3. CASE Program
    <2>1. TypeOK'
      <3>1. programmed.stable \in Stable /\ programmed.magic \in BOOLEAN
        BY DEF Images
      <3>2. stable' \in Stable \union {DAMAGED} /\ config' \in {"image", "other"}
            /\ flag' \in BOOLEAN /\ write_failed' \in BOOLEAN
        BY <1>3, <3>1, HalfWrittenContent DEF Program
      <3> QED
        BY <1>3, <3>2 DEF Program
    <2>2. FilesInv' /\ FlagInv' /\ DoneInv' /\ TriggerInv'
      BY <1>3 DEF Program, HalfWritten
    <2>3. ContentInv'
      BY <1>3, HalfWrittenContent DEF Program
    <2> QED
      BY <2>1, <2>2, <2>3
  <1>4. CASE ConfigWrite
    BY <1>4 DEF ConfigWrite
  <1>5. CASE PowerCycle
    <2>1. TypeOK'
      <3>1. stable' \in Stable \union {DAMAGED} /\ config' \in {"image", "other"}
            /\ flag' \in BOOLEAN
        BY <1>5, HalfWrittenContent DEF PowerCycle
      <3>2. powerCycles' \in 0 .. MAX_POWER_CYCLES
        BY <1>5 DEF PowerCycle
      <3> QED
        BY <1>5, <3>1, <3>2 DEF PowerCycle
    <2>2. FilesInv' /\ FlagInv' /\ DoneInv'
      BY <1>5 DEF PowerCycle, HalfWritten
    <2>3. TriggerInv'
      BY <1>5 DEF PowerCycle
    <2>4. ContentInv'
      BY <1>5, HalfWrittenContent DEF PowerCycle
    <2> QED
      BY <2>1, <2>2, <2>3, <2>4
  <1> QED
    BY <1>1, <1>2, <1>3, <1>4, <1>5 DEF CameraStep

\* The invariant holds in every state of every run.
THEOREM Inductive == Spec => []IInv
  <1>1. IInv /\ [Next]_vars => IInv'
    <2> SUFFICES ASSUME IInv, [Next]_vars PROVE IInv'
      OBVIOUS
    <2>1. CASE UNCHANGED vars
      BY <2>1 DEF vars, hostVars, cameraVars, flashVars, ramVars, IInv, TypeOK, FilesInv,
                  ContentInv, FlagInv, DoneInv, TriggerInv
    <2>2. ASSUME NEW i \in Images, NEW b \in Stable, Begin(i, b), UNCHANGED original
          PROVE  IInv'
      BY <2>2, PrepareInv
    <2>3. ASSUME HostStep \/ DeadlinePasses, UNCHANGED original PROVE IInv'
      <3>1. image \in Images /\ backup \in Stable
        BY DEF IInv, TypeOK
      <3> QED
        BY <2>3, <3>1, PrepareInv, FollowInv DEF HostStep
    <2>4. ASSUME CameraStep \/ ConfigWrite \/ PowerCycle, UNCHANGED original PROVE IInv'
      BY <2>4, CameraInv
    <2> QED
      BY <2>1, <2>2, <2>3, <2>4 DEF Next, Step
  <1> QED
    BY InitInv, <1>1, PTL DEF Spec

\* Every variable of command_restore and of the camera keeps its type.
THEOREM TypeCorrect == Spec => []TypeOK
  <1>1. IInv => TypeOK
    BY DEF IInv
  <1> QED
    BY Inductive, <1>1, PTL

\* "Require a restore image to be the same unit": whatever files are named and
\* however runs fail and overlap with a late camera, the flash holds only the
\* camera's own content, and only what RESTORE-CC2 was typed for.
THEOREM OwnContent == Spec => []OwnConfirmedContent
  <1>1. IInv => OwnConfirmedContent
    BY DEF IInv, ContentInv, OwnConfirmedContent
  <1> QED
    BY Inductive, <1>1, PTL

\* "Restore complete" is said, and stays true, only of a flash that holds the
\* image, without upgrade words and without a trigger still to be carried out.
THEOREM Restored == Spec => []CompleteMeansRestored
  <1>1. IInv => CompleteMeansRestored
    BY DEF IInv, FlagInv, DoneInv, Complete, CompleteMeansRestored
  <1> QED
    BY Inductive, <1>1, PTL

\* The erase size is right when the trigger is sent, unless the camera restarted
\* after the check because of a power loss or an earlier run's trigger.
THEOREM Prepared == Spec => []PreparedTrigger
  <1>1. IInv => PreparedTrigger
    BY DEF IInv, TriggerInv, PreparedTrigger
  <1> QED
    BY Inductive, <1>1, PTL
=============================================================================
