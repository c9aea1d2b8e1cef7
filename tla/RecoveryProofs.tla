--------------------------- MODULE RecoveryProofs ---------------------------
(***************************************************************************)
(* The safety properties of the recovery, for any files, any list of       *)
(* defaults, any capacity of config that has room for them, and any number *)
(* of reads, good or bad.                                                  *)
(***************************************************************************)
EXTENDS Recovery, FiniteSetTheorems, TLAPS

\* What the files build-image may be given can be trusted for: a backup's unit
\* fields are the camera's, and every other file with wrong ones is a bad read.
Strange == {c \in DOMAIN dumps : dumps[c].image.unit # "own"}
Trusted == bad < MIN_IDENTICAL_READS /\ risky = {}
ReadsInv ==
    Trusted =>
        /\ \A c \in DOMAIN dumps :
              dumps[c].reads = MIN_IDENTICAL_READS => dumps[c].image.unit = "own"
        /\ Cardinality(Strange) <= bad

\* The camera has its own unit fields, and so has every bundle of enough reads.
IdentityInv ==
    Trusted =>
        /\ flash.unit = "own"
        /\ bundle # NONE /\ bundle.evidence = "enough" => bundle.input.unit = "own"

\* A bundle is what build_recovery makes of its input.
BundleInv ==
    bundle # NONE =>
        /\ bundle.input.unit # "unsupported"
        /\ bundle.image = RecoveryImage(bundle.input, bundle.mode)
        /\ bundle.regions = ChangedRegions(bundle.input, bundle.mode)
        /\ Fits(bundle.image.config)

\* cp has the file it writes open and cut.
CopyInv ==
    writing =>
        /\ phase \in {"booting", "hung"} /\ at \in Steps
        /\ flash.config.files[Copies[at]] = "cut"

Present(k) == flash.config.files[Copies[k]] # "absent"

\* The first m defaults exist and the log has room for the others.
Room(m) ==
    /\ \A k \in Steps : k <= m => Present(k)
    /\ flash.config.used + 2 * (Len(Copies) - m) + (IF writing THEN 1 ELSE 0) <= CAPACITY

\* A recovered camera: the patched script leaves existing files alone, has been
\* through the defaults before the one it is at, and never runs out of room.
RecoveredInv ==
    recovered =>
        /\ bundle # NONE /\ flash.window = "patched"
        /\ bundle.mode = "preserve-files" =>
              \A n \in Names :
                  bundle.input.config.files[n] = "own" => flash.config.files[n] = "own"
        /\ \A k \in Steps : phase = "up" \/ (phase = "booting" /\ k < at) => Present(k)
        /\ \E m \in 0 .. Len(Copies) : Room(m)

\* On a recovered camera only the cp that is at work has a file cut.
WholeInv ==
    /\ recovered /\ ~interrupted
    /\ \A n \in Defaults : bundle.image.config.files[n] # "cut"
    => \A n \in Defaults : flash.config.files[n] = "cut" => writing /\ n = Copies[at]

IInv ==
    TypeOK /\ ReadsInv /\ IdentityInv /\ BundleInv /\ CopyInv /\ RecoveredInv /\ WholeInv
----------------------------------------------------------------------------
(* The operators. *)

\* Files are evidence of three reads only if one of them is a backup's or there
\* are three of them.
LEMMA EnoughReads ==
    ASSUME TypeOK, NEW files \in SUBSET DOMAIN dumps,
           ~(EvidencedReads(files) < MIN_IDENTICAL_READS)
    PROVE  \/ \E c \in files : dumps[c].reads = MIN_IDENTICAL_READS
           \/ Cardinality(files) >= MIN_IDENTICAL_READS
  <1> DEFINE n == Cardinality(files)
             S == {n} \union {dumps[c].reads : c \in files}
  <1>1. DOMAIN dumps = 1 .. Len(dumps) /\ Len(dumps) \in Nat
    BY DEF TypeOK
  <1>2. IsFiniteSet(files)
    <2>1. IsFiniteSet(1 .. Len(dumps))
      BY <1>1, FS_Interval
    <2>2. files \in SUBSET (1 .. Len(dumps))
      BY <1>1
    <2> QED
      BY <2>1, <2>2, FS_Subset
  <1>3. n \in Nat
    BY <1>2, FS_CardinalityType
  <1>4. \A c \in DOMAIN dumps : dumps[c].reads \in {1, 3}
    <2>1. \A c \in DOMAIN dumps : dumps[c] \in Dump
      BY <1>1 DEF TypeOK
    <2> QED
      BY <2>1 DEF Dump, MIN_IDENTICAL_READS
  <1> HIDE DEF n
  <1>5. S \subseteq {1, 3, n} /\ n \in S
    BY <1>4
  <1>6. \A r \in S : r \in Nat
    BY <1>3, <1>5
  <1> HIDE DEF S
  <1>7. \E x \in S : \A y \in S : x >= y
    <2>1. CASE n < 3 /\ 3 \in S
      BY <1>3, <1>5, <2>1
    <2>2. CASE n < 1 /\ 3 \notin S /\ 1 \in S
      BY <1>3, <1>5, <2>2
    <2>3. CASE ~(n < 3 /\ 3 \in S) /\ ~(n < 1 /\ 3 \notin S /\ 1 \in S)
      BY <1>3, <1>5, <2>3
    <2> QED
      BY <2>1, <2>2, <2>3
  <1>8. Max(S) \in S
    BY <1>7 DEF Max
  <1>9. Max(S) >= 3
    <2>1. ~(Max(S) < 3)
      BY DEF S, n, EvidencedReads, MIN_IDENTICAL_READS
    <2> QED
      BY <1>6, <1>8, <2>1
  <1>10. 3 \in S \/ n >= 3
    <2>1. PICK m \in S : m >= 3
      BY <1>8, <1>9
    <2>2. m = 1 \/ m = 3 \/ m = n
      BY <1>5
    <2> QED
      BY <2>1, <2>2
  <1>11. 3 \in S /\ ~(n >= 3) => \E c \in files : dumps[c].reads = 3
    BY <1>3 DEF S
  <1> QED
    BY <1>10, <1>11 DEF MIN_IDENTICAL_READS, n

\* What is rebuilt of config, when it fits.
LEMMA RebuiltType ==
    ASSUME NEW config \in Config, NEW mode \in Modes, Fits(RebuiltConfig(config, mode))
    PROVE  /\ RebuiltConfig(config, mode) \in Config
           /\ RebuiltConfig(config, mode).used <= FIRST_BLOCK
           /\ mode = "preserve-files" => RebuiltConfig(config, mode).files = config.files
  <1> DEFINE files == IF mode = "serial-only" THEN [n \in Names |-> "absent"] ELSE config.files
             used == 1 + Cardinality({n \in Names : files[n] # "absent"})
  <1>1. files \in [Names -> Contents]
    BY DEF Config, Contents
  <1>2. used \in Nat
    <2>1. IsFiniteSet({n \in Names : files[n] # "absent"})
      BY CopiesAssumption, FS_Subset
    <2> QED
      BY <2>1, FS_CardinalityType
  <1>3. mode = "preserve-files" => files = config.files
    OBVIOUS
  <1> HIDE DEF files
  <1>4. RebuiltConfig(config, mode) =
            [files |-> files, serial |-> TRUE, used |-> used, compact |-> TRUE, words |-> FALSE]
    BY DEF RebuiltConfig, Compact, files
  <1> HIDE DEF used
  <1>5. used <= FIRST_BLOCK
    BY <1>4 DEF Fits
  <1>6. FIRST_BLOCK <= CAPACITY /\ FIRST_BLOCK \in Nat /\ CAPACITY \in Nat
    BY CopiesAssumption, RecoveryAssumption
  <1>7. used \in 0 .. CAPACITY
    BY <1>2, <1>5, <1>6
  <1> QED
    BY <1>1, <1>3, <1>4, <1>5, <1>7 DEF Config

\* The generated image: the script patched, config rebuilt, the rest as read.
LEMMA ImageType ==
    ASSUME NEW image \in Images, NEW mode \in Modes, Fits(RebuiltConfig(image.config, mode))
    PROVE  LET built == RecoveryImage(image, mode)
           IN  /\ built \in Images
               /\ built.unit = image.unit /\ built.window = "patched"
               /\ built.config = RebuiltConfig(image.config, mode)
               /\ built = [unit |-> image.unit, window |-> "patched",
                           config |-> RebuiltConfig(image.config, mode)]
  <1> DEFINE config == RebuiltConfig(image.config, mode)
  <1>1. image.config \in Config
    BY DEF Images, Flash
  <1>2. config \in Config
    BY <1>1, RebuiltType
  <1> HIDE DEF config
  <1>3. RecoveryImage(image, mode) =
            [unit |-> image.unit, window |-> "patched", config |-> config]
    <2>1. image \in [unit : {"own", "other", "unsupported"}, window : {"stock", "patched"},
                     config : Config]
      BY DEF Images, Flash
    <2>2. RecoveryImage(image, mode) = [image EXCEPT !.window = "patched", !.config = config]
      BY DEF RecoveryImage, config
    <2> QED
      BY <2>1, <2>2
  <1> QED
    BY <1>2, <1>3 DEF Images, Flash, config

\* A read that goes wrong still has the form of a flash.
LEMMA MisreadType ==
    ASSUME NEW f \in Images
    PROVE  Misread(f) \subseteq Images
  <1>1. ASSUME NEW u \in {"other", "unsupported"}
        PROVE  [f EXCEPT !.unit = u] \in Images
    BY DEF Images, Flash
  <1>2. ASSUME NEW n \in Names
        PROVE  [f EXCEPT !.config.files[n] = "absent"] \in Images
    <2>1. f.config \in Config
      BY DEF Images, Flash
    <2>2. [f.config EXCEPT !.files[n] = "absent"] \in Config
      BY <2>1 DEF Config, Contents
    <2> QED
      BY <2>2 DEF Images, Flash
  <1> QED
    BY <1>1, <1>2 DEF Misread

\* A node is appended to a log that is not full.
LEMMA NodeEffect ==
    ASSUME CameraTypeOK, ~Full, NEW n \in Names, NEW content \in Contents,
           AppendNode(n, content)
    PROVE  /\ flash' \in Flash({"own", "other"})
           /\ flash'.unit = flash.unit /\ flash'.window = flash.window
           /\ flash'.config.files = [flash.config.files EXCEPT ![n] = content]
           /\ flash'.config.used = flash.config.used + 1
  <1> DEFINE config == [flash.config EXCEPT !.files[n] = content, !.used = @ + 1,
                                            !.compact = FALSE]
  <1>1. flash \in [unit : {"own", "other"}, window : {"stock", "patched"}, config : Config]
    BY DEF CameraTypeOK, Flash
  <1>2. flash.config \in Config
    BY <1>1
  <1>3. flash.config.used + 1 \in 0 .. CAPACITY
    BY <1>2, CopiesAssumption DEF Config, Full
  <1>4. /\ config \in Config
        /\ config.files = [flash.config.files EXCEPT ![n] = content]
        /\ config.used = flash.config.used + 1
    BY <1>2, <1>3 DEF Config
  <1>5. flash' = [flash EXCEPT !.config = config]
    BY <1>1, <1>2 DEF AppendNode, Config
  <1> HIDE DEF config
  <1> QED
    BY <1>1, <1>4, <1>5 DEF Flash

----------------------------------------------------------------------------
(* The camera. *)

\* The script's copies are numbered from 1, and what it copies are files of config.
LEMMA StepsFact ==
    /\ Len(Copies) \in Nat /\ CAPACITY \in Nat
    /\ Steps = 1 .. Len(Copies)
    /\ \A k \in Steps : Copies[k] \in Names /\ Copies[k] \in Defaults
    /\ Defaults \subseteq Names
  <1>1. Len(Copies) \in Nat /\ Steps = 1 .. Len(Copies) /\ CAPACITY \in Nat
    BY CopiesAssumption DEF Steps
  <1>2. \A k \in Steps : Copies[k] \in Names
    BY CopiesAssumption DEF Steps
  <1> QED
    BY <1>1, <1>2 DEF Defaults

\* The parts of the camera's state the steps below look at.
LEMMA CameraTypes ==
    ASSUME CameraTypeOK
    PROVE  /\ flash.config.files \in [Names -> Contents]
           /\ flash.config.used \in Nat /\ flash.config.used <= CAPACITY
           /\ at \in Nat /\ at >= 1 /\ at <= Len(Copies) + 1
           /\ flash.unit \in {"own", "other"}
  <1>1. flash \in [unit : {"own", "other"}, window : {"stock", "patched"}, config : Config]
    BY DEF CameraTypeOK, Flash
  <1>2. flash.config \in Config
    BY <1>1
  <1>3. flash.config.files \in [Names -> Contents] /\ flash.config.used \in 0 .. CAPACITY
    BY <1>2 DEF Config
  <1> QED
    BY <1>1, <1>3, StepsFact DEF CameraTypeOK

\* What a step of the camera leaves alone on the host stays right.
LEMMA HostFrame ==
    ASSUME IInv, UNCHANGED hostVars, CameraTypeOK', flash'.unit = flash.unit
    PROVE  TypeOK' /\ ReadsInv' /\ IdentityInv' /\ BundleInv'
  <1>1. /\ dumps' = dumps /\ preserved' = preserved /\ bundle' = bundle
        /\ bad' = bad /\ recovered' = recovered /\ risky' = risky
    BY DEF hostVars
  <1>2. TypeOK'
    BY <1>1 DEF IInv, TypeOK
  <1>3. ReadsInv'
    BY <1>1 DEF IInv, ReadsInv, Trusted, Strange
  <1>4. IdentityInv'
    BY <1>1 DEF IInv, IdentityInv, Trusted
  <1>5. BundleInv'
    BY <1>1 DEF IInv, BundleInv
  <1> QED
    BY <1>2, <1>3, <1>4, <1>5

\* A recovered camera that has a default to copy has room for it.
LEMMA RecoveredHasRoom ==
    ASSUME IInv, recovered, Copying, writing \/ ~Skipped
    PROVE  ~Full
  <1>1. PICK m \in 0 .. Len(Copies) : Room(m)
    BY DEF IInv, RecoveredInv
  <1> USE StepsFact, CameraTypes DEF IInv, TypeOK
  <1>2. CASE writing
    BY <1>1, <1>2 DEF Room, Full
  <1>3. CASE ~writing /\ ~Skipped
    <2>1. ~Present(at)
      BY <1>3 DEF Skipped, Skips, Present, RecoveredInv
    <2>2. at > m
      BY <1>1, <2>1 DEF Room, Copying
    <2> QED
      BY <1>1, <1>3, <2>2 DEF Room, Full, Copying
  <1> QED
    BY <1>2, <1>3

\* The steps that write nothing to the flash.
LEMMA QuietStep ==
    ASSUME IInv, PowerOn \/ SkipCopy \/ NoSpace \/ Started \/ PowerLoss, UNCHANGED hostVars
    PROVE  IInv'
  <1>1. flash' = flash /\ recovered' = recovered /\ bundle' = bundle
    BY DEF PowerOn, SkipCopy, NoSpace, Started, PowerLoss, hostVars
  <1>2. CameraTypeOK
    BY DEF IInv, TypeOK
  <1>3. phase' \in {"off", "booting", "up", "hung", "updater"}
    BY <1>2 DEF PowerOn, SkipCopy, NoSpace, Started, PowerLoss, CameraTypeOK
  <1>4. at' \in 1 .. Len(Copies) + 1
    BY <1>2, StepsFact DEF PowerOn, SkipCopy, NoSpace, Started, PowerLoss, CameraTypeOK, Copying
  <1>5. writing' \in BOOLEAN /\ interrupted' \in BOOLEAN
    BY <1>2, Zenon DEF PowerOn, SkipCopy, NoSpace, Started, PowerLoss, CameraTypeOK
  <1>6. CameraTypeOK'
    BY <1>1, <1>2, <1>3, <1>4, <1>5 DEF CameraTypeOK
  <1>7. TypeOK' /\ ReadsInv' /\ IdentityInv' /\ BundleInv'
    BY <1>1, <1>6, HostFrame
  <1>8. CopyInv'
    <2>1. CopyInv
      BY DEF IInv
    <2>2. CASE PowerOn \/ SkipCopy \/ PowerLoss
      BY <2>1, <2>2 DEF PowerOn, SkipCopy, PowerLoss, CopyInv
    <2>3. CASE NoSpace
      BY <1>1, <2>1, <2>3 DEF NoSpace, CopyInv
    <2>4. CASE Started
      BY <2>1, <2>4, StepsFact DEF Started, CopyInv
    <2> QED
      BY <2>2, <2>3, <2>4
  <1>9. recovered => ~NoSpace
    BY RecoveredHasRoom DEF NoSpace
  <1>10. RecoveredInv'
    <2> SUFFICES ASSUME recovered
                 PROVE  RecoveredInv'
      BY <1>1 DEF RecoveredInv
    <2>1. PowerOn \/ SkipCopy \/ Started \/ PowerLoss
      BY <1>9
    <2>2. RecoveredInv
      BY DEF IInv
    <2>3. \A k \in Steps : Present(k)' = Present(k)
      BY <1>1 DEF Present
    <2>4. \A k \in Steps : phase' = "up" \/ (phase' = "booting" /\ k < at') => Present(k)
      <3>1. CASE PowerOn
        BY <3>1, StepsFact DEF PowerOn
      <3>2. CASE SkipCopy
        <4>1. Present(at)
          BY <3>2 DEF SkipCopy, Skipped, Skips, Present
        <4>2. \A k \in Steps : k < at + 1 => k < at \/ k = at
          BY <1>2, CameraTypes, StepsFact
        <4> QED
          BY <2>2, <3>2, <4>1, <4>2 DEF SkipCopy, Copying, RecoveredInv
      <3>3. CASE Started
        BY <2>2, <3>3, StepsFact DEF Started, RecoveredInv
      <3>4. CASE PowerLoss
        BY <3>4 DEF PowerLoss
      <3> QED
        BY <2>1, <3>1, <3>2, <3>3, <3>4
    <2>5. PICK m \in 0 .. Len(Copies) : Room(m)
      BY <2>2 DEF RecoveredInv
    <2>6. writing' = writing \/ writing' = FALSE
      BY <2>1 DEF PowerOn, SkipCopy, Started, PowerLoss
    <2>7. Room(m)'
      BY <1>1, <1>2, <2>3, <2>5, <2>6, StepsFact, CameraTypes DEF Room
    <2> QED
      BY <1>1, <2>2, <2>3, <2>4, <2>7 DEF RecoveredInv
  <1>11. WholeInv'
    <2> SUFFICES ASSUME recovered, ~interrupted',
                        \A n \in Defaults : bundle.image.config.files[n] # "cut",
                        NEW n \in Defaults, flash.config.files[n] = "cut"
                 PROVE  writing' /\ n = Copies[at']
      BY <1>1 DEF WholeInv
    <2>1. PowerOn \/ SkipCopy \/ Started \/ PowerLoss
      BY <1>9
    <2>2. ~interrupted /\ ~(PowerLoss /\ writing)
      <3>1. CASE PowerLoss
        <4>1. interrupted' = (interrupted \/ writing)
          BY <3>1 DEF PowerLoss
        <4> QED
          BY <4>1
      <3>2. CASE ~PowerLoss
        BY <2>1, <3>2 DEF PowerOn, SkipCopy, Started
      <3> QED
        BY <3>1, <3>2
    <2>3. writing /\ n = Copies[at]
      BY <2>2 DEF IInv, WholeInv
    <2>4. writing => phase \in {"booting", "hung"} /\ at \in Steps
      BY DEF IInv, CopyInv
    <2>5. FALSE
      <3>1. ~PowerOn /\ ~SkipCopy
        BY <2>3, <2>4 DEF PowerOn, SkipCopy
      <3>2. ~Started
        <4>1. at # Len(Copies) + 1
          BY <2>3, <2>4, StepsFact
        <4> QED
          BY <4>1 DEF Started
      <3> QED
        BY <2>1, <2>2, <2>3, <3>1, <3>2
    <2> QED
      BY <2>5
  <1> QED
    BY <1>7, <1>8, <1>10, <1>11 DEF IInv

\* cp opens its file, which did not exist on a recovered camera.
LEMMA OpenStep ==
    ASSUME IInv, OpenCopy, UNCHANGED hostVars
    PROVE  IInv'
  <1> DEFINE n == Copies[at]
  <1>1. CameraTypeOK
    BY DEF IInv, TypeOK
  <1>2. /\ Copying /\ ~writing /\ ~Skipped /\ ~Full /\ AppendNode(n, "cut")
        /\ writing' = TRUE /\ phase' = phase /\ at' = at /\ interrupted' = interrupted
        /\ recovered' = recovered /\ bundle' = bundle
    BY DEF OpenCopy, hostVars
  <1>3. n \in Names /\ at \in Steps /\ phase = "booting" /\ "cut" \in Contents
    BY <1>2, StepsFact DEF Copying, Contents
  <1>4. /\ flash' \in Flash({"own", "other"})
        /\ flash'.unit = flash.unit /\ flash'.window = flash.window
        /\ flash'.config.files = [flash.config.files EXCEPT ![n] = "cut"]
        /\ flash'.config.used = flash.config.used + 1
    BY <1>1, <1>2, <1>3, NodeEffect
  <1>5. CameraTypeOK'
    BY <1>1, <1>2, <1>4 DEF CameraTypeOK
  <1>6. TypeOK' /\ ReadsInv' /\ IdentityInv' /\ BundleInv'
    BY <1>4, <1>5, HostFrame
  <1>7. flash'.config.files[n] = "cut" /\ n \in DOMAIN flash.config.files
    BY <1>1, <1>3, <1>4, CameraTypes
  <1>8. \A x \in Names : x # n => flash'.config.files[x] = flash.config.files[x]
    BY <1>1, <1>4, CameraTypes
  <1>9. CopyInv'
    BY <1>2, <1>3, <1>7 DEF CopyInv
  <1>10. RecoveredInv'
    <2> SUFFICES ASSUME recovered
                 PROVE  RecoveredInv'
      BY <1>2 DEF RecoveredInv
    <2>1. RecoveredInv
      BY DEF IInv
    <2>2. flash.config.files[n] = "absent"
      BY <1>2, <2>1 DEF Skipped, Skips, RecoveredInv
    <2>3. \A k \in Steps : Present(k) => Present(k)'
      BY <1>7, <1>8, StepsFact DEF Present
    <2>5. bundle.mode = "preserve-files" =>
             \A x \in Names : bundle.input.config.files[x] = "own" => flash'.config.files[x] = "own"
      BY <1>8, <2>1, <2>2 DEF RecoveredInv
    <2>6. PICK m \in 0 .. Len(Copies) : Room(m)
      BY <2>1 DEF RecoveredInv
    <2>7. at > m /\ at \in 0 .. Len(Copies) /\ at \in Nat
      BY <1>3, <2>2, <2>6, StepsFact DEF Room, Present
    <2>8. \A k \in Steps : k <= at => Present(k)'
      <3>1. \A k \in Steps : k < at => Present(k)
        BY <1>3, <2>1 DEF RecoveredInv
      <3>2. \A k \in Steps : k <= at => k < at \/ k = at
        BY <2>7, StepsFact
      <3>3. \A k \in Steps : k = at => Present(k)'
        BY <1>7 DEF Present
      <3> QED
        BY <2>3, <3>1, <3>2, <3>3
    <2>9. flash.config.used + 2 * (Len(Copies) - m) <= CAPACITY
      BY <1>1, <1>2, <2>6, StepsFact, CameraTypes DEF Room
    <2>10. (flash.config.used + 1) + 2 * (Len(Copies) - at) + 1 <= CAPACITY
      BY <1>1, <2>7, <2>9, StepsFact, CameraTypes
    <2>11. Room(at)'
      BY <1>2, <1>4, <2>8, <2>10 DEF Room
    <2>12. \E j \in 0 .. Len(Copies) : Room(j)'
      <3>1. at' \in 0 .. Len(Copies)
        BY <1>2, <2>7
      <3> QED
        BY <2>11, <3>1
    <2>13. \A k \in Steps : k < at => Present(k)'
      BY <2>7, <2>8, StepsFact
    <2> QED
      BY <1>2, <1>3, <1>4, <2>1, <2>5, <2>12, <2>13 DEF RecoveredInv
  <1>11. WholeInv'
    <2>1. WholeInv
      BY DEF IInv
    <2> QED
      BY <1>2, <1>8, <2>1, StepsFact DEF WholeInv
  <1> QED
    BY <1>6, <1>9, <1>10, <1>11 DEF IInv

\* cp writes its file, which is whole then.
LEMMA WriteStep ==
    ASSUME IInv, WriteCopy, UNCHANGED hostVars
    PROVE  IInv'
  <1> DEFINE n == Copies[at]
  <1>1. CameraTypeOK
    BY DEF IInv, TypeOK
  <1>2. /\ Copying /\ writing /\ ~Full /\ AppendNode(n, "default")
        /\ writing' = FALSE /\ phase' = phase /\ at' = at + 1 /\ interrupted' = interrupted
        /\ recovered' = recovered /\ bundle' = bundle
    BY DEF WriteCopy, hostVars
  <1>3. n \in Names /\ at \in Steps /\ phase = "booting" /\ "default" \in Contents
    BY <1>2, StepsFact DEF Copying, Contents
  <1>4. /\ flash' \in Flash({"own", "other"})
        /\ flash'.unit = flash.unit /\ flash'.window = flash.window
        /\ flash'.config.files = [flash.config.files EXCEPT ![n] = "default"]
        /\ flash'.config.used = flash.config.used + 1
    BY <1>1, <1>2, <1>3, NodeEffect
  <1>5. CameraTypeOK'
    <2>1. at' \in 1 .. Len(Copies) + 1
      BY <1>2, <1>3, StepsFact
    <2> QED
      BY <1>1, <1>2, <1>4, <2>1 DEF CameraTypeOK
  <1>6. TypeOK' /\ ReadsInv' /\ IdentityInv' /\ BundleInv'
    BY <1>4, <1>5, HostFrame
  <1>7. flash'.config.files[n] = "default" /\ flash.config.files[n] = "cut"
    <2>1. flash.config.files[n] = "cut"
      BY <1>2 DEF IInv, CopyInv
    <2> QED
      BY <1>1, <1>3, <1>4, <2>1, CameraTypes
  <1>8. \A x \in Names : x # n => flash'.config.files[x] = flash.config.files[x]
    BY <1>1, <1>4, CameraTypes
  <1>9. CopyInv'
    BY <1>2 DEF CopyInv
  <1>10. RecoveredInv'
    <2> SUFFICES ASSUME recovered
                 PROVE  RecoveredInv'
      BY <1>2 DEF RecoveredInv
    <2>1. RecoveredInv
      BY DEF IInv
    <2>3. \A k \in Steps : Present(k) => Present(k)'
      BY <1>7, <1>8, StepsFact DEF Present
    <2>4. \A k \in Steps : k < at + 1 => Present(k)'
      <3>1. \A k \in Steps : k < at => Present(k)
        BY <1>3, <2>1 DEF RecoveredInv
      <3>2. \A k \in Steps : k < at + 1 => k < at \/ k = at
        BY <1>3, StepsFact
      <3>3. Present(at)
        BY <1>7 DEF Present
      <3> QED
        BY <1>3, <2>3, <3>1, <3>2, <3>3
    <2>5. bundle.mode = "preserve-files" =>
             \A x \in Names : bundle.input.config.files[x] = "own" => flash'.config.files[x] = "own"
      BY <1>7, <1>8, <2>1 DEF RecoveredInv
    <2>6. PICK m \in 0 .. Len(Copies) : Room(m)
      BY <2>1 DEF RecoveredInv
    <2>7. flash.config.used + 2 * (Len(Copies) - m) + 1 <= CAPACITY
      BY <1>2, <2>6 DEF Room
    <2>8. (flash.config.used + 1) + 2 * (Len(Copies) - m) + 0 <= CAPACITY
      BY <1>1, <2>7, StepsFact, CameraTypes
    <2>9. Room(m)'
      BY <1>2, <1>4, <2>3, <2>6, <2>8 DEF Room
    <2> QED
      BY <1>2, <1>3, <1>4, <2>1, <2>4, <2>5, <2>9 DEF RecoveredInv
  <1>11. WholeInv'
    <2>1. WholeInv
      BY DEF IInv
    <2> QED
      BY <1>2, <1>7, <1>8, <2>1, StepsFact DEF WholeInv
  <1> QED
    BY <1>6, <1>9, <1>10, <1>11 DEF IInv

\* The owner writes a file once the camera is up and has all its defaults.
LEMMA OwnerStep ==
    ASSUME IInv, OwnerWrites, UNCHANGED hostVars
    PROVE  IInv'
  <1>1. CameraTypeOK
    BY DEF IInv, TypeOK
  <1>2. PICK n \in Names : AppendNode(n, "own")
    BY DEF OwnerWrites
  <1>3. /\ phase = "up" /\ ~Full
        /\ writing' = writing /\ phase' = phase /\ at' = at /\ interrupted' = interrupted
        /\ recovered' = recovered /\ bundle' = bundle
    BY DEF OwnerWrites, hostVars
  <1>4. /\ flash' \in Flash({"own", "other"})
        /\ flash'.unit = flash.unit /\ flash'.window = flash.window
        /\ flash'.config.files = [flash.config.files EXCEPT ![n] = "own"]
        /\ flash'.config.used = flash.config.used + 1
    <2>1. "own" \in Contents
      BY DEF Contents
    <2> QED
      BY <1>1, <1>2, <1>3, <2>1, NodeEffect
  <1>5. CameraTypeOK'
    BY <1>1, <1>3, <1>4 DEF CameraTypeOK
  <1>6. TypeOK' /\ ReadsInv' /\ IdentityInv' /\ BundleInv'
    BY <1>4, <1>5, HostFrame
  <1>7. ~writing
    BY <1>3 DEF IInv, CopyInv
  <1>8. \A x \in Names :
           flash'.config.files[x] = flash.config.files[x] \/ flash'.config.files[x] = "own"
    BY <1>1, <1>4, CameraTypes
  <1>9. CopyInv'
    BY <1>3, <1>7 DEF CopyInv
  <1>10. RecoveredInv'
    <2> SUFFICES ASSUME recovered
                 PROVE  RecoveredInv'
      BY <1>3 DEF RecoveredInv
    <2>1. RecoveredInv
      BY DEF IInv
    <2>2. \A k \in Steps : Present(k)'
      BY <1>3, <1>8, <2>1, StepsFact DEF Present, RecoveredInv
    <2>3. flash.config.used + 1 <= CAPACITY
      BY <1>1, <1>3, StepsFact, CameraTypes DEF Full
    <2>4. 2 * (Len(Copies) - Len(Copies)) = 0
      BY StepsFact
    <2>5. Room(Len(Copies))'
      BY <1>1, <1>3, <1>4, <1>7, <2>2, <2>3, <2>4, CameraTypes DEF Room
    <2>6. \E j \in 0 .. Len(Copies) : Room(j)'
      BY <2>5, StepsFact
    <2>7. bundle.mode = "preserve-files" =>
             \A x \in Names : bundle.input.config.files[x] = "own" => flash'.config.files[x] = "own"
      BY <1>8, <2>1 DEF RecoveredInv
    <2> QED
      BY <1>3, <1>4, <2>1, <2>2, <2>6, <2>7 DEF RecoveredInv
  <1>11. WholeInv'
    <2>1. WholeInv
      BY DEF IInv
    <2> QED
      BY <1>3, <1>8, <2>1, StepsFact DEF WholeInv
  <1> QED
    BY <1>6, <1>9, <1>10, <1>11 DEF IInv

----------------------------------------------------------------------------
(* The host. *)

\* What the camera holds is something a file may hold.
LEMMA FlashIsImage == CameraTypeOK => flash \in Images
  BY DEF CameraTypeOK, Flash, Images

\* A file is kept: one more to count if its unit fields are wrong.
LEMMA KeepEffect ==
    ASSUME TypeOK, Len(dumps) < MAX_DUMPS, NEW image \in Images,
           NEW reads \in {1, MIN_IDENTICAL_READS}, Keep(image, reads)
    PROVE  /\ dumps' \in Seq(Dump) /\ Len(dumps') <= MAX_DUMPS
           /\ \A c \in DOMAIN dumps' :
                 \/ c \in DOMAIN dumps /\ dumps'[c] = dumps[c]
                 \/ c = Len(dumps) + 1 /\ dumps'[c].image = image /\ dumps'[c].reads = reads
           /\ Cardinality(Strange) \in Nat
           /\ Cardinality(Strange') <= Cardinality(Strange) + 1
           /\ image.unit = "own" => Strange' = Strange
  <1> DEFINE d == [image |-> image, reads |-> reads]
             n == Len(dumps) + 1
  <1>1. d \in Dump /\ d.image = image /\ d.reads = reads
    BY DEF Dump
  <1>2. dumps \in Seq(Dump) /\ dumps' = Append(dumps, d)
    BY DEF TypeOK, Keep
  <1> HIDE DEF d
  <1>3. dumps' \in Seq(Dump) /\ Len(dumps') = n /\ Len(dumps) \in Nat
    BY <1>1, <1>2
  <1>4. DOMAIN dumps = 1 .. Len(dumps) /\ DOMAIN dumps' = 1 .. n
    BY <1>2, <1>3
  <1>5. /\ \A c \in 1 .. Len(dumps) : dumps'[c] = dumps[c]
        /\ dumps'[n] = d
    BY <1>1, <1>2
  <1>6. \A c \in 1 .. n : c \in 1 .. Len(dumps) \/ c = n
    BY <1>3
  <1>7. Strange \subseteq 1 .. Len(dumps) /\ IsFiniteSet(Strange)
    <2>1. Strange \in SUBSET (1 .. Len(dumps))
      BY <1>4 DEF Strange
    <2>2. IsFiniteSet(1 .. Len(dumps))
      BY <1>3, FS_Interval
    <2> QED
      BY <2>1, <2>2, FS_Subset
  <1>8. Cardinality(Strange) \in Nat
    BY <1>7, FS_CardinalityType
  <1>9. Strange' \subseteq Strange \union {n}
    BY <1>4, <1>5, <1>6 DEF Strange
  <1>10. Cardinality(Strange') <= Cardinality(Strange) + 1
    <2>1. /\ IsFiniteSet(Strange \union {n}) /\ Cardinality(Strange \union {n}) \in Nat
          /\ Cardinality(Strange \union {n}) <= Cardinality(Strange) + 1
      <3>1. /\ IsFiniteSet(Strange \union {n})
            /\ Cardinality(Strange \union {n}) =
                  IF n \in Strange THEN Cardinality(Strange) ELSE Cardinality(Strange) + 1
        BY <1>7, FS_AddElement
      <3> QED
        BY <1>8, <3>1
    <2>2. IsFiniteSet(Strange') /\ Cardinality(Strange') <= Cardinality(Strange \union {n})
      BY <1>9, <2>1, FS_Subset
    <2>3. Cardinality(Strange') \in Nat
      BY <2>2, FS_CardinalityType
    <2> QED
      BY <1>8, <2>1, <2>2, <2>3
  <1>11. image.unit = "own" => Strange' = Strange
    <2> SUFFICES ASSUME image.unit = "own"
                 PROVE  Strange' = Strange
      OBVIOUS
    <2>1. n \notin Strange'
      BY <1>1, <1>5 DEF Strange
    <2>2. Strange \subseteq Strange'
      BY <1>3, <1>4, <1>5 DEF Strange
    <2> QED
      BY <1>9, <2>1, <2>2
  <1>12. Len(dumps') <= MAX_DUMPS
    BY <1>3, RecoveryAssumption
  <1> QED
    BY <1>1, <1>3, <1>4, <1>5, <1>6, <1>8, <1>10, <1>11, <1>12

\* The camera and the bundle stay; only the files and their counts change.
LEMMA CameraFrame ==
    ASSUME IInv, UNCHANGED cameraVars, UNCHANGED <<bundle, recovered, risky>>,
           bad' \in Nat, bad \in Nat, bad' >= bad
    PROVE  /\ CameraTypeOK' /\ IdentityInv' /\ BundleInv' /\ CopyInv'
           /\ RecoveredInv' /\ WholeInv' /\ (Trusted' => Trusted)
  <1>1. /\ flash' = flash /\ phase' = phase /\ at' = at /\ writing' = writing
        /\ interrupted' = interrupted /\ bundle' = bundle /\ recovered' = recovered
        /\ risky' = risky
    BY DEF cameraVars
  <1>2. Trusted' => Trusted
    BY <1>1 DEF Trusted, MIN_IDENTICAL_READS
  <1>3. CameraTypeOK' /\ BundleInv' /\ CopyInv'
    BY <1>1 DEF IInv, TypeOK, CameraTypeOK, BundleInv, CopyInv
  <1>4. IdentityInv'
    BY <1>1, <1>2 DEF IInv, IdentityInv
  <1>5. RecoveredInv'
    BY <1>1 DEF IInv, RecoveredInv, Room, Present
  <1>6. WholeInv'
    BY <1>1 DEF IInv, WholeInv
  <1> QED
    BY <1>2, <1>3, <1>4, <1>5, <1>6

\* Only the read of a wrong unit adds a wrong file, and it counts as bad.
LEMMA ReadStep ==
    ASSUME IInv, ReadChip \/ Backup
    PROVE  IInv'
  <1>1. /\ UNCHANGED cameraVars /\ UNCHANGED <<bundle, recovered, risky>>
        /\ Len(dumps) < MAX_DUMPS
        /\ preserved' = preserved \/ preserved' = preserved \union {flash.unit}
    BY DEF ReadChip, Backup
  <1>2. TypeOK /\ ReadsInv /\ IdentityInv /\ flash \in Images
    BY FlashIsImage DEF IInv, TypeOK
  <1>3. \E image \in Images, reads \in {1, MIN_IDENTICAL_READS} :
           /\ Keep(image, reads)
           /\ \/ bad' = bad /\ image = flash
              \/ bad' = bad + 1 /\ bad < MAX_BAD /\ reads = 1
    BY <1>2, MisreadType DEF ReadChip, Backup
  <1>4. PICK image \in Images, reads \in {1, MIN_IDENTICAL_READS} :
           /\ Keep(image, reads)
           /\ \/ bad' = bad /\ image = flash
              \/ bad' = bad + 1 /\ bad < MAX_BAD /\ reads = 1
    BY <1>3
  <1>5. /\ dumps' \in Seq(Dump) /\ Len(dumps') <= MAX_DUMPS
        /\ \A c \in DOMAIN dumps' :
              \/ c \in DOMAIN dumps /\ dumps'[c] = dumps[c]
              \/ c = Len(dumps) + 1 /\ dumps'[c].image = image /\ dumps'[c].reads = reads
        /\ Cardinality(Strange) \in Nat
        /\ Cardinality(Strange') <= Cardinality(Strange) + 1
        /\ image.unit = "own" => Strange' = Strange
    BY <1>1, <1>2, <1>4, KeepEffect
  <1>6. bad \in Nat /\ MAX_BAD \in Nat /\ bad' \in 0 .. MAX_BAD /\ bad' >= bad
    BY <1>2, <1>4, RecoveryAssumption DEF TypeOK
  <1>7. /\ CameraTypeOK' /\ IdentityInv' /\ BundleInv' /\ CopyInv'
        /\ RecoveredInv' /\ WholeInv' /\ (Trusted' => Trusted)
    BY <1>1, <1>6, CameraFrame
  <1>8. TypeOK'
    <2>1. flash.unit \in {"own", "other"}
      BY <1>2, CameraTypes DEF TypeOK
    <2>2. preserved' \subseteq {"own", "other"}
      BY <1>1, <1>2, <2>1 DEF TypeOK
    <2> QED
      BY <1>1, <1>2, <1>5, <1>6, <1>7, <2>2 DEF TypeOK
  <1>9. ReadsInv'
    <2> SUFFICES ASSUME Trusted'
                 PROVE  /\ \A c \in DOMAIN dumps' :
                              dumps'[c].reads = MIN_IDENTICAL_READS => dumps'[c].image.unit = "own"
                        /\ Cardinality(Strange') <= bad'
      BY DEF ReadsInv
    <2>1. Trusted /\ flash.unit = "own"
      BY <1>2, <1>7 DEF IdentityInv
    <2>2. /\ \A c \in DOMAIN dumps :
                dumps[c].reads = MIN_IDENTICAL_READS => dumps[c].image.unit = "own"
          /\ Cardinality(Strange) <= bad
      BY <1>2, <2>1 DEF ReadsInv
    <2>3. reads = MIN_IDENTICAL_READS => image.unit = "own"
      BY <1>4, <2>1 DEF MIN_IDENTICAL_READS
    <2>4. Cardinality(Strange') <= bad'
      <3>1. CASE bad' = bad /\ image = flash
        BY <1>5, <2>1, <2>2, <3>1
      <3>2. CASE bad' = bad + 1
        <4>1. Cardinality(Strange') \in Int
          <5>1. Strange' \in SUBSET (1 .. Len(dumps')) /\ Len(dumps') \in Nat
            BY <1>5 DEF Strange
          <5>2. IsFiniteSet(1 .. Len(dumps'))
            BY <5>1, FS_Interval
          <5>3. IsFiniteSet(Strange')
            BY <5>1, <5>2, FS_Subset
          <5> QED
            BY <5>3, FS_CardinalityType
        <4> QED
          BY <1>5, <1>6, <2>2, <3>2, <4>1
      <3> QED
        BY <1>4, <3>1, <3>2
    <2> QED
      BY <1>5, <2>2, <2>3, <2>4
  <1> QED
    BY <1>7, <1>8, <1>9 DEF IInv

\* build-image: with evidence of three reads, not all of the files that agree are
\* bad.
LEMMA BuildStep ==
    ASSUME IInv, BuildSome
    PROVE  IInv'
  <1>1. PICK i \in DOMAIN dumps, mode \in Modes, wipe \in BOOLEAN, fewer \in BOOLEAN :
           \E confirm \in UNION {[1 .. n -> DOMAIN dumps] : n \in 0 .. MAX_CONFIRM} :
              Build(i, confirm, mode, wipe, fewer)
    BY DEF BuildSome
  <1>2. PICK n \in 0 .. MAX_CONFIRM : \E confirm \in [1 .. n -> DOMAIN dumps] :
           Build(i, confirm, mode, wipe, fewer)
    BY <1>1
  <1>0. PICK confirm \in [1 .. n -> DOMAIN dumps] : Build(i, confirm, mode, wipe, fewer)
    BY <1>2
  <1> DEFINE image == dumps[i].image
             evidence == Evidence(i, confirm)
  <1>3. /\ bundle = NONE /\ Confirmed(i, confirm)
        /\ image.unit # "unsupported"
        /\ Fits(RebuiltConfig(image.config, mode))
        /\ bundle' = [input |-> image, image |-> RecoveryImage(image, mode), mode |-> mode,
                      regions |-> ChangedRegions(image, mode), evidence |-> evidence]
        /\ dumps' = <<>>
        /\ UNCHANGED <<cameraVars, preserved, bad, recovered, risky>>
    BY <1>0 DEF Build, Analyzed
  <1>4. TypeOK /\ ReadsInv /\ IdentityInv
    BY DEF IInv
  <1>5. \A c \in DOMAIN dumps : dumps[c] \in Dump
    BY <1>4 DEF TypeOK
  <1>6. image \in Images
    BY <1>5 DEF Dump
  <1>7. evidence \in {"fewer", "repeated", "enough"}
    BY DEF Evidence
  <1>8. Trusted /\ evidence = "enough" => image.unit = "own"
    <2> SUFFICES ASSUME Trusted, evidence = "enough", image.unit # "own"
                 PROVE  FALSE
      OBVIOUS
    <2> DEFINE files == Named(i, confirm)
    <2>0. /\ files \in SUBSET DOMAIN dumps
          /\ ~(EvidencedReads(files) < MIN_IDENTICAL_READS)
      BY DEF Named, Evidence
    <2>1. \A c \in files : dumps[c].image = image
      BY <1>3 DEF Confirmed, Named
    <2>2. \A c \in files : dumps[c].reads # MIN_IDENTICAL_READS
      BY <1>4, <2>0, <2>1 DEF ReadsInv
    <2>3. Cardinality(files) >= MIN_IDENTICAL_READS
      BY <1>4, <2>0, <2>2, EnoughReads
    <2>4. files \in SUBSET Strange
      BY <2>0, <2>1 DEF Strange
    <2>5. IsFiniteSet(Strange)
      <3>1. Strange \in SUBSET (1 .. Len(dumps)) /\ Len(dumps) \in Nat
        BY <1>4 DEF Strange, TypeOK
      <3>2. IsFiniteSet(1 .. Len(dumps))
        BY <3>1, FS_Interval
      <3> QED
        BY <3>1, <3>2, FS_Subset
    <2>6. IsFiniteSet(files) /\ Cardinality(files) <= Cardinality(Strange)
      BY <2>4, <2>5, FS_Subset
    <2>7. Cardinality(files) \in Nat /\ Cardinality(Strange) \in Nat
      BY <2>5, <2>6, FS_CardinalityType
    <2>8. Cardinality(Strange) <= bad /\ bad < MIN_IDENTICAL_READS /\ bad \in Nat
      BY <1>4 DEF ReadsInv, Trusted, TypeOK
    <2> HIDE DEF files
    <2> QED
      BY <2>3, <2>6, <2>7, <2>8 DEF MIN_IDENTICAL_READS
  <1> HIDE DEF evidence, image
  <1>9. /\ RecoveryImage(image, mode) \in Images
        /\ RecoveryImage(image, mode).config = RebuiltConfig(image.config, mode)
    BY <1>3, <1>6, ImageType
  <1>10. ~recovered
    BY <1>3 DEF IInv, RecoveredInv
  <1>11. /\ flash' = flash /\ phase' = phase /\ at' = at /\ writing' = writing
         /\ interrupted' = interrupted /\ preserved' = preserved /\ bad' = bad
         /\ recovered' = recovered /\ risky' = risky
    BY <1>3 DEF cameraVars
  <1>12. bundle' \in Bundle
    <2>1. ChangedRegions(image, mode) \in SUBSET Regions
      BY DEF ChangedRegions
    <2> QED
      BY <1>3, <1>6, <1>7, <1>9, <2>1 DEF Bundle
  <1>13. dumps' \in Seq(Dump) /\ Len(dumps') <= MAX_DUMPS
    <2>1. <<>> \in Seq(Dump) /\ Len(<<>>) = 0
      OBVIOUS
    <2> QED
      BY <1>3, <2>1, RecoveryAssumption
  <1>14. CameraTypeOK'
    BY <1>4, <1>11 DEF TypeOK, CameraTypeOK
  <1>15. TypeOK'
    BY <1>4, <1>11, <1>12, <1>13, <1>14 DEF TypeOK
  <1>16. ReadsInv'
    <2>1. Strange' = {} /\ DOMAIN dumps' = {}
      BY <1>3 DEF Strange
    <2>2. Cardinality({}) = 0
      BY FS_EmptySet
    <2>3. bad' \in Nat
      BY <1>4, <1>11 DEF TypeOK
    <2> QED
      BY <2>1, <2>2, <2>3 DEF ReadsInv
  <1>17. IdentityInv'
    <2>1. bundle'.evidence = evidence /\ bundle'.input = image
      BY <1>3
    <2>2. Trusted' <=> Trusted
      BY <1>11 DEF Trusted
    <2> QED
      BY <1>4, <1>8, <1>11, <2>1, <2>2 DEF IdentityInv
  <1>18. BundleInv'
    <2>1. /\ bundle'.input = image /\ bundle'.image = RecoveryImage(image, mode)
          /\ bundle'.mode = mode /\ bundle'.regions = ChangedRegions(image, mode)
      BY <1>3
    <2>2. Fits(bundle'.image.config) /\ bundle'.input.unit # "unsupported"
      BY <1>3, <1>9, <2>1 DEF image
    <2> QED
      BY <2>1, <2>2 DEF BundleInv, Fits
  <1>19. CopyInv'
    BY <1>11 DEF IInv, CopyInv
  <1>20. RecoveredInv' /\ WholeInv'
    BY <1>10, <1>11 DEF RecoveredInv, WholeInv
  <1> QED
    BY <1>15, <1>16, <1>17, <1>18, <1>19, <1>20 DEF IInv

----------------------------------------------------------------------------
(* Programming. *)

\* What is known of a bundle's image.
LEMMA BundleFacts ==
    ASSUME IInv, bundle # NONE
    PROVE  /\ bundle \in Bundle
           /\ bundle.image \in Flash({"own", "other"})
           /\ bundle.image.unit = bundle.input.unit
           /\ bundle.image.window = "patched"
           /\ bundle.image.config.used \in Nat
           /\ bundle.image.config.used + 2 * Len(Copies) <= CAPACITY
           /\ bundle.mode = "preserve-files" =>
                 bundle.image.config.files = bundle.input.config.files
           /\ bundle.image = [unit |-> bundle.input.unit, window |-> "patched",
                              config |-> RebuiltConfig(bundle.input.config, bundle.mode)]
           /\ bundle.regions = ChangedRegions(bundle.input, bundle.mode)
  <1> DEFINE config == RebuiltConfig(bundle.input.config, bundle.mode)
  <1>1. bundle \in Bundle
    BY DEF IInv, TypeOK
  <1>2. bundle.input \in Images /\ bundle.mode \in Modes
    BY <1>1 DEF Bundle
  <1>3. /\ bundle.input.unit # "unsupported"
        /\ bundle.image = RecoveryImage(bundle.input, bundle.mode)
        /\ bundle.regions = ChangedRegions(bundle.input, bundle.mode)
        /\ Fits(bundle.image.config)
    BY DEF IInv, BundleInv
  <1>4. bundle.input \in [unit : {"own", "other", "unsupported"}, window : {"stock", "patched"},
                          config : Config]
    BY <1>2 DEF Images, Flash
  <1>5. bundle.image.config = config
    BY <1>3, <1>4 DEF RecoveryImage
  <1>6. Fits(config)
    BY <1>3, <1>5
  <1>7. /\ config \in Config /\ config.used <= FIRST_BLOCK
        /\ bundle.mode = "preserve-files" => config.files = bundle.input.config.files
    BY <1>2, <1>4, <1>6, RebuiltType
  <1>8. bundle.image = [unit |-> bundle.input.unit, window |-> "patched", config |-> config]
    BY <1>2, <1>3, <1>6, ImageType
  <1> HIDE DEF config
  <1>9. config.used \in Nat
    BY <1>7, StepsFact DEF Config
  <1>10. config.used + 2 * Len(Copies) <= CAPACITY
    BY <1>7, <1>9, StepsFact, RecoveryAssumption
  <1>11. bundle.image \in Flash({"own", "other"})
    <2>1. bundle.input.unit \in {"own", "other"}
      BY <1>3, <1>4
    <2> QED
      BY <1>7, <1>8, <2>1 DEF Flash
  <1> QED
    BY <1>1, <1>3, <1>5, <1>7, <1>8, <1>9, <1>10, <1>11 DEF config

\* A camera that has just been given the image, and its script is not yet past a
\* default, has room for all of them.
LEMMA FreshImage ==
    ASSUME IInv, bundle # NONE, flash' = bundle.image, bundle' = bundle, ~writing',
           phase' = "off" \/ (phase' = "booting" /\ at' = 1)
    PROVE  RecoveredInv' /\ WholeInv'
  <1>1. /\ bundle.image.window = "patched" /\ bundle.image.config.used \in Nat
        /\ bundle.image.config.used + 2 * Len(Copies) <= CAPACITY
        /\ bundle.mode = "preserve-files" =>
              bundle.image.config.files = bundle.input.config.files
    BY BundleFacts
  <1>2. \A k \in Steps : ~(k < 1) /\ ~(k <= 0)
    BY StepsFact
  <1>3. bundle.image.config.used + 2 * (Len(Copies) - 0) + 0 <= CAPACITY
    BY <1>1, StepsFact
  <1>4. Room(0)'
    BY <1>2, <1>3 DEF Room
  <1>5. \E m \in 0 .. Len(Copies) : Room(m)'
    BY <1>4, StepsFact
  <1>6. RecoveredInv'
    BY <1>1, <1>2, <1>5 DEF RecoveredInv
  <1>7. WholeInv'
    BY DEF WholeInv
  <1> QED
    BY <1>6, <1>7

\* The image is programmed from outside, whole or by its changed regions.
LEMMA ProgramStep ==
    ASSUME IInv, Program
    PROVE  IInv'
  <1>1. /\ phase = "off" /\ bundle # NONE
        /\ flash' \in {bundle.image, Written(flash, bundle.image, bundle.regions)}
        /\ recovered' = (flash' = bundle.image)
        /\ risky' = risky \union ({bundle.evidence} \ {"enough"})
        /\ interrupted' = FALSE
        /\ phase' = phase /\ at' = at /\ writing' = writing /\ dumps' = dumps
        /\ preserved' = preserved /\ bundle' = bundle /\ bad' = bad
    BY DEF Program
  <1>2. TypeOK /\ CameraTypeOK /\ bundle.evidence \in {"fewer", "repeated", "enough"}
    BY <1>1, BundleFacts DEF IInv, TypeOK, Bundle
  <1>3. /\ flash' \in Flash({"own", "other"})
        /\ flash'.unit = flash.unit \/ flash'.unit = bundle.input.unit
    <2>1. /\ bundle.image \in Flash({"own", "other"})
          /\ bundle.image.unit = bundle.input.unit
      BY <1>1, BundleFacts
    <2>2. CASE flash' = bundle.image
      BY <2>1, <2>2
    <2>3. CASE flash' = Written(flash, bundle.image, bundle.regions)
      <3>1. bundle.image.window \in {"stock", "patched"} /\ bundle.image.config \in Config
        BY <2>1 DEF Flash
      <3>2. flash \in [unit : {"own", "other"}, window : {"stock", "patched"}, config : Config]
        BY <1>2 DEF CameraTypeOK, Flash
      <3> QED
        BY <2>3, <3>1, <3>2 DEF Written, Flash
    <2> QED
      BY <1>1, <2>2, <2>3
  <1>4. risky' \subseteq {"fewer", "repeated"} /\ recovered' \in BOOLEAN
    BY <1>1, <1>2 DEF TypeOK
  <1>5. CameraTypeOK'
    BY <1>1, <1>2, <1>3 DEF CameraTypeOK
  <1>6. TypeOK'
    BY <1>1, <1>2, <1>4, <1>5 DEF TypeOK
  <1>7. Trusted' => Trusted /\ bundle.evidence = "enough"
    BY <1>1 DEF Trusted
  <1>8. ReadsInv'
    BY <1>1, <1>7 DEF IInv, ReadsInv, Strange
  <1>9. IdentityInv'
    BY <1>1, <1>3, <1>7 DEF IInv, IdentityInv
  <1>10. BundleInv'
    BY <1>1 DEF IInv, BundleInv
  <1>11. ~writing
    BY <1>1 DEF IInv, CopyInv
  <1>12. CopyInv'
    BY <1>1, <1>11 DEF CopyInv
  <1>13. RecoveredInv' /\ WholeInv'
    <2>1. CASE flash' = bundle.image
      BY <1>1, <1>11, <2>1, FreshImage
    <2>2. CASE flash' # bundle.image
      BY <1>1, <2>2 DEF RecoveredInv, WholeInv
    <2> QED
      BY <2>1, <2>2
  <1> QED
    BY <1>6, <1>8, <1>9, <1>10, <1>12, <1>13 DEF IInv

\* restore to its end: the image is of the camera's own unit.
LEMMA RestoreStep ==
    ASSUME IInv, Restore
    PROVE  IInv'
  <1>1. /\ phase = "up" /\ bundle # NONE
        /\ \E backup \in preserved : Restorable(backup)
        /\ flash' = bundle.image /\ recovered' = TRUE
        /\ phase' = "booting" /\ at' = 1 /\ interrupted' = FALSE
        /\ writing' = writing /\ dumps' = dumps /\ preserved' = preserved
        /\ bundle' = bundle /\ bad' = bad /\ risky' = risky
    BY DEF Restore
  <1>2. TypeOK /\ CameraTypeOK
    BY DEF IInv, TypeOK
  <1>3. flash'.unit = flash.unit
    BY <1>1 DEF Restorable, SameUnit
  <1>4. CameraTypeOK'
    <2>1. bundle.image \in Flash({"own", "other"})
      BY <1>1, BundleFacts
    <2>2. at' \in 1 .. Len(Copies) + 1
      BY <1>1, StepsFact
    <2> QED
      BY <1>1, <1>2, <2>1, <2>2 DEF CameraTypeOK
  <1>5. TypeOK'
    BY <1>1, <1>2, <1>4 DEF TypeOK
  <1>6. ReadsInv'
    BY <1>1 DEF IInv, ReadsInv, Strange, Trusted
  <1>7. IdentityInv'
    BY <1>1, <1>3 DEF IInv, IdentityInv, Trusted
  <1>8. BundleInv'
    BY <1>1 DEF IInv, BundleInv
  <1>9. ~writing
    BY <1>1 DEF IInv, CopyInv
  <1>10. CopyInv'
    BY <1>1, <1>9 DEF CopyInv
  <1>11. RecoveredInv' /\ WholeInv'
    BY <1>1, <1>9, FreshImage
  <1> QED
    BY <1>5, <1>6, <1>7, <1>8, <1>10, <1>11 DEF IInv

\* restore that stops after its trigger: nothing is claimed of config then.
LEMMA FailStep ==
    ASSUME IInv, RestoreFails
    PROVE  IInv'
  <1>1. /\ phase = "up" /\ recovered' = FALSE /\ phase' = "updater"
        /\ at' = at /\ writing' = writing /\ interrupted' = interrupted /\ dumps' = dumps
        /\ preserved' = preserved /\ bundle' = bundle /\ bad' = bad /\ risky' = risky
    BY DEF RestoreFails
  <1>2. TypeOK /\ CameraTypeOK
    BY DEF IInv, TypeOK
  <1>3. flash' \in Flash({"own", "other"}) /\ flash'.unit = flash.unit
    <2>1. PICK lost \in SUBSET Names, serial \in {flash.config.serial, FALSE} :
             flash' = [flash EXCEPT !.config.words = TRUE,
                                    !.config.serial = serial,
                                    !.config.compact = FALSE,
                                    !.config.files = [n \in Names |-> IF n \in lost THEN "absent"
                                                                      ELSE @[n]]]
      BY DEF RestoreFails
    <2> DEFINE files == [n \in Names |-> IF n \in lost THEN "absent" ELSE flash.config.files[n]]
               config == [flash.config EXCEPT !.words = TRUE, !.serial = serial,
                                              !.compact = FALSE, !.files = files]
    <2>2. flash \in [unit : {"own", "other"}, window : {"stock", "patched"}, config : Config]
      BY <1>2 DEF CameraTypeOK, Flash
    <2>3. flash.config \in Config /\ serial \in BOOLEAN
      BY <2>2 DEF Config
    <2>4. files \in [Names -> Contents]
      BY <2>3 DEF Config, Contents
    <2>5. flash' = [flash EXCEPT !.config = config]
      BY <2>1, <2>2, <2>3 DEF Config
    <2> HIDE DEF files
    <2>6. config \in Config
      BY <2>3, <2>4 DEF Config
    <2> HIDE DEF config
    <2> QED
      BY <2>2, <2>5, <2>6 DEF Flash
  <1>4. CameraTypeOK'
    BY <1>1, <1>2, <1>3 DEF CameraTypeOK
  <1>5. TypeOK'
    BY <1>1, <1>2, <1>4 DEF TypeOK
  <1>6. ReadsInv'
    BY <1>1 DEF IInv, ReadsInv, Strange, Trusted
  <1>7. IdentityInv'
    BY <1>1, <1>3 DEF IInv, IdentityInv, Trusted
  <1>8. BundleInv'
    BY <1>1 DEF IInv, BundleInv
  <1>9. ~writing
    BY <1>1 DEF IInv, CopyInv
  <1>10. CopyInv' /\ RecoveredInv' /\ WholeInv'
    BY <1>1, <1>9 DEF CopyInv, RecoveredInv, WholeInv
  <1> QED
    BY <1>5, <1>6, <1>7, <1>8, <1>10 DEF IInv

----------------------------------------------------------------------------
(* The theorems. *)

\* A camera as shipped, and no file read yet.
LEMMA InitInv == Init => IInv
  <1> SUFFICES ASSUME Init
               PROVE  IInv
    OBVIOUS
  <1>1. /\ phase = "off" /\ at = 1 /\ writing = FALSE /\ interrupted = FALSE
        /\ dumps = <<>> /\ preserved = {} /\ bundle = NONE
        /\ bad = 0 /\ recovered = FALSE /\ risky = {}
    BY DEF Init, CameraInit
  <1>2. flash \in Flash({"own", "other"}) /\ flash.unit = "own"
    <2>1. 1 \in 0 .. CAPACITY
      BY CopiesAssumption
    <2>2. flash \in [unit : {"own"}, window : {"stock", "patched"},
                     config : [files : [Names -> {"absent"}], serial : {TRUE},
                               used : {1}, compact : {FALSE}, words : {FALSE}]]
      BY DEF Init, CameraInit
    <2>3. flash.config.files \in [Names -> Contents]
      BY <2>2 DEF Contents
    <2>4. flash.config \in Config
      BY <2>1, <2>2, <2>3 DEF Config
    <2> QED
      BY <2>2, <2>4 DEF Flash
  <1>3. CameraTypeOK
    <2>1. 1 \in 1 .. Len(Copies) + 1
      BY StepsFact
    <2> QED
      BY <1>1, <1>2, <2>1 DEF CameraTypeOK
  <1>4. dumps \in Seq(Dump) /\ Len(dumps) <= MAX_DUMPS
    <2>1. <<>> \in Seq(Dump) /\ Len(<<>>) = 0
      OBVIOUS
    <2> QED
      BY <1>1, <2>1, RecoveryAssumption
  <1>5. TypeOK
    <2>1. 0 \in 0 .. MAX_BAD
      BY RecoveryAssumption
    <2> QED
      BY <1>1, <1>3, <1>4, <2>1 DEF TypeOK
  <1>6. ReadsInv
    <2>1. Strange = {} /\ DOMAIN dumps = {}
      BY <1>1 DEF Strange
    <2>2. Cardinality({}) = 0
      BY FS_EmptySet
    <2> QED
      BY <1>1, <2>1, <2>2 DEF ReadsInv
  <1>7. IdentityInv /\ BundleInv /\ CopyInv
    BY <1>1, <1>2 DEF IdentityInv, BundleInv, CopyInv
  <1>8. RecoveredInv /\ WholeInv
    BY <1>1 DEF RecoveredInv, WholeInv
  <1> QED
    BY <1>5, <1>6, <1>7, <1>8 DEF IInv

\* Every step of the camera and of the host keeps the inductive invariant.
LEMMA StepInv == IInv /\ [Next]_vars => IInv'
  <1> SUFFICES ASSUME IInv, [Next]_vars
               PROVE  IInv'
    OBVIOUS
  <1>1. CASE CameraStep
    BY <1>1, QuietStep, OpenStep, WriteStep, OwnerStep
    DEF CameraStep, CameraNext, BootStep
  <1>2. CASE ReadChip \/ Backup
    BY <1>2, ReadStep
  <1>3. CASE BuildSome
    BY <1>3, BuildStep
  <1>4. CASE Program
    BY <1>4, ProgramStep
  <1>5. CASE Restore
    BY <1>5, RestoreStep
  <1>6. CASE RestoreFails
    BY <1>6, FailStep
  <1>7. CASE UNCHANGED vars
    <2>1. UNCHANGED cameraVars /\ UNCHANGED <<bundle, recovered, risky>>
          /\ dumps' = dumps /\ preserved' = preserved /\ bad' = bad /\ bad \in Nat
      BY <1>7 DEF vars, hostVars, IInv, TypeOK
    <2>2. /\ CameraTypeOK' /\ IdentityInv' /\ BundleInv' /\ CopyInv'
          /\ RecoveredInv' /\ WholeInv' /\ (Trusted' => Trusted)
      BY <2>1, CameraFrame
    <2>3. TypeOK' /\ ReadsInv'
      BY <2>1, <2>2 DEF IInv, TypeOK, ReadsInv, Strange
    <2> QED
      BY <2>2, <2>3 DEF IInv
  <1> QED
    BY <1>1, <1>2, <1>3, <1>4, <1>5, <1>6, <1>7 DEF Next

\* The inductive invariant holds in every state of the recovery.
THEOREM Inductive == Spec => []IInv
  BY InitInv, StepInv, PTL DEF Spec

\* Every variable of the camera and of the host has its type; in particular the
\* log never holds more nodes than the partition, and no image outgrows it.
THEOREM TypeCorrect == Spec => []TypeOK
  <1>1. IInv => TypeOK
    BY DEF IInv
  <1> QED
    BY <1>1, Inductive, PTL

\* The identity of the camera survives fewer than three bad reads, however many
\* files there are and are named, as long as every image programmed rested on three
\* different reads: nobody overrode the count, and no file was named again to reach
\* it.
THEOREM Identity == Spec => []IdentityKept
  <1>1. IInv => IdentityKept
    BY DEF IInv, IdentityInv, IdentityKept, Trusted
  <1> QED
    BY <1>1, Inductive, PTL

\* MANIFEST.json's changed regions, written onto what was read, give the image.
THEOREM ChangedSuffice == Spec => []RegionsSuffice
  <1>1. IInv => RegionsSuffice
    <2> SUFFICES ASSUME IInv, bundle # NONE
                 PROVE  Written(bundle.input, bundle.image, bundle.regions) = bundle.image
      BY DEF RegionsSuffice
    <2> DEFINE config == RebuiltConfig(bundle.input.config, bundle.mode)
    <2>1. /\ bundle \in Bundle
          /\ bundle.image = [unit |-> bundle.input.unit, window |-> "patched", config |-> config]
          /\ bundle.regions = ChangedRegions(bundle.input, bundle.mode)
      BY BundleFacts
    <2>2. bundle.input \in [unit : {"own", "other", "unsupported"},
                            window : {"stock", "patched"}, config : Config]
      BY <2>1 DEF Bundle, Images, Flash
    <2>3. /\ "system_bashrc_patch" \in bundle.regions <=> bundle.input.window = "stock"
          /\ "config" \in bundle.regions <=> bundle.input.config # config
      BY <2>1 DEF ChangedRegions, Regions
    <2> HIDE DEF config
    <2>4. Written(bundle.input, bundle.image, bundle.regions) =
             [unit |-> bundle.input.unit, window |-> "patched", config |-> config]
      <3>1. (IF "system_bashrc_patch" \in bundle.regions THEN bundle.image.window
             ELSE bundle.input.window) = "patched"
        BY <2>1, <2>2, <2>3
      <3>2. (IF "config" \in bundle.regions THEN bundle.image.config
             ELSE bundle.input.config) = config
        BY <2>1, <2>3
      <3>3. Written(bundle.input, bundle.image, bundle.regions) =
               [bundle.input EXCEPT !.window = "patched", !.config = config]
        BY <2>2, <3>1, <3>2 DEF Written
      <3> QED
        BY <2>2, <3>3
    <2> QED
      BY <2>1, <2>4
  <1> QED
    BY <1>1, Inductive, PTL

\* The owner's files that preserve-files kept are never overwritten by a boot.
THEOREM OwnFiles == Spec => []OwnFilesSurvive
  <1>1. IInv => OwnFilesSurvive
    BY DEF IInv, RecoveredInv, OwnFilesSurvive
  <1> QED
    BY <1>1, Inductive, PTL

\* A recovered camera that is up has all its defaults, whole.
THEOREM WholeDefaults == Spec => []DefaultsWhole
  <1>1. IInv => DefaultsWhole
    <2> SUFFICES ASSUME IInv, recovered, ~interrupted, phase = "up",
                        \A n \in Defaults : bundle.image.config.files[n] # "cut",
                        NEW n \in Defaults
                 PROVE  flash.config.files[n] \in {"default", "own"}
      BY DEF DefaultsWhole
    <2>1. PICK k \in Steps : n = Copies[k]
      BY DEF Defaults
    <2>2. flash.config.files[n] # "absent"
      BY <2>1 DEF IInv, RecoveredInv, Present
    <2>3. ~writing
      BY DEF IInv, CopyInv
    <2>4. flash.config.files[n] # "cut"
      BY <2>3 DEF IInv, WholeInv
    <2>5. flash.config.files[n] \in Contents
      BY StepsFact, CameraTypes DEF IInv, TypeOK
    <2> QED
      BY <2>2, <2>4, <2>5 DEF Contents
  <1> QED
    BY <1>1, Inductive, PTL
=============================================================================
