------------------------ MODULE AcquireStableProofs ------------------------
(***************************************************************************)
(* IInv of AcquireStable is inductive and implies the safety properties of *)
(* acquire_stable, for every flash size, every set of live cells and every *)
(* read policy that compares at least two reads.                           *)
(***************************************************************************)
EXTENDS AcquireStable, TLAPS

\* acquire_stable starts in a state that satisfies the invariant.
LEMMA InitInv == Init => IInv
  <1> SUFFICES ASSUME Init PROVE IInv
    OBVIOUS
  <1> USE FlashAssumption, PolicyAssumption DEF Passes
  <1>1. TypeOK
    <2>1. BOOT \in Cells /\ Blank \in Contents
      BY DEF BOOT, Blank, Contents, Cells
    <2>2. flash \in Contents
      BY <2>1 DEF Init, Contents, KNOWN_BOOTLOADER_SHA256
    <2> QED
      BY <2>1, <2>2 DEF Init, TypeOK
  <1>2. ControlInv
    BY DEF Init, ControlInv, Reading, Acceptances
  <1>3. RunInv
    BY DEF Init, RunInv, Reading
  <1>4. OrderInv
    BY DEF Init, OrderInv, IsComplete
  <1>5. HeldInv
    BY DEF Init, HeldInv, IsComplete, Reading
  <1> QED
    BY <1>1, <1>2, <1>3, <1>4, <1>5 DEF IInv

\* A live write raises one cell of the flash by one version.
LEMMA LiveWriteFlash ==
    ASSUME TypeOK, NEW w \in LIVE, LiveWrite(w)
    PROVE  /\ flash' \in Contents
           /\ NotNewer(flash, flash')
           /\ \A k \in Passes : held'[k] \in {held[k], held[k] \union {flash'}}
           /\ phase \in Reading => flash' \in held'[attempts] \/ attempts \notin Passes
           /\ \A k \in Passes : k # attempts => held'[k] = held[k]
           /\ held' \in [Passes -> SUBSET Contents]
  <1>1. w \in Cells
    BY FlashAssumption DEF Cells
  <1>2. flash \in [Cells -> Nat]
    BY DEF TypeOK, Contents
  <1>3. flash' = [flash EXCEPT ![w] = flash[w] + 1]
    BY DEF LiveWrite
  <1>4. flash' \in [Cells -> Nat]
    BY <1>1, <1>2, <1>3
  <1>5. NotNewer(flash, flash')
    BY <1>1, <1>2, <1>3 DEF NotNewer
  <1>6. held \in [Passes -> SUBSET Contents]
    BY DEF TypeOK
  <1>7. held' = IF phase \in Reading
                THEN [held EXCEPT ![attempts] = held[attempts] \union {flash'}]
                ELSE held
    BY DEF LiveWrite
  <1>8. flash' \in Contents
    BY <1>4 DEF Contents
  <1>9. held' \in [Passes -> SUBSET Contents]
    BY <1>6, <1>7, <1>8
  <1> QED
    BY <1>5, <1>6, <1>7, <1>8, <1>9

\* Every step keeps the types, action by action.
LEMMA TypeStep == ASSUME IInv, [Next]_vars PROVE TypeOK'
  <1> USE DEF IInv
  <1>1. CASE \E c \in LIVE : LiveWrite(c)
    <2> PICK c \in LIVE : LiveWrite(c)
      BY <1>1
    <2> QED
      BY LiveWriteFlash DEF LiveWrite, readerVars, TypeOK
  <1>2. CASE Identify
    BY <1>2, PolicyAssumption, FlashAssumption DEF Identify, BeginRead, TypeOK, Reading, Passes
  <1>3. CASE IdentifyFails
    BY <1>3 DEF IdentifyFails, TypeOK, Ended
  <1>4. CASE PullCell
    <2>1. next \in Cells
      BY <1>4 DEF PullCell, ControlInv
    <2>2. current' \in Contents
      BY <1>4, <2>1 DEF PullCell, TypeOK, Contents
    <2>3. pulled' \in [Passes -> Contents]
      BY <1>4, <2>2 DEF PullCell, TypeOK
    <2>4. next' \in 1 .. CELLS + 1
      BY <1>4, <2>1, FlashAssumption DEF PullCell, Cells
    <2> QED
      BY <1>4, <2>2, <2>3, <2>4 DEF PullCell, TypeOK, Reading
  <1>5. CASE PullFails
    BY <1>5 DEF PullFails, TypeOK, Ended
  <1>6. CASE Compare
    <2> USE <1>6, PolicyAssumption, FlashAssumption DEF TypeOK
    <2>1. consecutive' \in 0 .. REQUIRED_IDENTICAL_READS
      BY DEF Compare, RunLength, RunInv, Reading
    <2>2. phase' \in {"pull", "accepted", "unstable"}
      BY DEF Compare, BeginRead
    <2>3. attempts' \in 0 .. MAX_READ_ATTEMPTS /\ next' \in 1 .. CELLS + 1
      <3>1. \/ UNCHANGED <<attempts, next>>
            \/ attempts < MAX_READ_ATTEMPTS /\ attempts' = attempts + 1 /\ next' = 1
        BY DEF Compare, BeginRead
      <3> QED
        BY <3>1
    <2>4. held' \in [Passes -> SUBSET Contents]
      <3>1. \/ UNCHANGED held
            \/ held' = [held EXCEPT ![attempts + 1] = {flash}]
        BY DEF Compare, BeginRead
      <3> QED
        BY <3>1
    <2>5. accepted' \in Contents /\ previous' \in Contents
      BY DEF Compare
    <2> QED
      BY <2>1, <2>2, <2>3, <2>4, <2>5 DEF Compare, Reading, Ended
  <1>7. CASE UNCHANGED vars
    BY <1>7 DEF vars, TypeOK
  <1>8. CASE AcceptBootloader
    BY <1>8 DEF AcceptBootloader, Acceptance, TypeOK, Acceptances
  <1> QED
    BY <1>1, <1>2, <1>3, <1>4, <1>5, <1>6, <1>7, <1>8 DEF Next, HostStep

\* Where the loop is determines what its counters may be.
LEMMA ControlStep == ASSUME IInv, [Next]_vars PROVE ControlInv'
  <1> USE DEF IInv, ControlInv, Acceptances
  <1>1. CASE \E c \in LIVE : LiveWrite(c)
    BY <1>1 DEF LiveWrite, readerVars
  <1>2. CASE Identify
    BY <1>2, PolicyAssumption, FlashAssumption DEF Identify, BeginRead, Passes, Cells, Reading
  <1>3. CASE IdentifyFails
    BY <1>3 DEF IdentifyFails, Reading
  <1>4. CASE PullCell
    <2>1. next \in Cells /\ attempts \in Passes
      BY <1>4 DEF PullCell, Reading
    <2>2. next # CELLS => next' \in Cells
      BY <1>4, <2>1, FlashAssumption DEF PullCell, Cells
    <2>3. next = CELLS => current' = pulled'[attempts]
      BY <1>4, <2>1 DEF PullCell, TypeOK
    <2> QED
      BY <1>4, <2>1, <2>2, <2>3 DEF PullCell, Reading
  <1>5. CASE PullFails
    BY <1>5 DEF PullFails, Reading
  <1>6. CASE Compare
    <2>1. attempts \in Passes /\ acceptance' = "none"
      BY <1>6 DEF Compare, Reading
    <2>2. CASE attempts < MAX_READ_ATTEMPTS /\ BeginRead(attempts + 1)
      BY <2>1, <2>2, PolicyAssumption, FlashAssumption DEF BeginRead, Passes, Cells, Reading
    <2>3. CASE /\ phase' \in {"accepted", "unstable"} /\ UNCHANGED attempts
               /\ phase' = "unstable" => attempts = MAX_READ_ATTEMPTS
      BY <2>1, <2>3 DEF Reading
    <2> QED
      BY <1>6, <2>2, <2>3 DEF Compare
  <1>7. CASE UNCHANGED vars
    BY <1>7 DEF vars
  <1>8. CASE AcceptBootloader
    BY <1>8 DEF AcceptBootloader, Acceptance, Acceptances
  <1> QED
    BY <1>1, <1>2, <1>3, <1>4, <1>5, <1>6, <1>7, <1>8 DEF Next, HostStep

\* The counting of the run, action by action.
LEMMA RunStep == ASSUME IInv, [Next]_vars PROVE RunInv'
  <1> USE PolicyAssumption DEF IInv
  <1>1. CASE \E c \in LIVE : LiveWrite(c)
    BY <1>1 DEF LiveWrite, readerVars, RunInv, NoRunWithin
  <1>2. CASE Identify
    <2>1. phase' = "pull" /\ attempts' = 1 /\ consecutive' = 0
      BY <1>2 DEF Identify, BeginRead, ControlInv
    <2>2. NoRunWithin(attempts - 1)'
      BY <2>1 DEF NoRunWithin, Passes
    <2> QED
      BY <2>1, <2>2 DEF RunInv, Reading
  <1>3. CASE IdentifyFails
    BY <1>3 DEF IdentifyFails, RunInv, Reading
  <1>4. CASE PullCell
    <2>1. /\ phase = "pull" /\ phase' \in Reading /\ attempts \in Passes
          /\ UNCHANGED <<attempts, consecutive, previous>>
      BY <1>4 DEF PullCell, ControlInv, Reading
    <2>2. \A k \in Passes : k < attempts => pulled'[k] = pulled[k]
      BY <1>4, <2>1 DEF PullCell, TypeOK
    <2>3. attempts > 1 => consecutive \in 1 .. attempts - 1
      BY <2>1 DEF RunInv, Reading
    <2>4. attempts > 1 =>
            /\ previous' = pulled'[attempts' - 1]
            /\ \A k \in attempts' - consecutive' .. attempts' - 1 : pulled'[k] = previous'
            /\ consecutive' < attempts' - 1 =>
                  pulled'[attempts' - consecutive' - 1] # previous'
      <3> SUFFICES ASSUME attempts > 1
                   PROVE  /\ previous = pulled'[attempts - 1]
                          /\ \A k \in attempts - consecutive .. attempts - 1 :
                                pulled'[k] = previous
                          /\ consecutive < attempts - 1 =>
                                pulled'[attempts - consecutive - 1] # previous
        BY <2>1
      <3>1. \A k \in 1 .. attempts - 1 : pulled'[k] = pulled[k]
        BY <2>1, <2>2 DEF Passes
      <3>2. attempts \in Nat /\ consecutive \in 1 .. attempts - 1
        BY <2>1, <2>3 DEF Passes
      <3> QED
        BY <2>1, <3>1, <3>2 DEF RunInv, Reading
    <2>5. NoRunWithin(attempts - 1)'
      <3> SUFFICES ASSUME NEW k \in Passes,
                          k + REQUIRED_IDENTICAL_READS - 1 <= attempts - 1
                   PROVE  \E j \in k .. k + REQUIRED_IDENTICAL_READS - 2 :
                             pulled'[j] # pulled'[j + 1]
        BY <2>1 DEF NoRunWithin
      <3>1. PICK j \in k .. k + REQUIRED_IDENTICAL_READS - 2 : pulled[j] # pulled[j + 1]
        BY <2>1 DEF RunInv, NoRunWithin, Reading
      <3>2. j \in Passes /\ j + 1 \in Passes /\ j < attempts /\ j + 1 < attempts
        BY <2>1 DEF Passes
      <3> QED
        BY <2>2, <3>1, <3>2
    <2> QED
      BY <2>1, <2>3, <2>4, <2>5 DEF RunInv, Reading
  <1>5. CASE PullFails
    BY <1>5 DEF PullFails, RunInv, Reading
  <1>6. CASE Compare
    <2> DEFINE n == attempts
               r == RunLength
    <2>1. /\ n \in Passes /\ n \in Nat /\ n >= 1 /\ n <= MAX_READ_ATTEMPTS
          /\ current = pulled[n] /\ UNCHANGED pulled /\ consecutive' = r
          /\ phase = "compare"
      BY <1>6 DEF Compare, ControlInv, Reading, Passes
    <2>2. n > 1 =>
            /\ consecutive \in 1 .. n - 1
            /\ previous = pulled[n - 1]
            /\ \A k \in n - consecutive .. n - 1 : pulled[k] = previous
            /\ consecutive < n - 1 => pulled[n - consecutive - 1] # previous
      BY <2>1 DEF RunInv, Reading
    <2>3. consecutive < REQUIRED_IDENTICAL_READS /\ consecutive \in Nat
      BY <2>1 DEF RunInv, Reading, TypeOK
    <2>4. NoRunWithin(n - 1)
      BY <2>1 DEF RunInv, Reading
    <2>5. /\ r \in 1 .. n
          /\ r <= REQUIRED_IDENTICAL_READS
          /\ \A k \in n - r + 1 .. n : pulled[k] = pulled[n]
          /\ r < n => pulled[n - r] # pulled[n]
      <3>1. CASE n > 1 /\ current = previous
        <4>1. r = consecutive + 1
          BY <3>1 DEF RunLength
        <4>2. \A k \in n - consecutive .. n - 1 : pulled[k] = pulled[n]
          BY <2>1, <2>2, <3>1
        <4>3. \A k \in n - r + 1 .. n : pulled[k] = pulled[n]
          BY <2>1, <2>3, <4>1, <4>2
        <4>4. r < n => pulled[n - r] # pulled[n]
          <5>1. consecutive + 1 < n => n - consecutive - 1 = n - r
            BY <2>1, <2>3, <4>1
          <5> QED
            BY <2>1, <2>2, <2>3, <3>1, <4>1, <5>1
        <4> QED
          BY <2>1, <2>2, <2>3, <3>1, <4>1, <4>3, <4>4
      <3>2. CASE ~(n > 1 /\ current = previous)
        <4>1. r = 1
          BY <3>2 DEF RunLength
        <4>2. n > 1 => pulled[n - 1] # pulled[n]
          BY <2>1, <2>2, <3>2
        <4> QED
          BY <2>1, <4>1, <4>2
      <3> QED
        BY <3>1, <3>2
    <2>6. r < REQUIRED_IDENTICAL_READS => NoRunWithin(n)
      <3> SUFFICES ASSUME r < REQUIRED_IDENTICAL_READS,
                          NEW k \in Passes, k + REQUIRED_IDENTICAL_READS - 1 <= n
                   PROVE  \E j \in k .. k + REQUIRED_IDENTICAL_READS - 2 :
                             pulled[j] # pulled[j + 1]
        BY DEF NoRunWithin
      <3>1. CASE k + REQUIRED_IDENTICAL_READS - 1 <= n - 1
        BY <2>4, <3>1 DEF NoRunWithin
      <3>2. CASE k + REQUIRED_IDENTICAL_READS - 1 = n
        <4>1. r < n /\ n - r \in k .. k + REQUIRED_IDENTICAL_READS - 2
          BY <2>1, <2>5, <3>2 DEF Passes
        <4>2. pulled[n - r] # pulled[n - r + 1]
          BY <2>1, <2>5, <4>1
        <4> QED
          BY <4>1, <4>2
      <3> QED
        BY <2>1, <3>1, <3>2 DEF Passes
    <2>7. CASE r >= REQUIRED_IDENTICAL_READS
      <3>1. /\ phase' = "accepted" /\ UNCHANGED attempts /\ accepted' = pulled[n]
            /\ consecutive' = r /\ r = REQUIRED_IDENTICAL_READS
        BY <1>6, <2>1, <2>5, <2>7 DEF Compare
      <3>2. \A k \in attempts' - consecutive' + 1 .. attempts' : pulled'[k] = accepted'
        BY <2>1, <2>5, <3>1
      <3> QED
        BY <2>1, <2>5, <3>1, <3>2 DEF RunInv, Reading
    <2>8. CASE r < REQUIRED_IDENTICAL_READS
      <3>1. previous' = pulled[n]
        BY <1>6, <2>1, <2>5, <2>8 DEF Compare
      <3>2. CASE attempts < MAX_READ_ATTEMPTS
        <4>1. phase' = "pull" /\ attempts' = n + 1
          BY <1>6, <2>1, <2>5, <2>8, <3>2 DEF Compare, BeginRead
        <4>2. NoRunWithin(attempts - 1)'
          BY <2>1, <2>6, <2>8, <4>1 DEF NoRunWithin
        <4>3. \A k \in attempts' - consecutive' .. attempts' - 1 : pulled'[k] = previous'
          BY <2>1, <2>5, <3>1, <4>1
        <4>4. consecutive' < attempts' - 1 =>
                 pulled'[attempts' - consecutive' - 1] # previous'
          <5>1. attempts' - consecutive' - 1 = n - r
            BY <2>1, <2>5, <4>1
          <5> QED
            BY <2>1, <2>5, <3>1, <4>1, <5>1
        <4>5. /\ consecutive' < REQUIRED_IDENTICAL_READS
              /\ consecutive' \in 1 .. attempts' - 1
              /\ previous' = pulled'[attempts' - 1]
          BY <2>1, <2>5, <2>8, <3>1, <4>1
        <4> QED
          BY <4>1, <4>2, <4>3, <4>4, <4>5 DEF RunInv
      <3>3. CASE attempts = MAX_READ_ATTEMPTS
        <4>1. phase' = "unstable"
          BY <1>6, <2>1, <2>5, <2>8, <3>3 DEF Compare
        <4> QED
          BY <2>1, <2>6, <2>8, <3>3, <4>1 DEF RunInv, NoRunWithin, Reading
      <3> QED
        BY <2>1, <3>2, <3>3
    <2> QED
      BY <2>3, <2>5, <2>7, <2>8
  <1>7. CASE UNCHANGED vars
    BY <1>7 DEF vars, RunInv, NoRunWithin
  <1>8. CASE AcceptBootloader
    BY <1>8 DEF AcceptBootloader, RunInv, NoRunWithin
  <1> QED
    BY <1>1, <1>2, <1>3, <1>4, <1>5, <1>6, <1>7, <1>8 DEF Next, HostStep

\* NotNewer is a preorder on flash contents.
LEMMA NotNewerOrder ==
    ASSUME NEW x \in Contents, NEW y \in Contents, NEW z \in Contents
    PROVE  /\ NotNewer(x, x)
           /\ NotNewer(x, y) /\ NotNewer(y, z) => NotNewer(x, z)
  BY DEF NotNewer, Contents

\* What one more pulled cell does to the image: below the new next it lies
\* between every content of an earlier read and the flash.
LEMMA PulledCell ==
    ASSUME IInv, PullCell
    PROVE  /\ next \in Cells /\ attempts \in Passes /\ next' = next + 1
           /\ current' \in Contents /\ current'[next] = flash[next]
           /\ \A c \in Cells : c < next => current'[c] = current[c]
           /\ \A c \in Cells : c < next' => c < next \/ c = next
           /\ next = CELLS => \A c \in Cells : c < next'
  <1>1. next \in Cells /\ attempts \in Passes
    BY DEF PullCell, IInv, ControlInv, Reading
  <1>2. current' = [current EXCEPT ![next] = flash[next]] /\ next' = next + 1
    BY DEF PullCell
  <1>3. current \in [Cells -> Nat] /\ flash \in [Cells -> Nat]
    BY DEF IInv, TypeOK, Contents
  <1>4. next \in Int /\ \A c \in Cells : c \in Int /\ c <= CELLS
    BY <1>1, FlashAssumption DEF Cells
  <1>5. current' \in Contents /\ current'[next] = flash[next]
    BY <1>1, <1>2, <1>3 DEF Contents
  <1>6. \A c \in Cells : c < next => current'[c] = current[c]
    BY <1>1, <1>2, <1>3, <1>4
  <1> QED
    BY <1>1, <1>2, <1>4, <1>5, <1>6, FlashAssumption

\* What is older stays older, action by action.
LEMMA OrderStep == ASSUME IInv, [Next]_vars PROVE OrderInv'
  <1> USE PolicyAssumption DEF IInv
  <1>0. /\ attempts \in Nat
        /\ flash \in Contents
        /\ \A k \in Passes : k \in Nat /\ k >= 1 /\ held[k] \subseteq Contents
                             /\ pulled[k] \in Contents
    BY DEF TypeOK, Passes
  <1>1. CASE \E c \in LIVE : LiveWrite(c)
    <2> PICK w \in LIVE : LiveWrite(w)
      BY <1>1
    <2>1. UNCHANGED <<phase, attempts, next, current, pulled>>
      BY DEF LiveWrite, readerVars
    <2>2. flash' \in Contents /\ NotNewer(flash, flash')
      BY LiveWriteFlash
    <2>3. \A j : IsComplete(j)' <=> IsComplete(j)
      BY <2>1 DEF IsComplete
    <2>4. ASSUME NEW x \in Contents, NotNewer(x, flash)
          PROVE  NotNewer(x, flash')
      BY <1>0, <2>2, <2>4, NotNewerOrder
    <2>5. \A j \in Passes : IsComplete(j) => NotNewer(pulled[j], flash')
      BY <1>0, <2>4 DEF OrderInv
    <2>6. phase = "pull" => \A c \in Cells : c < next => current[c] <= flash'[c]
      <3>1. current \in [Cells -> Nat] /\ flash \in [Cells -> Nat] /\ flash' \in [Cells -> Nat]
        BY <2>2 DEF TypeOK, Contents
      <3> QED
        BY <2>2, <3>1 DEF OrderInv, NotNewer
    <2>7. ASSUME NEW k \in Passes, k <= attempts, NEW h \in held'[k]
          PROVE  /\ NotNewer(h, flash')
                 /\ \A j \in Passes :
                     /\ j < k /\ IsComplete(j) => NotNewer(pulled[j], h)
                     /\ k < j /\ IsComplete(j) => NotNewer(h, pulled[j])
                 /\ phase = "pull" /\ k < attempts =>
                     \A c \in Cells : c < next => h[c] <= current[c]
      <3>1. CASE h \in held[k]
        BY <1>0, <2>4, <2>7, <3>1 DEF OrderInv
      <3>2. CASE h = flash' /\ k = attempts
        <4>1. \A j \in Passes : k < j => ~IsComplete(j)
          BY <1>0, <3>2 DEF IsComplete
        <4>2. NotNewer(h, flash')
          BY <2>2, <3>2, NotNewerOrder
        <4>3. \A j \in Passes : IsComplete(j) => NotNewer(pulled[j], h)
          BY <2>5, <3>2
        <4>4. ~(k < attempts)
          BY <1>0, <3>2
        <4> QED
          BY <4>1, <4>2, <4>3, <4>4
      <3>3. h \in held[k] \/ (h = flash' /\ k = attempts)
        BY <2>7, LiveWriteFlash
      <3> QED
        BY <3>1, <3>2, <3>3
    <2> QED
      BY <2>1, <2>3, <2>5, <2>6, <2>7 DEF OrderInv
  <1>2. CASE Identify
    <2>1. /\ phase' = "pull" /\ attempts' = 1 /\ next' = 1 /\ flash' = flash
          /\ held' = [held EXCEPT ![1] = {flash}]
      BY <1>2 DEF Identify, BeginRead
    <2>2. held'[1] = {flash}
      BY <2>1 DEF TypeOK, Passes
    <2>3. \A j \in Passes : ~IsComplete(j)'
      BY <1>0, <2>1 DEF IsComplete
    <2>4. \A k \in Passes : k <= attempts' => k = 1
      BY <1>0, <2>1
    <2>5. \A c \in Cells : ~(c < next')
      BY <2>1, FlashAssumption DEF Cells
    <2> QED
      BY <1>0, <2>1, <2>2, <2>3, <2>4, <2>5, NotNewerOrder DEF OrderInv
  <1>3. CASE IdentifyFails
    <2>1. attempts' = 0 /\ phase' # "pull"
      BY <1>3 DEF IdentifyFails, ControlInv
    <2> QED
      BY <1>0, <2>1 DEF OrderInv, IsComplete
  <1>4. CASE PullCell
    <2>1. /\ phase = "pull" /\ UNCHANGED <<flash, attempts, held>>
          /\ next = CELLS \/ UNCHANGED <<phase, pulled>>
          /\ next = CELLS => phase' = "compare"
                             /\ pulled' = [pulled EXCEPT ![attempts] = current']
      BY <1>4 DEF PullCell
    <2>2. \A c \in Cells : c < next' => current'[c] <= flash[c]
      <3>1. flash \in [Cells -> Nat]
        BY <1>0 DEF Contents
      <3> QED
        BY <1>4, <2>1, <3>1, PulledCell DEF OrderInv
    <2>3. \A k \in Passes : k < attempts => \A h \in held[k] :
            \A c \in Cells : c < next' => h[c] <= current'[c]
      <3> SUFFICES ASSUME NEW k \in Passes, k < attempts, NEW h \in held[k],
                          NEW c \in Cells, c < next'
                   PROVE  h[c] <= current'[c]
        OBVIOUS
      <3>1. NotNewer(h, flash) /\ (c < next => h[c] <= current[c])
        BY <1>0, <2>1 DEF OrderInv
      <3> QED
        BY <1>4, <3>1, PulledCell DEF NotNewer
    <2>4. CASE next # CELLS
      <3>1. \A j : IsComplete(j)' <=> IsComplete(j)
        BY <2>1, <2>4 DEF IsComplete
      <3> QED
        BY <2>1, <2>2, <2>3, <2>4, <3>1 DEF OrderInv
    <2>5. CASE next = CELLS
      <3>1. /\ \A j \in Passes : j # attempts => pulled'[j] = pulled[j]
            /\ pulled'[attempts] = current'
        BY <1>4, <2>1, <2>5, PulledCell DEF TypeOK
      <3>2. \A j \in Passes :
              IsComplete(j)' => j = attempts \/ (j # attempts /\ j < attempts /\ IsComplete(j))
        BY <1>0, <2>1, <2>5 DEF IsComplete
      <3>3. NotNewer(current', flash)
        BY <1>4, <2>2, <2>5, PulledCell DEF NotNewer
      <3>4. \A k \in Passes : k < attempts => \A h \in held[k] : NotNewer(h, current')
        BY <1>4, <2>3, <2>5, PulledCell DEF NotNewer
      <3>5. ASSUME NEW k \in Passes, k <= attempts, NEW h \in held[k]
            PROVE  /\ NotNewer(h, flash)
                   /\ \A j \in Passes :
                       /\ j < k /\ IsComplete(j)' => NotNewer(pulled'[j], h)
                       /\ k < j /\ IsComplete(j)' => NotNewer(h, pulled'[j])
        BY <1>0, <3>1, <3>2, <3>4, <3>5 DEF OrderInv
      <3>6. \A j \in Passes : IsComplete(j)' => NotNewer(pulled'[j], flash)
        BY <3>1, <3>2, <3>3 DEF OrderInv
      <3> QED
        BY <2>1, <2>5, <3>5, <3>6 DEF OrderInv
    <2> QED
      BY <2>4, <2>5
  <1>5. CASE PullFails
    <2>1. /\ phase' = "error"
          /\ UNCHANGED <<flash, attempts, next, current, pulled, held>>
      BY <1>5 DEF PullFails
    <2>2. \A j \in Passes : IsComplete(j)' => IsComplete(j)
      BY <2>1 DEF IsComplete
    <2> QED
      BY <2>1, <2>2 DEF OrderInv
  <1>6. CASE Compare
    <2>1. phase = "compare" /\ UNCHANGED <<flash, pulled>> /\ attempts \in Passes
      BY <1>6 DEF Compare, ControlInv, Reading
    <2>2. \A j \in Passes : IsComplete(j) <=> j <= attempts
      BY <1>0, <2>1 DEF IsComplete
    <2>3. CASE attempts < MAX_READ_ATTEMPTS /\ BeginRead(attempts + 1)
      <3>1. phase' = "pull" /\ attempts' = attempts + 1 /\ next' = 1
        BY <2>3 DEF BeginRead
      <3>2. \A j \in Passes : IsComplete(j)' <=> j <= attempts
        BY <1>0, <3>1 DEF IsComplete
      <3>3. \A k \in Passes : k <= attempts => held'[k] = held[k]
        BY <1>0, <2>3 DEF BeginRead, TypeOK
      <3>4. attempts + 1 \in Passes => held'[attempts + 1] = {flash}
        BY <2>3 DEF BeginRead, TypeOK
      <3>5. \A c \in Cells : ~(c < next')
        BY <3>1, FlashAssumption DEF Cells
      <3>6. ASSUME NEW k \in Passes, k <= attempts + 1, NEW h \in held'[k]
            PROVE  /\ NotNewer(h, flash)
                   /\ \A j \in Passes :
                       /\ j < k /\ j <= attempts => NotNewer(pulled[j], h)
                       /\ k < j /\ j <= attempts => NotNewer(h, pulled[j])
        <4>1. CASE k <= attempts
          BY <2>2, <3>3, <3>6, <4>1 DEF OrderInv
        <4>2. CASE k = attempts + 1
          BY <1>0, <2>2, <3>4, <3>6, <4>2, NotNewerOrder DEF OrderInv
        <4> QED
          BY <1>0, <3>6, <4>1, <4>2
      <3> QED
        BY <2>1, <2>2, <3>1, <3>2, <3>5, <3>6 DEF OrderInv
    <2>4. CASE phase' \in {"accepted", "unstable"} /\ UNCHANGED <<attempts, held>>
      <3>1. \A j \in Passes : IsComplete(j)' <=> IsComplete(j)
        BY <2>1, <2>4 DEF IsComplete
      <3> QED
        BY <2>1, <2>4, <3>1 DEF OrderInv
    <2> QED
      BY <1>6, <2>3, <2>4 DEF Compare
  <1>7. CASE UNCHANGED vars
    BY <1>7 DEF vars, OrderInv, IsComplete, NotNewer
  <1>8. CASE AcceptBootloader
    BY <1>8 DEF AcceptBootloader, OrderInv, IsComplete, NotNewer
  <1> QED
    BY <1>1, <1>2, <1>3, <1>4, <1>5, <1>6, <1>7, <1>8 DEF Next, HostStep

\* What was held during a read stays held, and each new image is made of it.
LEMMA HeldStep == ASSUME IInv, [Next]_vars PROVE HeldInv'
  <1> USE PolicyAssumption DEF IInv
  <1>0. /\ attempts \in Nat
        /\ flash \in Contents
        /\ \A k \in Passes : k \in Nat /\ k >= 1
    BY DEF TypeOK, Passes
  <1>1. CASE \E c \in LIVE : LiveWrite(c)
    <2> PICK w \in LIVE : LiveWrite(w)
      BY <1>1
    <2>1. UNCHANGED <<phase, attempts, next, current, pulled>>
      BY DEF LiveWrite, readerVars
    <2>2. \A k \in Passes : held[k] \subseteq held'[k]
      BY LiveWriteFlash
    <2>3. \A j : IsComplete(j)' <=> IsComplete(j)
      BY <2>1 DEF IsComplete
    <2>4. phase \in Reading \union {"accepted"} => attempts \in Passes
      BY DEF ControlInv
    <2>5. phase \in Reading => flash' \in held'[attempts]
      BY <2>4, LiveWriteFlash
    <2>6. \A k \in Passes : IsComplete(k) =>
            \A c \in Cells : \E h \in held'[k] : pulled[k][c] = h[c]
      BY <2>2 DEF HeldInv
    <2>7. phase = "pull" =>
            /\ \A c \in Cells : c < next => \E h \in held'[attempts] : current[c] = h[c]
            /\ \E s \in held'[attempts] : \A c \in Cells : c < next => s[c] <= current[c]
      BY <2>2, <2>4 DEF HeldInv, Reading
    <2>8. phase \in {"compare", "accepted"} =>
            \E s \in held'[attempts] : NotNewer(s, pulled[attempts])
      BY <2>2, <2>4 DEF HeldInv, Reading
    <2>9. \A k \in Passes : k <= attempts => held'[k] # {}
      BY <2>2 DEF HeldInv
    <2> QED
      BY <2>1, <2>3, <2>5, <2>6, <2>7, <2>8, <2>9 DEF HeldInv, NotNewer
  <1>2. CASE Identify
    <2>1. /\ phase' = "pull" /\ attempts' = 1 /\ next' = 1 /\ flash' = flash
          /\ held' = [held EXCEPT ![1] = {flash}]
      BY <1>2 DEF Identify, BeginRead
    <2>2. held'[1] = {flash}
      BY <2>1 DEF TypeOK, Passes
    <2>3. \A j \in Passes : ~IsComplete(j)'
      BY <1>0, <2>1 DEF IsComplete
    <2>4. \A k \in Passes : k <= attempts' => k = 1
      BY <1>0, <2>1
    <2>5. \A c \in Cells : ~(c < next')
      BY <2>1, FlashAssumption DEF Cells
    <2> QED
      BY <2>1, <2>2, <2>3, <2>4, <2>5 DEF HeldInv
  <1>3. CASE IdentifyFails
    <2>1. attempts' = 0 /\ phase' \in {"unavailable", "error"}
      BY <1>3 DEF IdentifyFails, ControlInv
    <2>2. \A j \in Passes : ~IsComplete(j)' /\ ~(j <= attempts')
      BY <1>0, <2>1 DEF IsComplete
    <2> QED
      BY <2>1, <2>2 DEF HeldInv, Reading
  <1>4. CASE PullCell
    <2>1. /\ phase = "pull" /\ UNCHANGED <<flash, attempts, held>>
          /\ next = CELLS \/ UNCHANGED <<phase, pulled>>
          /\ next = CELLS => phase' = "compare"
                             /\ pulled' = [pulled EXCEPT ![attempts] = current']
      BY <1>4 DEF PullCell
    <2>2. attempts \in Passes /\ flash \in held[attempts]
      BY <1>4, <2>1, PulledCell DEF HeldInv, Reading
    <2>3. \A c \in Cells : c < next' => \E h \in held[attempts] : current'[c] = h[c]
      BY <1>4, <2>1, <2>2, PulledCell DEF HeldInv
    <2>4. \E s \in held[attempts] : \A c \in Cells : c < next' => s[c] <= current'[c]
      <3>1. PICK s \in held[attempts] : \A c \in Cells : c < next => s[c] <= current[c]
        BY <2>1 DEF HeldInv
      <3>2. NotNewer(s, flash)
        BY <1>0, <2>2, <3>1 DEF OrderInv
      <3>3. \A c \in Cells : c < next' => s[c] <= current'[c]
        BY <1>4, <3>1, <3>2, PulledCell DEF NotNewer
      <3> QED
        BY <3>1, <3>3
    <2>5. CASE next # CELLS
      <3>1. \A j : IsComplete(j)' <=> IsComplete(j)
        BY <2>1, <2>5 DEF IsComplete
      <3> QED
        BY <2>1, <2>2, <2>3, <2>4, <2>5, <3>1 DEF HeldInv
    <2>6. CASE next = CELLS
      <3>1. /\ \A j \in Passes : j # attempts => pulled'[j] = pulled[j]
            /\ pulled'[attempts] = current'
        BY <2>1, <2>2, <2>6 DEF TypeOK
      <3>2. \A j \in Passes : IsComplete(j)' => j = attempts \/ IsComplete(j)
        BY <1>0, <2>1, <2>6 DEF IsComplete
      <3>3. \A c \in Cells : c < next'
        BY <1>4, <2>6, PulledCell
      <3>4. \A k \in Passes : IsComplete(k)' =>
              \A c \in Cells : \E h \in held[k] : pulled'[k][c] = h[c]
        BY <2>3, <3>1, <3>2, <3>3 DEF HeldInv
      <3>5. \E s \in held[attempts] : \A c \in Cells : s[c] <= pulled'[attempts][c]
        BY <2>4, <3>1, <3>3
      <3> QED
        BY <2>1, <2>2, <2>6, <3>4, <3>5 DEF HeldInv, NotNewer
    <2> QED
      BY <2>5, <2>6
  <1>5. CASE PullFails
    <2>1. phase' = "error" /\ UNCHANGED <<attempts, pulled, held>>
      BY <1>5 DEF PullFails
    <2>2. \A j \in Passes : IsComplete(j)' => IsComplete(j)
      BY <2>1 DEF IsComplete
    <2> QED
      BY <2>1, <2>2 DEF HeldInv, Reading
  <1>6. CASE Compare
    <2>1. /\ phase = "compare" /\ UNCHANGED <<flash, pulled>> /\ attempts \in Passes
      BY <1>6 DEF Compare, ControlInv, Reading
    <2>2. CASE attempts < MAX_READ_ATTEMPTS /\ BeginRead(attempts + 1)
      <3>1. phase' = "pull" /\ attempts' = attempts + 1 /\ next' = 1
        BY <2>2 DEF BeginRead
      <3>2. \A j \in Passes : IsComplete(j)' => IsComplete(j) /\ j <= attempts
        BY <1>0, <2>1, <3>1 DEF IsComplete
      <3>3. \A k \in Passes : k <= attempts => held'[k] = held[k]
        BY <1>0, <2>2 DEF BeginRead, TypeOK
      <3>4. attempts + 1 \in Passes /\ held'[attempts + 1] = {flash}
        <4>1. attempts + 1 \in Passes
          BY <1>0, <2>2 DEF Passes
        <4> QED
          BY <2>2, <4>1 DEF BeginRead, TypeOK
      <3>5. \A c \in Cells : ~(c < next')
        BY <3>1, FlashAssumption DEF Cells
      <3>6. \A k \in Passes : k <= attempts' => held'[k] # {}
        <4>1. \A k \in Passes : k <= attempts' => k <= attempts \/ k = attempts + 1
          BY <1>0, <3>1
        <4> QED
          BY <3>3, <3>4, <4>1 DEF HeldInv
      <3>7. \A k \in Passes : IsComplete(k)' =>
              \A c \in Cells : \E h \in held'[k] : pulled'[k][c] = h[c]
        BY <2>1, <3>2, <3>3 DEF HeldInv
      <3>8. flash' \in held'[attempts'] /\ phase' \notin {"compare", "accepted"}
        BY <2>1, <3>1, <3>4
      <3> QED
        BY <3>5, <3>6, <3>7, <3>8 DEF HeldInv
    <2>3. CASE phase' \in {"accepted", "unstable"} /\ UNCHANGED <<attempts, held>>
      <3>1. \A j \in Passes : IsComplete(j)' <=> IsComplete(j)
        BY <2>1, <2>3 DEF IsComplete
      <3> QED
        BY <2>1, <2>3, <3>1 DEF HeldInv, Reading, NotNewer
    <2> QED
      BY <1>6, <2>2, <2>3 DEF Compare
  <1>7. CASE UNCHANGED vars
    BY <1>7 DEF vars, HeldInv, IsComplete, NotNewer
  <1>8. CASE AcceptBootloader
    BY <1>8 DEF AcceptBootloader, HeldInv, IsComplete, NotNewer
  <1> QED
    BY <1>1, <1>2, <1>3, <1>4, <1>5, <1>6, <1>7, <1>8 DEF Next, HostStep

----------------------------------------------------------------------------
(* The theorems. *)

\* IInv holds in every reachable state of acquire_stable.
THEOREM Inductive == Spec => []IInv
  <1>1. IInv /\ [Next]_vars => IInv'
    BY TypeStep, ControlStep, RunStep, OrderStep, HeldStep DEF IInv
  <1> QED
    BY InitInv, <1>1, PTL DEF Spec

\* The host's variables keep their types: the run never grows past the number
\* of reads required, and no read past MAX_READ_ATTEMPTS is made.
THEOREM TypeCorrect == Spec => []TypeOK
  <1>1. IInv => TypeOK
    BY DEF IInv
  <1> QED
    BY Inductive, <1>1, PTL

\* An accepted image was assembled by each of the last REQUIRED_IDENTICAL_READS
\* reads (the run the loop counted), and was the flash's only content during every
\* read strictly between the first and the last of them: a content h held then is
\* no older than the image read before it and no newer than the one read after it,
\* and both are the accepted image.
THEOREM Settled == Spec => []AcceptedSettled
  <1>1. ASSUME IInv PROVE AcceptedSettled
    <2> SUFFICES ASSUME phase = "accepted"
                 PROVE  /\ attempts >= REQUIRED_IDENTICAL_READS
                        /\ \A k \in attempts - REQUIRED_IDENTICAL_READS + 1 .. attempts :
                               pulled[k] = accepted
                        /\ \A k \in attempts - REQUIRED_IDENTICAL_READS + 2 .. attempts - 1 :
                               held[k] = {accepted}
      BY DEF AcceptedSettled
    <2> USE <1>1, PolicyAssumption DEF IInv
    <2>1. /\ attempts \in Passes /\ attempts \in Nat
          /\ REQUIRED_IDENTICAL_READS <= attempts /\ attempts <= MAX_READ_ATTEMPTS
          /\ \A i \in attempts - REQUIRED_IDENTICAL_READS + 1 .. attempts :
                pulled[i] = accepted
      BY DEF ControlInv, RunInv, Passes
    <2>2. ASSUME NEW k \in attempts - REQUIRED_IDENTICAL_READS + 2 .. attempts - 1
          PROVE  held[k] = {accepted}
      <3>1. /\ k \in Int /\ k \in Passes /\ k <= attempts
            /\ k - 1 \in Passes /\ k + 1 \in Passes
            /\ k - 1 < k /\ k < k + 1 /\ k - 1 < attempts /\ k + 1 <= attempts
        BY <2>1 DEF Passes
      <3>2. pulled[k - 1] = accepted /\ pulled[k + 1] = accepted
        BY <2>1
      <3>3. IsComplete(k - 1) /\ IsComplete(k + 1)
        BY <2>1, <3>1 DEF IsComplete
      <3>4. ASSUME NEW h \in held[k] PROVE h = accepted
        <4>1. NotNewer(accepted, h) /\ NotNewer(h, accepted)
          BY <3>1, <3>2, <3>3 DEF OrderInv
        <4>2. h \in [Cells -> Nat] /\ accepted \in [Cells -> Nat]
          BY <3>1 DEF TypeOK, Contents
        <4>3. \A c \in Cells : h[c] = accepted[c]
          BY <4>1, <4>2 DEF NotNewer
        <4> QED
          BY <4>2, <4>3
      <3>5. held[k] # {}
        BY <3>1 DEF HeldInv
      <3> QED
        BY <3>4, <3>5
    <2> QED
      BY <2>1, <2>2
  <1> QED
    BY Inductive, <1>1, PTL

\* An accepted image is a content the flash held during the last read: some
\* content s held then is no newer than the image, the identical image read
\* before is no newer than s, and so all three are one.
THEOREM Snapshot == Spec => []AcceptedSnapshot
  <1>1. ASSUME IInv PROVE AcceptedSnapshot
    <2> SUFFICES ASSUME phase = "accepted" PROVE accepted \in held[attempts]
      BY DEF AcceptedSnapshot
    <2> USE <1>1, PolicyAssumption DEF IInv
    <2>1. /\ attempts \in Passes /\ attempts \in Nat
          /\ REQUIRED_IDENTICAL_READS <= attempts
          /\ \A i \in attempts - REQUIRED_IDENTICAL_READS + 1 .. attempts :
                pulled[i] = accepted
      BY DEF ControlInv, RunInv, Passes
    <2>2. attempts - 1 \in Passes /\ attempts - 1 < attempts
      BY <2>1 DEF Passes
    <2>3. pulled[attempts - 1] = accepted /\ pulled[attempts] = accepted
      BY <2>1
    <2>4. PICK s \in held[attempts] : NotNewer(s, accepted)
      BY <2>3 DEF HeldInv
    <2>5. NotNewer(accepted, s)
      BY <2>1, <2>2, <2>3 DEF OrderInv, IsComplete
    <2>6. s \in [Cells -> Nat] /\ accepted \in [Cells -> Nat]
      BY <2>1 DEF TypeOK, Contents
    <2>7. \A c \in Cells : s[c] = accepted[c]
      BY <2>4, <2>5, <2>6 DEF NotNewer
    <2>8. s = accepted
      BY <2>6, <2>7
    <2> QED
      BY <2>8
  <1> QED
    BY Inductive, <1>1, PTL

\* A refusal is justified: if the flash had held one content only all through
\* a window of the required length, every image read in it would have been that
\* content and the run would have been long enough.
THEOREM Refused == Spec => []RefusedMeansChanged
  <1>1. ASSUME IInv PROVE RefusedMeansChanged
    <2> SUFFICES ASSUME phase = "unstable",
                        NEW k \in 1 .. MAX_READ_ATTEMPTS - REQUIRED_IDENTICAL_READS + 1,
                        NEW image \in held[k],
                        \A j \in k .. k + REQUIRED_IDENTICAL_READS - 1 : held[j] = {image}
                 PROVE  FALSE
      BY DEF RefusedMeansChanged
    <2> USE <1>1, PolicyAssumption DEF IInv
    <2>1. PICK j \in k .. k + REQUIRED_IDENTICAL_READS - 2 : pulled[j] # pulled[j + 1]
      BY DEF RunInv, NoRunWithin, Passes
    <2>2. /\ j \in Passes /\ j + 1 \in Passes
          /\ held[j] = {image} /\ held[j + 1] = {image}
      BY DEF Passes
    <2>3. attempts = MAX_READ_ATTEMPTS
      BY DEF ControlInv
    <2>4. IsComplete(j) /\ IsComplete(j + 1)
      BY <2>2, <2>3 DEF IsComplete, Passes
    <2>5. \A c \in Cells : pulled[j][c] = image[c] /\ pulled[j + 1][c] = image[c]
      BY <2>2, <2>4 DEF HeldInv
    <2>6. pulled[j] \in [Cells -> Nat] /\ pulled[j + 1] \in [Cells -> Nat]
      BY <2>2 DEF TypeOK, Contents
    <2>7. pulled[j] = pulled[j + 1]
      BY <2>5, <2>6
    <2> QED
      BY <2>1, <2>7
  <1> QED
    BY Inductive, <1>1, PTL

\* What command_backup publishes satisfies load_preserved_backup: the run counted
\* exactly the reads required, within the attempts allowed, and the gate recorded
\* the acceptance the reader derives from the image's own bootloader.
THEOREM Evidence == Spec => []EvidenceLoads
  <1>1. ASSUME IInv PROVE EvidenceLoads
    <2> SUFFICES ASSUME acceptance \in Acceptances
                 PROVE  LoadsAsEvidence(Manifest, acceptance, accepted)
      BY DEF EvidenceLoads
    <2> USE <1>1, PolicyAssumption DEF IInv
    <2>1. phase = "accepted"
      BY DEF ControlInv, Acceptances
    <2>2. /\ consecutive = REQUIRED_IDENTICAL_READS
          /\ attempts \in REQUIRED_IDENTICAL_READS .. MAX_READ_ATTEMPTS
      BY <2>1 DEF RunInv, ControlInv, Passes
    <2>3. acceptance = IF bootloader_reference(accepted).known_reference
                       THEN "known-reference" ELSE "explicit-hash"
      BY DEF ControlInv, bootloader_reference
    <2>4. /\ Manifest.format = "cc2flash-backup-v2"
          /\ Manifest.sha256 = accepted
          /\ Manifest.bootloader = bootloader_reference(accepted)
          /\ Manifest.required_identical_reads = REQUIRED_IDENTICAL_READS
          /\ Manifest.consecutive_identical_reads = consecutive
          /\ Manifest.read_passes = attempts
          /\ Manifest.maximum_read_attempts = MAX_READ_ATTEMPTS
          /\ Manifest.partitions = Cells
      BY DEF Manifest
    <2> QED
      BY <2>2, <2>3, <2>4 DEF LoadsAsEvidence
  <1> QED
    BY Inductive, <1>1, PTL
=============================================================================
