----------------------------- MODULE HidUpload -----------------------------
(***************************************************************************)
(* File upload in normal mode: cc2camera/hid_transport.py's                *)
(* upload_normal_file and start_adb_through_upload_command on the host,    *)
(* and the 0x3xxx dispatcher of hid_update_reconstructed.c on the camera,  *)
(* which keeps one upload state across callers until it reboots.  A call   *)
(* may end early (timeout, damaged or lost report, refused request) and    *)
(* leave the uploader halfway; the next call starts with 0x3000 again.     *)
(* Recognised commands in the wrong state are answered "success" without   *)
(* any effect.                                                             *)
(*                                                                         *)
(* A chunk is named by its call and its number, a content is a sequence of *)
(* chunks.                                                                 *)
(***************************************************************************)
EXTENDS Naturals, Sequences

CONSTANTS
    Paths,          \* destinations of ordinary uploads
    ADBD,           \* the one audited target that starts adbd
    Kinds,          \* which of the two callers are used: "file", "adb"
    MAX_CHUNKS,     \* bound: chunks of one content
    CAPACITY,       \* chunks the receive buffer holds
    SESSIONS,       \* bound: calls
    MAX_FAULTS,     \* bound: lost or damaged reports
    MAX_REBOOTS     \* bound: restarts of the camera

ASSUME UploadAssumption ==
    /\ ADBD \notin Paths
    /\ Kinds \subseteq {"file", "adb"}
    /\ MAX_CHUNKS \in Nat \ {0}
    /\ CAPACITY \in Nat
    /\ MAX_CHUNKS <= CAPACITY     \* upload_normal_file refuses larger contents
    /\ SESSIONS \in Nat
    /\ MAX_FAULTS \in Nat
    /\ MAX_REBOOTS \in Nat

Targets == Paths \union {ADBD}
Commands == {"init", "target", "data", "commit"}
Chunk == (0 .. SESSIONS) \X (0 .. MAX_CHUNKS)
OldContent == << <<0, 0>> >>       \* what a destination held before

VARIABLES
    host,           \* command whose reply is awaited, or how the call ended
    session,        \* number of the current or last call
    kind,           \* which caller it is
    target,         \* its destination
    chunks,         \* number of chunks of its content
    sequence,       \* the chunk last sent
    out, in,        \* reports in transit to the camera, and to the host
    state,          \* g_upload_state
    allocated,      \* upload_data is not NULL
    upload_data, upload_used, last_sequence, destination, saw_final,
    files,          \* what each destination holds
    adbd,           \* adbd was started on this boot
    faults, reboots,
    \* Observation only.
    found,          \* what the call found: see Found
    refused,        \* a commit failed on this boot
    unflushed       \* chunks the last successful commit failed to store

hostVars == <<host, session, kind, target, chunks, sequence, found>>
bufferVars == <<allocated, upload_data, upload_used, last_sequence, destination, saw_final>>
worldVars == <<files, adbd, refused, unflushed>>
boundVars == <<faults, reboots>>
vars == <<hostVars, out, in, state, bufferVars, worldVars, boundVars>>

Ended == {"idle", "done", "failed"}
Request == [command : Commands, target : Targets, chunk : Chunk, final : BOOLEAN,
            good : BOOLEAN]
Reply == [command : Commands, ok : BOOLEAN]

TypeOK ==
    /\ host \in Commands \union Ended
    /\ session \in 0 .. SESSIONS
    /\ kind \in {"file", "adb"}
    /\ target \in Targets
    /\ chunks \in 1 .. MAX_CHUNKS
    /\ sequence \in 0 .. MAX_CHUNKS
    /\ out \in Seq(Request)
    /\ in \in Seq(Reply)
    /\ state \in {"idle", "need_target", "receiving", "ready", "error", "dead"}
    /\ allocated \in BOOLEAN
    /\ upload_data \in Seq(Chunk)
    /\ upload_used \in 0 .. CAPACITY
    /\ allocated => upload_used = Len(upload_data)
    /\ last_sequence \in 0 .. MAX_CHUNKS
    /\ destination \in Targets
    /\ saw_final \in BOOLEAN
    /\ files \in [Paths -> Seq(Chunk)]
    /\ adbd \in BOOLEAN
    /\ faults \in 0 .. MAX_FAULTS
    /\ reboots \in 0 .. MAX_REBOOTS
    /\ found \in {"idle", "adb", "other"}
    /\ refused \in BOOLEAN
    /\ unflushed \in 0 .. CAPACITY

Init ==
    /\ host = "idle" /\ session = 0 /\ kind = "file" /\ target = ADBD
    /\ chunks = 1 /\ sequence = 0 /\ found = "idle"
    /\ out = <<>> /\ in = <<>>
    /\ state = "idle"
    /\ allocated = FALSE /\ upload_data = <<>> /\ upload_used = 0
    /\ last_sequence = 0 /\ destination = ADBD /\ saw_final = FALSE
    /\ files = [p \in Paths |-> OldContent]
    /\ adbd = FALSE /\ refused = FALSE /\ unflushed = 0
    /\ faults = 0 /\ reboots = 0

----------------------------------------------------------------------------
(* The host. *)

\* What call s of n chunks uploads.
Content(s, n) == [i \in 1 .. n |-> <<s, i - 1>>]

SendRequest(command, chunk) ==
    /\ host' = command
    /\ out' = Append(out, [command |-> command, target |-> target',
                           chunk |-> chunk, final |-> chunk[2] + 1 = chunks',
                           good |-> TRUE])

\* What start_adb alone can have left behind on this boot: its 0x3000 is answered
\* "success" only by an uploader that is then no longer idle, its data completes
\* the buffer, and its commit starts adbd.
LeftByAdb ==
    /\ \A i \in DOMAIN out : out[i].target = ADBD
    /\ CASE state = "idle" ->
              \A i \in DOMAIN in' : in'[i] # [command |-> "init", ok |-> TRUE]
         [] state = "need_target" -> TRUE
         [] state = "receiving" -> destination = ADBD /\ upload_data = <<>>
         [] state = "ready" -> destination = ADBD
         [] OTHER -> adbd

\* What a call that begins finds: the uploader idle and no report in transit, or
\* only what start_adb may have left there, or something else.
Found ==
    IF state = "idle" /\ out = <<>> /\ in' = <<>> THEN "idle"
    ELSE IF LeftByAdb THEN "adb" ELSE "other"

\* A caller opens the one normal HID and sends 0x3000.  Replies nobody read may
\* be gone by then or may not.  start_adb uploads one chunk.
Begin(k, t, n) ==
    /\ host \in Ended /\ session < SESSIONS
    /\ IF k = "adb" THEN t = ADBD /\ n = 1 ELSE t # ADBD
    /\ session' = session + 1
    /\ kind' = k /\ target' = t /\ chunks' = n /\ sequence' = 0
    /\ SendRequest("init", <<0, 0>>)
    /\ in' \in {in, <<>>}
    /\ found' = Found
    /\ UNCHANGED <<state, bufferVars, worldVars, boundVars>>

\* What the caller sends after a success reply, and then.
SendNext ==
    /\ UNCHANGED <<session, kind, target, chunks, found>>
    /\ \/ /\ host = "init"
          /\ SendRequest("target", <<0, 0>>)
          /\ UNCHANGED sequence
       \/ /\ host = "target"
          /\ sequence' = 0
          /\ SendRequest("data", <<session, 0>>)
       \/ /\ host = "data" /\ sequence + 1 < chunks
          /\ sequence' = sequence + 1
          /\ SendRequest("data", <<session, sequence + 1>>)
       \/ /\ host = "data" /\ sequence + 1 = chunks
          /\ SendRequest("commit", <<0, 0>>)
          /\ UNCHANGED sequence
       \/ /\ host = "commit"
          /\ host' = "done"
          /\ UNCHANGED <<sequence, out>>

\* Mutant of Abandon: start_adb ignores the outcome of every exchange.
AbandonAsDone ==
    /\ host' = IF kind = "adb" THEN "done" ELSE "failed"
    /\ UNCHANGED <<session, kind, target, chunks, sequence, found, out>>

\* An exchange that fails raises, except that start_adb ignores how its commit
\* ended.
Abandon ==
    /\ host' = IF kind = "adb" /\ host = "commit" THEN "done" ELSE "failed"
    /\ UNCHANGED <<session, kind, target, chunks, sequence, found, out>>

\* exchange_normal reads one reply, which must echo the command and carry
\* status 0.
TakeReply ==
    /\ host \in Commands /\ in # <<>>
    /\ in' = Tail(in)
    /\ IF Head(in).ok /\ Head(in).command = host THEN SendNext ELSE Abandon
    /\ UNCHANGED <<state, bufferVars, worldVars, boundVars>>

\* Mutant of GiveUp: the read has no timeout of its own.
GiveUpNever ==
    /\ host \in Commands /\ in # <<>>
    /\ Abandon
    /\ UNCHANGED <<in, state, bufferVars, worldVars, boundVars>>

\* A read that times out, a short write, a disconnect.
GiveUp ==
    /\ host \in Commands
    /\ Abandon
    /\ UNCHANGED <<in, state, bufferVars, worldVars, boundVars>>

----------------------------------------------------------------------------
(* The camera. *)

Respond(r, status) == in' = Append(in, [command |-> r.command, ok |-> status])

\* Status 0 without an effect: the answer to a command in the wrong state.
Ignore(r) ==
    /\ Respond(r, TRUE)
    /\ UNCHANGED <<state, bufferVars, worldVars>>

\* dispatch_normal_report: a report whose CRC fails is refused and not acted on.
BadReport(r) ==
    /\ Respond(r, FALSE)
    /\ UNCHANGED <<state, bufferVars, worldVars>>

\* Mutant of UploadInit: the state moves on although malloc failed.
UploadInitUnchecked(r) ==
    /\ allocated' \in {TRUE, allocated}
    /\ upload_data' = <<>> /\ upload_used' = 0 /\ last_sequence' = 0
    /\ saw_final' = FALSE
    /\ state' = "need_target"
    /\ Respond(r, TRUE)
    /\ UNCHANGED <<destination, worldVars>>

\* 0x3000 in idle: upload_init keeps a buffer that is still there; malloc may
\* fail, which leaves the state idle.  The destination is cleared there; it is
\* not used again before 0x3110 sets it.
UploadInit(r) ==
    \/ /\ allocated' = TRUE
       /\ upload_data' = <<>> /\ upload_used' = 0 /\ last_sequence' = 0
       /\ saw_final' = FALSE
       /\ state' = "need_target"
       /\ Respond(r, TRUE)
       /\ UNCHANGED <<destination, worldVars>>
    \/ /\ ~allocated
       /\ Respond(r, FALSE)
       /\ UNCHANGED <<state, bufferVars, worldVars>>

\* 0x3110 in need_target.
UploadTarget(r) ==
    /\ destination' = r.target
    /\ state' = "receiving"
    /\ Respond(r, TRUE)
    /\ UNCHANGED <<allocated, upload_data, upload_used, last_sequence, saw_final, worldVars>>

\* upload_append's sequence and capacity checks.
Appendable(r) ==
    /\ r.chunk[2] >= 2 => r.chunk[2] = last_sequence + 1
    /\ upload_used + 1 <= CAPACITY

\* 0x3200 in receiving or error.  Copying to a buffer a failed commit freed
\* kills the daemon.
UploadAppend(r) ==
    \/ /\ Appendable(r) /\ allocated
       /\ upload_data' = Append(upload_data, r.chunk)
       /\ upload_used' = upload_used + 1
       /\ last_sequence' = r.chunk[2]
       /\ saw_final' = (saw_final \/ r.final)
       /\ state' = IF r.final THEN "ready" ELSE state
       /\ Respond(r, TRUE)
       /\ UNCHANGED <<allocated, destination, worldVars>>
    \/ /\ Appendable(r) /\ ~allocated
       /\ state' = "dead"
       /\ UNCHANGED <<in, bufferVars, worldVars>>
    \/ /\ ~Appendable(r)
       /\ state' = "error"
       /\ Respond(r, FALSE)
       /\ UNCHANGED <<bufferVars, worldVars>>

\* What the destination now holds.
Contain(content) == files' = [files EXCEPT ![destination] = content]

\* A commit that fails frees the buffer.
CommitFails(r) ==
    /\ state' = "error"
    /\ allocated' = FALSE /\ upload_data' = <<>>
    /\ refused' = TRUE
    /\ Respond(r, FALSE)
    /\ UNCHANGED <<upload_used, last_sequence, destination, saw_final, unflushed>>

\* A commit that succeeds frees the buffer too; n chunks reached the destination.
CommitSucceeds(r, n) ==
    /\ Contain(SubSeq(upload_data, 1, n))
    /\ state' = "idle"
    /\ allocated' = FALSE /\ upload_data' = <<>>
    /\ Respond(r, TRUE)
    /\ UNCHANGED <<upload_used, last_sequence, destination, saw_final, adbd, refused>>

\* Mutant of UploadCommit: a short fwrite counts as success.
UploadCommitUnchecked(r) ==
    \/ /\ ~saw_final \/ destination = ADBD
       /\ adbd' = (adbd \/ saw_final)
       /\ CommitFails(r)
       /\ UNCHANGED files
    \/ /\ saw_final /\ destination # ADBD
       /\ \E n \in 0 .. Len(upload_data) : CommitSucceeds(r, n)
       /\ unflushed' = 0

\* 0x3300 in ready or error.  Without the final chunk nothing is done.  For ADBD
\* the shell command that should remove the destination starts adbd, and fopen
\* fails.  An ordinary destination is removed, created and written, which may
\* fail anywhere.  fwrite only fills stdio's buffer as far as it likes, and the
\* result of the fclose that stores the rest is not looked at: on a full partition
\* the commit succeeds with a cut file.  Writing from a freed buffer is taken to
\* fail; the callers here never get there, their data kills the daemon first.
UploadCommit(r) ==
    \/ /\ ~saw_final
       /\ CommitFails(r)
       /\ UNCHANGED <<files, adbd>>
    \/ /\ saw_final /\ destination = ADBD
       /\ adbd' = TRUE
       /\ CommitFails(r)
       /\ UNCHANGED files
    \/ /\ saw_final /\ destination # ADBD
       /\ \E n \in 0 .. Len(upload_data) :
             (n < Len(upload_data) \/ ~allocated) /\ Contain(SubSeq(upload_data, 1, n))
       /\ CommitFails(r)
       /\ UNCHANGED adbd
    \/ /\ saw_final /\ destination # ADBD /\ allocated
       /\ \E n \in 0 .. Len(upload_data) :
             CommitSucceeds(r, n) /\ unflushed' = Len(upload_data) - n

\* The state each command acts in.
ActsIn(r) ==
    CASE r.command = "init"   -> {"idle"}
      [] r.command = "target" -> {"need_target"}
      [] r.command = "data"   -> {"receiving", "error"}
      [] r.command = "commit" -> {"ready", "error"}

\* hid_event_thread takes one report and dispatches it to the end.
Dispatch ==
    /\ state # "dead" /\ out # <<>>
    /\ out' = Tail(out)
    /\ LET r == Head(out)
       IN  \/ ~r.good /\ BadReport(r)
           \/ r.good /\ state \notin ActsIn(r) /\ Ignore(r)
           \/ r.good /\ state \in ActsIn(r) /\ r.command = "init" /\ UploadInit(r)
           \/ r.good /\ state \in ActsIn(r) /\ r.command = "target" /\ UploadTarget(r)
           \/ r.good /\ state \in ActsIn(r) /\ r.command = "data" /\ UploadAppend(r)
           \/ r.good /\ state \in ActsIn(r) /\ r.command = "commit" /\ UploadCommit(r)
    /\ UNCHANGED <<hostVars, boundVars>>

----------------------------------------------------------------------------
\* The report at the head of a queue is lost, or damaged so that its CRC fails.
Fault ==
    /\ faults < MAX_FAULTS
    /\ faults' = faults + 1
    /\ \/ /\ out # <<>>
          /\ out' \in {Tail(out), <<[Head(out) EXCEPT !.good = FALSE]>> \o Tail(out)}
          /\ UNCHANGED in
       \/ /\ in # <<>>
          /\ in' \in {Tail(in), <<[Head(in) EXCEPT !.ok = FALSE]>> \o Tail(in)}
          /\ UNCHANGED out
    /\ UNCHANGED <<hostVars, state, bufferVars, worldVars, reboots>>

\* The camera restarts: the daemon's memory is zero again, nothing is in
\* transit, adbd is not running.  The commit does not sync what it wrote, so
\* nothing is claimed past a restart of a call that began before it.
Reboot ==
    /\ reboots < MAX_REBOOTS
    /\ reboots' = reboots + 1
    /\ state' = "idle"
    /\ allocated' = FALSE /\ upload_data' = <<>> /\ upload_used' = 0
    /\ last_sequence' = 0 /\ destination' = ADBD /\ saw_final' = FALSE
    /\ out' = <<>> /\ in' = <<>>
    /\ adbd' = FALSE /\ refused' = FALSE
    /\ found' = "other"
    /\ UNCHANGED <<host, session, kind, target, chunks, sequence, files, unflushed, faults>>

BeginSome ==
    \E k \in Kinds, t \in Targets, n \in 1 .. MAX_CHUNKS : Begin(k, t, n)

Next == BeginSome \/ TakeReply \/ GiveUp \/ Dispatch \/ Fault \/ Reboot

\* Every read of the host returns or times out; the daemon's loop keeps taking
\* reports.
Spec == Init /\ [][Next]_vars
FairSpec == Spec /\ WF_vars(TakeReply \/ GiveUp) /\ WF_vars(Dispatch)

----------------------------------------------------------------------------
(* Properties. *)

Returned(k) == host = "done" /\ kind = k

\* upload_normal_file's promise, "Overwrite one file", for a call that found the
\* uploader idle and nothing in transit: if it returns, whatever went wrong with
\* earlier calls, the uploader is idle again for the next one and the destination
\* holds the call's chunks in order, every one of them unless the camera's
\* unchecked fclose failed, and then all but the ones it failed to store.
FreshUploadLands ==
    Returned("file") /\ found = "idle" =>
        files[target] = Content(session, chunks - unflushed) /\ state = "idle"

\* The same promise for every call.  PROTOCOL.md: "Host software must track the
\* state rather than treating status 0 as proof of an action."
UploadLands ==
    Returned("file") => files[target] = Content(session, chunks)

\* start_adb's docstring: its commit "launches /bin/adbd in the background".  A
\* call that found nothing but what earlier calls of start_adb had left, abandoned
\* wherever, and whose commit was delivered has started adbd if it returned.
ReturnedMeansAdbd ==
    Returned("adb") /\ found # "other" /\ out = <<>> /\ faults = 0 /\ reboots = 0 => adbd

\* A daemon that has not refused a commit on this boot survives every sequence
\* of calls, completed or abandoned.
SurvivesUntilRefusal ==
    state = "dead" => refused

\* Every call ends, even against a dead daemon.
CallsEnd == host \in Commands ~> host \in Ended
=============================================================================
