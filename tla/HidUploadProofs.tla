-------------------------- MODULE HidUploadProofs --------------------------
(***************************************************************************)
(* The normal-mode uploader survives until it refuses a commit, a file     *)
(* upload that began with nothing in transit and returns has landed, and a *)
(* start_adb that returns has started adbd: for contents of any length,    *)
(* any number of calls, faults and restarts.                               *)
(***************************************************************************)
EXTENDS HidUpload, TLAPS

\* Requests callers send: a request for ADBD carries start_adb's one chunk.
Sent == {r \in Request : r.target = ADBD => r.final /\ r.chunk[2] = 0}

\* The caller's arguments: start_adb uploads one chunk to ADBD, upload_normal_file
\* never goes there; the chunk number is one of the content's.
CallInv ==
    /\ kind = "adb" => target = ADBD /\ chunks = 1
    /\ host # "idle" /\ kind = "file" => target \in Paths
    /\ host = "data" => sequence < chunks
    /\ host = "commit" => sequence + 1 = chunks

\* What is in transit to the camera.
OutInv ==
    /\ out \in Seq(Sent)
    /\ faults = 0 => \A i \in DOMAIN out : out[i].good

\* The buffer exists while an upload is in progress, and is lost otherwise only
\* to a refused commit.
BufferInv ==
    /\ state \in {"need_target", "receiving", "ready"} => allocated
    /\ state = "error" => allocated \/ refused
    /\ state = "dead" => refused
    /\ state = "need_target" => upload_data = <<>> /\ upload_used = 0 /\ ~saw_final
    /\ state = "ready" => saw_final

----------------------------------------------------------------------------
(* A call that found the uploader idle and nothing in transit has one report *)
(* on the way at a time, and knows where the uploader is.                    *)

\* The uploader holds the first n chunks of this call's content.
Received(n) ==
    /\ state = IF n = chunks THEN "ready" ELSE "receiving"
    /\ destination = target
    /\ upload_data = Content(session, n) /\ upload_used = n
    /\ n > 0 => last_sequence = n - 1
    /\ saw_final <=> n = chunks

Landed == files[target] = Content(session, chunks - unflushed) /\ state = "idle"

\* Where the uploader is before it acts on the request the call waits for, and
\* after it answered "success".
Before ==
    \/ host = "init" /\ state = "idle"
    \/ host = "target" /\ state = "need_target"
    \/ host = "data" /\ Received(sequence)
    \/ host = "commit" /\ Received(chunks)
After ==
    \/ host = "init" /\ state = "need_target"
    \/ host = "target" /\ Received(0)
    \/ host = "data" /\ Received(sequence + 1)
    \/ host = "commit" /\ Landed

\* r is the request the call waits for.
Own(r) ==
    /\ r.command = host /\ r.target = target
    /\ host = "data" =>
          r.chunk = <<session, sequence>> /\ r.final = (sequence + 1 = chunks)

FreshInv ==
    found = "idle" /\ host \in Commands =>
        \/ out = <<>> /\ in = <<>>
        \/ in = <<>> /\ Before /\ \E r \in Sent : out = <<r>> /\ Own(r)
        \/ /\ out = <<>>
           /\ \E p \in Reply : in = <<p>> /\ (p.ok => p.command = host /\ After)

LandedInv == found = "idle" /\ Returned("file") => out = <<>> /\ Landed

----------------------------------------------------------------------------
(* A start_adb call may run ahead of the camera on replies to earlier calls. *)

\* The requests of start_adb in order, and how many the call has sent.
Script == <<"init", "target", "data", "commit">>
Progress ==
    IF host = "init" THEN 1 ELSE IF host = "target" THEN 2
    ELSE IF host = "data" THEN 3 ELSE 4

\* A start_adb call that has not failed and has not started adbd yet.
Pending ==
    /\ kind = "adb" /\ host \in Commands \union {"done"} /\ found # "other"
    /\ faults = 0 /\ reboots = 0 /\ ~adbd

\* Where the uploader is.  A success reply to 0x3000 means that it is not idle.
AdbState ==
    /\ state \in {"idle", "need_target", "receiving", "ready"}
    /\ state = "idle" =>
          /\ Progress = 1
          /\ \A i \in DOMAIN in : in[i] # [command |-> "init", ok |-> TRUE]
    /\ state = "receiving" => destination = ADBD /\ upload_data = <<>>
    /\ state = "ready" => destination = ADBD

\* What the camera has not seen yet ends with the last requests of the call, and
\* it is as far as the requests it has seen.
AdbQueue ==
    /\ \A i \in DOMAIN out : out[i].target = ADBD
    /\ \A j \in 0 .. 3 :
          j < Len(out) /\ j < Progress =>
              out[Len(out) - j].command = Script[Progress - j]
    /\ Len(out) + 1 < Progress => state \in {"receiving", "ready"}
    /\ Len(out) + 2 < Progress => state = "ready"
    /\ Len(out) + 3 >= Progress

AdbInv == Pending => AdbState /\ AdbQueue

IInv ==
    TypeOK /\ CallInv /\ OutInv /\ BufferInv /\ FreshInv /\ LandedInv /\ AdbInv

----------------------------------------------------------------------------
(* Queues and contents. *)

\* What the queues of reports do.
LEMMA Queues ==
    ASSUME NEW S, NEW q \in Seq(S), NEW x \in S
    PROVE  /\ Append(q, x) \in Seq(S) /\ <<>> \in Seq(S)
           /\ q # <<>> => Head(q) \in S /\ Tail(q) \in Seq(S) /\ <<x>> \o Tail(q) \in Seq(S)
  <1>1. Append(q, x) \in Seq(S) /\ <<>> \in Seq(S) /\ <<x>> \in Seq(S)
    OBVIOUS
  <1>2. ASSUME q # <<>>
        PROVE  Head(q) \in S /\ Tail(q) \in Seq(S)
    BY <1>2
  <1>3. ASSUME q # <<>>
        PROVE  <<x>> \o Tail(q) \in Seq(S)
    BY <1>1, <1>2, <1>3
  <1> QED
    BY <1>1, <1>2, <1>3

\* A queue of one report.
LEMMA Single ==
    ASSUME NEW x
    PROVE  /\ Append(<<>>, x) = <<x>> /\ Head(<<x>>) = x /\ Tail(<<x>>) = <<>>
           /\ <<x>> # <<>>
  OBVIOUS

\* What a queue holds after a report was appended or taken.
LEMMA Positions ==
    ASSUME NEW S, NEW q \in Seq(S), NEW x \in S
    PROVE  /\ Len(Append(q, x)) = Len(q) + 1
           /\ \A i \in 1 .. Len(q) : Append(q, x)[i] = q[i]
           /\ Append(q, x)[Len(q) + 1] = x
           /\ q # <<>> => /\ Len(Tail(q)) = Len(q) - 1 /\ Len(q) >= 1 /\ Head(q) = q[1]
                         /\ \A i \in 1 .. Len(q) - 1 : Tail(q)[i] = q[i + 1]
  OBVIOUS

\* Content(s, n) is a content of n chunks, and the next chunk continues it.
LEMMA Contents ==
    ASSUME NEW s \in 0 .. SESSIONS, NEW n \in 0 .. MAX_CHUNKS
    PROVE  /\ Content(s, n) \in Seq(Chunk) /\ Len(Content(s, n)) = n
           /\ Content(s, 0) = <<>>
           /\ Append(Content(s, n), <<s, n>>) = Content(s, n + 1)
  <1>1. MAX_CHUNKS \in Nat /\ SESSIONS \in Nat
    BY UploadAssumption
  <1>2. \A i \in 1 .. n : <<s, i - 1>> \in Chunk
    BY <1>1 DEF Chunk
  <1>3. Content(s, n) \in Seq(Chunk) /\ Len(Content(s, n)) = n
    BY <1>1, <1>2 DEF Content
  <1>4. Content(s, 0) = <<>>
    BY DEF Content
  <1>5. Append(Content(s, n), <<s, n>>) = Content(s, n + 1)
    <2>1. \A i \in 1 .. n + 1 : i \in 1 .. n \/ i = n + 1
      BY <1>1
    <2> QED
      BY <1>1, <1>3, <2>1 DEF Content
  <1> QED
    BY <1>3, <1>4, <1>5

\* The first n chunks of a call's content.
LEMMA Prefix ==
    ASSUME NEW s \in 0 .. SESSIONS, NEW m \in 0 .. MAX_CHUNKS, NEW n \in 0 .. m
    PROVE  SubSeq(Content(s, m), 1, n) = Content(s, n)
  <1>1. m \in Nat /\ n \in Nat /\ n <= m /\ n \in 0 .. MAX_CHUNKS
    BY UploadAssumption
  <1>2. /\ Content(s, m) \in Seq(Chunk) /\ Len(Content(s, m)) = m
        /\ Content(s, n) \in Seq(Chunk) /\ Len(Content(s, n)) = n
    BY <1>1, Contents
  <1>3. \A i \in 1 .. n : SubSeq(Content(s, m), 1, n)[i] = Content(s, n)[i]
    BY <1>1, <1>2 DEF Content
  <1>4. /\ SubSeq(Content(s, m), 1, n) \in Seq(Chunk)
        /\ Len(SubSeq(Content(s, m), 1, n)) = n
    BY <1>1, <1>2
  <1> QED
    BY <1>2, <1>3, <1>4

\* A request a caller sends.
LEMMA Requests ==
    ASSUME NEW command \in Commands, NEW chunk \in Chunk, SendRequest(command, chunk),
           target' \in Targets, chunks' \in 1 .. MAX_CHUNKS,
           target' = ADBD => chunks' = 1 /\ chunk[2] = 0
    PROVE  /\ host' = command
           /\ \E r \in Sent :
                 /\ out' = Append(out, r) /\ r.command = command /\ r.target = target'
                 /\ r.chunk = chunk /\ r.final = (chunk[2] + 1 = chunks') /\ r.good
  <1> DEFINE r == [command |-> command, target |-> target', chunk |-> chunk,
                   final |-> chunk[2] + 1 = chunks', good |-> TRUE]
  <1>1. r \in Request
    BY DEF Request
  <1>2. ASSUME r.target = ADBD PROVE r.final /\ r.chunk[2] = 0
    <2>1. chunks' = 1 /\ chunk[2] = 0
      BY <1>2
    <2>2. chunk[2] + 1 = chunks'
      BY <2>1
    <2> QED
      BY <2>1, <2>2, Zenon
  <1>4. r \in Sent
    BY <1>1, <1>2 DEF Sent
  <1>3. out' = Append(out, r) /\ host' = command
    BY DEF SendRequest
  <1> QED
    BY <1>3, <1>4

----------------------------------------------------------------------------
(* The host's steps. *)

\* A call begins.
LEMMA BeginStep == ASSUME IInv, BeginSome PROVE IInv'
  <1> USE DEF IInv
  <1>1. PICK k \in Kinds, t \in Targets, n \in 1 .. MAX_CHUNKS : Begin(k, t, n)
    BY DEF BeginSome
  <1>2. /\ kind' = k /\ target' = t /\ chunks' = n /\ sequence' = 0 /\ session' = session + 1
        /\ session < SESSIONS /\ in' \in {in, <<>>} /\ found' = Found
        /\ IF k = "adb" THEN t = ADBD /\ n = 1 ELSE t # ADBD
        /\ UNCHANGED <<state, bufferVars, worldVars, boundVars>>
        /\ SendRequest("init", <<0, 0>>)
    BY <1>1 DEF Begin
  <1>3. /\ MAX_CHUNKS \in Nat \ {0} /\ SESSIONS \in Nat /\ k \in {"file", "adb"}
        /\ <<0, 0>> \in Chunk /\ "init" \in Commands /\ session \in 0 .. SESSIONS
    BY UploadAssumption DEF Chunk, Commands, TypeOK
  <1>4. host' = "init"
    BY <1>2 DEF SendRequest
  <1>5. PICK r \in Sent : /\ out' = Append(out, r) /\ r.command = "init" /\ r.target = t
                          /\ r.good
    BY <1>1, <1>2, <1>3, Requests DEF Begin
  <1>6. found' \in {"idle", "adb", "other"}
    BY <1>2 DEF Found
  <1>7. out' \in Seq(Sent) /\ in' \in Seq(Reply)
    <2>1. out \in Seq(Sent) /\ in \in Seq(Reply) /\ <<>> \in Seq(Reply)
      BY DEF OutInv, TypeOK
    <2> QED
      BY <1>2, <1>5, <2>1, Queues
  <1>8. TypeOK'
    <2>1. out' \in Seq(Request)
      BY <1>7 DEF Sent
    <2>2. session' \in 0 .. SESSIONS /\ sequence' \in 0 .. MAX_CHUNKS
      BY <1>2, <1>3
    <2> QED
      BY <1>1, <1>2, <1>3, <1>4, <1>6, <1>7, <2>1, <2>2
      DEF TypeOK, bufferVars, worldVars, boundVars
  <1>9. CallInv'
    BY <1>2, <1>3, <1>4 DEF CallInv, Targets
  <1>10. OutInv'
    <2>1. faults' = faults
      BY <1>2 DEF boundVars
    <2>2. faults = 0 => \A i \in DOMAIN Append(out, r) : Append(out, r)[i].good
      BY <1>5 DEF OutInv
    <2> QED
      BY <1>5, <1>7, <2>1, <2>2 DEF OutInv
  <1>11. BufferInv'
    BY <1>2 DEF BufferInv, bufferVars, worldVars
  <1>12. FreshInv'
    <2> SUFFICES ASSUME found' = "idle" PROVE FreshInv'
      BY DEF FreshInv
    <2>1. state = "idle" /\ out = <<>> /\ in' = <<>>
      BY <1>2 DEF Found
    <2>2. out' = <<r>>
      BY <1>5, <2>1, Single
    <2>3. Before' /\ Own(r)'
      BY <1>2, <1>4, <1>5, <2>1 DEF Before, Own
    <2> QED
      BY <2>1, <2>2, <2>3 DEF FreshInv
  <1>13. LandedInv'
    BY <1>4 DEF LandedInv, Returned
  <1>14. AdbInv'
    <2> SUFFICES ASSUME Pending' PROVE AdbState' /\ AdbQueue'
      BY DEF AdbInv
    <2>1. k = "adb" /\ t = ADBD /\ found' # "other" /\ ~adbd
      BY <1>2 DEF Pending, worldVars
    <2>2. Progress' = 1
      BY <1>4 DEF Progress
    <2>3. \/ state = "idle" /\ out = <<>> /\ in' = <<>>
          \/ LeftByAdb
      BY <1>2, <2>1 DEF Found
    <2>4. \A i \in DOMAIN out : out[i].target = ADBD
      BY <2>3 DEF LeftByAdb
    <2>5. AdbState'
      <3>1. state' = state /\ destination' = destination /\ upload_data' = upload_data
        BY <1>2 DEF bufferVars
      <3>2. state \in {"idle", "need_target", "receiving", "ready", "error", "dead"}
        BY DEF TypeOK
      <3> QED
        BY <2>1, <2>2, <2>3, <3>1, <3>2 DEF AdbState, LeftByAdb
    <2>6. AdbQueue'
      <3>1. out \in Seq(Sent)
        BY DEF OutInv
      <3>2. Len(out') = Len(out) + 1 /\ out'[Len(out')] = r /\ Len(out) \in Nat
        BY <1>5, <3>1
      <3>3. \A i \in DOMAIN out' : out'[i].target = ADBD
        BY <1>5, <2>1, <2>4, <3>1
      <3>4. \A j \in 0 .. 3 :
               j < Len(out') /\ j < Progress' =>
                  out'[Len(out') - j].command = Script[Progress' - j]
        <4>1. \A j \in 0 .. 3 : j < 1 => j = 0
          OBVIOUS
        <4> QED
          BY <1>5, <2>2, <3>2, <4>1 DEF Script
      <3> QED
        BY <2>2, <3>2, <3>3, <3>4 DEF AdbQueue
    <2> QED
      BY <2>5, <2>6
  <1> QED
    BY <1>8, <1>9, <1>10, <1>11, <1>12, <1>13, <1>14

\* The call goes on: what it sends next, or that it is done.
LEMMA SendCases ==
    ASSUME IInv, TakeReply, Head(in).ok, Head(in).command = host
    PROVE  /\ UNCHANGED <<session, kind, target, chunks, found, state, bufferVars,
                          worldVars, boundVars>>
           /\ \/ /\ host = "commit" /\ host' = "done" /\ out' = out /\ sequence' = sequence
              \/ \E r \in Sent :
                    /\ out' = Append(out, r) /\ r.command = host' /\ r.target = target /\ r.good
                    /\ \/ host = "init" /\ host' = "target" /\ sequence' = sequence
                       \/ /\ \/ host = "target" /\ sequence' = 0
                             \/ /\ host = "data" /\ sequence' = sequence + 1
                                /\ sequence + 1 < chunks
                          /\ host' = "data" /\ r.chunk = <<session, sequence'>>
                          /\ r.final = (sequence' + 1 = chunks)
                       \/ /\ host = "data" /\ host' = "commit" /\ sequence' = sequence
                          /\ sequence + 1 = chunks
  <1> USE DEF IInv
  <1>1. SendNext /\ UNCHANGED <<session, kind, target, chunks, found, state, bufferVars,
                                worldVars, boundVars>>
    BY DEF TakeReply, SendNext
  <1>2. /\ MAX_CHUNKS \in Nat \ {0} /\ SESSIONS \in Nat /\ session \in 0 .. SESSIONS
        /\ chunks \in 1 .. MAX_CHUNKS /\ sequence \in 0 .. MAX_CHUNKS /\ target \in Targets
        /\ <<0, 0>> \in Chunk /\ <<session, 0>> \in Chunk
        /\ target' = target /\ chunks' = chunks
    BY <1>1, UploadAssumption DEF Chunk, TypeOK
  <1>3. target = ADBD /\ host \in Commands => chunks = 1
    BY <1>2, UploadAssumption DEF CallInv, TypeOK, Commands
  <1>4. host \in Commands
    BY DEF TakeReply
  <1>5. CASE host = "init"
    <2>1. SendRequest("target", <<0, 0>>) /\ sequence' = sequence
      BY <1>1, <1>5 DEF SendNext
    <2> QED
      BY <1>1, <1>2, <1>3, <1>4, <1>5, <2>1, Requests DEF Commands
  <1>6. CASE host = "target"
    <2>1. SendRequest("data", <<session, 0>>) /\ sequence' = 0
      BY <1>1, <1>6 DEF SendNext
    <2> QED
      BY <1>1, <1>2, <1>3, <1>4, <1>6, <2>1, Requests DEF Commands
  <1>7. CASE host = "data" /\ sequence + 1 < chunks
    <2>1. SendRequest("data", <<session, sequence + 1>>) /\ sequence' = sequence + 1
      BY <1>1, <1>2, <1>7 DEF SendNext
    <2>2. <<session, sequence + 1>> \in Chunk /\ target # ADBD
      BY <1>2, <1>3, <1>4, <1>7 DEF Chunk
    <2> QED
      BY <1>1, <1>2, <1>7, <2>1, <2>2, Requests DEF Commands
  <1>8. CASE host = "data" /\ sequence + 1 = chunks
    <2>1. SendRequest("commit", <<0, 0>>) /\ sequence' = sequence
      BY <1>1, <1>2, <1>8 DEF SendNext
    <2> QED
      BY <1>1, <1>2, <1>3, <1>4, <1>8, <2>1, Requests DEF Commands
  <1>9. CASE host = "commit"
    BY <1>1, <1>9 DEF SendNext
  <1> QED
    BY <1>2, <1>4, <1>5, <1>6, <1>7, <1>8, <1>9 DEF Commands, CallInv

\* A reply that echoes the command with status 0 is taken.
LEMMA SendStep ==
    ASSUME IInv, TakeReply, Head(in).ok, Head(in).command = host
    PROVE  IInv'
  <1> USE DEF IInv
  <1>1. UNCHANGED <<session, kind, target, chunks, found, state, bufferVars, worldVars,
                    boundVars>>
    BY SendCases
  <1>2. in # <<>> /\ in' = Tail(in) /\ host \in Commands /\ in \in Seq(Reply) /\ out \in Seq(Sent)
    BY DEF TakeReply, TypeOK, OutInv
  <1>3. in' \in Seq(Reply) /\ Head(in) \in Reply /\ Head(in) = in[1] /\ 1 \in DOMAIN in
    BY <1>2
  <1>4. BufferInv'
    BY <1>1 DEF BufferInv, bufferVars, worldVars
  <1>5. /\ chunks \in 1 .. MAX_CHUNKS /\ sequence \in 0 .. MAX_CHUNKS
        /\ MAX_CHUNKS \in Nat \ {0}
    BY UploadAssumption DEF TypeOK
  <1>6. CASE host = "commit" /\ host' = "done" /\ out' = out /\ sequence' = sequence
    <2>1. TypeOK'
      BY <1>1, <1>3, <1>6 DEF TypeOK, bufferVars, worldVars, boundVars, Ended
    <2>2. CallInv' /\ OutInv'
      BY <1>1, <1>6 DEF CallInv, OutInv, boundVars
    <2>3. FreshInv'
      BY <1>6 DEF FreshInv, Commands
    <2>4. LandedInv'
      <3> SUFFICES ASSUME found = "idle" PROVE out = <<>> /\ Landed
        BY <1>1, <1>6 DEF LandedInv, Landed, worldVars
      <3>1. PICK p \in Reply : /\ in = <<p>> /\ (p.ok => p.command = host /\ After)
                               /\ out = <<>>
        BY <1>2 DEF FreshInv
      <3>2. Head(in) = p
        BY <3>1
      <3> QED
        BY <1>6, <3>1, <3>2 DEF After
    <2>5. AdbInv'
      <3> SUFFICES ASSUME Pending' PROVE AdbState' /\ AdbQueue'
        BY DEF AdbInv
      <3>1. Pending /\ Progress = 4 /\ Progress' = 4
        BY <1>1, <1>2, <1>6 DEF Pending, worldVars, boundVars, Progress
      <3>2. AdbState /\ AdbQueue
        BY <3>1 DEF AdbInv
      <3> QED
        BY <1>1, <1>6, <3>1, <3>2 DEF AdbState, AdbQueue, bufferVars
    <2> QED
      BY <1>4, <2>1, <2>2, <2>3, <2>4, <2>5
  <1>7. ASSUME NEW r \in Sent,
               out' = Append(out, r), r.command = host', r.target = target, r.good,
               \/ host = "init" /\ host' = "target" /\ sequence' = sequence
               \/ /\ \/ host = "target" /\ sequence' = 0
                     \/ /\ host = "data" /\ sequence' = sequence + 1
                        /\ sequence + 1 < chunks
                  /\ host' = "data" /\ r.chunk = <<session, sequence'>>
                  /\ r.final = (sequence' + 1 = chunks)
               \/ /\ host = "data" /\ host' = "commit" /\ sequence' = sequence
                  /\ sequence + 1 = chunks
        PROVE  IInv'
    <2>1. sequence' \in 0 .. MAX_CHUNKS /\ host' \in Commands
      BY <1>5, <1>7 DEF Commands
    <2>2. out' \in Seq(Sent)
      BY <1>2, <1>7, Queues
    <2>3. TypeOK'
      <3>1. out' \in Seq(Request)
        BY <2>2 DEF Sent
      <3> QED
        BY <1>1, <1>3, <2>1, <3>1 DEF TypeOK, bufferVars, worldVars, boundVars
    <2>4. CallInv'
      BY <1>1, <1>2, <1>5, <1>7 DEF CallInv, Commands
    <2>5. OutInv'
      <3>1. faults' = faults
        BY <1>1 DEF boundVars
      <3>2. faults = 0 => \A i \in DOMAIN Append(out, r) : Append(out, r)[i].good
        BY <1>2, <1>7 DEF OutInv
      <3> QED
        BY <1>7, <2>2, <3>1, <3>2 DEF OutInv
    <2>6. FreshInv'
      <3> SUFFICES ASSUME found = "idle" PROVE FreshInv'
        BY <1>1 DEF FreshInv
      <3>1. PICK p \in Reply : /\ in = <<p>> /\ (p.ok => p.command = host /\ After)
                               /\ out = <<>>
        BY <1>2 DEF FreshInv
      <3>2. Head(in) = p /\ in' = <<>> /\ out' = <<r>>
        BY <1>2, <1>7, <3>1, Single
      <3>3. After
        BY <3>1, <3>2
      <3>4. Before'
        BY <1>1, <1>5, <1>7, <3>3 DEF After, Before, Received, bufferVars
      <3>5. Own(r)'
        BY <1>1, <1>7 DEF Own
      <3> QED
        BY <3>2, <3>4, <3>5 DEF FreshInv
    <2>7. LandedInv'
      BY <2>1 DEF LandedInv, Returned, Commands
    <2>8. AdbInv'
      <3> SUFFICES ASSUME Pending' PROVE AdbState' /\ AdbQueue'
        BY DEF AdbInv
      <3>1. Pending /\ Progress \in 1 .. 3 /\ Progress' = Progress + 1
        <4>1. Pending
          BY <1>1, <1>2, <2>1 DEF Pending, worldVars, boundVars
        <4>2. chunks = 1
          BY <4>1 DEF Pending, CallInv
        <4> QED
          BY <1>5, <1>7, <4>1, <4>2 DEF Progress
      <3>2. AdbState /\ AdbQueue
        BY <3>1 DEF AdbInv
      <3>3. state # "idle"
        <4>1. Head(in) = [command |-> "init", ok |-> TRUE] \/ Progress # 1
          BY <1>2, <1>3 DEF Reply, Progress, Commands
        <4> QED
          BY <1>3, <3>2, <4>1 DEF AdbState
      <3>4. AdbState'
        BY <1>1, <3>2, <3>3 DEF AdbState, bufferVars
      <3>5. AdbQueue'
        <4>1. target = ADBD
          BY <3>1 DEF Pending, CallInv
        <4>2. /\ Len(out') = Len(out) + 1 /\ out'[Len(out) + 1] = r /\ Len(out) \in Nat
              /\ \A i \in 1 .. Len(out) : out'[i] = out[i]
          BY <1>2, <1>7, Positions
        <4>3. \A i \in DOMAIN out' : out'[i].target = ADBD
          BY <1>2, <1>7, <2>2, <3>2, <4>1, <4>2 DEF AdbQueue
        <4>4. r.command = Script[Progress + 1]
          <5>1. chunks = 1
            BY <3>1 DEF Pending, CallInv
          <5> QED
            BY <1>5, <1>7, <5>1 DEF Progress, Script
        <4>5. ASSUME NEW j \in 0 .. 3, j < Len(out'), j < Progress'
              PROVE  out'[Len(out') - j].command = Script[Progress' - j]
          <5>1. CASE j = 0
            BY <3>1, <4>2, <4>4, <5>1
          <5>2. CASE j > 0
            <6>1. /\ j - 1 \in 0 .. 3 /\ j - 1 < Len(out) /\ j - 1 < Progress
                  /\ Len(out) - (j - 1) \in 1 .. Len(out)
                  /\ Len(out') - j = Len(out) - (j - 1) /\ Progress' - j = Progress - (j - 1)
              BY <3>1, <4>2, <4>5, <5>2
            <6>2. out[Len(out) - (j - 1)].command = Script[Progress - (j - 1)]
              BY <3>2, <6>1 DEF AdbQueue
            <6> QED
              BY <4>2, <6>1, <6>2
          <5> QED
            BY <5>1, <5>2
        <4>6. state' = state
          BY <1>1
        <4> QED
          BY <3>1, <3>2, <4>2, <4>3, <4>5, <4>6 DEF AdbQueue
      <3> QED
        BY <3>4, <3>5
    <2> QED
      BY <1>4, <2>3, <2>4, <2>5, <2>6, <2>7, <2>8
  <1> QED
    BY <1>6, <1>7, SendCases

\* A call is abandoned, or start_adb ignores how its commit ended.
LEMMA AbandonStep ==
    ASSUME IInv, Abandon, host \in Commands,
           in' = in \/ (in # <<>> /\ in' = Tail(in)),
           UNCHANGED <<state, bufferVars, worldVars, boundVars>>
    PROVE  IInv'
  <1> USE DEF IInv
  <1>1. /\ UNCHANGED <<session, kind, target, chunks, sequence, found, out>>
        /\ host' = IF kind = "adb" /\ host = "commit" THEN "done" ELSE "failed"
    BY DEF Abandon
  <1>2. in' \in Seq(Reply) /\ host' \in Ended /\ host' \notin Commands
    <2>1. in \in Seq(Reply)
      BY DEF TypeOK
    <2>2. in # <<>> => Tail(in) \in Seq(Reply)
      BY <2>1
    <2> QED
      BY <1>1, <2>1, <2>2 DEF Ended, Commands
  <1>3. TypeOK'
    BY <1>1, <1>2 DEF TypeOK, bufferVars, worldVars, boundVars
  <1>4. CallInv' /\ OutInv' /\ BufferInv'
    BY <1>1 DEF CallInv, OutInv, BufferInv, bufferVars, worldVars, boundVars, Commands
  <1>5. FreshInv' /\ LandedInv'
    BY <1>1, <1>2 DEF FreshInv, LandedInv, Returned
  <1>6. AdbInv'
    <2> SUFFICES ASSUME Pending' PROVE AdbState' /\ AdbQueue'
      BY DEF AdbInv
    <2>1. Pending /\ Progress = 4 /\ Progress' = 4
      BY <1>1, <1>2 DEF Pending, worldVars, boundVars, Progress
    <2>2. AdbState /\ AdbQueue
      BY <2>1 DEF AdbInv
    <2> QED
      BY <1>1, <2>1, <2>2 DEF AdbState, AdbQueue, bufferVars
  <1> QED
    BY <1>3, <1>4, <1>5, <1>6

\* TakeReply and GiveUp.
LEMMA HostStep == ASSUME IInv, TakeReply \/ GiveUp PROVE IInv'
  <1>1. CASE TakeReply /\ Head(in).ok /\ Head(in).command = host
    BY <1>1, SendStep
  <1>2. CASE TakeReply /\ ~(Head(in).ok /\ Head(in).command = host)
    BY <1>2, AbandonStep DEF TakeReply
  <1>3. CASE GiveUp
    BY <1>3, AbandonStep DEF GiveUp
  <1> QED
    BY <1>1, <1>2, <1>3

----------------------------------------------------------------------------
(* Faults and restarts. *)

\* A damaged report is of the same kind.
LEMMA Damage ==
    /\ \A r \in Sent : LET d == [r EXCEPT !.good = FALSE]
                        IN  /\ d \in Sent /\ d.command = r.command /\ d.target = r.target
                            /\ d.chunk = r.chunk /\ d.final = r.final
    /\ \A p \in Reply : [p EXCEPT !.ok = FALSE] \in Reply /\ ~[p EXCEPT !.ok = FALSE].ok
  <1>1. ASSUME NEW r \in Sent
        PROVE  LET d == [r EXCEPT !.good = FALSE]
               IN  /\ d \in Sent /\ d.command = r.command /\ d.target = r.target
                   /\ d.chunk = r.chunk /\ d.final = r.final
    <2> DEFINE d == [r EXCEPT !.good = FALSE]
    <2>1. r \in Request /\ (r.target = ADBD => r.final /\ r.chunk[2] = 0)
      BY DEF Sent
    <2>2. /\ d \in Request /\ d.command = r.command /\ d.target = r.target
          /\ d.chunk = r.chunk /\ d.final = r.final
      BY <2>1 DEF Request
    <2>3. d.target = ADBD => d.final /\ d.chunk[2] = 0
      BY <2>1, <2>2, Zenon
    <2> HIDE DEF d
    <2>4. d \in Sent
      BY <2>2, <2>3 DEF Sent
    <2> QED
      BY <2>2, <2>4 DEF d
  <1>2. ASSUME NEW p \in Reply
        PROVE  [p EXCEPT !.ok = FALSE] \in Reply /\ ~[p EXCEPT !.ok = FALSE].ok
    BY DEF Reply
  <1> QED
    BY <1>1, <1>2

\* A report is lost or damaged.
LEMMA FaultStep == ASSUME IInv, Fault PROVE IInv'
  <1> USE DEF IInv
  <1>1. /\ faults < MAX_FAULTS /\ faults' = faults + 1
        /\ UNCHANGED <<hostVars, state, bufferVars, worldVars, reboots>>
    BY DEF Fault
  <1>2. out \in Seq(Sent) /\ in \in Seq(Reply)
    BY DEF OutInv, TypeOK
  <1>3. faults' \in 0 .. MAX_FAULTS /\ faults' # 0
    BY <1>1, UploadAssumption DEF TypeOK
  <1>4. BufferInv' /\ CallInv'
    BY <1>1 DEF BufferInv, CallInv, bufferVars, worldVars, hostVars
  <1>5. AdbInv'
    BY <1>3 DEF AdbInv, Pending
  <1>6. ASSUME out' \in Seq(Sent), in' \in Seq(Reply) PROVE TypeOK' /\ OutInv'
    <2>1. out' \in Seq(Request)
      BY <1>6 DEF Sent
    <2> QED
      BY <1>1, <1>3, <1>6, <2>1 DEF TypeOK, OutInv, hostVars, bufferVars, worldVars
  <1>7. /\ Before' <=> Before
        /\ After' <=> After
        /\ Landed' <=> Landed
        /\ host' = host /\ found' = found
    BY <1>1 DEF Before, After, Landed, Received, hostVars, bufferVars, worldVars
  <1>8. CASE out # <<>> /\ in' = in
              /\ out' \in {Tail(out), <<[Head(out) EXCEPT !.good = FALSE]>> \o Tail(out)}
    <2>1. out' \in Seq(Sent)
      <3>1. Head(out) \in Sent
        BY <1>2, <1>8
      <3> DEFINE d == [Head(out) EXCEPT !.good = FALSE]
      <3>2. d \in Sent
        BY <3>1, Damage
      <3> HIDE DEF d
      <3>3. Tail(out) \in Seq(Sent) /\ <<d>> \o Tail(out) \in Seq(Sent)
        BY <1>2, <1>8, <3>2, Queues
      <3> QED
        BY <1>8, <3>3 DEF d
    <2>2. FreshInv'
      <3> SUFFICES ASSUME found = "idle", host \in Commands PROVE FreshInv'
        BY <1>7 DEF FreshInv
      <3>1. PICK r \in Sent : out = <<r>> /\ Own(r) /\ in = <<>> /\ Before
        BY <1>8 DEF FreshInv
      <3> DEFINE d == [r EXCEPT !.good = FALSE]
      <3>2. d \in Sent /\ Own(d)
        BY <3>1, Damage DEF Own
      <3> HIDE DEF d
      <3>3. Own(d)'
        BY <1>1, <3>2 DEF Own, hostVars
      <3>4. out' = <<>> \/ out' = <<d>>
        BY <1>8, <3>1 DEF d
      <3> QED
        BY <1>7, <1>8, <3>1, <3>2, <3>3, <3>4 DEF FreshInv
    <2>3. LandedInv'
      BY <1>1, <1>8 DEF LandedInv, Returned, hostVars
    <2> QED
      BY <1>2, <1>4, <1>5, <1>6, <1>8, <2>1, <2>2, <2>3
  <1>9. CASE in # <<>> /\ out' = out
              /\ in' \in {Tail(in), <<[Head(in) EXCEPT !.ok = FALSE]>> \o Tail(in)}
    <2>1. in' \in Seq(Reply)
      <3>1. Head(in) \in Reply
        BY <1>2, <1>9
      <3> DEFINE d == [Head(in) EXCEPT !.ok = FALSE]
      <3>2. d \in Reply
        BY <3>1, Damage
      <3> HIDE DEF d
      <3>3. Tail(in) \in Seq(Reply) /\ <<d>> \o Tail(in) \in Seq(Reply)
        BY <1>2, <1>9, <3>2, Queues
      <3> QED
        BY <1>9, <3>3 DEF d
    <2>2. FreshInv'
      <3> SUFFICES ASSUME found = "idle", host \in Commands PROVE FreshInv'
        BY <1>7 DEF FreshInv
      <3>1. PICK p \in Reply : out = <<>> /\ in = <<p>>
        BY <1>9 DEF FreshInv
      <3> DEFINE d == [p EXCEPT !.ok = FALSE]
      <3>2. d \in Reply /\ ~d.ok
        BY Damage
      <3> HIDE DEF d
      <3>3. in' = <<>> \/ in' = <<d>>
        BY <1>9, <3>1 DEF d
      <3> QED
        BY <1>9, <3>1, <3>2, <3>3 DEF FreshInv
    <2>3. LandedInv'
      BY <1>1, <1>7, <1>9 DEF LandedInv, Returned, hostVars
    <2> QED
      BY <1>2, <1>4, <1>5, <1>6, <1>9, <2>1, <2>2, <2>3
  <1> QED
    BY <1>8, <1>9 DEF Fault

\* The camera restarts.
LEMMA RebootStep == ASSUME IInv, Reboot PROVE IInv'
  <1> USE DEF IInv
  <1>1. /\ state' = "idle" /\ allocated' = FALSE /\ upload_data' = <<>> /\ upload_used' = 0
        /\ last_sequence' = 0 /\ destination' = ADBD /\ saw_final' = FALSE
        /\ out' = <<>> /\ in' = <<>> /\ adbd' = FALSE /\ refused' = FALSE
        /\ found' = "other"
        /\ reboots < MAX_REBOOTS /\ reboots' = reboots + 1
        /\ UNCHANGED <<host, session, kind, target, chunks, sequence, files, unflushed, faults>>
    BY DEF Reboot
  <1>2. /\ MAX_CHUNKS \in Nat /\ CAPACITY \in Nat /\ MAX_REBOOTS \in Nat
        /\ ADBD \in Targets /\ reboots' \in 0 .. MAX_REBOOTS /\ reboots' # 0
    BY <1>1, UploadAssumption DEF Targets, TypeOK
  <1>3. <<>> \in Seq(Sent) /\ <<>> \in Seq(Request) /\ <<>> \in Seq(Reply) /\ <<>> \in Seq(Chunk)
    OBVIOUS
  <1>4. found' \in {"idle", "adb", "other"}
    BY <1>1
  <1>5. TypeOK'
    <2>1. upload_used' \in 0 .. CAPACITY /\ last_sequence' \in 0 .. MAX_CHUNKS
      BY <1>1, <1>2
    <2>2. /\ allocated' \in BOOLEAN /\ saw_final' \in BOOLEAN /\ adbd' \in BOOLEAN
          /\ refused' \in BOOLEAN /\ ~allocated'
      BY <1>1, Zenon
    <2> QED
      BY <1>1, <1>2, <1>3, <1>4, <2>1, <2>2 DEF TypeOK
  <1>6. CallInv' /\ OutInv' /\ BufferInv'
    BY <1>1, <1>3 DEF CallInv, OutInv, BufferInv
  <1>7. FreshInv' /\ AdbInv'
    BY <1>1, <1>2, <1>4 DEF FreshInv, AdbInv, Pending
  <1>8. LandedInv'
    BY <1>1 DEF LandedInv
  <1> QED
    BY <1>5, <1>6, <1>7, <1>8

----------------------------------------------------------------------------
(* The camera's steps. *)

\* The camera takes the report r.
Taken(r) ==
    /\ out # <<>> /\ r = Head(out) /\ out' = Tail(out)
    /\ UNCHANGED <<hostVars, boundVars>>

\* What the camera's variables range over.
CameraTypes ==
    /\ state \in {"idle", "need_target", "receiving", "ready", "error", "dead"}
    /\ allocated \in BOOLEAN
    /\ upload_data \in Seq(Chunk)
    /\ upload_used \in 0 .. CAPACITY
    /\ allocated => upload_used = Len(upload_data)
    /\ last_sequence \in 0 .. MAX_CHUNKS
    /\ destination \in Targets
    /\ saw_final \in BOOLEAN
    /\ files \in [Paths -> Seq(Chunk)]
    /\ adbd \in BOOLEAN
    /\ refused \in BOOLEAN
    /\ unflushed \in 0 .. CAPACITY

\* How r moves the uploader while a start_adb call is pending.
AdbMove(r) ==
    \/ state = "idle" /\ state' \in {"idle", "need_target"}
    \/ /\ state = "need_target"
       /\ state' = IF r.command = "target" THEN "receiving" ELSE "need_target"
    \/ /\ state = "receiving"
       /\ state' = IF r.command = "data" THEN "ready" ELSE "receiving"
    \/ state = "ready" /\ state' = "ready" /\ r.command # "commit"

\* The report a pending start_adb call has the camera take.
LEMMA PendingTaken ==
    ASSUME IInv, NEW r, Taken(r), Pending
    PROVE  r \in Sent /\ r.target = ADBD /\ r.good /\ r.final /\ r.chunk[2] = 0
  <1>1. out \in Seq(Sent) /\ out # <<>> /\ r = Head(out)
    BY DEF IInv, OutInv, Taken
  <1>2. r \in Sent /\ r = out[1] /\ 1 \in DOMAIN out
    BY <1>1
  <1>3. r.target = ADBD /\ r.good
    BY <1>2 DEF IInv, OutInv, AdbInv, AdbQueue, Pending
  <1> QED
    BY <1>2, <1>3 DEF Sent

\* What the camera has not seen yet still ends with the call's last requests, and
\* the camera is as far as what it has seen.
LEMMA QueueTaken ==
    ASSUME IInv, NEW r, Taken(r), Pending, AdbMove(r)
    PROVE  AdbQueue'
  <1>1. AdbState /\ AdbQueue
    BY DEF IInv, AdbInv
  <1>2. /\ out \in Seq(Sent) /\ out # <<>> /\ out' = Tail(out) /\ r = Head(out)
        /\ Progress' = Progress /\ Progress \in 1 .. 4
    BY DEF IInv, OutInv, Taken, hostVars, Progress
  <1>3. /\ Len(out') = Len(out) - 1 /\ Len(out) \in Nat \ {0} /\ r = out[1]
        /\ \A i \in 1 .. Len(out) - 1 : out'[i] = out[i + 1]
        /\ DOMAIN out = 1 .. Len(out) /\ DOMAIN out' = 1 .. Len(out) - 1
    BY <1>2
  <1>4. \A i \in DOMAIN out' : out'[i].target = ADBD
    BY <1>1, <1>3 DEF AdbQueue
  <1>5. ASSUME NEW j \in 0 .. 3, j < Len(out'), j < Progress'
        PROVE  out'[Len(out') - j].command = Script[Progress' - j]
    <2>1. /\ Len(out') - j \in 1 .. Len(out) - 1 /\ j < Len(out) /\ j < Progress
          /\ Len(out') - j + 1 = Len(out) - j
      BY <1>2, <1>3, <1>5
    <2> QED
      BY <1>1, <1>2, <1>3, <2>1 DEF AdbQueue
  <1>6. Len(out) <= Progress => r.command = Script[Progress - Len(out) + 1]
    <2> SUFFICES ASSUME Len(out) <= Progress
                 PROVE  r.command = Script[Progress - Len(out) + 1]
      OBVIOUS
    <2>1. /\ Len(out) - 1 \in 0 .. 3 /\ Len(out) - 1 < Len(out) /\ Len(out) - 1 < Progress
          /\ Len(out) - (Len(out) - 1) = 1
          /\ Progress - (Len(out) - 1) = Progress - Len(out) + 1
      BY <1>2, <1>3
    <2> QED
      BY <1>1, <1>3, <2>1 DEF AdbQueue
  <1>7. /\ Len(out') + 1 < Progress => state' \in {"receiving", "ready"}
        /\ Len(out') + 2 < Progress => state' = "ready"
        /\ Len(out') + 3 >= Progress
    <2>1. CASE state = "idle"
      BY <1>1, <1>2, <1>3, <2>1 DEF AdbState
    <2>2. CASE state = "need_target"
      <3>1. Len(out) + 1 >= Progress
        BY <1>1, <1>2, <1>3, <2>2 DEF AdbQueue
      <3>2. Len(out) + 1 = Progress => r.command = "target"
        BY <1>2, <1>3, <1>6 DEF Script
      <3> QED
        BY <1>2, <1>3, <2>2, <3>1, <3>2 DEF AdbMove
    <2>3. CASE state = "receiving"
      <3>1. Len(out) + 2 >= Progress
        BY <1>1, <1>2, <1>3, <2>3 DEF AdbQueue
      <3>2. Len(out) + 2 = Progress => r.command = "data"
        BY <1>2, <1>3, <1>6 DEF Script
      <3> QED
        BY <1>2, <1>3, <2>3, <3>1, <3>2 DEF AdbMove
    <2>4. CASE state = "ready"
      <3>1. Len(out) + 3 >= Progress
        BY <1>1 DEF AdbQueue
      <3>2. Len(out) + 3 = Progress => r.command = "commit"
        BY <1>2, <1>3, <1>6 DEF Script
      <3> QED
        BY <1>2, <1>3, <2>4, <3>1, <3>2 DEF AdbMove
    <2> QED
      BY <1>1, <2>1, <2>2, <2>3, <2>4 DEF AdbState
  <1> QED
    BY <1>2, <1>4, <1>5, <1>7 DEF AdbQueue

\* What every handler has in common: the report leaves the queue and is answered,
\* unless the daemon dies of it.
LEMMA Taking ==
    ASSUME IInv, NEW r, Taken(r), CameraTypes', BufferInv', adbd => adbd',
           \/ in' = in
           \/ \E ok \in BOOLEAN :
                 /\ Respond(r, ok)
                 /\ ok /\ Before /\ Own(r) /\ host \in Commands => After',
           Pending /\ ~adbd' => AdbState' /\ AdbMove(r)
    PROVE  IInv'
  <1> USE DEF IInv
  <1>1. /\ out \in Seq(Sent) /\ in \in Seq(Reply) /\ out # <<>> /\ r = Head(out)
        /\ out' = Tail(out) /\ UNCHANGED <<hostVars, boundVars>>
    BY DEF OutInv, TypeOK, Taken
  <1>2. r \in Sent /\ out' \in Seq(Sent) /\ r.command \in Commands
    <2>1. r \in Sent /\ out' \in Seq(Sent)
      BY <1>1
    <2> QED
      BY <2>1 DEF Sent, Request
  <1>3. in' \in Seq(Reply)
    <2>1. \A ok \in BOOLEAN : [command |-> r.command, ok |-> ok] \in Reply
      BY <1>2 DEF Reply
    <2> QED
      BY <1>1, <2>1, Queues DEF Respond
  <1>4. TypeOK'
    <2>1. out' \in Seq(Request)
      BY <1>2 DEF Sent
    <2> QED
      BY <1>1, <1>3, <2>1 DEF TypeOK, CameraTypes, hostVars, boundVars
  <1>5. CallInv'
    BY <1>1 DEF CallInv, hostVars
  <1>6. OutInv'
    <2>1. \A i \in DOMAIN out' : \E k \in DOMAIN out : out'[i] = out[k]
      BY <1>1
    <2> QED
      BY <1>1, <1>2, <2>1 DEF OutInv, boundVars
  <1>7. FreshInv'
    <2> SUFFICES ASSUME found = "idle", host \in Commands PROVE FreshInv'
      BY <1>1 DEF FreshInv, hostVars
    <2>1. in = <<>> /\ Before /\ out = <<r>> /\ Own(r)
      BY <1>1 DEF FreshInv
    <2>2. out' = <<>> /\ host' = host
      BY <1>1, <2>1 DEF hostVars
    <2>3. CASE in' = in
      BY <2>1, <2>2, <2>3 DEF FreshInv
    <2>4. ASSUME NEW ok \in BOOLEAN, Respond(r, ok), ok => After' PROVE FreshInv'
      <3> DEFINE p == [command |-> r.command, ok |-> ok]
      <3>1. p \in Reply /\ p.ok = ok /\ p.command = host
        BY <1>2, <2>1 DEF Reply, Own
      <3> HIDE DEF p
      <3>2. in' = <<p>>
        BY <2>1, <2>4, Single DEF Respond, p
      <3> QED
        BY <2>2, <2>4, <3>1, <3>2 DEF FreshInv
    <2> QED
      BY <2>1, <2>3, <2>4
  <1>8. LandedInv'
    <2>1. ~(found = "idle" /\ Returned("file"))
      BY <1>1 DEF LandedInv
    <2> QED
      BY <1>1, <2>1 DEF LandedInv, Returned, hostVars
  <1>9. AdbInv'
    <2> SUFFICES ASSUME Pending' PROVE AdbState' /\ AdbQueue'
      BY DEF AdbInv
    <2>1. Pending /\ ~adbd'
      BY <1>1 DEF Pending, hostVars, boundVars
    <2> QED
      BY <2>1, QueueTaken
  <1> QED
    BY <1>4, <1>5, <1>6, <1>7, <1>8, <1>9

\* A report that is refused or ignored changes nothing but the replies.
LEMMA UnchangedStep ==
    ASSUME IInv, NEW r, Taken(r),
           (~r.good /\ BadReport(r)) \/ (state \notin ActsIn(r) /\ Ignore(r))
    PROVE  IInv'
  <1> USE DEF IInv
  <1>1. UNCHANGED <<state, bufferVars, worldVars>>
    BY DEF BadReport, Ignore
  <1>2. CameraTypes' /\ BufferInv' /\ adbd' = adbd
    BY <1>1 DEF CameraTypes, BufferInv, TypeOK, bufferVars, worldVars
  <1>3. r.command \in Commands
    BY DEF OutInv, Taken, Sent, Request
  <1>4. ASSUME Ignore(r), state \notin ActsIn(r)
        PROVE  Respond(r, TRUE) /\ ~(Before /\ Own(r) /\ host \in Commands)
    <2>1. host = "data" => sequence # chunks
      BY DEF CallInv, TypeOK
    <2>2. Before /\ Own(r) => state \in ActsIn(r)
      BY <1>3, <2>1 DEF Before, Own, ActsIn, Received, Commands
    <2> QED
      BY <1>4, <2>2 DEF Ignore
  <1>5. \E ok \in BOOLEAN :
           /\ Respond(r, ok)
           /\ ok /\ Before /\ Own(r) /\ host \in Commands => After'
    BY <1>4 DEF BadReport
  <1>6. ASSUME Pending PROVE AdbState' /\ AdbMove(r)
    <2>1. r.good
      BY <1>6, PendingTaken
    <2>2. Respond(r, TRUE) /\ state \notin ActsIn(r)
      BY <2>1 DEF Ignore
    <2>3. AdbState
      BY <1>6 DEF AdbInv
    <2>4. AdbMove(r)
      BY <1>1, <1>3, <2>2, <2>3 DEF AdbMove, AdbState, ActsIn, Commands
    <2>5. AdbState'
      <3>1. Progress' = Progress /\ in \in Seq(Reply)
        BY DEF Taken, hostVars, Progress, TypeOK
      <3>2. state = "idle" => [command |-> r.command, ok |-> TRUE]
                                 # [command |-> "init", ok |-> TRUE]
        BY <1>3, <2>2 DEF ActsIn, Commands
      <3>3. state = "idle" => \A i \in DOMAIN in' : in'[i] # [command |-> "init", ok |-> TRUE]
        BY <2>2, <2>3, <3>1, <3>2 DEF AdbState, Respond
      <3> QED
        BY <1>1, <2>3, <3>1, <3>3 DEF AdbState, bufferVars
    <2> QED
      BY <2>4, <2>5
  <1> QED
    BY <1>2, <1>5, <1>6, Taking

\* 0x3000.
LEMMA InitStep ==
    ASSUME IInv, NEW r, Taken(r), state = "idle", r.command = "init", UploadInit(r)
    PROVE  IInv'
  <1> USE DEF IInv
  <1>1. CASE ~allocated /\ Respond(r, FALSE) /\ UNCHANGED <<state, bufferVars, worldVars>>
    <2>1. CameraTypes' /\ BufferInv' /\ adbd' = adbd
      BY <1>1 DEF CameraTypes, BufferInv, TypeOK, bufferVars, worldVars
    <2>2. ASSUME Pending PROVE AdbState' /\ AdbMove(r)
      <3>1. AdbState /\ Progress' = Progress /\ in \in Seq(Reply)
        BY <2>2 DEF AdbInv, Taken, hostVars, Progress, TypeOK
      <3>2. [command |-> r.command, ok |-> FALSE] # [command |-> "init", ok |-> TRUE]
        OBVIOUS
      <3>3. \A i \in DOMAIN in' : in'[i] # [command |-> "init", ok |-> TRUE]
        BY <1>1, <3>1, <3>2 DEF AdbState, Respond
      <3> QED
        BY <1>1, <3>1, <3>3 DEF AdbState, AdbMove, bufferVars
    <2>3. \E ok \in BOOLEAN :
             /\ Respond(r, ok)
             /\ ok /\ Before /\ Own(r) /\ host \in Commands => After'
      BY <1>1
    <2> QED
      BY <2>1, <2>2, <2>3, Taking
  <1>2. CASE /\ allocated' = TRUE /\ upload_data' = <<>> /\ upload_used' = 0
             /\ last_sequence' = 0 /\ saw_final' = FALSE /\ state' = "need_target"
             /\ Respond(r, TRUE) /\ UNCHANGED <<destination, worldVars>>
    <2>1. upload_data' \in Seq(Chunk) /\ Len(upload_data') = 0
      BY <1>2
    <2>2. upload_used' \in 0 .. CAPACITY /\ last_sequence' \in 0 .. MAX_CHUNKS
      BY <1>2, UploadAssumption
    <2>3. allocated' \in BOOLEAN /\ saw_final' \in BOOLEAN /\ allocated' /\ ~saw_final'
      BY <1>2, Zenon
    <2>4. CameraTypes'
      BY <1>2, <2>1, <2>2, <2>3 DEF CameraTypes, TypeOK, worldVars
    <2>5. BufferInv'
      BY <1>2, <2>3 DEF BufferInv
    <2>6. ASSUME Pending PROVE AdbState' /\ AdbMove(r)
      BY <1>2 DEF AdbState, AdbMove
    <2>7. Before /\ Own(r) => After'
      BY <1>2 DEF Before, Own, After, Taken, hostVars
    <2>8. adbd' = adbd
      BY <1>2 DEF worldVars
    <2> QED
      BY <1>2, <2>4, <2>5, <2>6, <2>7, <2>8, Taking
  <1> QED
    BY <1>1, <1>2 DEF UploadInit

\* 0x3110.
LEMMA TargetStep ==
    ASSUME IInv, NEW r, Taken(r), state = "need_target", r.command = "target", UploadTarget(r)
    PROVE  IInv'
  <1> USE DEF IInv
  <1>1. /\ destination' = r.target /\ state' = "receiving" /\ Respond(r, TRUE)
        /\ UNCHANGED <<allocated, upload_data, upload_used, last_sequence, saw_final, worldVars>>
    BY DEF UploadTarget
  <1>2. r \in Sent
    BY DEF OutInv, Taken
  <1>3. r.target \in Targets
    BY <1>2 DEF Sent, Request
  <1>4. CameraTypes' /\ BufferInv' /\ adbd' = adbd
    BY <1>1, <1>3 DEF CameraTypes, BufferInv, TypeOK, worldVars
  <1>5. upload_data = <<>> /\ upload_used = 0 /\ ~saw_final
    BY DEF BufferInv
  <1>6. ASSUME Pending PROVE AdbState' /\ AdbMove(r)
    BY <1>1, <1>5, <1>6, PendingTaken DEF AdbState, AdbMove
  <1>7. ASSUME Before, Own(r) PROVE After'
    <2>1. host = "target" /\ r.target = target /\ UNCHANGED <<host, session, target, chunks>>
      BY <1>7 DEF Own, Taken, hostVars
    <2>2. session \in 0 .. SESSIONS /\ chunks \in 1 .. MAX_CHUNKS /\ MAX_CHUNKS \in Nat
      BY UploadAssumption DEF TypeOK
    <2>3. Content(session, 0) = <<>> /\ 0 # chunks
      BY <2>2 DEF Content
    <2>4. saw_final' <=> 0 = chunks
      BY <1>1, <1>5, <2>3 DEF TypeOK
    <2>5. Received(0)'
      BY <1>1, <1>5, <2>1, <2>3, <2>4 DEF Received
    <2> QED
      BY <2>1, <2>5 DEF After
  <1> QED
    BY <1>1, <1>4, <1>6, <1>7, Taking

\* 0x3200.
LEMMA AppendStep ==
    ASSUME IInv, NEW r, Taken(r), state \in {"receiving", "error"}, r.command = "data",
           UploadAppend(r)
    PROVE  IInv'
  <1> USE DEF IInv
  <1>1. r \in Sent
    BY DEF OutInv, Taken
  <1>2. r.chunk \in Chunk /\ r.final \in BOOLEAN
    BY <1>1 DEF Sent, Request
  <1>3. r.chunk[2] \in 0 .. MAX_CHUNKS
    BY <1>2 DEF Chunk
  <1>4. /\ MAX_CHUNKS \in Nat \ {0} /\ CAPACITY \in Nat /\ MAX_CHUNKS <= CAPACITY
        /\ upload_used \in 0 .. CAPACITY /\ upload_data \in Seq(Chunk)
        /\ saw_final \in BOOLEAN
        /\ allocated => upload_used = Len(upload_data)
    BY UploadAssumption DEF TypeOK
  <1>5. ASSUME Pending
        PROVE  state = "receiving" /\ allocated /\ Appendable(r) /\ r.final /\ destination = ADBD
    <2>1. state = "receiving" /\ destination = ADBD /\ upload_data = <<>> /\ allocated
      BY <1>5 DEF AdbInv, AdbState, BufferInv
    <2>2. upload_used = 0
      BY <1>4, <2>1
    <2>3. r.chunk[2] = 0 /\ r.final
      BY <1>5, PendingTaken
    <2> QED
      BY <1>4, <2>1, <2>2, <2>3 DEF Appendable
  <1>6. CASE /\ Appendable(r) /\ allocated
             /\ upload_data' = Append(upload_data, r.chunk)
             /\ upload_used' = upload_used + 1
             /\ last_sequence' = r.chunk[2]
             /\ saw_final' = (saw_final \/ r.final)
             /\ state' = IF r.final THEN "ready" ELSE state
             /\ Respond(r, TRUE)
             /\ UNCHANGED <<allocated, destination, worldVars>>
    <2>1. upload_used' \in 0 .. CAPACITY /\ upload_data' \in Seq(Chunk)
          /\ upload_used' = Len(upload_data')
      BY <1>2, <1>4, <1>6 DEF Appendable
    <2>2. saw_final' \in BOOLEAN /\ (r.final => saw_final')
      BY <1>2, <1>4, <1>6
    <2>3. CameraTypes'
      BY <1>3, <1>6, <2>1, <2>2 DEF CameraTypes, TypeOK, worldVars
    <2>4. BufferInv'
      BY <1>6, <2>2 DEF BufferInv
    <2>5. ASSUME Pending PROVE AdbState' /\ AdbMove(r)
      BY <1>5, <1>6, <2>5 DEF AdbState, AdbMove
    <2>6. ASSUME Before, Own(r) PROVE After'
      <3>1. /\ host = "data" /\ Received(sequence) /\ r.chunk = <<session, sequence>>
            /\ r.final = (sequence + 1 = chunks)
        BY <2>6 DEF Before, Own
      <3>2. /\ sequence < chunks /\ session \in 0 .. SESSIONS /\ chunks \in 1 .. MAX_CHUNKS
            /\ sequence \in 0 .. MAX_CHUNKS
        BY <3>1 DEF CallInv, TypeOK
      <3>3. UNCHANGED <<host, session, target, chunks, sequence>>
        BY DEF Taken, hostVars
      <3>4. /\ upload_data = Content(session, sequence) /\ upload_used = sequence
            /\ destination = target /\ ~saw_final /\ state = "receiving"
        BY <3>1, <3>2 DEF Received
      <3>5. upload_data' = Content(session, sequence + 1)
        BY <1>6, <3>1, <3>2, <3>4, Contents
      <3>6. saw_final' <=> sequence + 1 = chunks
        BY <1>6, <3>1, <3>4
      <3>7. state' = IF sequence + 1 = chunks THEN "ready" ELSE "receiving"
        BY <1>6, <3>1, <3>4
      <3>8. last_sequence' = sequence + 1 - 1
        BY <1>6, <3>1, <3>2
      <3>9. Content(session', sequence' + 1) = Content(session, sequence + 1)
        BY <3>3
      <3>10. destination' = target' /\ upload_used' = sequence' + 1
        BY <1>6, <3>3, <3>4
      <3>11. Received(sequence + 1)'
        <4>1. upload_data' = Content(session, sequence + 1)'
          BY <3>3, <3>5 DEF Content
        <4>2. state' = IF (sequence + 1)' = chunks' THEN "ready" ELSE "receiving"
          BY <3>3, <3>7
        <4>3. upload_used' = (sequence + 1)' /\ last_sequence' = (sequence + 1)' - 1
          BY <3>2, <3>3, <3>8, <3>10
        <4>4. saw_final' <=> (sequence + 1)' = chunks'
          BY <3>3, <3>6
        <4> QED
          BY <3>10, <4>1, <4>2, <4>3, <4>4 DEF Received
      <3> QED
        BY <3>1, <3>3, <3>11 DEF After
    <2>7. adbd' = adbd
      BY <1>6 DEF worldVars
    <2> QED
      BY <1>6, <2>3, <2>4, <2>5, <2>6, <2>7, Taking
  <1>7. CASE /\ Appendable(r) /\ ~allocated /\ state' = "dead"
             /\ UNCHANGED <<in, bufferVars, worldVars>>
    <2>1. CameraTypes' /\ BufferInv' /\ adbd' = adbd
      BY <1>7 DEF CameraTypes, BufferInv, TypeOK, bufferVars, worldVars
    <2> QED
      BY <1>5, <1>7, <2>1, Taking
  <1>8. CASE /\ ~Appendable(r) /\ state' = "error" /\ Respond(r, FALSE)
             /\ UNCHANGED <<bufferVars, worldVars>>
    <2>1. CameraTypes' /\ BufferInv' /\ adbd' = adbd
      BY <1>8 DEF CameraTypes, BufferInv, TypeOK, bufferVars, worldVars
    <2> QED
      BY <1>5, <1>8, <2>1, Taking
  <1> QED
    BY <1>6, <1>7, <1>8 DEF UploadAppend

\* 0x3300.
LEMMA CommitStep ==
    ASSUME IInv, NEW r, Taken(r), state \in {"ready", "error"}, r.command = "commit",
           UploadCommit(r)
    PROVE  IInv'
  <1> USE DEF IInv
  <1>1. /\ upload_data \in Seq(Chunk) /\ files \in [Paths -> Seq(Chunk)]
        /\ destination \in Targets /\ <<>> \in Seq(Chunk)
    BY DEF TypeOK
  <1>2. ASSUME Pending PROVE saw_final /\ destination = ADBD
    BY <1>2 DEF AdbInv, AdbState, BufferInv
  <1>3. ASSUME CommitFails(r), files' \in [Paths -> Seq(Chunk)], adbd' \in BOOLEAN,
               adbd => adbd', ~(Pending /\ ~adbd')
        PROVE  IInv'
    <2>1. /\ state' = "error" /\ allocated' = FALSE /\ upload_data' = <<>>
          /\ refused' = TRUE /\ Respond(r, FALSE)
          /\ UNCHANGED <<upload_used, last_sequence, destination, saw_final, unflushed>>
      BY <1>3 DEF CommitFails
    <2>2. allocated' \in BOOLEAN /\ ~allocated' /\ refused' \in BOOLEAN /\ refused'
      BY <2>1, Zenon
    <2>3. CameraTypes' /\ BufferInv'
      BY <1>1, <1>3, <2>1, <2>2 DEF CameraTypes, BufferInv, TypeOK
    <2> QED
      BY <1>3, <2>1, <2>3, Taking
  <1>4. CASE ~saw_final /\ CommitFails(r) /\ UNCHANGED <<files, adbd>>
    <2>1. adbd' \in BOOLEAN /\ (adbd => adbd')
      BY <1>4 DEF TypeOK
    <2> QED
      BY <1>1, <1>2, <1>3, <1>4, <2>1
  <1>5. CASE adbd' = TRUE /\ CommitFails(r) /\ UNCHANGED files
    <2>1. adbd' \in BOOLEAN /\ adbd'
      BY <1>5, Zenon
    <2> QED
      BY <1>1, <1>3, <1>5, <2>1
  <1>6. CASE /\ destination # ADBD /\ CommitFails(r) /\ UNCHANGED adbd
             /\ \E n \in 0 .. Len(upload_data) : Contain(SubSeq(upload_data, 1, n))
    <2>1. PICK n \in 0 .. Len(upload_data) : Contain(SubSeq(upload_data, 1, n))
      BY <1>6
    <2>2. SubSeq(upload_data, 1, n) \in Seq(Chunk)
      BY <1>1
    <2>3. files' \in [Paths -> Seq(Chunk)]
      BY <1>1, <1>6, <2>1, <2>2 DEF Contain
    <2>4. adbd' \in BOOLEAN /\ (adbd => adbd')
      BY <1>6 DEF TypeOK
    <2> QED
      BY <1>2, <1>3, <1>6, <2>3, <2>4
  <1>7. CASE /\ destination # ADBD /\ allocated
             /\ \E n \in 0 .. Len(upload_data) :
                   CommitSucceeds(r, n) /\ unflushed' = Len(upload_data) - n
    <2>1. PICK n \in 0 .. Len(upload_data) :
             CommitSucceeds(r, n) /\ unflushed' = Len(upload_data) - n
      BY <1>7
    <2>2. /\ state' = "idle" /\ allocated' = FALSE /\ upload_data' = <<>>
          /\ Respond(r, TRUE)
          /\ UNCHANGED <<upload_used, last_sequence, destination, saw_final, adbd, refused>>
          /\ files' = [files EXCEPT ![destination] = SubSeq(upload_data, 1, n)]
          /\ destination \in Paths
      BY <1>1, <1>7, <2>1 DEF CommitSucceeds, Contain, Targets
    <2>3. SubSeq(upload_data, 1, n) \in Seq(Chunk)
      BY <1>1
    <2>4. /\ files' \in [Paths -> Seq(Chunk)]
          /\ files'[destination] = SubSeq(upload_data, 1, n)
      BY <1>1, <2>2, <2>3
    <2>5. allocated' \in BOOLEAN /\ ~allocated'
      BY <2>2, Zenon
    <2>6. unflushed' \in 0 .. CAPACITY
      BY <1>7, <2>1, UploadAssumption DEF TypeOK
    <2>7. CameraTypes' /\ BufferInv'
      BY <1>1, <2>2, <2>4, <2>5, <2>6 DEF CameraTypes, BufferInv, TypeOK
    <2>8. ASSUME Before, Own(r) PROVE After'
      <3>1. host = "commit" /\ Received(chunks)
        BY <2>8 DEF Before, Own
      <3>2. UNCHANGED <<host, session, target, chunks>>
        BY DEF Taken, hostVars
      <3>3. session \in 0 .. SESSIONS /\ chunks \in 0 .. MAX_CHUNKS /\ chunks \in Nat
        BY UploadAssumption DEF TypeOK
      <3>4. upload_data = Content(session, chunks) /\ Len(upload_data) = chunks
        BY <3>1, <3>3, Contents DEF Received
      <3>5. n \in 0 .. chunks /\ chunks - unflushed' = n
        BY <2>1, <3>3, <3>4
      <3>6. SubSeq(Content(session, chunks), 1, n) = Content(session, n)
        BY <3>3, <3>5, Prefix
      <3>7. files'[target'] = Content(session', chunks' - unflushed')
        BY <2>4, <3>1, <3>2, <3>4, <3>5, <3>6 DEF Received
      <3> QED
        BY <2>2, <3>1, <3>2, <3>7 DEF After, Landed
    <2> QED
      BY <1>2, <1>7, <2>2, <2>7, <2>8, Taking
  <1> QED
    BY <1>4, <1>5, <1>6, <1>7 DEF UploadCommit

\* dispatch_normal_report as a whole.
LEMMA DispatchStep == ASSUME IInv, Dispatch PROVE IInv'
  <1> DEFINE r == Head(out)
  <1>1. Taken(r)
    BY DEF Dispatch, Taken
  <1>2. \/ ~r.good /\ BadReport(r)
        \/ state \notin ActsIn(r) /\ Ignore(r)
        \/ state \in ActsIn(r) /\ r.command = "init" /\ UploadInit(r)
        \/ state \in ActsIn(r) /\ r.command = "target" /\ UploadTarget(r)
        \/ state \in ActsIn(r) /\ r.command = "data" /\ UploadAppend(r)
        \/ state \in ActsIn(r) /\ r.command = "commit" /\ UploadCommit(r)
    BY DEF Dispatch
  <1> HIDE DEF r
  <1>3. CASE (~r.good /\ BadReport(r)) \/ (state \notin ActsIn(r) /\ Ignore(r))
    BY <1>1, <1>3, UnchangedStep
  <1>4. CASE state \in ActsIn(r) /\ r.command = "init" /\ UploadInit(r)
    BY <1>1, <1>4, InitStep DEF ActsIn
  <1>5. CASE state \in ActsIn(r) /\ r.command = "target" /\ UploadTarget(r)
    BY <1>1, <1>5, TargetStep DEF ActsIn
  <1>6. CASE state \in ActsIn(r) /\ r.command = "data" /\ UploadAppend(r)
    BY <1>1, <1>6, AppendStep DEF ActsIn
  <1>7. CASE state \in ActsIn(r) /\ r.command = "commit" /\ UploadCommit(r)
    BY <1>1, <1>7, CommitStep DEF ActsIn
  <1> QED
    BY <1>2, <1>3, <1>4, <1>5, <1>6, <1>7

----------------------------------------------------------------------------
(* The results. *)

\* Before the first call nothing is in transit and the uploader is idle.
LEMMA InitInv == Init => IInv
  <1> SUFFICES ASSUME Init PROVE IInv
    OBVIOUS
  <1>1. <<>> \in Seq(Sent) /\ <<>> \in Seq(Request) /\ <<>> \in Seq(Reply) /\ <<>> \in Seq(Chunk)
    OBVIOUS
  <1>2. OldContent \in Seq(Chunk)
    BY UploadAssumption DEF OldContent, Chunk
  <1>3. /\ session \in 0 .. SESSIONS /\ chunks \in 1 .. MAX_CHUNKS
        /\ sequence \in 0 .. MAX_CHUNKS /\ last_sequence \in 0 .. MAX_CHUNKS
        /\ upload_used \in 0 .. CAPACITY /\ faults \in 0 .. MAX_FAULTS
        /\ reboots \in 0 .. MAX_REBOOTS
    BY UploadAssumption DEF Init
  <1>4. /\ allocated \in BOOLEAN /\ saw_final \in BOOLEAN /\ adbd \in BOOLEAN
        /\ refused \in BOOLEAN /\ ~allocated
    BY Zenon DEF Init
  <1>5. TypeOK
    BY <1>1, <1>2, <1>3, <1>4 DEF Init, TypeOK, Targets, Ended
  <1>6. CallInv /\ OutInv /\ BufferInv
    BY <1>1 DEF Init, CallInv, OutInv, BufferInv
  <1>7. FreshInv /\ LandedInv /\ AdbInv
    BY DEF Init, FreshInv, LandedInv, AdbInv, Pending, Returned, Commands
  <1> QED
    BY <1>5, <1>6, <1>7 DEF IInv

\* The relation of calls, reports in transit and uploader holds in every state.
THEOREM Inductive == Spec => []IInv
  <1>1. ASSUME IInv, UNCHANGED vars PROVE IInv'
    <2> USE <1>1 DEF IInv, vars, hostVars, bufferVars, worldVars, boundVars
    <2>1. TypeOK'
      BY DEF TypeOK
    <2>2. CallInv' /\ OutInv' /\ BufferInv'
      BY DEF CallInv, OutInv, BufferInv
    <2>3. /\ Before' <=> Before
          /\ After' <=> After
          /\ Landed' <=> Landed
      BY DEF Before, After, Landed, Received
    <2>4. \A r \in Sent : Own(r)' <=> Own(r)
      BY DEF Own
    <2>5. FreshInv' /\ LandedInv'
      BY <2>3, <2>4 DEF FreshInv, LandedInv, Returned
    <2>6. AdbInv'
      BY DEF AdbInv, Pending, AdbState, AdbQueue, Progress
    <2> QED
      BY <2>1, <2>2, <2>5, <2>6
  <1>2. IInv /\ [Next]_vars => IInv'
    BY <1>1, BeginStep, HostStep, DispatchStep, FaultStep, RebootStep DEF Next
  <1> QED
    BY InitInv, <1>2, PTL DEF Spec

\* Every variable keeps its type; in particular upload_used counts what the
\* buffer holds and never passes CAPACITY.
THEOREM TypeCorrect == Spec => []TypeOK
  <1>1. IInv => TypeOK
    BY DEF IInv
  <1> QED
    BY Inductive, <1>1, PTL

\* The daemon does not die of any sequence of calls before it refused a commit:
\* until then every state that copies into the buffer has one.
THEOREM Survives == Spec => []SurvivesUntilRefusal
  <1>1. IInv => SurvivesUntilRefusal
    BY DEF IInv, BufferInv, SurvivesUntilRefusal
  <1> QED
    BY Inductive, <1>1, PTL

\* upload_normal_file's promise, as far as the camera's answers carry it: a call
\* that found the uploader idle and nothing in transit has replaced its destination
\* by its own chunks in order when it returns, whatever was lost or damaged
\* meanwhile; the tail that can be missing is what a failed fclose left out.
THEOREM FreshLands == Spec => []FreshUploadLands
  <1>1. IInv => FreshUploadLands
    BY DEF IInv, LandedInv, Landed, FreshUploadLands
  <1> QED
    BY Inductive, <1>1, PTL

\* start_adb's promise: once its commit was delivered, a call that returns has
\* started adbd, although it may have run on replies to earlier calls and does
\* not look at how its commit ended.
THEOREM AdbStarted == Spec => []ReturnedMeansAdbd
  <1>1. ASSUME IInv, Returned("adb"), found # "other", out = <<>>, faults = 0, reboots = 0,
               ~adbd
        PROVE  FALSE
    <2>1. AdbQueue /\ Progress = 4
      BY <1>1 DEF IInv, AdbInv, Pending, Returned, Progress
    <2>2. Len(out) = 0
      BY <1>1
    <2> QED
      BY <2>1, <2>2 DEF AdbQueue
  <1>2. IInv => ReturnedMeansAdbd
    BY <1>1 DEF ReturnedMeansAdbd
  <1> QED
    BY Inductive, <1>2, PTL
=============================================================================
