------------------------- MODULE BootUpdaterProofs -------------------------
(***************************************************************************)
(* The safety of the transfer, for any number of packets, of calls of      *)
(* restore_blob, of lost or damaged reports and of power cycles.           *)
(***************************************************************************)
EXTENDS BootUpdater, TLAPS

\* The frames the host sends number their data below the packet count, and only
\* damage to metadata, which has a number of its own, can bring a higher one.
Sent == {f \in Frame : f.type = 3 => f.number < PACKETS}

\* A success report is only sent once a blob has matched its MD5.
Credible == {r \in Reply : r.type = 5 /\ r.value # 0 => verified # {}}

HostPart ==
    /\ host \in {"idle", "metadata", "data"} \union Ended
    /\ session \in 0 .. SESSIONS
    /\ sequence \in 0 .. PACKETS - 1
    /\ host # "idle" => session \in Blobs
    /\ host = "accepted" => verified # {}

WirePart == out \in Seq(Sent) /\ in \in Seq(Credible)

\* The stream is filled up to the packet that is due.
CounterPart ==
    /\ packet_count \in 0 .. PACKETS + 1
    /\ next_packet \in 0 .. PACKETS
    /\ batch_first_packet \in 0 .. PACKETS
    /\ stream_used = next_packet
    /\ bad_frame_count \in 0 .. UINT8 - 1
    /\ stall_count \in 0 .. UINT8 - 1
    /\ terminal_state \in 0 .. 2

BufferPart ==
    /\ allocated \in BOOLEAN
    /\ room \in 0 .. PACKETS
    /\ stream \in [0 .. PACKETS - 1 -> Blobs \union {GARBAGE}]
    /\ moved \in BOOLEAN

FlashPart ==
    /\ device \in {"receive", "erase", "write", "done", "dead"}
    /\ flash \in Blobs \union {OLD, ERASED, PARTIAL, MOVED}
    /\ verified \subseteq Blobs

BoundPart == faults \in 0 .. MAX_FAULTS /\ powerCycles \in 0 .. MAX_POWER_CYCLES

Parts == HostPart /\ WirePart /\ CounterPart /\ BufferPart /\ FlashPart /\ BoundPart

\* The first call on an undisturbed link: one report is on its way at most, and
\* the updater waits for the packet the host sends next, with all before it.
Undisturbed == session <= 1 /\ faults = 0 /\ powerCycles = 0
Metadata1 == [type |-> 1, number |-> PACKETS, blob |-> 1, moved |-> FALSE, sum |-> TRUE]
Ready(k) ==
    /\ allocated /\ room = PACKETS /\ packet_count = PACKETS /\ next_packet = k
    /\ \A j \in 0 .. PACKETS - 1 : j < k => stream[j] = 1
Nothing == out = <<>> /\ in = <<>>
MetadataSent == out = <<Metadata1>> /\ in = <<>>
MetadataTaken == out = <<>> /\ in = <<Ack(0)>> /\ Ready(0)
DataSent == out = <<Data(sequence)>> /\ in = <<>> /\ Ready(sequence)
DataTaken ==
    /\ out = <<>> /\ in = <<Ack(sequence + 1)>>
    /\ sequence + 1 # PACKETS /\ Ready(sequence + 1)
AllTaken == out = <<>> /\ in = <<Terminal(1)>> /\ sequence + 1 = PACKETS
CleanInv ==
    Undisturbed =>
        \/ host = "idle" /\ session = 0 /\ Nothing
        \/ /\ host \in {"metadata", "timeout"} /\ session = 1
           /\ MetadataSent \/ MetadataTaken \/ Nothing
        \/ /\ host \in {"data", "timeout"} /\ session = 1
           /\ DataSent \/ DataTaken \/ AllTaken
        \/ host = "accepted" /\ session = 1 /\ Nothing

IInv == Parts /\ EraseOnlyVerified /\ CleanInv

----------------------------------------------------------------------------
(* Reports and queues. *)

\* A queue loses its head, gets a new last report, or has its head replaced.
LEMMA Queues ==
    ASSUME NEW S, NEW q \in Seq(S), NEW x \in S
    PROVE  /\ Append(q, x) \in Seq(S) /\ <<>> \in Seq(S)
           /\ q # <<>> => Head(q) \in S /\ Tail(q) \in Seq(S) /\ <<x>> \o Tail(q) \in Seq(S)
  <1>1. Append(q, x) \in Seq(S) /\ <<>> \in Seq(S)
    OBVIOUS
  <1>2. ASSUME q # <<>>
        PROVE  Head(q) \in S /\ Tail(q) \in Seq(S)
    BY <1>2
  <1>3. ASSUME q # <<>>
        PROVE  <<x>> \o Tail(q) \in Seq(S)
    <2>1. Tail(q) \in Seq(S) /\ <<x>> \in Seq(S)
      BY <1>2, <1>3
    <2> QED
      BY <2>1
  <1> QED
    BY <1>1, <1>2, <1>3

\* A queue of one report.
LEMMA Single ==
    ASSUME NEW x
    PROVE  /\ Append(<<>>, x) = <<x>> /\ Head(<<x>>) = x /\ Tail(<<x>>) = <<>>
           /\ <<x>> # <<>>
  OBVIOUS

\* A queue of one kind of report is one of a wider kind.
LEMMA Wider ==
    ASSUME NEW S, NEW T, S \subseteq T, NEW q \in Seq(S)
    PROVE  q \in Seq(T)
  OBVIOUS

\* What the host and the updater send.
LEMMA Reports ==
    /\ PACKETS \in Nat \ {0}
    /\ session \in Blobs => \A k \in 0 .. PACKETS - 1 : Data(k) \in Sent
    /\ session' \in Blobs => Metadata \in Sent
    /\ \A n \in 0 .. PACKETS : Ack(n) \in Credible
    /\ Terminal(0) \in Credible
    /\ verified # {} => Terminal(1) \in Credible
  <1>1. PACKETS \in Nat \ {0}
    BY TransferAssumption
  <1>2. ASSUME session \in Blobs, NEW k \in 0 .. PACKETS - 1
        PROVE  Data(k) \in Sent
    BY <1>1, <1>2 DEF Data, Sent, Frame
  <1>3. session' \in Blobs => Metadata \in Sent
    BY <1>1 DEF Metadata, Sent, Frame
  <1>4. ASSUME NEW n \in 0 .. PACKETS
        PROVE  Ack(n) \in Credible
    BY <1>1 DEF Ack, Credible, Reply
  <1>5. Terminal(0) \in Credible /\ (verified # {} => Terminal(1) \in Credible)
    BY <1>1 DEF Terminal, Credible, Reply
  <1> QED
    BY <1>1, <1>2, <1>3, <1>4, <1>5

\* A damaged report keeps its form.
LEMMA Damage ==
    /\ \A f \in Sent : DamagedFrames(f) \subseteq Sent
    /\ \A r \in Credible : [r EXCEPT !.sum = FALSE] \in Credible
  <1>1. PACKETS \in Nat \ {0}
    BY TransferAssumption
  <1>2. ASSUME NEW f \in Sent, NEW d \in DamagedFrames(f)
        PROVE  d \in Sent
    <2>1. f \in [type : {1, 3}, number : 0 .. PACKETS + 1, blob : Blobs \union {GARBAGE},
                 moved : BOOLEAN, sum : BOOLEAN]
      BY DEF Sent, Frame
    <2>2. CASE d = [f EXCEPT !.sum = FALSE]
      BY <2>1, <2>2 DEF Sent, Frame
    <2>3. CASE f.type = 3 /\ d = [f EXCEPT !.blob = GARBAGE]
      BY <2>1, <2>3 DEF Sent, Frame
    <2>4. CASE f.type = 3 /\ d = [f EXCEPT !.moved = TRUE]
      BY <2>1, <2>4 DEF Sent, Frame
    <2>5. CASE /\ f.type # 3
               /\ \E n \in 0 .. PACKETS + 1 : d = [f EXCEPT !.sum = FALSE, !.number = n]
      BY <2>1, <2>5 DEF Sent, Frame
    <2> QED
      BY <2>2, <2>3, <2>4, <2>5 DEF DamagedFrames
  <1>3. ASSUME NEW r \in Credible
        PROVE  [r EXCEPT !.sum = FALSE] \in Credible
    BY DEF Credible, Reply
  <1> QED
    BY <1>2, <1>3

----------------------------------------------------------------------------
(* Types. *)

\* Verified blobs stay verified, so what was credible stays so.
LEMMA StillCredible ==
    ASSUME verified \subseteq verified', in \in Seq(Credible)
    PROVE  in \in Seq(Credible')
  <1>1. Credible \subseteq Credible'
    BY DEF Credible
  <1> QED
    BY <1>1, Wider

\* The parts a step does not touch.
LEMMA Frames ==
    /\ HostPart /\ UNCHANGED <<hostVars, verified>> => HostPart'
    /\ WirePart /\ UNCHANGED <<out, in, verified>> => WirePart'
    /\ CounterPart /\ UNCHANGED counterVars => CounterPart'
    /\ BufferPart /\ UNCHANGED bufferVars => BufferPart'
    /\ FlashPart /\ UNCHANGED <<device, flashVars>> => FlashPart'
    /\ BoundPart /\ UNCHANGED boundVars => BoundPart'
  <1>1. HostPart /\ UNCHANGED <<hostVars, verified>> => HostPart'
    BY DEF HostPart, hostVars
  <1>2. WirePart /\ UNCHANGED <<out, in, verified>> => WirePart'
    BY DEF WirePart, Credible
  <1>3. CounterPart /\ UNCHANGED counterVars => CounterPart'
    BY DEF CounterPart, counterVars
  <1>4. BufferPart /\ UNCHANGED bufferVars => BufferPart'
    BY DEF BufferPart, bufferVars
  <1>5. FlashPart /\ UNCHANGED <<device, flashVars>> => FlashPart'
    BY DEF FlashPart, flashVars
  <1>6. BoundPart /\ UNCHANGED boundVars => BoundPart'
    BY DEF BoundPart, boundVars
  <1> QED
    BY <1>1, <1>2, <1>3, <1>4, <1>5, <1>6

\* The host's steps.
LEMMA HostTypes ==
    ASSUME Parts, HostStep
    PROVE  Parts'
  <1>1. /\ UNCHANGED <<device, counterVars, bufferVars, flashVars, boundVars>>
        /\ UNCHANGED verified
    BY DEF HostStep, Open, MetadataReply, DataReply, FinalReply, GiveUp, flashVars
  <1>2. CounterPart' /\ BufferPart' /\ FlashPart' /\ BoundPart'
    BY <1>1, Frames DEF Parts
  <1>3. HostPart /\ out \in Seq(Sent) /\ in \in Seq(Credible) /\ in \in Seq(Credible')
    BY <1>1, StillCredible DEF Parts, WirePart
  <1>4. PACKETS \in Nat \ {0} /\ SESSIONS \in Nat /\ Credible' = Credible
    BY <1>1, TransferAssumption DEF Credible
  <1>5. CASE Open
    <2>1. session' = session + 1 /\ session < SESSIONS /\ host' = "metadata"
          /\ out' = Append(out, Metadata) /\ UNCHANGED <<sequence, in>>
      BY <1>5 DEF Open
    <2>2. session' \in Blobs /\ session' \in 0 .. SESSIONS
      BY <1>3, <1>4, <2>1 DEF HostPart, Blobs
    <2>3. HostPart'
      BY <1>3, <2>1, <2>2 DEF HostPart, Ended
    <2>4. WirePart'
      BY <1>3, <1>4, <2>1, <2>2, Reports, Queues DEF WirePart
    <2> QED
      BY <1>2, <2>3, <2>4 DEF Parts
  <1>6. CASE MetadataReply
    <2>1. /\ host = "metadata" /\ in # <<>> /\ in' = Tail(in) /\ session' = session
          /\ \/ host' = "data" /\ sequence' = 0 /\ out' = Append(out, Data(0))
             \/ host' = "failed" /\ sequence' = sequence /\ out' = out
      BY <1>6 DEF MetadataReply
    <2>2. session \in Blobs /\ 0 \in 0 .. PACKETS - 1
      BY <1>3, <1>4, <2>1 DEF HostPart
    <2>3. HostPart'
      BY <1>3, <2>1, <2>2 DEF HostPart, Ended
    <2>4. Data(0) \in Sent
      BY <2>2, Reports
    <2>5. out' \in Seq(Sent)
      BY <1>3, <2>1, <2>4, Queues
    <2>6. in' \in Seq(Credible)
      BY <1>3, <2>1, Queues
    <2> QED
      BY <1>2, <1>4, <2>3, <2>5, <2>6 DEF Parts, WirePart
  <1>7. CASE DataReply
    <2>1. /\ host = "data" /\ in # <<>> /\ in' = Tail(in) /\ session' = session
          /\ sequence + 1 # PACKETS
          /\ \/ host' = host /\ sequence' = sequence + 1 /\ out' = Append(out, Data(sequence'))
             \/ host' = "failed" /\ sequence' = sequence /\ out' = out
      BY <1>7 DEF DataReply
    <2>2. session \in Blobs /\ sequence' \in 0 .. PACKETS - 1
      BY <1>3, <1>4, <2>1 DEF HostPart
    <2>3. HostPart'
      BY <1>3, <2>1, <2>2 DEF HostPart, Ended
    <2>4. Data(sequence') \in Sent
      BY <2>2, Reports
    <2>5. out' \in Seq(Sent)
      BY <1>3, <2>1, <2>4, Queues
    <2>6. in' \in Seq(Credible)
      BY <1>3, <2>1, Queues
    <2> QED
      BY <1>2, <1>4, <2>3, <2>5, <2>6 DEF Parts, WirePart
  <1>8. CASE FinalReply
    <2>1. /\ host = "data" /\ in # <<>> /\ in' = Tail(in)
          /\ UNCHANGED <<session, sequence, out>>
      BY <1>8 DEF FinalReply
    <2>2. \/ host' \in {"failed", "rejected"}
          \/ host' = "accepted" /\ Head(in).type = 5 /\ Head(in).value # 0
      BY <1>8 DEF FinalReply
    <2>3. Head(in) \in Credible /\ in' \in Seq(Credible)
      BY <1>3, <2>1, Queues
    <2>4. host' = "accepted" => verified' # {}
      BY <1>1, <2>2, <2>3 DEF Credible
    <2>5. HostPart'
      BY <1>3, <2>1, <2>2, <2>4 DEF HostPart, Ended
    <2> QED
      BY <1>2, <1>3, <1>4, <2>1, <2>3, <2>5 DEF Parts, WirePart
  <1>9. CASE GiveUp
    <2>1. host # "idle" /\ host' = "timeout" /\ UNCHANGED <<session, sequence, out, in>>
      BY <1>9 DEF GiveUp
    <2>2. HostPart'
      BY <1>3, <2>1 DEF HostPart, Ended
    <2> QED
      BY <1>2, <1>3, <1>4, <2>1, <2>2 DEF Parts, WirePart
  <1> QED
    BY <1>5, <1>6, <1>7, <1>8, <1>9 DEF HostStep

\* The batch is asked for again: the stream is rewound with the packet due.
LEMMA RetryTypes ==
    ASSUME WirePart, CounterPart, BufferPart, FlashPart, NEW stalled \in BOOLEAN,
           RequestBatchRetry(stalled)
    PROVE  CounterPart' /\ BufferPart' /\ FlashPart' /\ in' \in Seq(Credible')
  <1> DEFINE count == IF stalled THEN stall_count ELSE bad_frame_count
             errors == (count + 1) % UINT8
  <1>1. /\ stall_count' = (IF stalled THEN errors ELSE stall_count)
        /\ bad_frame_count' = (IF stalled THEN bad_frame_count ELSE errors)
        /\ packet_count' = packet_count /\ batch_first_packet' = batch_first_packet
        /\ UNCHANGED <<bufferVars, flashVars, device>>
    BY DEF RequestBatchRetry
  <1>2. \/ /\ Send(Terminal(0)) /\ terminal_state' = 2
           /\ next_packet' = next_packet /\ stream_used' = stream_used
        \/ /\ Send(Ack(batch_first_packet)) /\ terminal_state' = terminal_state
           /\ next_packet' = batch_first_packet /\ stream_used' = batch_first_packet
    BY DEF RequestBatchRetry
  <1>3. errors \in 0 .. UINT8 - 1
    <2>1. count \in Nat
      BY DEF CounterPart, UINT8
    <2> HIDE DEF count
    <2> QED
      BY <2>1 DEF UINT8
  <1> HIDE DEF errors
  <1>4. stall_count' \in 0 .. UINT8 - 1 /\ bad_frame_count' \in 0 .. UINT8 - 1
    BY <1>1, <1>3 DEF CounterPart
  <1>5. CounterPart'
    BY <1>1, <1>2, <1>4 DEF CounterPart
  <1>6. BufferPart' /\ FlashPart'
    BY <1>1, Frames DEF flashVars
  <1>7. in' \in Seq(Credible')
    <2>1. Ack(batch_first_packet) \in Credible /\ Terminal(0) \in Credible
      BY Reports DEF CounterPart
    <2>2. in' \in Seq(Credible)
      BY <1>2, <2>1, Queues DEF WirePart, Send
    <2> QED
      BY <1>1, <2>2 DEF Credible, flashVars
  <1> QED
    BY <1>5, <1>6, <1>7

\* A packet is stored where it belongs.
LEMMA StoreTypes ==
    ASSUME CounterPart, BufferPart, NEW f \in Sent, f.type = 3, IsNext(f), StorePacket(f)
    PROVE  /\ BufferPart' /\ f.number = next_packet /\ next_packet \in 0 .. PACKETS - 1
           /\ next_packet' = next_packet + 1 /\ next_packet' \in 0 .. PACKETS
           /\ stream_used' = next_packet' /\ bad_frame_count' = 0
           /\ packet_count' = packet_count /\ stall_count' = stall_count
           /\ stream' = [stream EXCEPT ![next_packet] = f.blob]
           /\ f.blob \in Blobs \union {GARBAGE}
  <1>1. f \in Frame /\ f.number < PACKETS
    BY DEF Sent
  <1>2. f.number = next_packet /\ next_packet \in 0 .. PACKETS - 1
    BY <1>1, Reports DEF IsNext, CounterPart
  <1>3. /\ stream' = [stream EXCEPT ![next_packet] = f.blob]
        /\ stream_used' = next_packet + 1 /\ next_packet' = next_packet + 1
        /\ bad_frame_count' = 0 /\ packet_count' = packet_count
        /\ stall_count' = stall_count /\ allocated' = allocated /\ room' = room
        /\ moved' = f.moved \/ moved' = moved
    BY DEF StorePacket, CounterPart
  <1>4. f.blob \in Blobs \union {GARBAGE} /\ f.moved \in BOOLEAN
    BY <1>1 DEF Frame
  <1>5. stream' \in [0 .. PACKETS - 1 -> Blobs \union {GARBAGE}]
    BY <1>2, <1>3, <1>4 DEF BufferPart
  <1>6. allocated' \in BOOLEAN /\ moved' \in BOOLEAN
    BY <1>3, <1>4, Zenon DEF BufferPart
  <1>7. next_packet + 1 \in 0 .. PACKETS
    BY <1>2, Reports
  <1> QED
    BY <1>2, <1>3, <1>4, <1>5, <1>6, <1>7 DEF BufferPart

\* A data packet that was due.
LEMMA AcceptTypes ==
    ASSUME Parts, NEW f \in Sent, f.type = 3, IsNext(f), AcceptData(f)
    PROVE  /\ CounterPart' /\ BufferPart' /\ FlashPart'
           /\ in' \in Seq(Credible') /\ verified \subseteq verified'
  <1>1. WirePart /\ CounterPart /\ BufferPart /\ FlashPart
    BY DEF Parts
  <1>2. /\ BufferPart' /\ f.number = next_packet /\ next_packet \in 0 .. PACKETS - 1
        /\ next_packet' = next_packet + 1 /\ next_packet' \in 0 .. PACKETS
        /\ stream_used' = next_packet' /\ bad_frame_count' = 0
        /\ packet_count' = packet_count /\ stall_count' = stall_count
    BY <1>1, StoreTypes DEF AcceptData
  <1>3. 0 \in 0 .. UINT8 - 1 /\ 2 \in 0 .. 2
    BY DEF UINT8
  <1>4. CASE f.number = packet_count - 1 /\ Md5Matches(stream')
    <2>1. /\ Send(Terminal(1)) /\ device' = "erase"
          /\ verified' = verified \union {stream'[0]}
          /\ terminal_state' = terminal_state /\ flash' = flash
          /\ batch_first_packet' = batch_first_packet
      BY <1>4 DEF AcceptData, VerifyAndProgram
    <2>2. stream'[0] \in Blobs
      <3>1. 0 \in 0 .. PACKETS - 1
        BY Reports
      <3> QED
        BY <1>2, <1>4, <3>1 DEF BufferPart, Md5Matches
    <2>3. FlashPart'
      BY <1>1, <2>1, <2>2 DEF FlashPart
    <2>4. CounterPart'
      BY <1>1, <1>2, <1>3, <2>1 DEF CounterPart
    <2>5. Terminal(1) \in Credible'
      <3>1. verified' # {}
        BY <2>1
      <3> QED
        BY <3>1, Reports DEF Terminal, Credible, Reply
    <2>6. in \in Seq(Credible')
      BY <1>1, <2>1, StillCredible DEF WirePart
    <2>7. in' \in Seq(Credible')
      BY <2>1, <2>5, <2>6, Queues DEF Send
    <2> QED
      BY <1>2, <2>1, <2>3, <2>4, <2>7
  <1>5. CASE f.number = packet_count - 1 /\ ~Md5Matches(stream')
    <2>1. /\ Send(Terminal(0)) /\ UNCHANGED <<device, flashVars>> /\ verified' = verified
          /\ terminal_state' = 2 /\ batch_first_packet' = batch_first_packet
      BY <1>5 DEF AcceptData, VerifyAndProgram, flashVars
    <2>2. CounterPart'
      BY <1>1, <1>2, <1>3, <2>1 DEF CounterPart
    <2>3. in' \in Seq(Credible)
      BY <1>1, <2>1, Reports, Queues DEF Send, WirePart
    <2>4. Credible' = Credible
      BY <2>1 DEF Credible
    <2> QED
      BY <1>1, <1>2, <2>1, <2>2, <2>3, <2>4, Frames
  <1>6. CASE f.number # packet_count - 1
    <2>1. /\ UNCHANGED <<device, flashVars>> /\ verified' = verified
          /\ terminal_state' = terminal_state
          /\ \/ Send(Ack(next_packet')) /\ batch_first_packet' = next_packet'
             \/ in' = in /\ batch_first_packet' = batch_first_packet
      BY <1>6 DEF AcceptData, flashVars
    <2>2. CounterPart'
      BY <1>1, <1>2, <1>3, <2>1 DEF CounterPart
    <2>3. Ack(next_packet') \in Credible
      BY <1>2, Reports
    <2>4. in' \in Seq(Credible)
      BY <1>1, <2>1, <2>3, Queues DEF Send, WirePart
    <2>5. Credible' = Credible
      BY <2>1 DEF Credible
    <2> QED
      BY <1>1, <1>2, <2>1, <2>2, <2>4, <2>5, Frames
  <1> QED
    BY <1>4, <1>5, <1>6

\* updater_receive handles a report.
LEMMA ReceiveTypes ==
    ASSUME Parts, Receive
    PROVE  Parts'
  <1> DEFINE f == Head(out)
  <1>1. out # <<>> /\ out' = Tail(out) /\ UNCHANGED <<hostVars, boundVars>>
    BY DEF Receive
  <1>2. f \in Sent /\ out' \in Seq(Sent)
    BY <1>1, Queues DEF Parts, WirePart
  <1>3. BoundPart'
    BY <1>1, Frames DEF Parts
  <1>4. f.number \in 0 .. PACKETS + 1
    BY <1>2 DEF Sent, Frame
  <1> HIDE DEF f
  <1>5. CounterPart' /\ BufferPart' /\ FlashPart' /\ in' \in Seq(Credible')
        /\ verified \subseteq verified'
    <2>1. WirePart /\ CounterPart /\ BufferPart /\ FlashPart
      BY DEF Parts
    <2>2. CASE AcceptMetadata(f)
      <3>1. /\ packet_count' = f.number
            /\ next_packet' = 0 /\ batch_first_packet' = 0 /\ stream_used' = 0
            /\ bad_frame_count' = 0 /\ stall_count' = 0 /\ terminal_state' = 0
            /\ allocated' = TRUE /\ moved' = moved /\ room' \in 0 .. PACKETS
            /\ stream' \in {stream, [j \in 0 .. PACKETS - 1 |-> GARBAGE]}
            /\ Send(Ack(0)) /\ UNCHANGED <<device, flashVars>> /\ verified' = verified
        BY <2>2, TransferAssumption DEF AcceptMetadata, flashVars
      <3>2. CounterPart'
        BY <1>4, <3>1, Reports DEF CounterPart, UINT8
      <3>3. BufferPart'
        BY <2>1, <3>1 DEF BufferPart
      <3>4. Ack(0) \in Credible /\ Credible' = Credible
        BY <3>1, Reports DEF Credible
      <3>5. in' \in Seq(Credible')
        BY <2>1, <3>1, <3>4, Queues DEF Send, WirePart
      <3> QED
        BY <2>1, <3>1, <3>2, <3>3, <3>5, Frames
    <2>3. CASE MetadataNoMemory(f)
      <3>1. /\ packet_count' = f.number /\ allocated' = FALSE
            /\ UNCHANGED <<in, next_packet, batch_first_packet, stream_used, bad_frame_count,
                           stall_count, terminal_state, room, stream, moved, device, flashVars>>
            /\ verified' = verified
        BY <2>3 DEF MetadataNoMemory, flashVars
      <3>2. CounterPart'
        BY <1>4, <2>1, <3>1 DEF CounterPart
      <3>3. BufferPart'
        BY <2>1, <3>1 DEF BufferPart
      <3>4. Credible' = Credible
        BY <3>1 DEF Credible
      <3> QED
        BY <2>1, <3>1, <3>2, <3>3, <3>4, Frames DEF WirePart
    <2>4. CASE RequestBatchRetry(FALSE)
      <3>1. verified' = verified
        BY <2>4 DEF RequestBatchRetry, flashVars
      <3> QED
        BY <2>1, <2>4, <3>1, RetryTypes
    <2>5. CASE f.type = 3 /\ IsNext(f) /\ AcceptData(f)
      BY <1>2, <2>5, AcceptTypes
    <2>6. CASE Trap
      <3>1. /\ device' = "dead" /\ in' = in /\ UNCHANGED <<counterVars, bufferVars>>
            /\ flash' = flash /\ verified' = verified
        BY <2>6 DEF Trap, flashVars
      <3>2. FlashPart'
        BY <2>1, <3>1 DEF FlashPart
      <3>3. Credible' = Credible
        BY <3>1 DEF Credible
      <3> QED
        BY <2>1, <3>1, <3>2, <3>3, Frames DEF WirePart
    <2> QED
      BY <2>2, <2>3, <2>4, <2>5, <2>6 DEF Receive, f
  <1>6. HostPart'
    BY <1>1, <1>5 DEF Parts, HostPart, hostVars
  <1> QED
    BY <1>2, <1>3, <1>5, <1>6 DEF Parts, WirePart

\* Programming and what goes wrong.
LEMMA OtherTypes ==
    ASSUME Parts, Erase \/ Write \/ Fault \/ Stall \/ PowerCycle
    PROVE  Parts'
  <1>1. HostPart /\ WirePart /\ CounterPart /\ BufferPart /\ FlashPart /\ BoundPart
    BY DEF Parts
  <1>2. UNCHANGED <<hostVars, verified>>
    BY DEF Erase, Write, Fault, Stall, PowerCycle, RequestBatchRetry, flashVars
  <1>3. HostPart' /\ Credible' = Credible
    BY <1>1, <1>2, Frames DEF Credible
  <1>4. MAX_FAULTS \in Nat /\ MAX_POWER_CYCLES \in Nat /\ PACKETS \in Nat \ {0}
    BY TransferAssumption
  <1>5. CASE Erase
    <2>1. /\ UNCHANGED <<out, in, verified>> /\ UNCHANGED counterVars
          /\ UNCHANGED bufferVars /\ UNCHANGED boundVars
          /\ flash' \in {ERASED, flash} /\ device' = "write"
      BY <1>5 DEF Erase
    <2>2. FlashPart'
      BY <1>1, <2>1 DEF FlashPart
    <2> QED
      BY <1>1, <1>3, <2>1, <2>2, Frames DEF Parts
  <1>6. CASE Write
    <2>1. /\ UNCHANGED <<out, in, verified>> /\ UNCHANGED bufferVars /\ UNCHANGED boundVars
          /\ UNCHANGED <<packet_count, next_packet, batch_first_packet, stream_used,
                         bad_frame_count, stall_count>>
          /\ terminal_state' = 1 /\ device' = "done"
          /\ flash' \in {MOVED, stream[0], PARTIAL, flash}
      BY <1>6 DEF Write
    <2>2. stream[0] \in Blobs \union {OLD}
      BY <1>1, <1>4 DEF BufferPart, GARBAGE, OLD
    <2>3. FlashPart'
      BY <1>1, <2>1, <2>2 DEF FlashPart
    <2>4. CounterPart'
      BY <1>1, <2>1 DEF CounterPart
    <2> QED
      BY <1>1, <1>3, <2>1, <2>3, <2>4, Frames DEF Parts
  <1>7. CASE Fault
    <2>1. /\ UNCHANGED <<device, flashVars>> /\ UNCHANGED counterVars
          /\ UNCHANGED bufferVars /\ powerCycles' = powerCycles
          /\ faults < MAX_FAULTS /\ faults' = faults + 1
      BY <1>7 DEF Fault
    <2>2. BoundPart'
      BY <1>1, <1>4, <2>1 DEF BoundPart
    <2>3. WirePart'
      <3>1. CASE out # <<>> /\ in' = in
                 /\ \/ out' = Tail(out)
                    \/ \E f \in DamagedFrames(Head(out)) : out' = <<f>> \o Tail(out)
        <4>1. Head(out) \in Sent /\ Tail(out) \in Seq(Sent)
          BY <1>1, <3>1, Queues DEF WirePart
        <4>2. \A f \in DamagedFrames(Head(out)) : <<f>> \o Tail(out) \in Seq(Sent)
          BY <1>1, <3>1, <4>1, Damage, Queues DEF WirePart
        <4> QED
          BY <1>1, <1>3, <3>1, <4>1, <4>2 DEF WirePart
      <3>2. CASE in # <<>> /\ out' = out
                 /\ in' \in {Tail(in), <<[Head(in) EXCEPT !.sum = FALSE]>> \o Tail(in)}
        <4>1. Head(in) \in Credible /\ Tail(in) \in Seq(Credible)
          BY <1>1, <3>2, Queues DEF WirePart
        <4>2. <<[Head(in) EXCEPT !.sum = FALSE]>> \o Tail(in) \in Seq(Credible)
          BY <1>1, <3>2, <4>1, Damage, Queues DEF WirePart
        <4> QED
          BY <1>1, <1>3, <3>2, <4>1, <4>2 DEF WirePart
      <3> QED
        BY <1>7, <3>1, <3>2 DEF Fault
    <2> QED
      BY <1>1, <1>3, <2>1, <2>2, <2>3, Frames DEF Parts
  <1>8. CASE Stall
    <2>1. /\ RequestBatchRetry(TRUE) /\ out' = out /\ powerCycles' = powerCycles
          /\ faults < MAX_FAULTS /\ faults' = faults + 1
      BY <1>8 DEF Stall
    <2>2. BoundPart'
      BY <1>1, <1>4, <2>1 DEF BoundPart
    <2>3. CounterPart' /\ BufferPart' /\ FlashPart' /\ in' \in Seq(Credible')
      BY <1>1, <2>1, RetryTypes
    <2> QED
      BY <1>1, <1>3, <2>1, <2>2, <2>3 DEF Parts, WirePart
  <1>9. CASE PowerCycle
    <2>1. /\ powerCycles < MAX_POWER_CYCLES /\ powerCycles' = powerCycles + 1
          /\ out' = <<>> /\ in' = <<>> /\ faults' = faults
          /\ packet_count' = 0 /\ next_packet' = 0 /\ batch_first_packet' = 0
          /\ stream_used' = 0 /\ bad_frame_count' = 0 /\ stall_count' = 0
          /\ terminal_state' = 0 /\ allocated' = FALSE /\ room' = 0
          /\ stream' = [j \in 0 .. PACKETS - 1 |-> GARBAGE] /\ moved' = FALSE
          /\ flash' \in {flash, PARTIAL} /\ device' \in {"receive", "dead"}
      BY <1>9 DEF PowerCycle
    <2>2. BoundPart'
      BY <1>1, <1>4, <2>1 DEF BoundPart
    <2>3. CounterPart'
      BY <1>4, <2>1 DEF CounterPart, UINT8
    <2>4. BufferPart'
      <3>1. room' \in 0 .. PACKETS
        BY <1>4, <2>1
      <3> QED
        BY <2>1, <3>1 DEF BufferPart
    <2>5. FlashPart'
      BY <1>1, <1>2, <2>1 DEF FlashPart
    <2>6. <<>> \in Seq(Sent) /\ <<>> \in Seq(Credible')
      OBVIOUS
    <2>7. WirePart'
      BY <2>1, <2>6 DEF WirePart
    <2> QED
      BY <1>3, <2>2, <2>3, <2>4, <2>5, <2>7 DEF Parts
  <1> QED
    BY <1>5, <1>6, <1>7, <1>8, <1>9

----------------------------------------------------------------------------
(* Nothing is erased that was not verified. *)

\* Only a stream that matches its MD5 takes the updater from receiving to erasing,
\* and then no report is handled any more.
LEMMA VerifiedStep ==
    ASSUME Parts, EraseOnlyVerified, Next
    PROVE  EraseOnlyVerified'
  <1>1. BufferPart /\ FlashPart
    BY DEF Parts
  <1>2. CASE HostStep \/ Fault
    <2>1. UNCHANGED <<device, stream, flash, verified>>
      BY <1>2 DEF HostStep, Open, MetadataReply, DataReply, FinalReply, GiveUp, Fault,
                  bufferVars, flashVars
    <2> QED
      BY <2>1 DEF EraseOnlyVerified, Md5Matches
  <1>3. CASE Stall
    <2>1. UNCHANGED <<device, stream, flash, verified>>
      BY <1>3 DEF Stall, RequestBatchRetry, bufferVars, flashVars
    <2> QED
      BY <2>1 DEF EraseOnlyVerified, Md5Matches
  <1>4. CASE Receive
    <2> DEFINE f == Head(out)
    <2>1. device = "receive"
      BY <1>4 DEF Receive
    <2>2. \/ device' \in {"receive", "dead"} /\ UNCHANGED flashVars
          \/ AcceptData(f)
      BY <1>4, <2>1 DEF Receive, AcceptMetadata, MetadataNoMemory, RequestBatchRetry,
                        Trap
    <2>3. CASE device' \in {"receive", "dead"} /\ UNCHANGED flashVars
      BY <2>3 DEF EraseOnlyVerified, flashVars
    <2>4. CASE AcceptData(f)
      <3>1. \/ UNCHANGED <<device, flashVars>>
            \/ /\ Md5Matches(stream') /\ flash' = flash
               /\ verified' = verified \union {stream'[0]}
        BY <2>4 DEF AcceptData, VerifyAndProgram, flashVars
      <3>2. CASE UNCHANGED <<device, flashVars>>
        BY <2>1, <3>2 DEF EraseOnlyVerified, flashVars
      <3>3. CASE /\ Md5Matches(stream') /\ flash' = flash
                 /\ verified' = verified \union {stream'[0]}
        <4>1. stream'[0] \in verified' /\ verified' # {}
          BY <3>3
        <4> QED
          BY <3>3, <4>1 DEF EraseOnlyVerified
      <3> QED
        BY <3>1, <3>2, <3>3
    <2> QED
      BY <2>2, <2>3, <2>4
  <1>5. CASE Erase
    <2>1. /\ device = "erase" /\ device' = "write" /\ flash' \in {ERASED, flash}
          /\ UNCHANGED <<stream, verified>>
      BY <1>5 DEF Erase, bufferVars
    <2>2. ERASED \notin Blobs
      BY DEF ERASED, Blobs
    <2>3. Md5Matches(stream') /\ stream'[0] \in verified' /\ verified' # {}
      BY <2>1 DEF EraseOnlyVerified, Md5Matches
    <2>4. flash' \in Blobs => flash' \in verified'
      BY <2>1, <2>2 DEF EraseOnlyVerified
    <2> QED
      BY <2>3, <2>4 DEF EraseOnlyVerified
  <1>6. CASE Write
    <2>1. /\ device = "write" /\ device' = "done"
          /\ flash' \in {MOVED, stream[0], PARTIAL, flash}
          /\ UNCHANGED <<stream, verified>>
      BY <1>6 DEF Write, bufferVars
    <2>2. MOVED \notin Blobs /\ PARTIAL \notin Blobs
      BY DEF MOVED, PARTIAL, Blobs
    <2>3. stream[0] \in verified
      BY <2>1 DEF EraseOnlyVerified
    <2>4. flash' \in Blobs => flash' \in verified'
      BY <2>1, <2>2, <2>3 DEF EraseOnlyVerified
    <2> QED
      BY <2>1, <2>3, <2>4 DEF EraseOnlyVerified
  <1>7. CASE PowerCycle
    <2>1. /\ device' \in {"receive", "dead"} /\ verified' = verified
          /\ \/ flash' = flash
             \/ device \in {"erase", "write"} /\ flash' = PARTIAL
      BY <1>7 DEF PowerCycle
    <2>2. PARTIAL \notin Blobs
      BY DEF PARTIAL, Blobs
    <2> QED
      BY <2>1, <2>2 DEF EraseOnlyVerified
  <1> QED
    BY <1>2, <1>3, <1>4, <1>5, <1>6, <1>7 DEF Next, DeviceStep

----------------------------------------------------------------------------
(* A first call over an undisturbed link. *)

\* Host and updater go through the packets in step.
LEMMA CleanStep ==
    ASSUME Parts, CleanInv, Next
    PROVE  CleanInv'
  <1> SUFFICES ASSUME Undisturbed'
               PROVE  CleanInv'
    BY DEF CleanInv
  <1>1. HostPart /\ CounterPart /\ BufferPart /\ BoundPart /\ PACKETS \in Nat \ {0}
    BY TransferAssumption DEF Parts
  <1>2. session \in Nat /\ sequence \in Nat /\ faults \in Nat /\ powerCycles \in Nat
    BY <1>1 DEF HostPart, BoundPart
  <1>3. ~Fault /\ ~Stall /\ ~PowerCycle
    <2>1. Fault \/ Stall => faults' = faults + 1
      BY DEF Fault, Stall
    <2>2. PowerCycle => powerCycles' = powerCycles + 1
      BY DEF PowerCycle
    <2> QED
      BY <1>2, <2>1, <2>2 DEF Undisturbed
  <1>4. CASE Open
    <2>1. /\ session' = session + 1 /\ host' = "metadata"
          /\ out' = Append(out, Metadata) /\ in' = in /\ UNCHANGED boundVars
      BY <1>4 DEF Open
    <2>2. session = 0 /\ Undisturbed
      BY <1>2, <2>1 DEF Undisturbed, boundVars
    <2>3. Nothing
      BY <2>2 DEF CleanInv
    <2>4. out' = <<Metadata>> /\ Metadata = Metadata1
      BY <2>1, <2>2, <2>3, Single DEF Nothing, Metadata, Metadata1
    <2>5. MetadataSent' /\ session' = 1
      BY <2>1, <2>2, <2>3, <2>4 DEF MetadataSent, Nothing, Metadata1
    <2> QED
      BY <2>1, <2>5 DEF CleanInv
  <1>5. CASE MetadataReply
    <2>1. /\ host = "metadata" /\ in # <<>> /\ in' = Tail(in) /\ session' = session
          /\ IsAck(Head(in), 0) =>
                host' = "data" /\ sequence' = 0 /\ out' = Append(out, Data(0))
          /\ UNCHANGED <<counterVars, bufferVars, boundVars>>
      BY <1>5 DEF MetadataReply
    <2>2. Undisturbed
      BY <2>1 DEF Undisturbed, boundVars
    <2>3. MetadataTaken /\ session = 1
      BY <2>1, <2>2 DEF CleanInv, MetadataSent, Nothing
    <2>4. IsAck(Head(in), 0) /\ Tail(in) = <<>>
      BY <2>3, Single DEF MetadataTaken, IsAck, Ack
    <2>5. /\ host' = "data" /\ sequence' = 0 /\ session' = 1
          /\ out' = <<Data(0)>> /\ in' = <<>>
      BY <2>1, <2>3, <2>4, Single DEF MetadataTaken
    <2>6. Ready(0)'
      BY <2>1, <2>3 DEF MetadataTaken, Ready, counterVars, bufferVars
    <2>7. DataSent'
      BY <2>1, <2>5, <2>6 DEF DataSent, Data, Ready
    <2> QED
      BY <2>5, <2>7 DEF CleanInv
  <1>6. CASE DataReply
    <2>1. /\ host = "data" /\ in # <<>> /\ sequence + 1 # PACKETS
          /\ in' = Tail(in) /\ session' = session
          /\ IsAck(Head(in), sequence + 1) =>
                host' = host /\ sequence' = sequence + 1 /\ out' = Append(out, Data(sequence'))
          /\ UNCHANGED <<counterVars, bufferVars, boundVars>>
      BY <1>6 DEF DataReply
    <2>2. Undisturbed
      BY <2>1 DEF Undisturbed, boundVars
    <2>3. DataTaken /\ session = 1
      BY <2>1, <2>2 DEF CleanInv, DataSent, AllTaken
    <2>4. IsAck(Head(in), sequence + 1) /\ Tail(in) = <<>>
      BY <2>3, Single DEF DataTaken, IsAck, Ack
    <2>5. /\ host' = "data" /\ sequence' = sequence + 1 /\ session' = 1
          /\ out' = <<Data(sequence')>> /\ in' = <<>>
      BY <2>1, <2>3, <2>4, Single DEF DataTaken
    <2>6. Ready(sequence + 1) /\ UNCHANGED <<allocated, room, packet_count, next_packet, stream>>
      BY <2>1, <2>3 DEF DataTaken, counterVars, bufferVars
    <2>7. DataSent'
      BY <2>1, <2>5, <2>6 DEF DataSent, Data, Ready
    <2> QED
      BY <2>5, <2>7 DEF CleanInv
  <1>7. CASE FinalReply
    <2>1. /\ host = "data" /\ in # <<>> /\ sequence + 1 = PACKETS
          /\ in' = Tail(in) /\ UNCHANGED <<session, out, boundVars>>
          /\ Head(in).sum /\ Head(in).type = 5 /\ Head(in).value # 0 => host' = "accepted"
      BY <1>7 DEF FinalReply
    <2>2. Undisturbed
      BY <2>1 DEF Undisturbed, boundVars
    <2>3. AllTaken /\ session = 1
      BY <2>1, <2>2 DEF CleanInv, DataSent, DataTaken
    <2>4. Head(in) = Terminal(1) /\ Tail(in) = <<>>
      BY <2>3, Single DEF AllTaken
    <2>5. host' = "accepted" /\ session' = 1 /\ Nothing'
      BY <2>1, <2>3, <2>4 DEF AllTaken, Nothing, Terminal
    <2> QED
      BY <2>5 DEF CleanInv
  <1>8. CASE GiveUp
    <2>1. /\ host \in {"metadata", "data"} /\ host' = "timeout"
          /\ UNCHANGED <<session, sequence, out, in, counterVars, bufferVars, boundVars>>
      BY <1>8 DEF GiveUp
    <2>2. Undisturbed
      BY <2>1 DEF Undisturbed, boundVars
    <2>3. /\ session' = session /\ sequence' = sequence /\ out' = out /\ in' = in
          /\ UNCHANGED <<allocated, room, packet_count, next_packet, stream>>
      BY <2>1 DEF counterVars, bufferVars
    <2>4. /\ MetadataSent => MetadataSent'
          /\ MetadataTaken => MetadataTaken'
          /\ Nothing => Nothing'
          /\ DataSent => DataSent'
          /\ DataTaken => DataTaken'
          /\ AllTaken => AllTaken'
      BY <2>3 DEF MetadataSent, MetadataTaken, Nothing, DataSent, DataTaken, AllTaken, Ready,
                  Metadata1, Data
    <2> QED
      BY <2>1, <2>2, <2>3, <2>4 DEF CleanInv
  <1>9. CASE Erase \/ Write
    <2>1. /\ UNCHANGED <<session, sequence, out, in, boundVars>> /\ host' = host
          /\ UNCHANGED <<allocated, room, packet_count, next_packet, stream>>
      BY <1>9 DEF Erase, Write, hostVars, counterVars, bufferVars
    <2>2. Undisturbed
      BY <2>1 DEF Undisturbed, boundVars
    <2>3. /\ MetadataSent => MetadataSent'
          /\ MetadataTaken => MetadataTaken'
          /\ Nothing => Nothing'
          /\ DataSent => DataSent'
          /\ DataTaken => DataTaken'
          /\ AllTaken => AllTaken'
      BY <2>1 DEF MetadataSent, MetadataTaken, Nothing, DataSent, DataTaken, AllTaken, Ready,
                  Metadata1, Data
    <2> QED
      BY <2>1, <2>2, <2>3 DEF CleanInv
  <1>10. CASE Receive
    <2> DEFINE f == Head(out)
    <2>1. /\ out # <<>> /\ out' = Tail(out)
          /\ host' = host /\ session' = session /\ sequence' = sequence
          /\ UNCHANGED boundVars
      BY <1>10 DEF Receive, hostVars
    <2>2. Undisturbed
      BY <2>1 DEF Undisturbed, boundVars
    <2>3. \/ f.type = 1 /\ (AcceptMetadata(f) \/ MetadataNoMemory(f))
          \/ f.type = 1 /\ ~f.sum
          \/ f.type = 3 /\ ~IsNext(f)
          \/ f.type = 3 /\ IsNext(f) /\ allocated /\ AcceptData(f)
          \/ f.type = 3 /\ Outside
      BY <1>10 DEF Receive
    <2> HIDE DEF f
    <2>4. /\ session = 1
          /\ \/ host \in {"metadata", "timeout"} /\ MetadataSent
             \/ host \in {"data", "timeout"} /\ DataSent
      BY <2>1, <2>2 DEF CleanInv, Nothing, MetadataTaken, DataTaken, AllTaken
    <2>5. CASE host \in {"metadata", "timeout"} /\ MetadataSent
      <3>1. f = Metadata1 /\ out' = <<>> /\ in = <<>>
        BY <2>1, <2>5, Single DEF MetadataSent, f
      <3>2. AcceptMetadata(f) \/ MetadataNoMemory(f)
        BY <2>3, <3>1 DEF Metadata1
      <3>3. CASE AcceptMetadata(f)
        <4>1. /\ packet_count' = PACKETS /\ next_packet' = 0 /\ allocated' = TRUE
              /\ room' = PACKETS
              /\ in' = Append(in, Ack(0))
          BY <3>1, <3>3 DEF AcceptMetadata, Send, Metadata1
        <4>2. in' = <<Ack(0)>>
          BY <3>1, <4>1, Single
        <4>3. \A j \in 0 .. PACKETS - 1 : ~(j < 0)
          BY <1>1
        <4>4. MetadataTaken'
          BY <3>1, <4>1, <4>2, <4>3 DEF MetadataTaken, Ready, Ack
        <4> QED
          BY <2>1, <2>4, <2>5, <4>4 DEF CleanInv
      <3>4. CASE MetadataNoMemory(f)
        <4>1. Nothing'
          BY <3>1, <3>4 DEF MetadataNoMemory, Nothing
        <4> QED
          BY <2>1, <2>4, <2>5, <4>1 DEF CleanInv
      <3> QED
        BY <3>2, <3>3, <3>4
    <2>6. CASE host \in {"data", "timeout"} /\ DataSent
      <3>1. f = Data(sequence) /\ out' = <<>> /\ in = <<>> /\ Ready(sequence)
        BY <2>1, <2>6, Single DEF DataSent, f
      <3>2. f.type = 3 /\ f.number = sequence /\ f.blob = 1 /\ f.sum
        BY <2>4, <3>1 DEF Data
      <3>3. IsNext(f) /\ allocated
        BY <3>1, <3>2 DEF IsNext, Ready
      <3>4. AcceptData(f)
        <4>1. stream_used = sequence /\ room = PACKETS /\ allocated
          BY <3>1 DEF Ready, Parts, CounterPart
        <4>2. ~Outside
          BY <1>1, <4>1 DEF Outside, HostPart
        <4> QED
          BY <2>3, <3>2, <3>3, <4>2
      <3>5. f \in Sent
        BY <2>1, Queues DEF Parts, WirePart, f
      <3>6. /\ next_packet' = next_packet + 1 /\ packet_count' = packet_count
            /\ stream' = [stream EXCEPT ![next_packet] = f.blob]
            /\ next_packet \in 0 .. PACKETS - 1 /\ allocated' = allocated
            /\ room' = room
        BY <1>1, <3>2, <3>3, <3>4, <3>5, StoreTypes DEF AcceptData, StorePacket
      <3>7. Ready(sequence + 1)'
        <4>1. /\ next_packet = sequence /\ packet_count = PACKETS /\ allocated
              /\ room = PACKETS
              /\ \A j \in 0 .. PACKETS - 1 : j < sequence => stream[j] = 1
          BY <3>1 DEF Ready
        <4>2. \A j \in 0 .. PACKETS - 1 : j < sequence + 1 => j < sequence \/ j = sequence
          BY <1>1, <1>2
        <4>3. \A j \in 0 .. PACKETS - 1 : j < sequence + 1 => stream'[j] = 1
          BY <1>1, <3>2, <3>6, <4>1, <4>2 DEF BufferPart
        <4> QED
          BY <2>1, <3>6, <4>1, <4>3 DEF Ready
      <3>8. next_packet' = sequence + 1 /\ packet_count = PACKETS
        BY <3>1, <3>6 DEF Ready
      <3>9. CASE sequence + 1 = PACKETS
        <4>1. Md5Matches(stream')
          <5>1. \A j \in 0 .. PACKETS - 1 : stream'[j] = 1
            BY <1>1, <1>2, <2>1, <3>7, <3>9 DEF Ready
          <5>2. 0 \in 0 .. PACKETS - 1
            BY <1>1
          <5> QED
            BY <5>1, <5>2 DEF Md5Matches, GARBAGE
        <4>2. f.number = packet_count - 1
          BY <1>2, <3>2, <3>8, <3>9
        <4>3. Send(Terminal(1))
          BY <3>4, <4>1, <4>2 DEF AcceptData, VerifyAndProgram
        <4>4. in' = <<Terminal(1)>>
          BY <3>1, <4>3, Single DEF Send
        <4>5. AllTaken'
          BY <2>1, <3>1, <3>9, <4>4 DEF AllTaken, Terminal
        <4> QED
          BY <2>1, <2>4, <2>6, <4>5 DEF CleanInv
      <3>10. CASE sequence + 1 # PACKETS
        <4>1. f.number # packet_count - 1
          BY <1>1, <1>2, <3>2, <3>8, <3>10
        <4>2. next_packet' % PACKETS_PER_ACK = 0
          BY <1>2, <3>8 DEF PACKETS_PER_ACK
        <4>3. Send(Ack(next_packet'))
          BY <3>4, <4>1, <4>2 DEF AcceptData
        <4>4. in' = <<Ack(sequence + 1)>>
          BY <3>1, <3>8, <4>3, Single DEF Send
        <4>5. DataTaken'
          BY <2>1, <3>1, <3>7, <3>10, <4>4 DEF DataTaken, Ack
        <4> QED
          BY <2>1, <2>4, <2>6, <4>5 DEF CleanInv
      <3> QED
        BY <3>9, <3>10
    <2> QED
      BY <2>4, <2>5, <2>6
  <1> QED
    BY <1>3, <1>4, <1>5, <1>6, <1>7, <1>8, <1>9, <1>10 DEF Next, HostStep, DeviceStep

----------------------------------------------------------------------------
(* The theorems. *)

\* The updater waits with empty queues.
LEMMA InitInv == Init => IInv
  <1> SUFFICES ASSUME Init
               PROVE  IInv
    OBVIOUS
  <1>1. PACKETS \in Nat \ {0} /\ SESSIONS \in Nat /\ MAX_FAULTS \in Nat /\ MAX_POWER_CYCLES \in Nat
    BY TransferAssumption
  <1>2. HostPart /\ CounterPart /\ BufferPart /\ FlashPart /\ BoundPart
    <2>1. HostPart /\ BoundPart
      BY <1>1 DEF Init, HostPart, BoundPart
    <2>2. CounterPart
      BY <1>1 DEF Init, CounterPart, UINT8
    <2>3. 0 \in 0 .. PACKETS
      BY <1>1
    <2>4. BufferPart /\ FlashPart
      BY <2>3 DEF Init, BufferPart, FlashPart
    <2> QED
      BY <2>1, <2>2, <2>4
  <1>3. WirePart
    <2>1. <<>> \in Seq(Sent) /\ <<>> \in Seq(Credible)
      OBVIOUS
    <2> QED
      BY <2>1 DEF Init, WirePart
  <1>4. EraseOnlyVerified
    BY DEF Init, EraseOnlyVerified, OLD, Blobs
  <1>5. CleanInv
    BY DEF Init, CleanInv, Nothing
  <1> QED
    BY <1>2, <1>3, <1>4, <1>5 DEF IInv, Parts

\* Every step keeps the inductive invariant.
LEMMA StepInv == IInv /\ [Next]_vars => IInv'
  <1> SUFFICES ASSUME IInv, [Next]_vars
               PROVE  IInv'
    OBVIOUS
  <1>1. Parts /\ EraseOnlyVerified /\ CleanInv
    BY DEF IInv
  <1>2. CASE Next
    <2>1. Parts'
      BY <1>1, <1>2, HostTypes, ReceiveTypes, OtherTypes DEF Next, DeviceStep
    <2>2. EraseOnlyVerified' /\ CleanInv'
      BY <1>1, <1>2, VerifiedStep, CleanStep
    <2> QED
      BY <2>1, <2>2 DEF IInv
  <1>3. CASE UNCHANGED vars
    <2>1. /\ UNCHANGED <<hostVars, verified>> /\ UNCHANGED <<out, in, verified>>
          /\ UNCHANGED counterVars /\ UNCHANGED bufferVars
          /\ UNCHANGED <<device, flashVars>> /\ UNCHANGED boundVars
      BY <1>3 DEF vars, flashVars
    <2>2. Parts'
      BY <1>1, <2>1, Frames DEF Parts
    <2>3. EraseOnlyVerified'
      BY <1>1, <2>1 DEF EraseOnlyVerified, Md5Matches, bufferVars, flashVars
    <2>4. CleanInv'
      BY <1>1, <2>1 DEF CleanInv, Undisturbed, Nothing, MetadataSent, MetadataTaken, DataSent,
                        DataTaken, AllTaken, Ready, Data, Metadata1, Ack, Terminal,
                        hostVars, counterVars, bufferVars, boundVars
    <2> QED
      BY <2>2, <2>3, <2>4 DEF IInv
  <1> QED
    BY <1>2, <1>3

\* The inductive invariant holds in every state of the transfer.
THEOREM Inductive == Spec => []IInv
  BY InitInv, StepInv, PTL DEF Spec

\* Every variable has its type: whatever is lost, damaged or resent, no packet is
\* stored further from the buffer's start than an image is long (the buffer itself
\* may be shorter, when damaged metadata sized it), and the error counters stay
\* within their byte.
THEOREM TypeCorrect == Spec => []TypeOK
  <1>1. IInv => TypeOK
    <2> SUFFICES ASSUME IInv
                 PROVE  TypeOK
      OBVIOUS
    <2>1. HostPart /\ WirePart /\ CounterPart /\ BufferPart /\ FlashPart /\ BoundPart
      BY DEF IInv, Parts
    <2>2. Sent \subseteq Frame /\ Credible \subseteq Reply
      BY DEF Sent, Credible
    <2>3. out \in Seq(Frame) /\ in \in Seq(Reply)
      BY <2>1, <2>2, Wider DEF WirePart
    <2> QED
      BY <2>1, <2>3 DEF TypeOK, HostPart, CounterPart, BufferPart, FlashPart, BoundPart
  <1> QED
    BY <1>1, Inductive, PTL

\* The flash is erased only for a stream that matched its MD5, and holds the image
\* of a verified blob or no image of a blob.
THEOREM EraseVerified == Spec => []EraseOnlyVerified
  <1>1. IInv => EraseOnlyVerified
    BY DEF IInv
  <1> QED
    BY <1>1, Inductive, PTL

\* decode_boot_terminal_status: "true means received RAM bytes passed header MD5".
\* restore_blob has returned normally only if some blob matched its MD5.
AcceptedPassedMd5 == host = "accepted" => verified # {}

\* A normal return of restore_blob means that an image passed the updater's MD5,
\* after however many calls and faults; that it is this call's is AcceptedVerified.
THEOREM PassedMd5 == Spec => []AcceptedPassedMd5
  <1>1. IInv => AcceptedPassedMd5
    BY DEF IInv, Parts, HostPart, AcceptedPassedMd5
  <1> QED
    BY <1>1, Inductive, PTL

\* A first call over an undisturbed link never fails on a reply, however many
\* packets the image has.
THEOREM CleanTransfer == Spec => []CleanTransferAgrees
  <1>1. IInv => CleanTransferAgrees
    BY DEF IInv, CleanInv, CleanTransferAgrees, Undisturbed
  <1> QED
    BY <1>1, Inductive, PTL

----------------------------------------------------------------------------
(* Replies left over from earlier calls.  The replies in transit, what the   *)
(* updater would ask for again, and the answers that the reports in transit  *)
(* may get form one line of packet numbers.                                  *)

\* The packet a reply asks for: a success report counts as the one behind the
\* last, a failure report asks for none.
Asks(r) == IF r.type = 2 THEN r.value ELSE IF r.value = 0 THEN -1 ELSE PACKETS

\* The packet the answer to a frame asks for, if the frame is accepted.
Answer(f) == IF f.type = 1 THEN 0 ELSE f.number + 1

\* The line: replies r before 0, the last of them at -1, what the updater would
\* ask for again at 0, frames f behind it.
Places(r, f) == (- Len(r)) .. Len(f)
LineOf(r, again, f) ==
    [m \in Places(r, f) |-> IF m < 0 THEN Asks(r[Len(r) + 1 + m])
                            ELSE IF m = 0 THEN again ELSE Answer(f[m])]
Again == IF device = "receive" THEN batch_first_packet ELSE -1
Line == LineOf(in, Again, out)

\* The places of packets of an earlier call, or of the success report of one.
StaleFrame(f) == f.type = 3 /\ f.blob \in Blobs /\ f.blob # session
StaleReply(r) == r.type = 5 /\ r.value # 0 /\ session \notin verified
Stale ==
    {m \in Places(in, out) : IF m < 0 THEN StaleReply(in[Len(in) + 1 + m])
                             ELSE m > 0 /\ StaleFrame(out[m])}

\* Place j of the line t holds what the current call cannot have caused: it is
\* stale or precedes a request for packet 0.
Foreign(t, stale, j) == j \in stale \/ \E k \in DOMAIN t : j < k /\ t[k] = 0

\* Behind a request for packet 0 the line is at most at packet n.
Reach(t, n) == \A i, j \in DOMAIN t : i < j /\ t[i] = 0 => t[j] <= n

\* The same of what is foreign, and of it wherever it is.
ForeignReach(t, stale, n) ==
    \A i, j \in DOMAIN t : i < j /\ t[i] = 0 /\ Foreign(t, stale, j) => t[j] <= n
ForeignAll(t, stale, n) == \A j \in DOMAIN t : Foreign(t, stale, j) => t[j] <= n

\* A call is carried by stale replies to packet n only if the calls before it
\* were carried to packet n - 1.
LineInv ==
    /\ Reach(Line, session)
    /\ host = "metadata" => ForeignReach(Line, Stale, session - 1)
    /\ host = "data" => ForeignAll(Line, Stale, session - 1)

\* Each blob's packets are sent once and in order, so that what is stored of a
\* blob is before what is in transit, and that before what the call sends next.
Due == IF host = "metadata" THEN 0 ELSE IF host = "data" THEN sequence + 1 ELSE PACKETS
OrderInv ==
    /\ \A i \in 1 .. Len(out) : out[i].blob <= session
    /\ \A m \in 0 .. PACKETS - 1 : stream[m] <= session
    /\ \A i, j \in 1 .. Len(out) :
          i < j /\ out[i].type = 3 /\ out[j].type = 3 /\ out[i].blob = out[j].blob
             /\ out[i].blob # GARBAGE => out[i].number < out[j].number
    /\ \A i \in 1 .. Len(out), m \in 0 .. PACKETS - 1 :
          out[i].type = 3 /\ out[i].blob # GARBAGE /\ out[i].number <= m =>
             stream[m] # out[i].blob
    /\ \A i \in 1 .. Len(out) :
          out[i].type = 3 /\ out[i].blob = session /\ session # 0 => out[i].number < Due
    /\ \A m \in 0 .. PACKETS - 1 : stream[m] = session /\ session # 0 => m < Due

StaleInv == LineInv /\ OrderInv /\ AcceptedVerified

----------------------------------------------------------------------------
(* Lines. *)

\* The places of u come from places of t in the same order; each holds what its
\* origin held, or nothing, and is stale only if its origin was.
Thins(from, t, old, u, new) ==
    /\ from \in [DOMAIN u -> DOMAIN t]
    /\ \A i, j \in DOMAIN u : i < j => from[i] <= from[j]
    /\ \A j \in DOMAIN u : u[j] = -1 \/ u[j] = t[from[j]]
    /\ \A j \in DOMAIN u : j \in new => from[j] \in old

\* A line that thins another reaches no further.
LEMMA Thinner ==
    ASSUME NEW D \in SUBSET Int, NEW t \in [D -> Int],
           NEW E \in SUBSET Int, NEW u \in [E -> Int], NEW from, NEW old, NEW new,
           NEW n \in Nat, Thins(from, t, old, u, new)
    PROVE  /\ Reach(t, n) => Reach(u, n)
           /\ ForeignReach(t, old, n) => ForeignReach(u, new, n)
           /\ ForeignAll(t, old, n) => ForeignAll(u, new, n)
  <1>1. DOMAIN t = D /\ DOMAIN u = E
    OBVIOUS
  <1>2. /\ from \in [E -> D]
        /\ \A i, j \in E : i < j => from[i] <= from[j]
        /\ \A j \in E : u[j] = -1 \/ u[j] = t[from[j]]
        /\ \A j \in E : j \in new => from[j] \in old
    BY <1>1 DEF Thins
  <1>3. \A j \in E : /\ u[j] \in Int /\ from[j] \in D /\ t[from[j]] \in Int
                    /\ j \in Int /\ from[j] \in Int
    BY <1>2
  <1>4. \A j \in E : u[j] = 0 => t[from[j]] = 0
    BY <1>2
  <1>5. ASSUME NEW i \in E, NEW j \in E, i < j
        PROVE  from[i] < from[j] \/ from[i] = from[j]
    <2>1. from[i] <= from[j]
      BY <1>2, <1>5
    <2> QED
      BY <1>3, <2>1
  <1>6. ASSUME NEW i \in E, NEW j \in E, from[i] = from[j], u[i] = 0
        PROVE  u[j] <= 0
    <2>1. t[from[j]] = 0
      BY <1>4, <1>6
    <2>2. u[j] = -1 \/ u[j] = t[from[j]]
      BY <1>2
    <2> QED
      BY <2>1, <2>2
  <1>7. ASSUME NEW j \in E, Foreign(u, new, j)
        PROVE  Foreign(t, old, from[j]) \/ u[j] <= 0
    <2>1. CASE j \in new
      BY <1>2, <2>1 DEF Foreign
    <2>2. ASSUME NEW k \in E, j < k, u[k] = 0
          PROVE  Foreign(t, old, from[j]) \/ u[j] <= 0
      <3>1. t[from[k]] = 0 /\ from[k] \in DOMAIN t
        BY <1>1, <1>3, <1>4, <2>2
      <3>2. CASE from[j] = from[k]
        BY <1>6, <2>2, <3>2
      <3>3. CASE from[j] < from[k]
        BY <3>1, <3>3 DEF Foreign
      <3> QED
        BY <1>5, <2>2, <3>2, <3>3
    <2> QED
      BY <1>1, <1>7, <2>1, <2>2 DEF Foreign
  <1>8. ASSUME NEW j \in E, u[j] <= 0 \/ t[from[j]] <= n
        PROVE  u[j] <= n
    <2>1. u[j] = -1 \/ u[j] = t[from[j]]
      BY <1>2
    <2> QED
      BY <1>3, <1>8, <2>1
  <1>9. ASSUME Reach(t, n), NEW i \in E, NEW j \in E, i < j, u[i] = 0
        PROVE  u[j] <= n
    <2>1. from[i] < from[j] => t[from[j]] <= n
      BY <1>1, <1>3, <1>4, <1>9 DEF Reach
    <2> QED
      BY <1>5, <1>6, <1>8, <1>9, <2>1
  <1>10. ASSUME ForeignReach(t, old, n), NEW i \in E, NEW j \in E, i < j, u[i] = 0,
               Foreign(u, new, j)
        PROVE  u[j] <= n
    <2>1. from[i] < from[j] /\ Foreign(t, old, from[j]) => t[from[j]] <= n
      BY <1>1, <1>3, <1>4, <1>10 DEF ForeignReach
    <2> QED
      BY <1>5, <1>6, <1>7, <1>8, <1>10, <2>1
  <1>11. ASSUME ForeignAll(t, old, n), NEW j \in E, Foreign(u, new, j)
        PROVE  u[j] <= n
    <2>1. Foreign(t, old, from[j]) => t[from[j]] <= n
      BY <1>1, <1>3, <1>11 DEF ForeignAll
    <2> QED
      BY <1>7, <1>8, <1>11, <2>1
  <1> QED
    BY <1>1, <1>9, <1>10, <1>11 DEF Reach, ForeignReach, ForeignAll
\* What the places of a line t of replies r and frames f hold.
IsLine(t, r, again, f) ==
    /\ Len(r) \in Nat /\ Len(f) \in Nat
    /\ Places(r, f) \in SUBSET Int
    /\ \A m \in Int : m \in Places(r, f) <=> - Len(r) <= m /\ m <= Len(f)
    /\ t \in [Places(r, f) -> Int] /\ DOMAIN t = Places(r, f)
    /\ \A m \in Places(r, f) : /\ m < 0 => t[m] = Asks(r[Len(r) + 1 + m])
                               /\ m = 0 => t[m] = again
                               /\ m > 0 => t[m] = Answer(f[m])

\* Replies and frames in transit form such a line.
LEMMA LineType ==
    ASSUME NEW r \in Seq(Reply), NEW f \in Seq(Frame), NEW again \in Int
    PROVE  IsLine(LineOf(r, again, f), r, again, f)
  <1>1. Len(r) \in Nat /\ Len(f) \in Nat /\ PACKETS \in Nat
    BY TransferAssumption
  <1>2. /\ Places(r, f) \in SUBSET Int
        /\ \A m \in Int : m \in Places(r, f) <=> - Len(r) <= m /\ m <= Len(f)
    BY <1>1 DEF Places
  <1>3. ASSUME NEW m \in Places(r, f), m < 0
        PROVE  Asks(r[Len(r) + 1 + m]) \in Int
    <2>1. Len(r) + 1 + m \in 1 .. Len(r)
      BY <1>1, <1>2, <1>3
    <2>2. r[Len(r) + 1 + m] \in Reply
      BY <2>1
    <2>3. r[Len(r) + 1 + m].value \in Int
      BY <1>1, <2>2 DEF Reply
    <2> QED
      BY <1>1, <2>3 DEF Asks
  <1>4. ASSUME NEW m \in Places(r, f), m > 0
        PROVE  Answer(f[m]) \in Int
    <2>1. m \in 1 .. Len(f)
      BY <1>1, <1>2, <1>4
    <2>2. f[m] \in Frame
      BY <2>1
    <2>3. f[m].number \in Int
      BY <1>1, <2>2 DEF Frame
    <2> QED
      BY <2>3 DEF Answer
  <1>5. LineOf(r, again, f) \in [Places(r, f) -> Int]
    BY <1>2, <1>3, <1>4 DEF LineOf
  <1>6. \A m \in Places(r, f) :
            /\ m < 0 => LineOf(r, again, f)[m] = Asks(r[Len(r) + 1 + m])
            /\ m = 0 => LineOf(r, again, f)[m] = again
            /\ m > 0 => LineOf(r, again, f)[m] = Answer(f[m])
    BY <1>2 DEF LineOf
  <1> QED
    BY <1>1, <1>2, <1>5, <1>6 DEF IsLine

\* The parts the line is made of.
LEMMA LineParts ==
    ASSUME Parts
    PROVE  /\ in \in Seq(Reply) /\ out \in Seq(Frame) /\ Again \in Int
           /\ IsLine(Line, in, Again, out)
  <1>1. Sent \subseteq Frame /\ Credible \subseteq Reply
    BY DEF Sent, Credible
  <1>2. out \in Seq(Frame) /\ in \in Seq(Reply)
    BY <1>1, Wider DEF Parts, WirePart
  <1>3. Again \in Int
    BY TransferAssumption DEF Parts, CounterPart, Again
  <1> QED
    BY <1>2, <1>3, LineType DEF Line

\* The same after a step.
LEMMA LinePartsNext ==
    ASSUME Parts'
    PROVE  /\ in' \in Seq(Reply) /\ out' \in Seq(Frame) /\ Again' \in Int
           /\ IsLine(Line', in', Again', out')
  <1>1. Sent \subseteq Frame /\ Credible' \subseteq Reply
    BY DEF Sent, Credible
  <1>2. out' \in Seq(Frame) /\ in' \in Seq(Reply)
    BY <1>1, Wider DEF Parts, WirePart
  <1>3. Again' \in Int
    BY TransferAssumption DEF Parts, CounterPart, Again
  <1> QED
    BY <1>2, <1>3, LineType DEF Line

\* A step after which every place holds what an origin before it held, or
\* nothing, keeps the invariant of the line.
LEMMA Kept ==
    ASSUME Parts, Parts', LineInv, session' = session,
           host' = host \/ host' \notin {"metadata", "data"},
           NEW from, Thins(from, Line, Stale, Line', Stale')
    PROVE  LineInv'
  <1>1. /\ in \in Seq(Reply) /\ out \in Seq(Frame) /\ Again \in Int
        /\ in' \in Seq(Reply) /\ out' \in Seq(Frame) /\ Again' \in Int
    BY LineParts, LinePartsNext
  <1>2. Places(in, out) \in SUBSET Int /\ Line \in [Places(in, out) -> Int]
    BY LineParts DEF IsLine
  <1>3. Places(in', out') \in SUBSET Int /\ Line' \in [Places(in', out') -> Int]
    BY LinePartsNext DEF IsLine
  <1>4. session \in Nat /\ (host \in {"metadata", "data"} => session - 1 \in Nat)
    BY DEF Parts, HostPart, Blobs
  <1>5. ASSUME NEW n \in Nat
        PROVE  /\ Reach(Line, n) => Reach(Line', n)
               /\ ForeignReach(Line, Stale, n) => ForeignReach(Line', Stale', n)
               /\ ForeignAll(Line, Stale, n) => ForeignAll(Line', Stale', n)
    BY <1>2, <1>3, Thinner
  <1>6. Reach(Line', session)
    BY <1>4, <1>5 DEF LineInv
  <1>7. host' = "metadata" => ForeignReach(Line', Stale', session - 1)
    BY <1>4, <1>5 DEF LineInv
  <1>8. host' = "data" => ForeignAll(Line', Stale', session - 1)
    BY <1>4, <1>5 DEF LineInv
  <1> QED
    BY <1>6, <1>7, <1>8 DEF LineInv, Reach, ForeignReach, ForeignAll, Foreign

\* A step that is not a new request of the host: d replies are lost or read, c
\* frames are lost or handled, a replies are added; the added one, and what the
\* updater would ask for again, come from one place, the updater's or the frame's.
Moves(a, c, d, origin) ==
    /\ a \in {0, 1} /\ c \in {0, 1} /\ d \in {0, 1} /\ origin \in 0 .. c
    /\ Len(in') = Len(in) + a - d
    /\ \A i \in 1 .. Len(in) - d :
          in'[i].type = in[i + d].type /\ in'[i].value = in[i + d].value
    /\ a = 1 => Asks(in'[Len(in')]) \in {-1, Line[origin]}
    /\ a = 1 /\ in'[Len(in')].type = 5 /\ in'[Len(in')].value # 0 /\ session \notin verified' =>
          origin \in Stale
    /\ Len(out') = Len(out) - c
    /\ \A i \in 1 .. Len(out) - c :
          /\ Answer(out'[i]) = Answer(out[i + c])
          /\ out'[i].type = out[i + c].type
          /\ out'[i].blob = out[i + c].blob \/ out'[i].blob = GARBAGE
    /\ Again' \in {-1, Line[origin]}
    /\ verified \subseteq verified' /\ session' = session
    /\ host' = host \/ host' \notin {"metadata", "data"}

\* Such a step keeps the invariant of the line.
LEMMA Moved ==
    ASSUME Parts, Parts', LineInv, NEW a, NEW c, NEW d, NEW origin, Moves(a, c, d, origin)
    PROVE  LineInv'
  <1> DEFINE D == Places(in, out)
             E == Places(in', out')
             t == Line
             u == Line'
             from == [j \in E |-> IF j < -a THEN j + a ELSE IF j <= 0 THEN origin ELSE j + c]
  <1>1. /\ in \in Seq(Reply) /\ out \in Seq(Frame) /\ Again \in Int
        /\ in' \in Seq(Reply) /\ out' \in Seq(Frame) /\ Again' \in Int
    BY LineParts, LinePartsNext
  <1>2. /\ Len(in) \in Nat /\ Len(out) \in Nat /\ D \in SUBSET Int /\ DOMAIN t = D
        /\ \A m \in Int : m \in D <=> - Len(in) <= m /\ m <= Len(out)
        /\ \A m \in D : /\ m < 0 => t[m] = Asks(in[Len(in) + 1 + m])
                        /\ m = 0 => t[m] = Again
                        /\ m > 0 => t[m] = Answer(out[m])
    BY LineParts DEF IsLine
  <1>3. /\ Len(in') \in Nat /\ Len(out') \in Nat /\ E \in SUBSET Int /\ DOMAIN u = E
        /\ \A m \in Int : m \in E <=> - Len(in') <= m /\ m <= Len(out')
        /\ \A m \in E : /\ m < 0 => u[m] = Asks(in'[Len(in') + 1 + m])
                        /\ m = 0 => u[m] = Again'
                        /\ m > 0 => u[m] = Answer(out'[m])
    BY LinePartsNext DEF IsLine
  <1>4. /\ \A m \in D : m \in Stale <=>
               (m < 0 /\ StaleReply(in[Len(in) + 1 + m])) \/ (m > 0 /\ StaleFrame(out[m]))
        /\ \A m \in E : m \in Stale' <=>
               (m < 0 /\ StaleReply(in[Len(in) + 1 + m])') \/ (m > 0 /\ StaleFrame(out[m])')
    BY <1>2, <1>3 DEF Stale
  <1>5. /\ a \in {0, 1} /\ c \in {0, 1} /\ d \in {0, 1} /\ origin \in Int
        /\ 0 <= origin /\ origin <= c
        /\ Len(in') = Len(in) + a - d /\ Len(out') = Len(out) - c
    BY DEF Moves
  <1> HIDE DEF D, E, t, u
  <1>6. ASSUME NEW j \in E, j < -a
        PROVE  /\ from[j] = j + a /\ from[j] \in D /\ from[j] < 0
               /\ u[j] = t[from[j]] /\ (j \in Stale' => from[j] \in Stale)
    <2>1. j \in Int /\ j < 0 /\ from[j] = j + a /\ j + a < 0 /\ j + a \in Int
      BY <1>3, <1>5, <1>6
    <2>2. j + a \in D
      <3>1. - Len(in') <= j
        BY <1>3, <2>1
      <3>2. - Len(in) <= j + a /\ j + a <= Len(out)
        BY <1>2, <1>3, <1>5, <2>1, <3>1
      <3> QED
        BY <1>2, <2>1, <3>2
    <2> DEFINE i == Len(in') + 1 + j
    <2>3. i \in 1 .. Len(in) - d /\ i + d = Len(in) + 1 + (j + a)
      BY <1>2, <1>3, <1>5, <1>6, <2>1
    <2>4. in'[i].type = in[i + d].type /\ in'[i].value = in[i + d].value
      BY <2>3 DEF Moves
    <2>5. u[j] = Asks(in'[i]) /\ t[j + a] = Asks(in[i + d])
      BY <1>2, <1>3, <2>1, <2>2, <2>3
    <2>6. u[j] = t[j + a]
      BY <2>4, <2>5 DEF Asks
    <2>7. ASSUME j \in Stale'
          PROVE  j + a \in Stale
      <3>1. StaleReply(in[Len(in) + 1 + j])'
        BY <1>4, <2>1, <2>7
      <3>2. in'[i].type = 5 /\ in'[i].value # 0 /\ session \notin verified
        BY <3>1 DEF StaleReply, Moves
      <3>3. StaleReply(in[Len(in) + 1 + (j + a)])
        BY <2>3, <2>4, <3>2 DEF StaleReply
      <3> QED
        BY <1>4, <2>1, <2>2, <3>3
    <2> QED
      BY <2>1, <2>2, <2>6, <2>7
  <1>7. ASSUME NEW j \in E, ~(j < -a), j <= 0
        PROVE  /\ from[j] = origin /\ from[j] \in D
               /\ u[j] = -1 \/ u[j] = t[from[j]]
               /\ j \in Stale' => from[j] \in Stale
    <2>1. j \in Int /\ from[j] = origin /\ origin \in D
      BY <1>2, <1>3, <1>5, <1>7
    <2>2. CASE j = 0
      <3>1. u[j] = Again' /\ j \notin Stale'
        BY <1>3, <1>4, <2>2
      <3> QED
        BY <2>1, <3>1 DEF Moves, t
    <2>3. CASE j < 0
      <3>1. a = 1 /\ j = -1 /\ Len(in') + 1 + j = Len(in')
        BY <1>3, <1>5, <1>7, <2>1, <2>3
      <3>2. u[j] = Asks(in'[Len(in')])
        BY <1>3, <2>3, <3>1
      <3>3. j \in Stale' => StaleReply(in[Len(in)])'
        BY <1>4, <2>3, <3>1
      <3> QED
        BY <2>1, <3>1, <3>2, <3>3 DEF Moves, t, StaleReply
    <2> QED
      BY <1>7, <2>1, <2>2, <2>3
  <1>8. ASSUME NEW j \in E, j > 0
        PROVE  /\ from[j] = j + c /\ from[j] \in D
               /\ u[j] = t[from[j]] /\ (j \in Stale' => from[j] \in Stale)
    <2>1. j \in Int /\ from[j] = j + c /\ j + c \in D /\ j + c > 0 /\ j \in 1 .. Len(out) - c
      BY <1>2, <1>3, <1>5, <1>8
    <2>2. /\ Answer(out'[j]) = Answer(out[j + c]) /\ out'[j].type = out[j + c].type
          /\ out'[j].blob = out[j + c].blob \/ out'[j].blob = GARBAGE
          /\ session' = session
      BY <2>1 DEF Moves
    <2>3. u[j] = t[j + c]
      BY <1>2, <1>3, <1>8, <2>1, <2>2
    <2>4. ASSUME j \in Stale'
          PROVE  j + c \in Stale
      <3>1. StaleFrame(out[j])'
        BY <1>3, <1>4, <1>8, <2>4
      <3>2. StaleFrame(out[j + c])
        BY <2>2, <3>1 DEF StaleFrame, Blobs, GARBAGE
      <3> QED
        BY <1>4, <2>1, <3>2
    <2> QED
      BY <2>1, <2>3, <2>4
  <1>9. \A j \in E : j \in Int /\ (j < -a \/ (~(j < -a) /\ j <= 0) \/ j > 0)
    BY <1>3, <1>5
  <1>10. from \in [E -> D]
    BY <1>6, <1>7, <1>8, <1>9
  <1>11. \A i, j \in E : i < j => from[i] <= from[j]
    BY <1>3, <1>5
  <1> HIDE DEF from
  <1>12. Thins(from, t, Stale, u, Stale')
    BY <1>2, <1>3, <1>6, <1>7, <1>8, <1>9, <1>10, <1>11 DEF Thins
  <1>13. Thins(from, Line, Stale, Line', Stale')
    BY <1>12 DEF t, u
  <1> QED
    BY <1>13, Kept DEF Moves

\* The positions of a queue with a new last report, without its head, and with
\* its head replaced.
LEMMA Positions ==
    ASSUME NEW S, NEW q \in Seq(S), NEW x
    PROVE  /\ Len(q) \in Nat
           /\ Len(Append(q, x)) = Len(q) + 1 /\ Append(q, x)[Len(q) + 1] = x
           /\ \A i \in 1 .. Len(q) : Append(q, x)[i] = q[i]
           /\ q # <<>> =>
                 /\ Len(q) >= 1 /\ Head(q) = q[1] /\ Len(Tail(q)) = Len(q) - 1
                 /\ \A i \in 1 .. Len(q) - 1 : Tail(q)[i] = q[i + 1]
                 /\ Len(<<x>> \o Tail(q)) = Len(q) /\ (<<x>> \o Tail(q))[1] = x
                 /\ \A i \in 2 .. Len(q) : (<<x>> \o Tail(q))[i] = q[i]
  <1>1. /\ Len(q) \in Nat
        /\ Len(Append(q, x)) = Len(q) + 1 /\ Append(q, x)[Len(q) + 1] = x
        /\ \A i \in 1 .. Len(q) : Append(q, x)[i] = q[i]
    OBVIOUS
  <1>2. ASSUME q # <<>>
        PROVE  /\ Len(q) >= 1 /\ Head(q) = q[1] /\ Len(Tail(q)) = Len(q) - 1
               /\ \A i \in 1 .. Len(q) - 1 : Tail(q)[i] = q[i + 1]
               /\ Tail(q) \in Seq(S)
    BY <1>2
  <1>3. ASSUME q # <<>>
        PROVE  /\ Len(<<x>> \o Tail(q)) = Len(q) /\ (<<x>> \o Tail(q))[1] = x
               /\ \A i \in 2 .. Len(q) : (<<x>> \o Tail(q))[i] = q[i]
    <2> DEFINE p == Tail(q)
    <2>1. /\ p \in Seq(S) /\ Len(p) = Len(q) - 1 /\ Len(q) \in Nat
          /\ \A i \in 1 .. Len(q) - 1 : p[i] = q[i + 1]
      BY <1>1, <1>2, <1>3
    <2> HIDE DEF p
    <2>2. /\ Len(<<x>> \o p) = 1 + Len(p) /\ (<<x>> \o p)[1] = x
          /\ \A i \in 2 .. Len(p) + 1 : (<<x>> \o p)[i] = p[i - 1]
      BY <2>1
    <2>3. \A i \in 2 .. Len(q) : i - 1 \in 1 .. Len(q) - 1 /\ (i - 1) + 1 = i
      BY <2>1
    <2> QED
      BY <2>1, <2>2, <2>3 DEF p
  <1> QED
    BY <1>1, <1>2, <1>3

\* The updater, the first frame and the first reply in the line.
LEMMA AtPlaces ==
    ASSUME Parts
    PROVE  /\ Line[0] = Again
           /\ out # <<>> => /\ Line[1] = Answer(Head(out))
                            /\ StaleFrame(Head(out)) => 1 \in Stale
           /\ in # <<>> => /\ - Len(in) \in Places(in, out)
                           /\ Line[- Len(in)] = Asks(Head(in))
                           /\ StaleReply(Head(in)) => - Len(in) \in Stale
  <1>1. in \in Seq(Reply) /\ out \in Seq(Frame) /\ Again \in Int
    BY LineParts
  <1>2. /\ Len(in) \in Nat /\ Len(out) \in Nat
        /\ \A m \in Int : m \in Places(in, out) <=> - Len(in) <= m /\ m <= Len(out)
        /\ \A m \in Places(in, out) : /\ m < 0 => Line[m] = Asks(in[Len(in) + 1 + m])
                                      /\ m = 0 => Line[m] = Again
                                      /\ m > 0 => Line[m] = Answer(out[m])
    BY LineParts DEF IsLine
  <1>3. Line[0] = Again
    BY <1>2
  <1>4. ASSUME out # <<>>
        PROVE  /\ Line[1] = Answer(Head(out))
               /\ StaleFrame(Head(out)) => 1 \in Stale
    <2>1. Len(out) >= 1 /\ Head(out) = out[1]
      BY <1>1, <1>4, Positions
    <2>2. 1 \in Places(in, out)
      BY <1>2, <2>1
    <2> QED
      BY <1>2, <2>1, <2>2 DEF Stale
  <1>5. ASSUME in # <<>>
        PROVE  /\ - Len(in) \in Places(in, out)
               /\ Line[- Len(in)] = Asks(Head(in))
               /\ StaleReply(Head(in)) => - Len(in) \in Stale
    <2>1. Len(in) >= 1 /\ Head(in) = in[1]
      BY <1>1, <1>5, Positions
    <2>2. - Len(in) \in Places(in, out) /\ - Len(in) < 0 /\ Len(in) + 1 + (- Len(in)) = 1
      BY <1>2, <2>1
    <2> QED
      BY <1>2, <2>1, <2>2 DEF Stale
  <1> QED
    BY <1>3, <1>4, <1>5

\* The frames that stay in transit, and the replies.
SameFrames(c) ==
    /\ Len(out') = Len(out) - c
    /\ \A i \in 1 .. Len(out) - c :
          /\ Answer(out'[i]) = Answer(out[i + c])
          /\ out'[i].type = out[i + c].type
          /\ out'[i].blob = out[i + c].blob \/ out'[i].blob = GARBAGE
SameReplies(d) ==
    /\ Len(in') = Len(in) - d
    /\ \A i \in 1 .. Len(in) - d :
          in'[i].type = in[i + d].type /\ in'[i].value = in[i + d].value

\* Queues that a step leaves alone or takes the head from.
LEMMA Same ==
    ASSUME Parts
    PROVE  /\ out' = out => SameFrames(0)
           /\ out # <<>> /\ out' = Tail(out) => SameFrames(1)
           /\ in' = in => SameReplies(0)
           /\ in # <<>> /\ in' = Tail(in) => SameReplies(1)
  <1>1. in \in Seq(Reply) /\ out \in Seq(Frame) /\ Len(in) \in Nat /\ Len(out) \in Nat
    BY LineParts, Positions
  <1>2. /\ \A i \in 1 .. Len(out) - 0 : i + 0 = i
        /\ \A i \in 1 .. Len(in) - 0 : i + 0 = i
        /\ Len(out) - 0 = Len(out) /\ Len(in) - 0 = Len(in)
    BY <1>1
  <1>3. out' = out => SameFrames(0)
    BY <1>2 DEF SameFrames
  <1>4. in' = in => SameReplies(0)
    BY <1>2 DEF SameReplies
  <1>5. out # <<>> /\ out' = Tail(out) => SameFrames(1)
    BY <1>1, Positions DEF SameFrames
  <1>6. in # <<>> /\ in' = Tail(in) => SameReplies(1)
    BY <1>1, Positions DEF SameReplies
  <1> QED
    BY <1>3, <1>4, <1>5, <1>6

\* The host and what was verified.
Onward ==
    /\ verified \subseteq verified' /\ session' = session
    /\ host' = host \/ host' \notin {"metadata", "data"}

\* Reports are lost, or read without a new request.
LEMMA Dropped ==
    ASSUME Parts, Parts', LineInv, Onward, NEW c \in {0, 1}, NEW d \in {0, 1},
           SameFrames(c), SameReplies(d), Again' = -1 \/ Again' = Again
    PROVE  LineInv'
  <1>1. Line[0] = Again /\ Len(in) \in Nat
    BY AtPlaces, LineParts
  <1>2. Len(in') = Len(in) + 0 - d
    BY <1>1 DEF SameReplies
  <1>3. Moves(0, c, d, 0)
    BY <1>1, <1>2 DEF Moves, SameFrames, SameReplies, Onward
  <1> QED
    BY <1>3, Moved

\* A reply is added.
LEMMA Replied ==
    ASSUME Parts, Parts', LineInv, Onward, NEW c \in {0, 1}, SameFrames(c),
           NEW r, in' = Append(in, r), NEW origin \in 0 .. c,
           Asks(r) = -1 \/ Asks(r) = Line[origin],
           r.type = 5 /\ r.value # 0 /\ session \notin verified' => origin \in Stale,
           Again' = -1 \/ Again' = Line[origin]
    PROVE  LineInv'
  <1>1. in \in Seq(Reply)
    BY LineParts
  <1>2. /\ Len(in) \in Nat /\ Len(in') = Len(in) + 1 /\ in'[Len(in')] = r
        /\ \A i \in 1 .. Len(in) : in'[i] = in[i]
    BY <1>1, Positions
  <1>3. /\ Len(in') = Len(in) + 1 - 0
        /\ \A i \in 1 .. Len(in) - 0 :
              in'[i].type = in[i + 0].type /\ in'[i].value = in[i + 0].value
    BY <1>2
  <1>4. Moves(1, c, 0, origin)
    BY <1>2, <1>3 DEF Moves, SameFrames, Onward
  <1> QED
    BY <1>4, Moved

\* The batch is asked for again, or given up.
LEMMA RetryLine ==
    ASSUME Parts, Parts', LineInv, NEW stalled \in BOOLEAN, RequestBatchRetry(stalled),
           device = "receive", UNCHANGED hostVars, NEW c \in {0, 1}, SameFrames(c)
    PROVE  LineInv'
  <1>1. /\ batch_first_packet' = batch_first_packet /\ device' = device
        /\ verified' = verified
        /\ in' = Append(in, Terminal(0)) \/ in' = Append(in, Ack(batch_first_packet))
    BY DEF RequestBatchRetry, flashVars, Send
  <1>2. Again' = Again /\ Again = batch_first_packet /\ Line[0] = Again
    BY <1>1, AtPlaces DEF Again
  <1>3. Onward /\ 0 \in 0 .. c
    BY <1>1 DEF Onward, hostVars
  <1>4. /\ Asks(Terminal(0)) = -1 /\ Terminal(0).value = 0
        /\ Asks(Ack(batch_first_packet)) = batch_first_packet
        /\ Ack(batch_first_packet).type = 2
    BY DEF Asks, Terminal, Ack
  <1>5. CASE in' = Append(in, Terminal(0))
    BY <1>2, <1>3, <1>4, <1>5, Replied
  <1>6. CASE in' = Append(in, Ack(batch_first_packet))
    BY <1>2, <1>3, <1>4, <1>6, Replied
  <1> QED
    BY <1>1, <1>5, <1>6

\* A packet completes a stream that matches its MD5: it is the last one, as the
\* packets behind it of its blob are not stored yet, and the stream is its blob's.
LEMMA LastPacket ==
    ASSUME Parts, OrderInv, out # <<>>, Head(out).type = 3, IsNext(Head(out)),
           StorePacket(Head(out)), Md5Matches(stream')
    PROVE  /\ Head(out).number = PACKETS - 1
           /\ Head(out).blob = stream'[0] /\ Head(out).blob \in Blobs
  <1> DEFINE f == Head(out)
  <1>1. out \in Seq(Sent) /\ CounterPart /\ BufferPart /\ PACKETS \in Nat \ {0}
    BY TransferAssumption DEF Parts, WirePart
  <1>2. f \in Sent /\ f = out[1] /\ 1 \in 1 .. Len(out)
    <2>1. f \in Sent
      BY <1>1
    <2>2. Len(out) \in Nat /\ Len(out) >= 1 /\ f = out[1]
      BY <1>1, Positions
    <2> QED
      BY <2>1, <2>2
  <1> HIDE DEF f
  <1>3. /\ f.number = next_packet /\ next_packet \in 0 .. PACKETS - 1
        /\ stream' = [stream EXCEPT ![next_packet] = f.blob]
        /\ f.blob \in Blobs \union {GARBAGE}
    BY <1>1, <1>2, StoreTypes DEF f
  <1>4. f.number \in 0 .. PACKETS - 1 /\ stream'[f.number] = f.blob
    BY <1>1, <1>3 DEF BufferPart
  <1>5. f.blob = stream'[0] /\ f.blob # GARBAGE
    BY <1>4 DEF Md5Matches
  <1>6. f.number = PACKETS - 1
    <2>1. SUFFICES ASSUME f.number # PACKETS - 1
                   PROVE  FALSE
      OBVIOUS
    <2>2. PACKETS - 1 \in 0 .. PACKETS - 1 /\ f.number <= PACKETS - 1
      BY <1>1, <1>4
    <2>3. stream'[PACKETS - 1] = stream[PACKETS - 1]
      BY <1>1, <1>3, <2>1, <2>2 DEF BufferPart
    <2>4. stream'[PACKETS - 1] = f.blob
      BY <1>5, <2>2 DEF Md5Matches
    <2>5. out[1].type = 3 /\ out[1].blob # GARBAGE /\ out[1].number <= PACKETS - 1
      BY <1>2, <1>5, <2>2 DEF f
    <2>6. stream[PACKETS - 1] # out[1].blob
      BY <1>2, <2>2, <2>5 DEF OrderInv
    <2> QED
      BY <1>2, <2>3, <2>4, <2>6
  <1> QED
    BY <1>3, <1>5, <1>6 DEF f

\* A packet is stored and acknowledged, or the last one verified.
LEMMA AcceptLine ==
    ASSUME Parts, Parts', LineInv, OrderInv, out # <<>>, out' = Tail(out),
           Head(out).type = 3, IsNext(Head(out)), AcceptData(Head(out)),
           device = "receive", UNCHANGED hostVars
    PROVE  LineInv'
  <1> DEFINE f == Head(out)
  <1>1. f \in Sent /\ f.type = 3 /\ CounterPart /\ BufferPart /\ PACKETS \in Nat \ {0}
    BY TransferAssumption, Queues DEF Parts, WirePart
  <1>2. /\ f.number = next_packet /\ next_packet' = next_packet + 1 /\ next_packet \in Nat
        /\ StorePacket(f)
    BY <1>1, StoreTypes DEF AcceptData
  <1>3. Line[0] = Again /\ Line[1] = Answer(f) /\ (StaleFrame(f) => 1 \in Stale)
    BY AtPlaces
  <1>4. Answer(f) = next_packet'
    BY <1>1, <1>2 DEF Answer
  <1>5. SameFrames(1) /\ 0 \in 0 .. 1 /\ 1 \in 0 .. 1
    BY Same
  <1>6. CASE f.number # packet_count - 1
    <2>1. next_packet' % PACKETS_PER_ACK = 0
      BY <1>2 DEF PACKETS_PER_ACK
    <2>2. /\ in' = Append(in, Ack(next_packet')) /\ batch_first_packet' = next_packet'
          /\ verified' = verified /\ device' = device
      BY <1>6, <2>1 DEF AcceptData, Send, flashVars
    <2>3. Again' = Line[1] /\ Onward
      BY <1>3, <1>4, <2>2 DEF Again, Onward, hostVars
    <2>4. Asks(Ack(next_packet')) = next_packet' /\ Ack(next_packet').type = 2
      BY DEF Asks, Ack
    <2> QED
      BY <1>3, <1>4, <1>5, <2>2, <2>3, <2>4, Replied
  <1>7. CASE f.number = packet_count - 1 /\ ~Md5Matches(stream')
    <2>1. /\ in' = Append(in, Terminal(0)) /\ batch_first_packet' = batch_first_packet
          /\ verified' = verified /\ device' = device
      BY <1>7 DEF AcceptData, VerifyAndProgram, Send, flashVars
    <2>2. Again' = Line[0] /\ Onward
      BY <1>3, <2>1 DEF Again, Onward, hostVars
    <2>3. Asks(Terminal(0)) = -1 /\ Terminal(0).value = 0
      BY DEF Asks, Terminal
    <2> QED
      BY <1>5, <2>1, <2>2, <2>3, Replied
  <1>8. CASE f.number = packet_count - 1 /\ Md5Matches(stream')
    <2>1. /\ in' = Append(in, Terminal(1)) /\ device' = "erase"
          /\ verified' = verified \union {stream'[0]}
      BY <1>8 DEF AcceptData, VerifyAndProgram, Send
    <2>2. Again' = -1 /\ Onward
      BY <2>1 DEF Again, Onward, hostVars
    <2>3. f.number = PACKETS - 1 /\ f.blob = stream'[0] /\ f.blob \in Blobs
      BY <1>1, <1>2, <1>8, LastPacket
    <2>4. Asks(Terminal(1)) = PACKETS /\ Answer(f) = PACKETS
      BY <1>1, <2>3 DEF Asks, Terminal, Answer
    <2>5. session \notin verified' => StaleFrame(f)
      BY <1>1, <2>1, <2>3 DEF StaleFrame
    <2> QED
      BY <1>3, <1>5, <2>1, <2>2, <2>4, <2>5, Replied
  <1> QED
    BY <1>6, <1>7, <1>8

\* The updater's steps.
LEMMA ReceiveLine ==
    ASSUME Parts, Parts', LineInv, OrderInv, Receive
    PROVE  LineInv'
  <1> DEFINE f == Head(out)
  <1>1. /\ device = "receive" /\ out # <<>> /\ out' = Tail(out) /\ UNCHANGED hostVars
        /\ \/ f.type = 1 /\ AcceptMetadata(f)
           \/ f.type = 1 /\ MetadataNoMemory(f)
           \/ f.type = 3 /\ RequestBatchRetry(FALSE)
           \/ f.type = 3 /\ IsNext(f) /\ AcceptData(f)
           \/ Trap
    BY DEF Receive
  <1>2. SameFrames(1) /\ 1 \in 0 .. 1
    BY <1>1, Same
  <1>3. CASE f.type = 1 /\ AcceptMetadata(f)
    <2>1. /\ in' = Append(in, Ack(0)) /\ batch_first_packet' = 0
          /\ verified' = verified /\ device' = device
      BY <1>3 DEF AcceptMetadata, Send, flashVars
    <2>2. Line[1] = 0
      BY <1>1, <1>3, AtPlaces DEF Answer
    <2>3. Asks(Ack(0)) = 0 /\ Ack(0).type = 2 /\ Again' = 0 /\ Onward
      BY <1>1, <2>1 DEF Asks, Ack, Again, Onward, hostVars
    <2> QED
      BY <1>2, <2>1, <2>2, <2>3, Replied
  <1>4. CASE f.type = 1 /\ MetadataNoMemory(f)
    <2>1. in' = in /\ batch_first_packet' = batch_first_packet /\ verified' = verified
          /\ device' = device
      BY <1>4 DEF MetadataNoMemory, flashVars
    <2>2. SameReplies(0) /\ Again' = Again /\ Onward
      BY <1>1, <2>1, Same DEF Again, Onward, hostVars
    <2> QED
      BY <1>2, <2>2, Dropped
  <1>5. CASE f.type = 3 /\ RequestBatchRetry(FALSE)
    BY <1>1, <1>2, <1>5, RetryLine
  <1>6. CASE f.type = 3 /\ IsNext(f) /\ AcceptData(f)
    BY <1>1, <1>6, AcceptLine
  <1>7. CASE Trap
    <2>1. in' = in /\ verified' = verified /\ device' = "dead"
      BY <1>7 DEF Trap, flashVars
    <2>2. SameReplies(0) /\ Again' = -1 /\ Onward
      BY <1>1, <2>1, Same DEF Again, Onward, hostVars
    <2> QED
      BY <1>2, <2>2, Dropped
  <1> QED
    BY <1>1, <1>3, <1>4, <1>5, <1>6, <1>7

\* Damage changes neither the kind of a report, nor the number of a data packet,
\* nor the blob but to garbage.
LEMMA DamageKeeps ==
    ASSUME NEW f \in Sent, NEW d \in DamagedFrames(f)
    PROVE  /\ d.type = f.type /\ (f.type = 3 => d.number = f.number)
           /\ d.blob = f.blob \/ d.blob = GARBAGE
  <1>1. f \in [type : {1, 3}, number : 0 .. PACKETS + 1, blob : Blobs \union {GARBAGE},
               moved : BOOLEAN, sum : BOOLEAN]
    BY DEF Sent, Frame
  <1>2. \/ d = [f EXCEPT !.sum = FALSE] \/ d = [f EXCEPT !.blob = GARBAGE]
        \/ d = [f EXCEPT !.moved = TRUE]
        \/ /\ f.type # 3
           /\ \E n \in 0 .. PACKETS + 1 : d = [f EXCEPT !.sum = FALSE, !.number = n]
    BY DEF DamagedFrames
  <1> QED
    BY <1>1, <1>2

\* The reports in transit after a fault.
LEMMA FaultReports ==
    ASSUME Parts, Fault
    PROVE  /\ \E c \in {0, 1} :
                 /\ SameFrames(c)
                 /\ \A i \in 1 .. Len(out) - c :
                       out'[i].type = 3 => out'[i].number = out[i + c].number
           /\ \E d \in {0, 1} : SameReplies(d)
  <1>1. in \in Seq(Reply) /\ out \in Seq(Sent) /\ Len(in) \in Nat /\ Len(out) \in Nat
    BY LineParts, Positions DEF Parts, WirePart
  <1>2. \A i \in 1 .. Len(out) - 0 : i + 0 = i /\ i \in 1 .. Len(out)
    BY <1>1
  <1>3. \A i \in 1 .. Len(in) - 0 : i + 0 = i /\ i \in 1 .. Len(in)
    BY <1>1
  <1>4. ASSUME out' = out
        PROVE  SameFrames(0) /\ \A i \in 1 .. Len(out) - 0 : out'[i].number = out[i + 0].number
    BY <1>2, <1>4, Same
  <1>5. ASSUME out # <<>>, out' = Tail(out)
        PROVE  SameFrames(1) /\ \A i \in 1 .. Len(out) - 1 : out'[i].number = out[i + 1].number
    BY <1>1, <1>5, Same, Positions
  <1>6. ASSUME out # <<>>, NEW d \in DamagedFrames(Head(out)), out' = <<d>> \o Tail(out)
        PROVE  SameFrames(0) /\ \A i \in 1 .. Len(out) - 0 :
                                   out'[i].type = 3 => out'[i].number = out[i + 0].number
    <2>1. /\ Len(out') = Len(out) - 0 /\ out'[1] = d /\ Head(out) = out[1]
          /\ \A i \in 2 .. Len(out) : out'[i] = out[i]
      BY <1>1, <1>6, Positions
    <2>2. Head(out) \in Sent
      BY <1>1, <1>6
    <2>3. /\ d.type = out[1].type /\ (d.type = 3 => d.number = out[1].number)
          /\ d.blob = out[1].blob \/ d.blob = GARBAGE
      BY <2>1, <2>2, DamageKeeps
    <2>4. out[1].type \in {1, 3} /\ Answer(d) = Answer(out[1])
      BY <2>1, <2>2, <2>3 DEF Answer, Sent, Frame
    <2>5. \A i \in 1 .. Len(out) - 0 : i = 1 \/ i \in 2 .. Len(out)
      BY <1>1
    <2> QED
      BY <1>2, <2>1, <2>3, <2>4, <2>5 DEF SameFrames
  <1>7. ASSUME in # <<>>, in' = <<[Head(in) EXCEPT !.sum = FALSE]>> \o Tail(in)
        PROVE  SameReplies(0)
    <2> DEFINE r == [Head(in) EXCEPT !.sum = FALSE]
    <2>1. Head(in) \in Reply /\ Head(in) = in[1]
      BY <1>1, <1>7, Positions
    <2>2. r.type = in[1].type /\ r.value = in[1].value
      BY <2>1 DEF Reply
    <2> HIDE DEF r
    <2>3. /\ Len(in') = Len(in) - 0 /\ in'[1] = r
          /\ \A i \in 2 .. Len(in) : in'[i] = in[i]
      BY <1>1, <1>7, Positions DEF r
    <2>4. \A i \in 1 .. Len(in) - 0 : i = 1 \/ i \in 2 .. Len(in)
      BY <1>1
    <2> QED
      BY <1>3, <2>2, <2>3, <2>4 DEF SameReplies
  <1>8. \/ out # <<>> /\ out' = Tail(out) /\ in' = in
        \/ /\ out # <<>> /\ in' = in
           /\ \E d \in DamagedFrames(Head(out)) : out' = <<d>> \o Tail(out)
        \/ in # <<>> /\ out' = out /\ in' = Tail(in)
        \/ in # <<>> /\ out' = out /\ in' = <<[Head(in) EXCEPT !.sum = FALSE]>> \o Tail(in)
    BY DEF Fault
  <1>9. /\ in' = in => SameReplies(0)
        /\ in # <<>> /\ in' = Tail(in) => SameReplies(1)
    BY Same
  <1>10. \E d \in {0, 1} : SameReplies(d)
    BY <1>7, <1>8, <1>9
  <1>11. CASE out # <<>> /\ out' = Tail(out)
    BY <1>5, <1>10, <1>11
  <1>12. CASE out # <<>> /\ \E d \in DamagedFrames(Head(out)) : out' = <<d>> \o Tail(out)
    BY <1>6, <1>10, <1>12
  <1>13. CASE out' = out
    BY <1>4, <1>10, <1>13
  <1> QED
    BY <1>8, <1>11, <1>12, <1>13

\* The other steps of the camera and of the link.
LEMMA QuietLine ==
    ASSUME Parts, Parts', LineInv, Erase \/ Write \/ Fault \/ Stall \/ PowerCycle
    PROVE  LineInv'
  <1>1. CASE Erase \/ Write
    <2>1. UNCHANGED <<out, in, verified>> /\ UNCHANGED hostVars /\ Again' = -1
      BY <1>1 DEF Erase, Write, Again
    <2>2. SameFrames(0) /\ SameReplies(0) /\ Onward
      BY <2>1, Same DEF Onward, hostVars
    <2> QED
      BY <2>1, <2>2, Dropped
  <1>2. CASE Fault
    <2>1. PICK c \in {0, 1} : SameFrames(c)
      BY <1>2, FaultReports
    <2>2. PICK d \in {0, 1} : SameReplies(d)
      BY <1>2, FaultReports
    <2>3. Onward /\ Again' = Again
      BY <1>2 DEF Fault, Onward, Again, hostVars, counterVars, flashVars
    <2> QED
      BY <2>1, <2>2, <2>3, Dropped
  <1>3. CASE Stall
    <2>1. SameFrames(0) /\ UNCHANGED hostVars /\ device = "receive" /\ RequestBatchRetry(TRUE)
      BY <1>3, Same DEF Stall
    <2> QED
      BY <2>1, RetryLine
  <1>4. CASE PowerCycle
    <2>1. in' = <<>> /\ out' = <<>>
      BY <1>4 DEF PowerCycle
    <2>2. /\ DOMAIN Line' = Places(in', out') /\ Places(in', out') = {0}
          /\ 0 \notin Stale'
      <3>1. Len(in') = 0 /\ Len(out') = 0
        BY <2>1
      <3>2. Places(in', out') = {0}
        BY <3>1 DEF Places
      <3> QED
        BY <3>2 DEF Line, LineOf, Stale
    <2>3. \A i, j \in {0} : ~(i < j)
      OBVIOUS
    <2> QED
      BY <2>2, <2>3 DEF LineInv, Reach, ForeignReach, ForeignAll, Foreign
  <1> QED
    BY <1>1, <1>2, <1>3, <1>4

\* The host sends a frame of its blob, after it read d replies.
LEMMA Extended ==
    ASSUME Parts, Parts', NEW d \in {0, 1}, SameReplies(d), NEW f, out' = Append(out, f),
           f.blob = session', Again' = Again, verified' = verified
    PROVE  /\ Len(in) \in Nat /\ Len(out) \in Nat
           /\ DOMAIN Line = Places(in, out) /\ DOMAIN Line' = Places(in', out')
           /\ \A m \in Places(in, out) : m \in Int /\ Line[m] \in Int /\ - Len(in) <= m
           /\ \A m \in Places(in', out') :
                 \/ /\ m = Len(out) + 1 /\ Line'[m] = Answer(f) /\ m \notin Stale'
                 \/ /\ m < Len(out) + 1 /\ m \in Places(in, out) /\ - Len(in) + d <= m
                    /\ Line'[m] = Line[m]
                    /\ session' = session /\ m \in Stale' => m \in Stale
  <1>1. /\ in \in Seq(Reply) /\ out \in Seq(Frame) /\ Again \in Int
        /\ in' \in Seq(Reply) /\ out' \in Seq(Frame) /\ Again' \in Int
    BY LineParts, LinePartsNext
  <1>2. /\ Len(in) \in Nat /\ Len(out) \in Nat /\ Places(in, out) \in SUBSET Int
        /\ DOMAIN Line = Places(in, out) /\ Line \in [Places(in, out) -> Int]
        /\ \A m \in Int : m \in Places(in, out) <=> - Len(in) <= m /\ m <= Len(out)
        /\ \A m \in Places(in, out) : /\ m < 0 => Line[m] = Asks(in[Len(in) + 1 + m])
                                      /\ m = 0 => Line[m] = Again
                                      /\ m > 0 => Line[m] = Answer(out[m])
    BY LineParts DEF IsLine
  <1>3. /\ Len(in') \in Nat /\ Len(out') \in Nat /\ Places(in', out') \in SUBSET Int
        /\ DOMAIN Line' = Places(in', out')
        /\ \A m \in Int : m \in Places(in', out') <=> - Len(in') <= m /\ m <= Len(out')
        /\ \A m \in Places(in', out') : /\ m < 0 => Line'[m] = Asks(in'[Len(in') + 1 + m])
                                        /\ m = 0 => Line'[m] = Again'
                                        /\ m > 0 => Line'[m] = Answer(out'[m])
    BY LinePartsNext DEF IsLine
  <1>4. /\ Len(out') = Len(out) + 1 /\ out'[Len(out) + 1] = f
        /\ \A i \in 1 .. Len(out) : out'[i] = out[i]
    BY <1>1, Positions
  <1>5. \A m \in Places(in', out') : m \in Stale' <=>
             (m < 0 /\ StaleReply(in[Len(in) + 1 + m])') \/ (m > 0 /\ StaleFrame(out[m])')
    BY <1>3 DEF Stale
  <1>6. Len(in') = Len(in) - d
    BY DEF SameReplies
  <1>7. ASSUME NEW m \in Places(in', out'), m = Len(out) + 1
        PROVE  Line'[m] = Answer(f) /\ m \notin Stale'
    BY <1>2, <1>3, <1>4, <1>5, <1>7 DEF StaleFrame
  <1>8. ASSUME NEW m \in Places(in', out'), m < Len(out) + 1
        PROVE  /\ m \in Places(in, out) /\ - Len(in) + d <= m
               /\ Line'[m] = Line[m]
               /\ session' = session /\ m \in Stale' => m \in Stale
    <2>1. m \in Int /\ - Len(in') <= m /\ m <= Len(out)
      BY <1>2, <1>3, <1>8
    <2>2. - Len(in) + d <= m /\ - Len(in) <= m
      BY <1>2, <1>6, <2>1
    <2>3. m \in Places(in, out)
      BY <1>2, <2>1, <2>2
    <2>4. CASE m < 0
      <3> DEFINE i == Len(in') + 1 + m
      <3>1. i \in 1 .. Len(in) - d /\ i + d = Len(in) + 1 + m
        BY <1>2, <1>6, <2>1, <2>2, <2>4
      <3>2. in'[i].type = in[i + d].type /\ in'[i].value = in[i + d].value
        BY <3>1 DEF SameReplies
      <3>3. Line'[m] = Asks(in'[i]) /\ Line[m] = Asks(in[i + d])
        BY <1>2, <1>3, <2>3, <2>4, <3>1
      <3>4. Line'[m] = Line[m]
        BY <3>2, <3>3 DEF Asks
      <3>5. ASSUME session' = session, m \in Stale'
            PROVE  m \in Stale
        <4>1. in'[i].type = 5 /\ in'[i].value # 0 /\ session \notin verified
          BY <1>5, <2>1, <2>4, <3>5 DEF StaleReply
        <4>2. StaleReply(in[Len(in) + 1 + m])
          BY <3>1, <3>2, <4>1 DEF StaleReply
        <4> QED
          BY <2>3, <2>4, <4>2 DEF Stale
      <3> QED
        BY <2>2, <2>3, <3>4, <3>5
    <2>5. CASE m = 0
      BY <1>2, <1>3, <1>5, <2>2, <2>3, <2>5
    <2>6. CASE m > 0
      <3>1. out'[m] = out[m]
        BY <1>2, <1>4, <2>1, <2>6
      <3>2. Line'[m] = Line[m]
        BY <1>2, <1>3, <2>3, <2>6, <3>1
      <3>3. ASSUME session' = session, m \in Stale'
            PROVE  m \in Stale
        <4>1. StaleFrame(out[m])
          BY <1>5, <2>1, <2>6, <3>1, <3>3 DEF StaleFrame
        <4> QED
          BY <2>1, <2>3, <2>6, <4>1 DEF Stale
      <3> QED
        BY <2>2, <2>3, <3>2, <3>3
    <2> QED
      BY <2>1, <2>4, <2>5, <2>6
  <1>9. \A m \in Places(in', out') : m = Len(out) + 1 \/ m < Len(out) + 1
    BY <1>2, <1>3, <1>4
  <1>10. \A m \in Places(in, out) : m \in Int /\ Line[m] \in Int /\ - Len(in) <= m
    BY <1>2
  <1> QED
    BY <1>2, <1>3, <1>7, <1>8, <1>9, <1>10

\* A data packet of this call is not foreign, and makes nothing foreign.
LEMMA OwnPacket ==
    ASSUME Parts, Parts', NEW d \in {0, 1}, SameReplies(d), NEW f, out' = Append(out, f),
           f.blob = session', Again' = Again, verified' = verified, session' = session,
           Answer(f) \in Nat \ {0}, NEW j \in Places(in', out'), Foreign(Line', Stale', j)
    PROVE  /\ j < Len(out) + 1 /\ j \in Places(in, out) /\ Line'[j] = Line[j]
           /\ - Len(in) + d <= j /\ Foreign(Line, Stale, j)
  <1>1. /\ Len(in) \in Nat /\ Len(out) \in Nat
        /\ DOMAIN Line = Places(in, out) /\ DOMAIN Line' = Places(in', out')
        /\ \A m \in Places(in, out) : m \in Int
        /\ \A m \in Places(in', out') :
              \/ m = Len(out) + 1 /\ Line'[m] = Answer(f) /\ m \notin Stale'
              \/ /\ m < Len(out) + 1 /\ m \in Places(in, out) /\ - Len(in) + d <= m
                 /\ Line'[m] = Line[m] /\ (m \in Stale' => m \in Stale)
    BY Extended
  <1>2. \A m \in Places(in', out') : m \in Int
    BY <1>1
  <1>3. CASE j \in Stale'
    BY <1>1, <1>3 DEF Foreign
  <1>4. ASSUME NEW m \in Places(in', out'), j < m, Line'[m] = 0
        PROVE  /\ j < Len(out) + 1 /\ j \in Places(in, out) /\ Line'[j] = Line[j]
               /\ - Len(in) + d <= j /\ Foreign(Line, Stale, j)
    <2>1. m < Len(out) + 1 /\ m \in Places(in, out) /\ Line[m] = 0
      BY <1>1, <1>4
    <2>2. j < Len(out) + 1 /\ j # Len(out) + 1
      BY <1>1, <1>2, <1>4, <2>1
    <2>3. j \in Places(in, out) /\ Line'[j] = Line[j] /\ - Len(in) + d <= j
      BY <1>1, <2>2
    <2>4. Foreign(Line, Stale, j)
      BY <1>1, <1>4, <2>1 DEF Foreign
    <2> QED
      BY <2>2, <2>3, <2>4
  <1> QED
    BY <1>1, <1>3, <1>4 DEF Foreign

\* A new call: whatever is behind a request for packet 0 was sent before it.
LEMMA OpenLine ==
    ASSUME Parts, Parts', LineInv, Open
    PROVE  LineInv'
  <1>1. /\ session' = session + 1 /\ host' = "metadata" /\ in' = in
        /\ out' = Append(out, Metadata) /\ verified' = verified /\ Again' = Again
    BY DEF Open, Again, counterVars, flashVars
  <1>2. Metadata.blob = session' /\ Answer(Metadata) = 0 /\ SameReplies(0)
    BY <1>1, Same DEF Metadata, Answer
  <1>3. session \in Nat
    BY DEF Parts, HostPart
  <1>4. /\ Len(in) \in Nat /\ Len(out) \in Nat
        /\ DOMAIN Line = Places(in, out) /\ DOMAIN Line' = Places(in', out')
        /\ \A m \in Places(in, out) : m \in Int /\ Line[m] \in Int
        /\ \A m \in Places(in', out') :
              \/ m = Len(out) + 1 /\ Line'[m] = 0
              \/ m < Len(out) + 1 /\ m \in Places(in, out) /\ Line'[m] = Line[m]
    BY <1>1, <1>2, Extended
  <1>5. ASSUME NEW i \in Places(in', out'), NEW j \in Places(in', out'), i < j, Line'[i] = 0
        PROVE  Line'[j] <= session
    <2>1. CASE j = Len(out) + 1
      BY <1>3, <1>4, <2>1
    <2>2. CASE j < Len(out) + 1
      <3>1. j \in Places(in, out) /\ Line'[j] = Line[j]
        BY <1>4, <2>2
      <3>2. i \in Places(in, out) /\ Line[i] = 0
        BY <1>4, <1>5, <2>2
      <3> QED
        BY <1>4, <1>5, <3>1, <3>2 DEF LineInv, Reach
    <2> QED
      BY <1>4, <2>1, <2>2
  <1>6. \A j \in Places(in', out') : Line'[j] \in Int
    BY <1>4
  <1>7. Reach(Line', session')
    BY <1>1, <1>3, <1>4, <1>5, <1>6 DEF Reach
  <1>8. ForeignReach(Line', Stale', session' - 1)
    BY <1>1, <1>3, <1>4, <1>5 DEF ForeignReach
  <1> QED
    BY <1>1, <1>7, <1>8 DEF LineInv, Reach, ForeignReach, Foreign

\* Packet 0 is asked for, by this call or behind an earlier request for it.
LEMMA MetadataLine ==
    ASSUME Parts, Parts', LineInv, MetadataReply, host' = "data"
    PROVE  LineInv'
  <1>1. /\ host = "metadata" /\ in # <<>> /\ in' = Tail(in) /\ session' = session
        /\ IsAck(Head(in), 0) /\ out' = Append(out, Data(0))
        /\ verified' = verified /\ Again' = Again
    BY DEF MetadataReply, Again, counterVars, flashVars
  <1>2. Data(0).blob = session' /\ Answer(Data(0)) = 1 /\ SameReplies(1)
    BY <1>1, Same DEF Data, Answer
  <1>3. session \in Nat /\ session >= 1
    BY <1>1 DEF Parts, HostPart, Blobs
  <1>4. /\ Len(in) \in Nat /\ Len(out) \in Nat
        /\ DOMAIN Line = Places(in, out) /\ DOMAIN Line' = Places(in', out')
        /\ \A m \in Places(in, out) : m \in Int /\ Line[m] \in Int
        /\ \A m \in Places(in', out') :
              \/ m = Len(out) + 1 /\ Line'[m] = 1
              \/ m < Len(out) + 1 /\ m \in Places(in, out) /\ Line'[m] = Line[m]
    BY <1>1, <1>2, Extended
  <1>5. - Len(in) \in Places(in, out) /\ Line[- Len(in)] = 0
    BY <1>1, AtPlaces DEF IsAck, Asks
  <1>6. ASSUME NEW i \in Places(in', out'), NEW j \in Places(in', out'), i < j, Line'[i] = 0
        PROVE  Line'[j] <= session
    <2>1. CASE j = Len(out) + 1
      BY <1>3, <1>4, <2>1
    <2>2. CASE j < Len(out) + 1
      <3>1. j \in Places(in, out) /\ Line'[j] = Line[j]
        BY <1>4, <2>2
      <3>2. i \in Places(in, out) /\ Line[i] = 0
        BY <1>4, <1>6
      <3> QED
        BY <1>4, <1>6, <3>1, <3>2 DEF LineInv, Reach
    <2> QED
      BY <1>4, <2>1, <2>2
  <1>7. ASSUME NEW j \in Places(in', out'), Foreign(Line', Stale', j)
        PROVE  Line'[j] <= session - 1
    <2>1. /\ j \in Places(in, out) /\ Line'[j] = Line[j]
          /\ - Len(in) + 1 <= j /\ Foreign(Line, Stale, j)
      BY <1>1, <1>2, <1>7, OwnPacket
    <2>2. - Len(in) < j
      BY <1>4, <2>1
    <2> QED
      BY <1>1, <1>4, <1>5, <2>1, <2>2 DEF LineInv, ForeignReach
  <1> QED
    BY <1>1, <1>4, <1>6, <1>7 DEF LineInv, Reach, ForeignAll, Foreign

\* The next packet is asked for: by a foreign request only up to the packet that
\* the call before this one could reach.
LEMMA DataLine ==
    ASSUME Parts, Parts', LineInv, DataReply, host' = "data"
    PROVE  LineInv'
  <1>1. /\ host = "data" /\ in # <<>> /\ in' = Tail(in) /\ session' = session
        /\ IsAck(Head(in), sequence + 1) /\ out' = Append(out, Data(sequence'))
        /\ sequence' = sequence + 1 /\ verified' = verified /\ Again' = Again
    BY DEF DataReply, Again, counterVars, flashVars
  <1>2. session \in Nat /\ sequence \in Nat /\ session >= 1
    BY <1>1 DEF Parts, HostPart, Blobs
  <1>3. /\ Data(sequence').blob = session' /\ Answer(Data(sequence')) = sequence + 2
        /\ SameReplies(1)
    BY <1>1, <1>2, Same DEF Data, Answer
  <1>4. /\ Len(in) \in Nat /\ Len(out) \in Nat
        /\ DOMAIN Line = Places(in, out) /\ DOMAIN Line' = Places(in', out')
        /\ \A m \in Places(in, out) : m \in Int /\ Line[m] \in Int
        /\ \A m \in Places(in', out') :
              \/ m = Len(out) + 1 /\ Line'[m] = sequence + 2
              \/ /\ m < Len(out) + 1 /\ m \in Places(in, out) /\ Line'[m] = Line[m]
                 /\ - Len(in) + 1 <= m
    BY <1>1, <1>3, Extended
  <1>5. - Len(in) \in Places(in, out) /\ Line[- Len(in)] = sequence + 1
    BY <1>1, AtPlaces DEF IsAck, Asks
  <1>6. ASSUME NEW i \in Places(in', out'), NEW j \in Places(in', out'), i < j, Line'[i] = 0
        PROVE  Line'[j] <= session
    <2>1. i \in Places(in, out) /\ Line[i] = 0 /\ - Len(in) + 1 <= i
      BY <1>2, <1>4, <1>6
    <2>2. CASE j = Len(out) + 1
      <3>1. - Len(in) < i
        BY <1>4, <2>1
      <3>2. Foreign(Line, Stale, - Len(in))
        BY <1>4, <2>1, <3>1 DEF Foreign
      <3>3. sequence + 1 <= session - 1
        BY <1>1, <1>4, <1>5, <3>2 DEF LineInv, ForeignAll
      <3>4. Line'[j] = sequence + 2
        BY <1>4, <2>2
      <3> QED
        BY <1>2, <3>3, <3>4
    <2>3. CASE j < Len(out) + 1
      <3>1. j \in Places(in, out) /\ Line'[j] = Line[j]
        BY <1>4, <2>3
      <3> QED
        BY <1>4, <1>6, <2>1, <3>1 DEF LineInv, Reach
    <2> QED
      BY <1>4, <2>2, <2>3
  <1>7. ASSUME NEW j \in Places(in', out'), Foreign(Line', Stale', j)
        PROVE  Line'[j] <= session - 1
    <2>1. sequence + 2 \in Nat \ {0}
      BY <1>2
    <2>2. j \in Places(in, out) /\ Line'[j] = Line[j] /\ Foreign(Line, Stale, j)
      BY <1>1, <1>3, <1>7, <2>1, OwnPacket
    <2> QED
      BY <1>1, <1>4, <2>2 DEF LineInv, ForeignAll
  <1> QED
    BY <1>1, <1>4, <1>6, <1>7 DEF LineInv, Reach, ForeignAll, Foreign

\* The host's steps.
LEMMA HostLine ==
    ASSUME Parts, Parts', LineInv, HostStep
    PROVE  LineInv'
  <1>1. Again' = Again /\ verified' = verified
    BY DEF HostStep, Open, MetadataReply, DataReply, FinalReply, GiveUp, Again, counterVars,
           flashVars
  <1>2. ASSUME in # <<>>, in' = Tail(in), out' = out, session' = session,
               host' \notin {"metadata", "data"}
        PROVE  LineInv'
    <2>1. SameFrames(0) /\ SameReplies(1) /\ Onward
      BY <1>1, <1>2, Same DEF Onward
    <2> QED
      BY <1>1, <2>1, Dropped
  <1>3. CASE Open
    BY <1>3, OpenLine
  <1>4. CASE MetadataReply
    <2>1. host' = "data" \/ (in # <<>> /\ in' = Tail(in) /\ out' = out /\ session' = session
                            /\ host' = "failed")
      BY <1>4 DEF MetadataReply
    <2> QED
      BY <1>2, <1>4, <2>1, MetadataLine
  <1>5. CASE DataReply
    <2>1. host' = "data" \/ (in # <<>> /\ in' = Tail(in) /\ out' = out /\ session' = session
                            /\ host' = "failed")
      BY <1>5 DEF DataReply
    <2> QED
      BY <1>2, <1>5, <2>1, DataLine
  <1>6. CASE FinalReply
    <2>1. /\ in # <<>> /\ in' = Tail(in) /\ out' = out /\ session' = session
          /\ host' \notin {"metadata", "data"}
      BY <1>6 DEF FinalReply
    <2> QED
      BY <1>2, <2>1
  <1>7. CASE GiveUp
    <2>1. SameFrames(0) /\ SameReplies(0) /\ Onward
      BY <1>1, <1>7, Same DEF GiveUp, Onward
    <2> QED
      BY <1>1, <2>1, Dropped
  <1> QED
    BY <1>3, <1>4, <1>5, <1>6, <1>7 DEF HostStep

\* A normal return: a success report that is not for this call's blob would have
\* been foreign, and those reach no further than the calls before this one.
LEMMA AcceptedStep ==
    ASSUME Parts, LineInv, AcceptedVerified, Next
    PROVE  AcceptedVerified'
  <1>1. CASE FinalReply
    <2> SUFFICES ASSUME host' = "accepted", session' <= PACKETS
                 PROVE  session' \in verified'
      BY DEF AcceptedVerified
    <2>1. /\ host = "data" /\ in # <<>> /\ session' = session /\ verified' = verified
          /\ Head(in).type = 5 /\ Head(in).value # 0
      BY <1>1 DEF FinalReply, flashVars
    <2>2. SUFFICES ASSUME session \notin verified
                   PROVE  FALSE
      BY <2>1
    <2>3. /\ - Len(in) \in Places(in, out) /\ Line[- Len(in)] = PACKETS
          /\ - Len(in) \in Stale
      BY <2>1, <2>2, AtPlaces DEF StaleReply, Asks
    <2>4. DOMAIN Line = Places(in, out)
      BY LineParts DEF IsLine
    <2>5. PACKETS <= session - 1
      BY <2>1, <2>3, <2>4 DEF LineInv, ForeignAll, Foreign
    <2>6. session \in Nat /\ PACKETS \in Nat
      BY TransferAssumption DEF Parts, HostPart
    <2> QED
      BY <2>1, <2>5, <2>6
  <1>2. CASE Open \/ MetadataReply \/ DataReply \/ GiveUp
    <2>1. host' # "accepted"
      BY <1>2 DEF Open, MetadataReply, DataReply, GiveUp
    <2> QED
      BY <2>1 DEF AcceptedVerified
  <1>3. CASE DeviceStep \/ Fault \/ Stall \/ PowerCycle
    <2>1. UNCHANGED hostVars
      BY <1>3 DEF DeviceStep, Receive, Erase, Write, Fault, Stall, PowerCycle
    <2>2. verified \subseteq verified'
      <3>1. CASE Receive
        BY <3>1 DEF Receive, AcceptMetadata, MetadataNoMemory, RequestBatchRetry, AcceptData,
                    VerifyAndProgram, Trap, flashVars
      <3>2. CASE Erase \/ Write \/ Fault \/ Stall \/ PowerCycle
        BY <3>2 DEF Erase, Write, Fault, Stall, PowerCycle, RequestBatchRetry, flashVars
      <3> QED
        BY <1>3, <3>1, <3>2 DEF DeviceStep
    <2> QED
      BY <2>1, <2>2 DEF AcceptedVerified, hostVars
  <1> QED
    BY <1>1, <1>2, <1>3 DEF Next, HostStep

----------------------------------------------------------------------------
(* The order of a blob's packets. *)

\* A step that sends nothing and stores nothing.
LEMMA OrderKept ==
    ASSUME Parts, OrderInv, NEW c \in {0, 1}, SameFrames(c), session' = session,
           \A i \in 1 .. Len(out) - c : out'[i].type = 3 => out'[i].number = out[i + c].number,
           \A m \in 0 .. PACKETS - 1 : stream'[m] = stream[m] \/ stream'[m] = GARBAGE,
           Due' = Due \/ Due' = PACKETS
    PROVE  OrderInv'
  <1>1. out \in Seq(Sent) /\ Len(out) \in Nat /\ session \in Nat
    BY Positions DEF Parts, WirePart, HostPart
  <1>2. Len(out') = Len(out) - c
    BY DEF SameFrames
  <1>3. \A i \in 1 .. Len(out') :
           /\ i \in Int /\ i + c \in 1 .. Len(out) /\ out[i + c] \in Sent
           /\ out'[i].type = out[i + c].type
           /\ out'[i].blob = out[i + c].blob \/ out'[i].blob = GARBAGE
           /\ out'[i].type = 3 => out'[i].number = out[i + c].number
    BY <1>1, <1>2 DEF SameFrames
  <1>4. \A i \in 1 .. Len(out') :
           out'[i].type = 3 => out'[i].number \in Int /\ out'[i].number < PACKETS
    BY <1>3, TransferAssumption DEF Sent, Frame
  <1>5. (\A i \in 1 .. Len(out) : out[i].blob <= session)'
    BY <1>1, <1>3 DEF OrderInv, GARBAGE
  <1>6. (\A m \in 0 .. PACKETS - 1 : stream[m] <= session)'
    BY <1>1 DEF OrderInv, GARBAGE
  <1>7. ASSUME NEW i \in 1 .. Len(out'), NEW j \in 1 .. Len(out'), i < j, out'[i].type = 3,
               out'[j].type = 3, out'[i].blob = out'[j].blob, out'[i].blob # GARBAGE
        PROVE  out'[i].number < out'[j].number
    <2>1. i + c < j + c /\ i + c \in 1 .. Len(out) /\ j + c \in 1 .. Len(out)
      BY <1>3, <1>7
    <2>2. /\ out[i + c].type = 3 /\ out[j + c].type = 3
          /\ out[i + c].blob = out[j + c].blob /\ out[i + c].blob # GARBAGE
          /\ out'[i].number = out[i + c].number /\ out'[j].number = out[j + c].number
      BY <1>3, <1>7
    <2>3. out[i + c].number < out[j + c].number
      BY <2>1, <2>2 DEF OrderInv
    <2> QED
      BY <2>2, <2>3
  <1>8. ASSUME NEW i \in 1 .. Len(out'), NEW m \in 0 .. PACKETS - 1, out'[i].type = 3,
               out'[i].blob # GARBAGE, out'[i].number <= m
        PROVE  stream'[m] # out'[i].blob
    BY <1>3, <1>8 DEF OrderInv
  <1>9. ASSUME NEW i \in 1 .. Len(out'), out'[i].type = 3, out'[i].blob = session, session # 0
        PROVE  out'[i].number < Due'
    BY <1>3, <1>4, <1>9 DEF OrderInv, GARBAGE
  <1>10. ASSUME NEW m \in 0 .. PACKETS - 1, stream'[m] = session, session # 0
         PROVE  m < Due'
    <2>1. stream[m] = session
      BY <1>10 DEF GARBAGE
    <2>2. m < PACKETS
      BY TransferAssumption
    <2> QED
      BY <1>10, <2>1, <2>2 DEF OrderInv
  <1> QED
    BY <1>5, <1>6, <1>7, <1>8, <1>9, <1>10 DEF OrderInv

\* The updater stores the first frame: those of its blob behind it are later ones.
LEMMA OrderStored ==
    ASSUME Parts, OrderInv, out # <<>>, out' = Tail(out), Head(out).type = 3,
           Head(out).number \in 0 .. PACKETS - 1,
           stream' = [stream EXCEPT ![Head(out).number] = Head(out).blob],
           session' = session, Due' = Due
    PROVE  OrderInv'
  <1> DEFINE f == Head(out)
  <1>1. out \in Seq(Sent) /\ Len(out) \in Nat /\ session \in Nat /\ PACKETS \in Nat
    BY Positions, TransferAssumption DEF Parts, WirePart, HostPart
  <1>2. /\ Len(out') = Len(out) - 1 /\ f = out[1] /\ 1 \in 1 .. Len(out)
        /\ \A i \in 1 .. Len(out') :
              i \in Int /\ i + 1 \in 1 .. Len(out) /\ out'[i] = out[i + 1]
    BY <1>1, Positions
  <1> HIDE DEF f
  <1>3. f.number \in 0 .. PACKETS - 1 /\ f.type = 3
    BY DEF f
  <1>4. \A m \in 0 .. PACKETS - 1 : \/ stream'[m] = stream[m]
                                    \/ m = f.number /\ stream'[m] = f.blob
    BY <1>3 DEF Parts, BufferPart, f
  <1>5. (\A i \in 1 .. Len(out) : out[i].blob <= session)'
    BY <1>2 DEF OrderInv
  <1>6. (\A m \in 0 .. PACKETS - 1 : stream[m] <= session)'
    <2>1. f.blob <= session
      BY <1>2 DEF OrderInv
    <2> QED
      BY <1>4, <2>1 DEF OrderInv
  <1>7. ASSUME NEW i \in 1 .. Len(out'), NEW j \in 1 .. Len(out'), i < j, out'[i].type = 3,
               out'[j].type = 3, out'[i].blob = out'[j].blob, out'[i].blob # GARBAGE
        PROVE  out'[i].number < out'[j].number
    <2>1. i + 1 < j + 1 /\ i + 1 \in 1 .. Len(out) /\ j + 1 \in 1 .. Len(out)
      BY <1>2, <1>7
    <2>2. /\ out[i + 1].type = 3 /\ out[j + 1].type = 3
          /\ out[i + 1].blob = out[j + 1].blob /\ out[i + 1].blob # GARBAGE
          /\ out'[i] = out[i + 1] /\ out'[j] = out[j + 1]
      BY <1>2, <1>7
    <2>3. out[i + 1].number < out[j + 1].number
      BY <2>1, <2>2 DEF OrderInv
    <2> QED
      BY <2>2, <2>3
  <1>8. ASSUME NEW i \in 1 .. Len(out'), NEW m \in 0 .. PACKETS - 1, out'[i].type = 3,
               out'[i].blob # GARBAGE, out'[i].number <= m
        PROVE  stream'[m] # out'[i].blob
    <2>1. i + 1 \in 1 .. Len(out) /\ 1 < i + 1 /\ out'[i] = out[i + 1] /\ out[i + 1] \in Sent
      BY <1>1, <1>2
    <2>2. stream[m] # out[i + 1].blob
      BY <1>8, <2>1 DEF OrderInv
    <2>3. ASSUME m = f.number, f.blob = out[i + 1].blob
          PROVE  FALSE
      <3>1. f.number < out[i + 1].number
        BY <1>2, <1>3, <1>8, <2>1, <2>3 DEF OrderInv
      <3>2. out[i + 1].number \in Int
        BY <1>1, <2>1 DEF Sent, Frame
      <3> QED
        BY <1>3, <1>8, <2>1, <2>3, <3>1, <3>2
    <2> QED
      BY <1>4, <2>1, <2>2, <2>3
  <1>9. ASSUME NEW i \in 1 .. Len(out'), out'[i].type = 3, out'[i].blob = session, session # 0
        PROVE  out'[i].number < Due'
    BY <1>2, <1>9 DEF OrderInv
  <1>10. ASSUME NEW m \in 0 .. PACKETS - 1, stream'[m] = session, session # 0
         PROVE  m < Due'
    <2>1. f.blob = session => f.number < Due
      BY <1>2, <1>3, <1>10 DEF OrderInv
    <2> QED
      BY <1>4, <1>10, <2>1 DEF OrderInv
  <1> QED
    BY <1>5, <1>6, <1>7, <1>8, <1>9, <1>10 DEF OrderInv

\* The host sends the next packet of its blob.
LEMMA OrderSent ==
    ASSUME Parts, OrderInv, NEW f, out' = Append(out, f), f.blob = session', stream' = stream,
           session' = session, f.type = 3, f.number = Due, Due' = Due + 1, Due \in Nat,
           session \in Blobs
    PROVE  OrderInv'
  <1>1. out \in Seq(Sent) /\ Len(out) \in Nat /\ session \in Nat /\ session # 0
    BY Positions DEF Parts, WirePart, Blobs
  <1>2. /\ Len(out') = Len(out) + 1
        /\ \A i \in 1 .. Len(out') : \/ i \in 1 .. Len(out) /\ out'[i] = out[i]
                                     \/ i = Len(out) + 1 /\ out'[i] = f
    BY <1>1, Positions
  <1>3. \A i \in 1 .. Len(out) : out[i].number \in Int
    BY <1>1, TransferAssumption DEF Sent, Frame
  <1>4. (\A i \in 1 .. Len(out) : out[i].blob <= session)'
    BY <1>1, <1>2 DEF OrderInv
  <1>5. (\A m \in 0 .. PACKETS - 1 : stream[m] <= session)'
    BY DEF OrderInv
  <1>6. ASSUME NEW i \in 1 .. Len(out'), NEW j \in 1 .. Len(out'), i < j, out'[i].type = 3,
               out'[j].type = 3, out'[i].blob = out'[j].blob, out'[i].blob # GARBAGE
        PROVE  out'[i].number < out'[j].number
    <2>1. i \in 1 .. Len(out) /\ out'[i] = out[i]
      BY <1>1, <1>2, <1>6
    <2>2. CASE j \in 1 .. Len(out) /\ out'[j] = out[j]
      BY <1>6, <2>1, <2>2 DEF OrderInv
    <2>3. CASE out'[j] = f
      BY <1>1, <1>6, <2>1, <2>3 DEF OrderInv
    <2> QED
      BY <1>2, <2>2, <2>3
  <1>7. ASSUME NEW i \in 1 .. Len(out'), NEW m \in 0 .. PACKETS - 1, out'[i].type = 3,
               out'[i].blob # GARBAGE, out'[i].number <= m
        PROVE  stream'[m] # out'[i].blob
    <2>1. CASE i \in 1 .. Len(out) /\ out'[i] = out[i]
      BY <1>7, <2>1 DEF OrderInv
    <2>2. CASE out'[i] = f
      BY <1>1, <1>7, <2>2 DEF OrderInv
    <2> QED
      BY <1>2, <2>1, <2>2
  <1>8. ASSUME NEW i \in 1 .. Len(out'), out'[i].type = 3, out'[i].blob = session
        PROVE  out'[i].number < Due'
    <2>1. CASE i \in 1 .. Len(out) /\ out'[i] = out[i]
      BY <1>1, <1>3, <1>8, <2>1 DEF OrderInv
    <2>2. CASE out'[i] = f
      BY <2>2
    <2> QED
      BY <1>2, <2>1, <2>2
  <1>9. ASSUME NEW m \in 0 .. PACKETS - 1, stream'[m] = session
        PROVE  m < Due'
    BY <1>1, <1>9 DEF OrderInv
  <1> QED
    BY <1>4, <1>5, <1>6, <1>7, <1>8, <1>9 DEF OrderInv

\* A new call: nothing of its blob is in transit or stored.
LEMMA OrderOpened ==
    ASSUME Parts, OrderInv, Open
    PROVE  OrderInv'
  <1>1. /\ session' = session + 1 /\ stream' = stream /\ out' = Append(out, Metadata)
        /\ Metadata.blob = session' /\ Metadata.type = 1
    BY DEF Open, Metadata, bufferVars
  <1>2. out \in Seq(Sent) /\ Len(out) \in Nat /\ session \in Nat
    BY Positions DEF Parts, WirePart, HostPart
  <1> DEFINE f == Metadata
  <1>3. /\ Len(out') = Len(out) + 1
        /\ \A i \in 1 .. Len(out') : \/ i \in 1 .. Len(out) /\ out'[i] = out[i]
                                     \/ out'[i] = f
    BY <1>1, <1>2, Positions
  <1>4. f.blob = session' /\ f.type = 1
    BY <1>1
  <1> HIDE DEF f
  <1>5. \A i \in 1 .. Len(out) : out[i].blob \in Int /\ out[i].blob <= session
    BY <1>2 DEF OrderInv, Sent, Frame, Blobs, GARBAGE
  <1>6. \A m \in 0 .. PACKETS - 1 : stream[m] \in Int /\ stream[m] <= session
    BY DEF OrderInv, Parts, BufferPart, Blobs, GARBAGE
  <1>7. \A i \in 1 .. Len(out') : out'[i].type = 3 =>
            /\ i \in 1 .. Len(out) /\ out'[i] = out[i] /\ out[i].blob # session'
    BY <1>1, <1>2, <1>3, <1>4, <1>5
  <1>8. (\A i \in 1 .. Len(out) : out[i].blob <= session)'
    BY <1>1, <1>2, <1>3, <1>4, <1>5
  <1>9. \A m \in 0 .. PACKETS - 1 : stream'[m] <= session' /\ stream'[m] # session'
    BY <1>1, <1>2, <1>6
  <1>10. ASSUME NEW i \in 1 .. Len(out'), NEW j \in 1 .. Len(out'), i < j, out'[i].type = 3,
                out'[j].type = 3, out'[i].blob = out'[j].blob, out'[i].blob # GARBAGE
         PROVE  out'[i].number < out'[j].number
    BY <1>7, <1>10 DEF OrderInv
  <1>11. ASSUME NEW i \in 1 .. Len(out'), NEW m \in 0 .. PACKETS - 1, out'[i].type = 3,
                out'[i].blob # GARBAGE, out'[i].number <= m
         PROVE  stream'[m] # out'[i].blob
    BY <1>1, <1>7, <1>11 DEF OrderInv
  <1> QED
    BY <1>7, <1>8, <1>9, <1>10, <1>11 DEF OrderInv

\* Every step keeps the order.
LEMMA OrderStep ==
    ASSUME Parts, OrderInv, Next
    PROVE  OrderInv'
  <1>1. /\ out \in Seq(Sent) /\ Len(out) \in Nat /\ HostPart /\ CounterPart
        /\ PACKETS \in Nat \ {0} /\ sequence \in Nat
    BY Positions, TransferAssumption DEF Parts, WirePart, HostPart
  <1>2. ASSUME out' = out, session' = session, Due' = Due \/ Due' = PACKETS,
               \A m \in 0 .. PACKETS - 1 : stream'[m] = stream[m] \/ stream'[m] = GARBAGE
        PROVE  OrderInv'
    <2>1. SameFrames(0) /\ \A i \in 1 .. Len(out) - 0 : out'[i].number = out[i + 0].number
      BY <1>1, <1>2, Same
    <2> QED
      BY <1>2, <2>1, OrderKept
  <1>3. ASSUME out # <<>>, out' = Tail(out), session' = session, Due' = Due \/ Due' = PACKETS,
               \A m \in 0 .. PACKETS - 1 : stream'[m] = stream[m] \/ stream'[m] = GARBAGE
        PROVE  OrderInv'
    <2>1. SameFrames(1) /\ \A i \in 1 .. Len(out) - 1 : out'[i].number = out[i + 1].number
      BY <1>1, <1>3, Same, Positions
    <2> QED
      BY <1>3, <2>1, OrderKept
  <1>4. CASE Open
    BY <1>4, OrderOpened
  <1>5. CASE MetadataReply
    <2>1. /\ host = "metadata" /\ session' = session /\ stream' = stream
          /\ \/ host' = "data" /\ sequence' = 0 /\ out' = Append(out, Data(0))
             \/ host' = "failed" /\ out' = out
      BY <1>5 DEF MetadataReply, bufferVars
    <2>2. CASE host' = "failed"
      BY <1>2, <2>1, <2>2 DEF Due
    <2>3. CASE host' = "data"
      <3>1. Due = 0 /\ Due' = Due + 1 /\ session \in Blobs
        BY <1>1, <2>1, <2>3 DEF Due, HostPart
      <3>2. Data(0).type = 3 /\ Data(0).number = Due /\ Data(0).blob = session'
        BY <2>1, <3>1 DEF Data
      <3> QED
        BY <2>1, <2>3, <3>1, <3>2, OrderSent
    <2> QED
      BY <2>1, <2>2, <2>3
  <1>6. CASE DataReply
    <2>1. /\ host = "data" /\ session' = session /\ stream' = stream
          /\ \/ host' = "data" /\ sequence' = sequence + 1 /\ out' = Append(out, Data(sequence'))
             \/ host' = "failed" /\ out' = out
      BY <1>6 DEF DataReply, bufferVars
    <2>2. CASE host' = "failed"
      BY <1>2, <2>1, <2>2 DEF Due
    <2>3. CASE host' = "data"
      <3>1. Due = sequence + 1 /\ Due' = Due + 1 /\ session \in Blobs /\ Due \in Nat
        BY <1>1, <2>1, <2>3 DEF Due, HostPart
      <3>2. Data(sequence').type = 3 /\ Data(sequence').number = Due
            /\ Data(sequence').blob = session'
        BY <2>1, <2>3, <3>1 DEF Data
      <3> QED
        BY <2>1, <2>3, <3>1, <3>2, OrderSent
    <2> QED
      BY <2>1, <2>2, <2>3
  <1>7. CASE FinalReply \/ GiveUp
    <2>1. /\ out' = out /\ session' = session /\ stream' = stream
          /\ host' \notin {"metadata", "data"}
      BY <1>7 DEF FinalReply, GiveUp, bufferVars
    <2> QED
      BY <1>2, <2>1 DEF Due
  <1>8. CASE Receive
    <2> DEFINE f == Head(out)
    <2>1. /\ out # <<>> /\ out' = Tail(out) /\ session' = session /\ Due' = Due
          /\ \/ AcceptMetadata(f) \/ MetadataNoMemory(f) \/ RequestBatchRetry(FALSE)
             \/ f.type = 3 /\ IsNext(f) /\ StorePacket(f)
             \/ Trap
      BY <1>8 DEF Receive, AcceptData, hostVars, Due
    <2>2. CASE f.type = 3 /\ IsNext(f) /\ StorePacket(f)
      <3>1. f \in Sent
        BY <1>1, <2>1
      <3>2. /\ f.number = next_packet /\ next_packet \in 0 .. PACKETS - 1
            /\ stream' = [stream EXCEPT ![next_packet] = f.blob]
        BY <2>2, <3>1, StoreTypes DEF Parts
      <3> QED
        BY <2>1, <2>2, <3>2, OrderStored
    <2>3. CASE AcceptMetadata(f) \/ MetadataNoMemory(f) \/ RequestBatchRetry(FALSE)
               \/ Trap
      <3>1. stream' = stream \/ stream' = [i \in 0 .. PACKETS - 1 |-> GARBAGE]
        BY <2>3 DEF AcceptMetadata, MetadataNoMemory, RequestBatchRetry, Trap,
                    bufferVars
      <3>2. \A m \in 0 .. PACKETS - 1 : stream'[m] = stream[m] \/ stream'[m] = GARBAGE
        BY <3>1
      <3> QED
        BY <1>3, <2>1, <3>2
    <2> QED
      BY <2>1, <2>2, <2>3
  <1>9. CASE Erase \/ Write \/ Stall
    <2>1. out' = out /\ session' = session /\ stream' = stream /\ Due' = Due
      BY <1>9 DEF Erase, Write, Stall, RequestBatchRetry, bufferVars, hostVars, Due
    <2> QED
      BY <1>2, <2>1
  <1>10. CASE Fault
    <2>1. session' = session /\ stream' = stream /\ Due' = Due
      BY <1>10 DEF Fault, bufferVars, hostVars, Due
    <2>2. PICK c \in {0, 1} :
             /\ SameFrames(c)
             /\ \A i \in 1 .. Len(out) - c :
                   out'[i].type = 3 => out'[i].number = out[i + c].number
      BY <1>10, FaultReports
    <2> QED
      BY <2>1, <2>2, OrderKept
  <1>11. CASE PowerCycle
    <2>1. /\ out' = <<>> /\ stream' = [i \in 0 .. PACKETS - 1 |-> GARBAGE]
          /\ session' = session
      BY <1>11 DEF PowerCycle, hostVars
    <2>2. Len(out') = 0 /\ session \in Nat
      BY <1>1, <2>1 DEF HostPart
    <2>3. \A i \in 1 .. Len(out') : FALSE
      BY <2>2
    <2>4. \A m \in 0 .. PACKETS - 1 : stream'[m] = 0
      BY <2>1 DEF GARBAGE
    <2>5. \A m \in 0 .. PACKETS - 1 : stream'[m] <= session'
      BY <2>1, <2>2, <2>4
    <2> QED
      BY <2>1, <2>3, <2>4, <2>5 DEF OrderInv
  <1> QED
    BY <1>4, <1>5, <1>6, <1>7, <1>8, <1>9, <1>10, <1>11 DEF Next, HostStep, DeviceStep

----------------------------------------------------------------------------
(* The theorem on stale replies. *)

\* Every step keeps the invariant of stale replies.
LEMMA StaleStep == IInv /\ IInv' /\ StaleInv /\ [Next]_vars => StaleInv'
  <1> SUFFICES ASSUME IInv, IInv', StaleInv, [Next]_vars
               PROVE  StaleInv'
    OBVIOUS
  <1>1. Parts /\ Parts' /\ LineInv /\ OrderInv /\ AcceptedVerified
    BY DEF IInv, StaleInv
  <1>2. CASE Next
    <2>1. LineInv'
      BY <1>1, <1>2, HostLine, ReceiveLine, QuietLine DEF Next, DeviceStep
    <2>2. OrderInv' /\ AcceptedVerified'
      BY <1>1, <1>2, OrderStep, AcceptedStep
    <2> QED
      BY <2>1, <2>2 DEF StaleInv
  <1>3. CASE UNCHANGED vars
    <2>1. /\ host' = host /\ session' = session /\ sequence' = sequence /\ out' = out
          /\ in' = in /\ device' = device /\ batch_first_packet' = batch_first_packet
          /\ stream' = stream /\ verified' = verified
      BY <1>3 DEF vars, hostVars, counterVars, bufferVars, flashVars
    <2>2. SameFrames(0) /\ SameReplies(0) /\ Onward /\ Again' = Again
      BY <1>1, <2>1, Same DEF Onward, Again
    <2>3. LineInv'
      BY <1>1, <2>2, Dropped
    <2>4. OrderInv' /\ AcceptedVerified'
      BY <1>1, <2>1 DEF OrderInv, Due, AcceptedVerified
    <2> QED
      BY <2>3, <2>4 DEF StaleInv
  <1> QED
    BY <1>2, <1>3

\* The line starts with the updater alone.
LEMMA StaleInit == Init => StaleInv
  <1> SUFFICES ASSUME Init
               PROVE  StaleInv
    OBVIOUS
  <1>1. /\ in = <<>> /\ out = <<>> /\ session = 0 /\ host = "idle"
        /\ stream = [i \in 0 .. PACKETS - 1 |-> GARBAGE]
    BY DEF Init
  <1>2. DOMAIN Line = {0}
    <2>1. Len(in) = 0 /\ Len(out) = 0
      BY <1>1
    <2>2. Places(in, out) = {0}
      BY <2>1 DEF Places
    <2> QED
      BY <2>2 DEF Line, LineOf
  <1>3. \A i, j \in {0} : ~(i < j)
    OBVIOUS
  <1>4. LineInv
    BY <1>1, <1>2, <1>3 DEF LineInv, Reach
  <1>5. Len(out) = 0
    BY <1>1
  <1>6. \A i \in 1 .. Len(out) : FALSE
    BY <1>5
  <1>7. \A m \in 0 .. PACKETS - 1 : stream[m] = 0
    BY <1>1 DEF GARBAGE
  <1>8. OrderInv
    BY <1>1, <1>6, <1>7 DEF OrderInv
  <1> QED
    BY <1>1, <1>4, <1>8 DEF StaleInv, AcceptedVerified

\* A normal return of restore_blob means that the updater verified the blob this
\* call sent, as long as there were not more calls than the image has packets,
\* whatever replies earlier calls left unread and whatever was lost or damaged.
THEOREM AcceptedSent == Spec => []AcceptedVerified
  <1>1. StaleInv => AcceptedVerified
    BY DEF StaleInv
  <1> QED
    BY <1>1, StaleInit, StaleStep, Inductive, PTL DEF Spec
============================================================================
