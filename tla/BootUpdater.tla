---------------------------- MODULE BootUpdater ----------------------------
(***************************************************************************)
(* The image transfer of a restore: cc2camera/hid_transport.py's           *)
(* restore_blob on the host, the main-U-Boot updater                       *)
(* (uboot_updater_reconstructed.c) on the camera, and the HID reports      *)
(* between them.  Reports may be lost or damaged, the host may time out on *)
(* a reply that arrives later, and a later call of restore_blob finds the  *)
(* replies the earlier one left unread.  The updater reports success when  *)
(* the image in RAM matches its MD5 and only then erases and writes,       *)
(* without looking at either result.                                       *)
(*                                                                         *)
(* A blob is identified by the session that sends it; a data packet        *)
(* carries its blob's identity, or GARBAGE when damage went past the       *)
(* additive checksum.  Replies are protected by the same checksum alone:   *)
(* a damaged reply is one whose checksum fails.                            *)
(***************************************************************************)
EXTENDS Integers, Sequences

CONSTANTS
    PACKETS,          \* plan.packet_count
    SESSIONS,         \* bound: calls of restore_blob, each with its own blob
    MAX_FAULTS,       \* bound: reports lost or damaged, and stalls
    MAX_POWER_CYCLES  \* bound: power cycles of the camera

ASSUME TransferAssumption ==
    /\ PACKETS \in Nat \ {0}
    /\ SESSIONS \in Nat
    /\ MAX_FAULTS \in Nat
    /\ MAX_POWER_CYCLES \in Nat

Blobs == 1 .. SESSIONS
GARBAGE == 0

\* What the flash holds besides a blob's image.
OLD == 0
ERASED == -1
PARTIAL == -2
MOVED == -3

\* build_update_blob asks for an acknowledgement of every packet.
PACKETS_PER_ACK == 1

\* request_batch_retry gives up at the fifth error.
RETRY_LIMIT == 5

\* Its counters are uint8_t and go on counting after that.
UINT8 == 256

VARIABLES
    host,         \* restore_blob's position, or how it ended
    session,      \* the current or last call, and the blob it sends
    sequence,     \* the data packet whose reply the host awaits
    out, in,      \* reports in transit to the camera, and to the host
    device,       \* what the updater is doing
    allocated,    \* does U.stream point to a buffer
    room,         \* packets that buffer has room for
    packet_count, next_packet, batch_first_packet, stream_used,
    stream,       \* RAM from the buffer's start on, packet by packet
    moved,        \* is the header's flash_offset damaged
    bad_frame_count, stall_count, terminal_state,
    flash,
    verified,     \* observation: blobs whose MD5 matched
    faults, powerCycles

hostVars == <<host, session, sequence>>
counterVars == <<packet_count, next_packet, batch_first_packet, stream_used,
                 bad_frame_count, stall_count, terminal_state>>
bufferVars == <<allocated, room, stream, moved>>
flashVars == <<flash, verified>>
boundVars == <<faults, powerCycles>>
vars == <<hostVars, out, in, device, counterVars, bufferVars, flashVars, boundVars>>

Ended == {"accepted", "rejected", "failed", "timeout"}

Frame == [type : {1, 3}, number : 0 .. PACKETS + 1, blob : Blobs \union {GARBAGE},
          moved : BOOLEAN, sum : BOOLEAN]
Reply == [type : {2, 5}, value : 0 .. PACKETS + 1, sum : BOOLEAN]

TypeOK ==
    /\ host \in {"idle", "metadata", "data"} \union Ended
    /\ session \in 0 .. SESSIONS
    /\ sequence \in 0 .. PACKETS - 1
    /\ out \in Seq(Frame)
    /\ in \in Seq(Reply)
    /\ device \in {"receive", "erase", "write", "done", "dead"}
    /\ packet_count \in 0 .. PACKETS + 1
    /\ next_packet \in 0 .. PACKETS
    /\ batch_first_packet \in 0 .. PACKETS
    /\ stream_used \in 0 .. PACKETS
    /\ bad_frame_count \in 0 .. UINT8 - 1
    /\ stall_count \in 0 .. UINT8 - 1
    /\ terminal_state \in 0 .. 2
    /\ allocated \in BOOLEAN
    /\ room \in 0 .. PACKETS
    /\ stream \in [0 .. PACKETS - 1 -> Blobs \union {GARBAGE}]
    /\ moved \in BOOLEAN
    /\ flash \in Blobs \union {OLD, ERASED, PARTIAL, MOVED}
    /\ verified \subseteq Blobs
    /\ faults \in 0 .. MAX_FAULTS
    /\ powerCycles \in 0 .. MAX_POWER_CYCLES

\* The camera enumerated as the bootloader HID with its flash still old; U is
\* zero-initialised.
Init ==
    /\ host = "idle" /\ session = 0 /\ sequence = 0
    /\ out = <<>> /\ in = <<>>
    /\ device = "receive"
    /\ packet_count = 0 /\ next_packet = 0 /\ batch_first_packet = 0
    /\ stream_used = 0 /\ bad_frame_count = 0 /\ stall_count = 0 /\ terminal_state = 0
    /\ allocated = FALSE /\ room = 0
    /\ stream = [i \in 0 .. PACKETS - 1 |-> GARBAGE]
    /\ moved = FALSE
    /\ flash = OLD
    /\ verified = {}
    /\ faults = 0 /\ powerCycles = 0

----------------------------------------------------------------------------
(* The host: restore_blob. *)

Metadata == [type |-> 1, number |-> PACKETS, blob |-> session', moved |-> FALSE, sum |-> TRUE]
Data(i) == [type |-> 3, number |-> i, blob |-> session, moved |-> FALSE, sum |-> TRUE]

\* A new call opens the one bootloader HID and writes the metadata report.
Open ==
    /\ host \in {"idle", "failed", "rejected", "timeout"}
    /\ session < SESSIONS
    /\ device \in {"receive", "erase", "write"}
    /\ session' = session + 1
    /\ host' = "metadata"
    /\ out' = Append(out, Metadata)
    /\ UNCHANGED <<sequence, in, device, counterVars, bufferVars, flashVars, boundVars>>

IsAck(r, n) == r.sum /\ r.type = 2 /\ r.value = n

\* The reply to the metadata must acknowledge packet 0; packet 0 follows.
MetadataReply ==
    /\ host = "metadata" /\ in # <<>>
    /\ in' = Tail(in)
    /\ IF IsAck(Head(in), 0)
       THEN host' = "data" /\ sequence' = 0 /\ out' = Append(out, Data(0))
       ELSE host' = "failed" /\ UNCHANGED <<sequence, out>>
    /\ UNCHANGED <<session, device, counterVars, bufferVars, flashVars, boundVars>>

\* Every reply but the last must acknowledge the next packet: any other number
\* is a retry request, which is not implemented.
DataReply ==
    /\ host = "data" /\ in # <<>> /\ sequence + 1 # PACKETS
    /\ in' = Tail(in)
    /\ IF IsAck(Head(in), sequence + 1)
       THEN sequence' = sequence + 1 /\ out' = Append(out, Data(sequence')) /\ UNCHANGED host
       ELSE host' = "failed" /\ UNCHANGED <<sequence, out>>
    /\ UNCHANGED <<session, device, counterVars, bufferVars, flashVars, boundVars>>

\* Mutant of FinalReply: an acknowledgement counts as success.
FinalReplyAnyType ==
    /\ host = "data" /\ in # <<>> /\ sequence + 1 = PACKETS
    /\ in' = Tail(in)
    /\ host' = IF ~Head(in).sum THEN "failed"
               ELSE IF Head(in).value = 0 THEN "rejected" ELSE "accepted"
    /\ UNCHANGED <<session, sequence, out, device, counterVars, bufferVars, flashVars,
                   boundVars>>

\* The reply to the final packet must be the terminal status.
FinalReply ==
    /\ host = "data" /\ in # <<>> /\ sequence + 1 = PACKETS
    /\ in' = Tail(in)
    /\ host' = CASE ~Head(in).sum \/ Head(in).type # 5 -> "failed"
                 [] Head(in).sum /\ Head(in).type = 5 /\ Head(in).value = 0 -> "rejected"
                 [] OTHER -> "accepted"
    /\ UNCHANGED <<session, sequence, out, device, counterVars, bufferVars, flashVars,
                   boundVars>>

\* A short write, or a read that times out, although a reply may still come.
GiveUp ==
    /\ host \in {"metadata", "data"}
    /\ host' = "timeout"
    /\ UNCHANGED <<session, sequence, out, in, device, counterVars, bufferVars, flashVars,
                   boundVars>>

----------------------------------------------------------------------------
(* The camera: the updater's state machine. *)

Ack(n) == [type |-> 2, value |-> n, sum |-> TRUE]
Terminal(success) == [type |-> 5, value |-> success, sum |-> TRUE]
Send(r) == in' = Append(in, r)

\* The fifth error in a row is terminal; otherwise rewind to the first packet
\* of the batch and ask for it again.
RequestBatchRetry(stalled) ==
    LET errors == ((IF stalled THEN stall_count ELSE bad_frame_count) + 1) % UINT8
    IN  /\ stall_count' = IF stalled THEN errors ELSE stall_count
        /\ bad_frame_count' = IF stalled THEN bad_frame_count ELSE errors
        /\ IF errors >= RETRY_LIMIT
           THEN /\ Send(Terminal(0))
                /\ terminal_state' = 2
                /\ UNCHANGED <<next_packet, stream_used>>
           ELSE /\ next_packet' = batch_first_packet
                /\ stream_used' = batch_first_packet
                /\ Send(Ack(batch_first_packet))
                /\ UNCHANGED terminal_state
        /\ UNCHANGED <<packet_count, batch_first_packet, bufferVars, flashVars, device>>

\* Metadata is taken without its checksum, which says here whether it is as the
\* host sent it.  The buffer has the size it names, too short when that is damaged,
\* and holds whatever the heap holds there: nothing useful, or the stream of an
\* earlier session.
AcceptMetadata(f) ==
    /\ packet_count' = f.number
    /\ next_packet' = 0 /\ batch_first_packet' = 0 /\ stream_used' = 0
    /\ bad_frame_count' = 0 /\ stall_count' = 0 /\ terminal_state' = 0
    /\ allocated' = TRUE
    /\ room' \in (IF f.sum THEN {PACKETS} ELSE 0 .. PACKETS)
    /\ stream' \in {stream, [i \in 0 .. PACKETS - 1 |-> GARBAGE]}
    /\ Send(Ack(0))
    /\ UNCHANGED <<moved, flashVars, device>>

\* malloc fails: the counters keep their values and no reply is sent.
MetadataNoMemory(f) ==
    /\ packet_count' = f.number
    /\ allocated' = FALSE
    /\ UNCHANGED <<in, next_packet, batch_first_packet, stream_used, bad_frame_count,
                   stall_count, terminal_state, room, stream, moved, flashVars, device>>

\* MD5 of the image in RAM against the header, both as just received: it
\* matches exactly when every packet is one blob's.
Md5Matches(s) == s[0] # GARBAGE /\ \A i \in 0 .. PACKETS - 1 : s[i] = s[0]

\* Mutant of VerifyAndProgram: the mismatch is reported and programmed.
VerifyAndProgramAnyway ==
    /\ Send(Terminal(IF Md5Matches(stream') THEN 1 ELSE 0))
    /\ device' = "erase"
    /\ UNCHANGED <<terminal_state, flash, verified>>

\* Mutant of VerifyAndProgram: success is reported, and nothing programmed.
VerifyAndProgramNever ==
    /\ Send(Terminal(IF Md5Matches(stream') THEN 1 ELSE 0))
    /\ terminal_state' = 2
    /\ verified' = IF Md5Matches(stream') THEN verified \union {stream'[0]} ELSE verified
    /\ UNCHANGED <<device, flash>>

\* Success is sent before the first erase.
VerifyAndProgram ==
    IF Md5Matches(stream')
    THEN /\ Send(Terminal(1))
         /\ device' = "erase"
         /\ verified' = verified \union {stream'[0]}
         /\ UNCHANGED <<terminal_state, flash>>
    ELSE /\ Send(Terminal(0))
         /\ terminal_state' = 2
         /\ UNCHANGED <<device, flashVars>>

\* Mutant of StorePacket: next_packet counted, stream_used not.
StorePacketInPlace(f) ==
    /\ stream' = [stream EXCEPT ![stream_used] = f.blob]
    /\ moved' = IF f.number = 0 THEN f.moved ELSE moved
    /\ next_packet' = next_packet + 1
    /\ bad_frame_count' = 0
    /\ UNCHANGED <<packet_count, allocated, room, stall_count, stream_used>>

StorePacket(f) ==
    /\ stream' = [stream EXCEPT ![stream_used] = f.blob]
    /\ moved' = IF f.number = 0 THEN f.moved ELSE moved
    /\ stream_used' = stream_used + 1
    /\ next_packet' = next_packet + 1
    /\ bad_frame_count' = 0
    /\ UNCHANGED <<packet_count, allocated, room, stall_count>>

\* The checksum holds and the frame is the packet due.
IsNext(f) == f.sum /\ f.number = next_packet

\* The last packet starts verification; any other that completes a batch is
\* acknowledged.
AcceptData(f) ==
    /\ StorePacket(f)
    /\ IF f.number = packet_count - 1
       THEN VerifyAndProgram /\ UNCHANGED batch_first_packet
       ELSE /\ IF next_packet' % PACKETS_PER_ACK = 0
               THEN Send(Ack(next_packet')) /\ batch_first_packet' = next_packet'
               ELSE UNCHANGED <<in, batch_first_packet>>
            /\ UNCHANGED <<terminal_state, flashVars, device>>

\* The updater traps and hangs.
Trap ==
    /\ device' = "dead"
    /\ UNCHANGED <<in, counterVars, bufferVars, flashVars>>

\* memcpy would write through the null pointer a failed malloc left, or past the
\* end of a buffer that is too short.
Outside == ~allocated \/ stream_used >= room

\* updater_receive takes one report and handles it to the end; a data frame that
\* is not the one due asks for its batch again.  Damaged metadata may divide by
\* zero.  A packet behind the end of the buffer may trap, or lie in RAM where the
\* MD5 and the flash write find it.
Receive ==
    /\ device = "receive" /\ out # <<>>
    /\ out' = Tail(out)
    /\ LET f == Head(out)
       IN  \/ f.type = 1 /\ AcceptMetadata(f)
           \/ f.type = 1 /\ MetadataNoMemory(f)
           \/ f.type = 1 /\ ~f.sum /\ Trap
           \/ f.type = 3 /\ ~IsNext(f) /\ RequestBatchRetry(FALSE)
           \/ f.type = 3 /\ IsNext(f) /\ allocated /\ AcceptData(f)
           \/ f.type = 3 /\ IsNext(f) /\ Outside /\ Trap
    /\ UNCHANGED <<hostVars, boundVars>>

\* spi_flash_erase; its result is ignored.
Erase ==
    /\ device = "erase"
    /\ flash' \in {ERASED, flash}
    /\ device' = "write"
    /\ UNCHANGED <<hostVars, out, in, counterVars, bufferVars, verified, boundVars>>

\* spi_flash_write of the stream at the header's offset; its result is ignored.
Write ==
    /\ device = "write"
    /\ flash' \in (IF flash = ERASED THEN {IF moved THEN MOVED ELSE stream[0], PARTIAL}
                                     ELSE {PARTIAL, flash})
    /\ device' = "done"
    /\ terminal_state' = 1
    /\ UNCHANGED <<hostVars, out, in, packet_count, next_packet, batch_first_packet,
                   stream_used, bad_frame_count, stall_count, bufferVars, verified,
                   boundVars>>

----------------------------------------------------------------------------
(* What goes wrong. *)

\* The report at the head of a queue is lost, or damaged: so that its checksum
\* fails, or so that it does not (data), or where no checksum is looked at
\* (metadata).
DamagedFrames(f) ==
    {[f EXCEPT !.sum = FALSE]} \union
    (IF f.type = 3
     THEN {[f EXCEPT !.blob = GARBAGE]} \union
          (IF f.number = 0 THEN {[f EXCEPT !.moved = TRUE]} ELSE {})
     ELSE {[f EXCEPT !.sum = FALSE, !.number = n] : n \in 0 .. PACKETS + 1})

Fault ==
    /\ faults < MAX_FAULTS
    /\ faults' = faults + 1
    /\ \/ /\ out # <<>>
          /\ \/ out' = Tail(out)
             \/ \E f \in DamagedFrames(Head(out)) : out' = <<f>> \o Tail(out)
          /\ UNCHANGED in
       \/ /\ in # <<>>
          /\ in' \in {Tail(in), <<[Head(in) EXCEPT !.sum = FALSE]>> \o Tail(in)}
          /\ UNCHANGED out
    /\ UNCHANGED <<hostVars, device, counterVars, bufferVars, flashVars, powerCycles>>

\* The updater's stalled-transfer timer asks for the batch again unprompted.
Stall ==
    /\ device = "receive" /\ allocated /\ terminal_state = 0
    /\ faults < MAX_FAULTS
    /\ faults' = faults + 1
    /\ RequestBatchRetry(TRUE)
    /\ UNCHANGED <<hostVars, out, powerCycles>>

\* The camera loses power and starts again.  An untouched flash still holds the
\* upgrade words, so the updater comes back with its state and USB queues
\* empty; an interrupted erase or write leaves a flash that does not boot.
PowerCycle ==
    /\ powerCycles < MAX_POWER_CYCLES
    /\ powerCycles' = powerCycles + 1
    /\ out' = <<>> /\ in' = <<>>
    /\ packet_count' = 0 /\ next_packet' = 0 /\ batch_first_packet' = 0
    /\ stream_used' = 0 /\ bad_frame_count' = 0 /\ stall_count' = 0 /\ terminal_state' = 0
    /\ allocated' = FALSE /\ room' = 0
    /\ stream' = [i \in 0 .. PACKETS - 1 |-> GARBAGE]
    /\ moved' = FALSE
    /\ flash' \in (IF device \in {"erase", "write"} THEN {flash, PARTIAL} ELSE {flash})
    /\ device' = IF flash' = OLD THEN "receive" ELSE "dead"
    /\ UNCHANGED <<hostVars, verified, faults>>

HostStep == Open \/ MetadataReply \/ DataReply \/ FinalReply \/ GiveUp
DeviceStep == Receive \/ Erase \/ Write

Next == HostStep \/ DeviceStep \/ Fault \/ Stall \/ PowerCycle

\* A read of the host returns or times out; U-Boot's loop keeps running.
Spec == Init /\ [][Next]_vars
FairSpec ==
    /\ Spec
    /\ WF_vars(MetadataReply \/ DataReply \/ FinalReply \/ GiveUp)
    /\ WF_vars(DeviceStep)

----------------------------------------------------------------------------
(* Properties. *)

\* REFERENCE.md: "A failed transfer before the MD5 check does not erase flash."
\* The flash leaves its old content only by the updater programming a stream
\* whose every packet is one blob's, and holds a blob's image only if that blob
\* passed the MD5, whatever was lost, damaged, resent or left over.
EraseOnlyVerified ==
    /\ device \in {"erase", "write"} => Md5Matches(stream) /\ stream[0] \in verified
    /\ flash # OLD => verified # {}
    /\ flash \in Blobs => flash \in verified

\* decode_boot_terminal_status: "true means received RAM bytes passed header
\* MD5".  restore_blob returns normally only if the updater verified the very
\* blob this call sent, not on replies left over from an earlier call.  A call
\* can be carried by such replies for one packet more than the call before it,
\* so the replies alone do not settle it after as many calls as packets.
AcceptedVerified ==
    host = "accepted" /\ session <= PACKETS => session \in verified

\* Host and updater number packets, acknowledgements and the last packet alike:
\* a first call over an undisturbed link never fails on an unexpected reply.
CleanTransferAgrees ==
    session = 1 /\ faults = 0 /\ powerCycles = 0 => host \notin {"failed", "rejected"}

\* "Bootloader accepted the image MD5 and has started erase/write": once
\* restore_blob returned, the updater runs its programming to the end unless the
\* camera loses power.
AcceptedIsProgrammed ==
    host = "accepted" ~> (device = "done" \/ powerCycles > 0)
=============================================================================
