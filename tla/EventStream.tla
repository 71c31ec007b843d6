---------------------------- MODULE EventStream ----------------------------
(***************************************************************************)
(* One direction of a GG-IPC connection, byte by byte: threads that frame   *)
(* packets in the static send buffer and write them to a socket of finite   *)
(* capacity (ipc_send_packet, eventstream_encode, gg_file_write), and a     *)
(* receiver that reads and checks them (eventsteam_get_packet,              *)
(* gg_file_read, eventstream_decode).  The other end is assumed to frame    *)
(* with the same code, as the mock server does.                             *)
(*                                                                         *)
(* A byte is <<n, i>>, the i-th byte of the n-th packet that was encoded.   *)
(* A checksum matches exactly the bytes of one packet in their order: that  *)
(* CRC-32 misses some corruptions is abstracted.  Interrupted system calls  *)
(* (EINTR, retried) change nothing and are stuttering steps.                *)
(***************************************************************************)
EXTENDS Integers, Sequences

CONSTANTS
    Threads,      \* threads that send
    NoThread,     \* nobody holds the mutex
    PreludeLen,   \* bytes of the prelude with its checksum: 12 in the code
    CrcLen,       \* bytes of the message checksum: 4 in the code
    Shapes,       \* [headers, payload : Nat, form]: what may be sent
    SendMax,      \* size of ipc_send_mem at this end: GG_IPC_MAX_MSG_LEN
    RecvMax,      \* size of ipc_recv_mem at the other end
    Capacity,     \* bytes the socket holds
    MaxSends      \* bound on the number of sends

Forms == {"good", "bad_lengths", "bad_headers"}

ASSUME SendersAssumption == NoThread \notin Threads
ASSUME LengthsAssumption ==
    /\ PreludeLen \in Nat \ {0} /\ CrcLen \in Nat \ {0}
    /\ SendMax \in Nat /\ RecvMax \in Nat \ {0}
    /\ Capacity \in Nat \ {0} /\ MaxSends \in Nat
    /\ Shapes \subseteq [headers : Nat, payload : Nat, form : Forms]

ASSUME RecvHoldsPrelude == PreludeLen <= RecvMax

VARIABLES
    mtx,        \* holder of stream_state_mtx
    calls,      \* sends begun
    send_pc,    \* [Threads -> where ipc_send_packet is]
    rest,       \* [Threads -> the packet it writes and the bytes written]
    send_mem,   \* number of the packet that ipc_send_mem holds, 0 at first
    packets,    \* the packets encoded so far
    wire,       \* bytes in the socket
    open,       \* the sending end has not closed
    hung,       \* the receiving end has stopped reading
    rx,         \* the receiver: section, packet of the prelude, bytes read
    recv_err,   \* what eventsteam_get_packet failed with, or "none"
    sent, received, cut   \* history: see PacketChannel

sender == <<mtx, calls, send_pc, rest, send_mem, packets>>
vars == <<mtx, calls, send_pc, rest, send_mem, packets, wire, open, hung,
          rx, recv_err, sent, received, cut>>

-----------------------------------------------------------------------------
(* Lengths.                                                                *)

message_len(s) == PreludeLen + s.headers + s.payload + CrcLen

data_len(n) == message_len(packets[n]) - PreludeLen

(* The bytes of packet n from its byte a + 1 to its byte b.                *)
Bytes(n, a, b) == [i \in 1 .. (b - a) |-> <<n, a + i>>]

Smaller(a, b) == IF a < b THEN a ELSE b

NoWrite == [packet |-> 0, done |-> 0]

NewRead == [section |-> "prelude", packet |-> 0, got |-> <<>>]

Init ==
    /\ mtx = NoThread
    /\ calls = 0
    /\ send_pc = [t \in Threads |-> "idle"]
    /\ rest = [t \in Threads |-> NoWrite]
    /\ send_mem = 0
    /\ packets = <<>>
    /\ wire = <<>>
    /\ open = TRUE
    /\ hung = FALSE
    /\ rx = NewRead
    /\ recv_err = "none"
    /\ sent = <<>>
    /\ received = <<>>
    /\ cut = {}

-----------------------------------------------------------------------------
(* The sending end.                                                        *)

SendBegin(t) ==
    /\ open
    /\ send_pc[t] = "idle"
    /\ calls < MaxSends
    /\ calls' = calls + 1
    /\ send_pc' = [send_pc EXCEPT ![t] = "lock"]
    /\ UNCHANGED <<mtx, rest, send_mem, packets, wire, open, hung, rx,
                   recv_err, sent, received, cut>>

(* Mutant: the packet is sent without the mutex.                           *)
SendLock_Unlocked(t) ==
    /\ send_pc[t] = "lock"
    /\ send_pc' = [send_pc EXCEPT ![t] = "encode"]
    /\ UNCHANGED <<mtx, calls, rest, send_mem, packets, wire, open, hung, rx,
                   recv_err, sent, received, cut>>

SendLock(t) ==
    /\ send_pc[t] = "lock"
    /\ mtx = NoThread
    /\ mtx' = t
    /\ send_pc' = [send_pc EXCEPT ![t] = "encode"]
    /\ UNCHANGED <<calls, rest, send_mem, packets, wire, open, hung, rx,
                   recv_err, sent, received, cut>>

(* eventstream_encode frames the packet in ipc_send_mem.                   *)
Encode(t, s) ==
    /\ send_pc[t] = "encode"
    /\ message_len(s) <= SendMax
    /\ packets' = Append(packets, s)
    /\ send_mem' = Len(packets) + 1
    /\ rest' = [rest EXCEPT ![t] = [packet |-> Len(packets) + 1, done |-> 0]]
    /\ send_pc' = [send_pc EXCEPT ![t] = "write"]
    /\ UNCHANGED <<mtx, calls, wire, open, hung, rx, recv_err, sent,
                   received, cut>>

(* ipc_send_packet returns and its caller unlocks.                         *)
SendReturn(t) ==
    /\ mtx' = NoThread
    /\ send_pc' = [send_pc EXCEPT ![t] = "idle"]
    /\ rest' = [rest EXCEPT ![t] = NoWrite]

(* The packet does not fit in ipc_send_mem: nothing is written.            *)
EncodeFail(t, s) ==
    /\ send_pc[t] = "encode"
    /\ message_len(s) > SendMax
    /\ SendReturn(t)
    /\ UNCHANGED <<calls, send_mem, packets, wire, open, hung, rx,
                   recv_err, sent, received, cut>>

(* One write of gg_file_write takes k of the bytes that are left; the last  *)
(* one ends the send.                                                       *)
Write(t, k) ==
    LET total == message_len(packets[rest[t].packet])
        done  == rest[t].done
    IN  /\ send_pc[t] = "write"
        /\ recv_err = "none"
        /\ k <= Smaller(total - done, Capacity - Len(wire))
        /\ wire' = wire \o Bytes(send_mem, done, done + k)
        /\ IF done + k = total
           THEN /\ SendReturn(t)
                /\ sent' = Append(sent, rest[t].packet)
           ELSE /\ rest' = [rest EXCEPT ![t].done = done + k]
                /\ UNCHANGED <<mtx, send_pc, sent>>
        /\ UNCHANGED <<calls, send_mem, packets, open, hung, rx, recv_err,
                       received, cut>>

(* A packet of which some bytes were written and the rest never will be.   *)
Torn(t) == send_pc[t] = "write" /\ rest[t].done > 0

CutIf(torn) ==
    cut' = IF torn /\ cut = {} THEN {Len(sent)} ELSE cut

(* Mutant: the socket has no send timeout.                                 *)
WriteFail_NoTimeout(t) ==
    /\ send_pc[t] = "write"
    /\ recv_err # "none"
    /\ SendReturn(t)
    /\ CutIf(Torn(t))
    /\ UNCHANGED <<calls, send_mem, packets, wire, open, hung, rx,
                   recv_err, sent, received>>

(* SO_SNDTIMEO expires with the socket full, or the peer is gone.  The      *)
(* connection stays in use: the next send writes behind the torn packet.    *)
WriteFail(t) ==
    /\ send_pc[t] = "write"
    /\ Len(wire) = Capacity \/ recv_err # "none"
    /\ SendReturn(t)
    /\ CutIf(Torn(t))
    /\ UNCHANGED <<calls, send_mem, packets, wire, open, hung, rx,
                   recv_err, sent, received>>

(* The sending process ends, possibly in the middle of a packet.           *)
Close ==
    /\ open
    /\ open' = FALSE
    /\ mtx' = NoThread
    /\ send_pc' = [t \in Threads |-> "idle"]
    /\ rest' = [t \in Threads |-> NoWrite]
    /\ CutIf(\E t \in Threads : Torn(t))
    /\ UNCHANGED <<calls, send_mem, packets, wire, hung, rx, recv_err,
                   sent, received>>

-----------------------------------------------------------------------------
(* The receiving end: eventsteam_get_packet.                               *)

Receiving == recv_err = "none" /\ ~hung

want == IF rx.section = "prelude" THEN PreludeLen ELSE data_len(rx.packet)

(* One read of gg_file_read returns k bytes.                               *)
Read(k) ==
    /\ Receiving
    /\ k <= Smaller(Len(wire), want - Len(rx.got))
    /\ rx' = [rx EXCEPT !.got = @ \o SubSeq(wire, 1, k)]
    /\ wire' = SubSeq(wire, k + 1, Len(wire))
    /\ UNCHANGED <<sender, open, hung, recv_err, sent, received, cut>>

(* The caller closes the socket (data_ready_callback, then _Exit): what is  *)
(* left in it is lost.                                                      *)
RecvFail(err) ==
    /\ recv_err' = err
    /\ wire' = <<>>
    /\ UNCHANGED <<sender, open, hung, rx, sent, received, cut>>

(* Everything asked for has been read.                                     *)
SectionRead(section) ==
    /\ Receiving
    /\ rx.section = section
    /\ Len(rx.got) = want

(* The checksum of the prelude matches.                                    *)
prelude_crc_ok ==
    \E n \in 1 .. Len(packets) : rx.got = Bytes(n, 0, PreludeLen)

(* Mutant: only the length of the data section counts.                     *)
message_crc_ok_Any == Len(rx.got) = data_len(rx.packet)

(* The checksum of the message goes on from that of the prelude.           *)
message_crc_ok ==
    rx.got = Bytes(rx.packet, PreludeLen, PreludeLen + data_len(rx.packet))

(* Mutant: the packet is read whatever its length.                         *)
PreludeError_NoLimit ==
    IF ~prelude_crc_ok \/ packets[rx.got[1][1]].form = "bad_lengths"
    THEN "parse"
    ELSE "none"

(* What eventsteam_get_packet makes of a prelude.                          *)
PreludeError ==
    LET n == rx.got[1][1]
    IN  IF ~prelude_crc_ok \/ packets[n].form = "bad_lengths" THEN "parse"
        ELSE IF data_len(n) > RecvMax THEN "nomem"
        ELSE "none"

DecodePrelude ==
    /\ SectionRead("prelude")
    /\ PreludeError = "none"
    /\ rx' = [section |-> "data", packet |-> rx.got[1][1], got |-> <<>>]
    /\ UNCHANGED <<sender, wire, open, hung, recv_err, sent, received, cut>>

DecodePreludeFail ==
    /\ SectionRead("prelude")
    /\ PreludeError # "none"
    /\ RecvFail(PreludeError)

(* eventstream_decode: the checksum, then the walk over the headers.       *)
Decode ==
    /\ SectionRead("data")
    /\ message_crc_ok
    /\ packets[rx.packet].form = "good"
    /\ received' = Append(received, rx.packet)
    /\ rx' = NewRead
    /\ UNCHANGED <<sender, wire, open, hung, recv_err, sent, cut>>

DecodeFail ==
    /\ SectionRead("data")
    /\ ~message_crc_ok \/ packets[rx.packet].form # "good"
    /\ RecvFail("parse")

Incomplete == Receiving /\ wire = <<>> /\ Len(rx.got) < want

(* read returns 0: the peer has closed.                                    *)
ReadEof ==
    /\ Incomplete
    /\ ~open
    /\ RecvFail("failure")

(* Mutant: the socket has no receive timeout.                              *)
ReadTimeout_None == FALSE /\ UNCHANGED vars

(* SO_RCVTIMEO expires in the middle of a packet.  Before its first byte    *)
(* the receive thread waits in epoll instead.                               *)
ReadTimeout ==
    /\ Incomplete
    /\ open
    /\ rx # NewRead
    /\ RecvFail("failure")

(* The receiving process stops reading for good.                           *)
Hang ==
    /\ Receiving
    /\ hung' = TRUE
    /\ UNCHANGED <<sender, wire, open, rx, recv_err, sent, received, cut>>

-----------------------------------------------------------------------------
SendStep(t) ==
    \/ \E s \in Shapes : Encode(t, s) \/ EncodeFail(t, s)
    \/ \E k \in 1 .. Capacity : Write(t, k)
    \/ WriteFail(t)

RecvStep ==
    \/ \E k \in 1 .. Capacity : Read(k)
    \/ DecodePrelude
    \/ DecodePreludeFail
    \/ Decode
    \/ DecodeFail
    \/ ReadEof
    \/ ReadTimeout

Next ==
    \/ \E t \in Threads : SendBegin(t) \/ SendLock(t) \/ SendStep(t)
    \/ Close
    \/ RecvStep
    \/ Hang

Spec == Init /\ [][Next]_vars

(* The mutex is handed over, a thread that holds it and a receiver that     *)
(* does not hang are scheduled, and the timeouts of the socket expire.      *)
FairSpec ==
    /\ Spec
    /\ \A t \in Threads : SF_vars(SendLock(t)) /\ WF_vars(SendStep(t))
    /\ WF_vars(RecvStep)

-----------------------------------------------------------------------------
Byte == Nat \X Nat

(* Types, with what the socket holds and what the receiver holds of a       *)
(* section: gg_file_read never returns more than it was asked for.          *)
TypeOK ==
    /\ mtx \in Threads \cup {NoThread}
    /\ calls \in 0 .. MaxSends
    /\ send_pc \in [Threads -> {"idle", "lock", "encode", "write"}]
    /\ rest \in [Threads -> [packet : Nat, done : Nat]]
    /\ packets \in Seq(Shapes)
    /\ send_mem \in 0 .. Len(packets)
    /\ wire \in Seq(Byte)
    /\ Len(wire) <= Capacity
    /\ open \in BOOLEAN
    /\ hung \in BOOLEAN
    /\ rx \in [section : {"prelude", "data"}, packet : Nat, got : Seq(Byte)]
    /\ rx.section = "data" => rx.packet \in 1 .. Len(packets)
    /\ Len(rx.got) <= want
    /\ recv_err \in {"none", "parse", "nomem", "failure"}
    /\ sent \in Seq(Nat)
    /\ received \in Seq(Nat)
    /\ cut \in SUBSET Nat

(* The bytes are a packet channel: whatever writes are torn, by a timeout   *)
(* or by the end of a process, and although the connection stays in use     *)
(* afterwards, eventsteam_get_packet returns only packets whose send had    *)
(* succeeded, in their order, each once, and none sent after a torn one.    *)
PC == INSTANCE PacketChannel WITH Packet <- 1 .. MaxSends

IsPacketChannel == PC!Spec

(* The receiver fails to parse only what was broken before it: a stream     *)
(* with a torn packet in it, or a packet that was built wrongly.  Sends of  *)
(* several threads through the one buffer never mix, and the two ends never *)
(* disagree on where a packet ends.                                         *)
ParseErrorsHaveACause ==
    recv_err = "parse" =>
        \/ cut # {}
        \/ LET n == IF rx.section = "data" THEN rx.packet ELSE rx.got[1][1]
           IN  packets[n].form # "good"

(* eventsteam_get_packet reads into ipc_recv_mem: whatever length a prelude *)
(* announces, it never reads past the end of it.                            *)
RecvMemInBounds == Len(rx.got) <= RecvMax

(* A packet whose send succeeded is received, or the receiver finds the     *)
(* connection broken, unless it has stopped reading: it never waits for     *)
(* ever for the rest of a torn packet.                                      *)
SentIsReceived ==
    \A n \in 1 .. MaxSends :
        (Len(sent) >= n) ~> (Len(received) >= n \/ recv_err # "none" \/ hung)

(* A send returns and gives the mutex up, even if the other end has stopped *)
(* reading and the socket is full.                                          *)
SendReturns ==
    \A t \in Threads : (send_pc[t] # "idle") ~> (send_pc[t] = "idle")
=============================================================================
