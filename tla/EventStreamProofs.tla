------------------------- MODULE EventStreamProofs -------------------------
(***************************************************************************)
(* Proofs about EventStream: for packets, buffers and sockets of any size,  *)
(* the receiver never reads past the end of its buffer, what several        *)
(* threads write through the one send buffer stays apart, the receiver      *)
(* fails to parse only what is torn or was built wrongly, and the bytes     *)
(* implement the packet channel that the code above them relies on.         *)
(***************************************************************************)
EXTENDS EventStream, FiniteSetTheorems, SequenceTheorems, TLAPS

(* A thread that frames or writes a packet holds the mutex, and writes the  *)
(* packet that the send buffer holds.                                       *)
WriteInv ==
    \A t \in Threads :
        /\ send_pc[t] \in {"encode", "write"} => mtx = t
        /\ send_pc[t] = "write" =>
              /\ rest[t].packet = send_mem
              /\ send_mem # 0
              /\ rest[t].done < message_len(packets[send_mem])

(* The packet of which the receiver reads the data fits in its buffer.      *)
FitInv == rx.section = "data" => data_len(rx.packet) <= RecvMax

IInv == TypeOK /\ WriteInv /\ FitInv

-----------------------------------------------------------------------------
(* A packet is longer than its prelude, and lengths are numbers.            *)
LEMMA Lengths ==
    ASSUME NEW s \in Shapes
    PROVE  /\ message_len(s) \in Nat
           /\ message_len(s) > PreludeLen
           /\ s.form \in Forms
  BY LengthsAssumption DEF message_len

(* What the guards of the read and the write loop say.                      *)
LEMMA SmallerBounds ==
    ASSUME NEW a \in Int, NEW b \in Int, NEW k \in Int, k <= Smaller(a, b)
    PROVE  k <= a /\ k <= b
  BY DEF Smaller

(* What a write puts on the wire, and how much.                             *)
LEMMA BytesType ==
    ASSUME NEW n \in Nat, NEW a \in Nat, NEW k \in Nat
    PROVE  /\ Bytes(n, a, a + k) \in Seq(Byte)
           /\ Len(Bytes(n, a, a + k)) = k
           /\ \A i \in 1 .. k : Bytes(n, a, a + k)[i] = <<n, a + i>>
  <1>1. a + k - a = k
    OBVIOUS
  <1>2. Bytes(n, a, a + k) = [i \in 1 .. k |-> <<n, a + i>>]
    BY <1>1 DEF Bytes
  <1>3. \A i \in 1 .. k : <<n, a + i>> \in Byte
    BY DEF Byte
  <1>4. [i \in 1 .. k |-> <<n, a + i>>] \in [1 .. k -> Byte]
    BY <1>3
  <1>5. \A f \in [1 .. k -> Byte] : f \in Seq(Byte) /\ Len(f) = k
    BY SeqDef, LenProperties
  <1> QED
    BY <1>2, <1>4, <1>5

(* Encoding a further packet changes none of the earlier ones.              *)
LEMMA AppendPacket ==
    ASSUME TypeOK, NEW s \in Shapes, packets' = Append(packets, s)
    PROVE  /\ packets' \in Seq(Shapes)
           /\ Len(packets') = Len(packets) + 1
           /\ packets'[Len(packets) + 1] = s
           /\ \A n \in 1 .. Len(packets) : packets'[n] = packets[n]
  BY DEF TypeOK

(* The length that the prelude announces, in the states of the invariant.   *)
LEMMA DataLength ==
    ASSUME TypeOK, NEW n \in 1 .. Len(packets)
    PROVE  /\ packets[n] \in Shapes
           /\ message_len(packets[n]) \in Nat
           /\ message_len(packets[n]) > PreludeLen
           /\ data_len(n) \in Nat
           /\ data_len(n) > 0
  <1>1. packets[n] \in Shapes
    BY DEF TypeOK
  <1> QED
    BY <1>1, Lengths, LengthsAssumption DEF data_len

(* The receiver asks for at least one byte.                                 *)
LEMMA WantType ==
    ASSUME TypeOK
    PROVE  want \in Nat /\ want > 0
  BY DataLength, LengthsAssumption DEF TypeOK, want

-----------------------------------------------------------------------------
(* A step that leaves the receiver and the packets alone keeps what is      *)
(* said of the receiver.                                                    *)
LEMMA ReceiverUnchanged ==
    ASSUME TypeOK, FitInv, UNCHANGED <<packets, rx>>
    PROVE  want' = want /\ FitInv'
  BY DEF want, data_len, message_len, FitInv, TypeOK

(* A thread that starts to send does not touch the stream.                  *)
LEMMA SendBeginKeeps ==
    ASSUME IInv, NEW t \in Threads, SendBegin(t)
    PROVE  IInv'
  <1> USE DEF IInv
  <1>1. want' = want /\ FitInv'
    BY ReceiverUnchanged DEF SendBegin
  <1>2. TypeOK'
    BY <1>1, LengthsAssumption DEF TypeOK, SendBegin
  <1>3. WriteInv'
    BY DEF WriteInv, SendBegin, TypeOK, message_len
  <1> QED
    BY <1>1, <1>2, <1>3

(* The mutex is free when it is taken: nobody frames or writes.             *)
LEMMA SendLockKeeps ==
    ASSUME IInv, NEW t \in Threads, SendLock(t)
    PROVE  IInv'
  <1> USE DEF IInv
  <1>1. want' = want /\ FitInv'
    BY ReceiverUnchanged DEF SendLock
  <1>2. TypeOK'
    BY <1>1 DEF TypeOK, SendLock
  <1>3. WriteInv'
    BY SendersAssumption DEF WriteInv, SendLock, TypeOK, message_len
  <1> QED
    BY <1>1, <1>2, <1>3

(* Framing overwrites ipc_send_mem: nobody else is writing from it.         *)
LEMMA EncodeKeeps ==
    ASSUME IInv, NEW t \in Threads, NEW s \in Shapes, Encode(t, s)
    PROVE  IInv'
  <1> USE DEF IInv
  <1>1. /\ packets' \in Seq(Shapes)
        /\ Len(packets') = Len(packets) + 1
        /\ packets'[Len(packets) + 1] = s
        /\ \A n \in 1 .. Len(packets) : packets'[n] = packets[n]
    BY AppendPacket DEF Encode
  <1>2. want' = want /\ FitInv'
    BY <1>1 DEF want, data_len, message_len, FitInv, TypeOK, Encode
  <1>3. TypeOK'
    BY <1>1, <1>2 DEF TypeOK, Encode
  <1>4. WriteInv'
    <2>1. message_len(s) \in Nat /\ message_len(s) > 0
      BY Lengths, LengthsAssumption
    <2>2. send_mem' = Len(packets) + 1 /\ send_mem' # 0
      BY DEF Encode, TypeOK
    <2>3. message_len(packets[send_mem])' = message_len(s)
      BY <1>1, <2>2 DEF message_len
    <2>4. \A u \in Threads : send_pc'[u] \in {"encode", "write"} => mtx' = u
      BY DEF WriteInv, Encode, TypeOK
    <2>5. \A u \in Threads : send_pc'[u] = "write" => u = t
      BY DEF WriteInv, Encode, TypeOK
    <2>6. rest'[t].packet = send_mem' /\ rest'[t].done = 0
      BY <2>2 DEF Encode, TypeOK
    <2> QED
      BY <2>1, <2>2, <2>3, <2>4, <2>5, <2>6 DEF WriteInv
  <1> QED
    BY <1>2, <1>3, <1>4

(* A thread that gives the mutex up leaves nobody who writes.               *)
LEMMA ReturnKeeps ==
    ASSUME IInv, NEW t \in Threads, send_pc[t] \in {"encode", "write"},
           SendReturn(t)
    PROVE  /\ WriteInv'
           /\ mtx' \in Threads \cup {NoThread}
           /\ send_pc' \in [Threads -> {"idle", "lock", "encode", "write"}]
           /\ rest' \in [Threads -> [packet : Nat, done : Nat]]
  <1>1. \A u \in Threads : send_pc'[u] \notin {"encode", "write"}
    BY DEF IInv, TypeOK, WriteInv, SendReturn
  <1> QED
    BY <1>1 DEF IInv, TypeOK, WriteInv, SendReturn, NoWrite

(* A packet that does not fit gives the mutex up.                           *)
LEMMA EncodeFailKeeps ==
    ASSUME IInv, NEW t \in Threads, NEW s \in Shapes, EncodeFail(t, s)
    PROVE  IInv'
  <1>1. want' = want /\ FitInv'
    BY ReceiverUnchanged DEF EncodeFail, IInv
  <1>2. /\ WriteInv'
        /\ mtx' \in Threads \cup {NoThread}
        /\ send_pc' \in [Threads -> {"idle", "lock", "encode", "write"}]
        /\ rest' \in [Threads -> [packet : Nat, done : Nat]]
    BY ReturnKeeps DEF EncodeFail
  <1>3. TypeOK'
    BY <1>1, <1>2 DEF IInv, TypeOK, EncodeFail
  <1> QED
    BY <1>1, <1>2, <1>3 DEF IInv

(* gg_file_write stays within the packet and the socket.                    *)
LEMMA WriteKeeps ==
    ASSUME IInv, NEW t \in Threads, NEW k \in 1 .. Capacity, Write(t, k)
    PROVE  IInv'
  <1> DEFINE total == message_len(packets[rest[t].packet])
             done  == rest[t].done
  <1>1. want' = want /\ FitInv'
    BY ReceiverUnchanged DEF Write, IInv
  <1>2. /\ rest[t].packet = send_mem
        /\ send_mem \in 1 .. Len(packets)
        /\ done \in Nat
        /\ send_pc[t] = "write"
    BY DEF Write, IInv, WriteInv, TypeOK
  <1>3. total \in Nat
    BY <1>2, DataLength DEF IInv
  <1>4. k \in Nat /\ k <= total - done /\ k <= Capacity - Len(wire)
    <2>1. Len(wire) \in Nat /\ Capacity \in Nat
      BY LengthsAssumption DEF IInv, TypeOK
    <2>2. k \in Nat
      BY <2>1
    <2>3. k <= Smaller(total - done, Capacity - Len(wire))
      BY DEF Write
    <2>4. total - done \in Int /\ Capacity - Len(wire) \in Int
      BY <1>2, <1>3, <2>1
    <2> QED
      BY <2>2, <2>3, <2>4, SmallerBounds
  <1>5. /\ wire' \in Seq(Byte)
        /\ Len(wire') <= Capacity
    <2>1. /\ Bytes(send_mem, done, done + k) \in Seq(Byte)
          /\ Len(Bytes(send_mem, done, done + k)) = k
      <3>1. send_mem \in Nat /\ done \in Nat /\ k \in Nat
        BY <1>2, <1>4
      <3> HIDE DEF done
      <3> QED
        BY <3>1, BytesType
    <2>2. wire \in Seq(Byte)
      BY DEF IInv, TypeOK
    <2>3. wire' = wire \o Bytes(send_mem, done, done + k)
      BY DEF Write
    <2>4. wire' \in Seq(Byte) /\ Len(wire') = Len(wire) + k
      BY <2>1, <2>2, <2>3, ConcatProperties
    <2>5. Len(wire) \in Nat
      BY <2>2
    <2> QED
      BY <1>4, <2>4, <2>5, LengthsAssumption
  <1>6. CASE done + k = total
    <2>1. SendReturn(t) /\ sent' = Append(sent, rest[t].packet)
      BY <1>6 DEF Write
    <2>2. /\ WriteInv'
          /\ mtx' \in Threads \cup {NoThread}
          /\ send_pc' \in [Threads -> {"idle", "lock", "encode", "write"}]
          /\ rest' \in [Threads -> [packet : Nat, done : Nat]]
      BY <1>2, <2>1, ReturnKeeps
    <2>3. sent' \in Seq(Nat)
      BY <1>2, <2>1 DEF IInv, TypeOK
    <2>4. TypeOK'
      BY <1>1, <1>5, <2>2, <2>3 DEF IInv, TypeOK, Write
    <2> QED
      BY <1>1, <2>2, <2>4 DEF IInv
  <1>7. CASE done + k # total
    <2>1. /\ rest' = [rest EXCEPT ![t].done = done + k]
          /\ UNCHANGED <<mtx, send_pc, sent, packets, send_mem>>
      BY <1>7 DEF Write
    <2>2. rest' \in [Threads -> [packet : Nat, done : Nat]]
      BY <1>2, <1>4, <2>1 DEF IInv, TypeOK
    <2>3. TypeOK'
      BY <1>1, <1>5, <2>1, <2>2 DEF IInv, TypeOK, Write
    <2>4. done + k < total
      BY <1>2, <1>3, <1>4, <1>7
    <2>5. WriteInv'
      <3>1. \A u \in Threads : send_pc[u] \in {"encode", "write"} => mtx = u
        BY DEF IInv, WriteInv
      <3>2. \A u \in Threads : send_pc[u] = "write" => u = t
        BY <1>2, <3>1
      <3>3. rest'[t].packet = send_mem /\ rest'[t].done = done + k
        BY <1>2, <2>1 DEF IInv, TypeOK
      <3>4. message_len(packets[send_mem])' = total
        BY <1>2, <2>1 DEF message_len
      <3> QED
        BY <1>2, <2>1, <2>4, <3>1, <3>2, <3>3, <3>4 DEF WriteInv
    <2> QED
      BY <1>1, <2>3, <2>5 DEF IInv
  <1> QED
    BY <1>6, <1>7

(* A timeout gives the mutex up and may leave a torn packet.                *)
LEMMA WriteFailKeeps ==
    ASSUME IInv, NEW t \in Threads, WriteFail(t)
    PROVE  IInv'
  <1>1. want' = want /\ FitInv'
    BY ReceiverUnchanged DEF WriteFail, IInv
  <1>2. /\ WriteInv'
        /\ mtx' \in Threads \cup {NoThread}
        /\ send_pc' \in [Threads -> {"idle", "lock", "encode", "write"}]
        /\ rest' \in [Threads -> [packet : Nat, done : Nat]]
    BY ReturnKeeps DEF WriteFail
  <1>3. cut' \in SUBSET Nat
    BY DEF WriteFail, CutIf, IInv, TypeOK
  <1>4. TypeOK'
    BY <1>1, <1>2, <1>3 DEF IInv, TypeOK, WriteFail
  <1> QED
    BY <1>1, <1>2, <1>4 DEF IInv

(* The sending process may end anywhere.                                    *)
LEMMA CloseKeeps ==
    ASSUME IInv, Close
    PROVE  IInv'
  <1>1. want' = want /\ FitInv'
    BY ReceiverUnchanged DEF Close, IInv
  <1>2. cut' \in SUBSET Nat
    BY DEF Close, CutIf, IInv, TypeOK
  <1>3. TypeOK'
    BY <1>1, <1>2 DEF IInv, TypeOK, Close, NoWrite
  <1>4. WriteInv'
    BY DEF WriteInv, Close
  <1> QED
    BY <1>1, <1>3, <1>4 DEF IInv

-----------------------------------------------------------------------------
(* The steps of the receiver leave the senders alone.                       *)
LEMMA SendersUnchanged ==
    ASSUME WriteInv, UNCHANGED sender
    PROVE  WriteInv'
  BY DEF WriteInv, sender, message_len

(* gg_file_read stays within what it was asked for.                         *)
LEMMA ReadKeeps ==
    ASSUME IInv, NEW k \in 1 .. Capacity, Read(k)
    PROVE  IInv'
  <1>1. WriteInv'
    BY SendersUnchanged DEF IInv, Read
  <1>2. /\ wire \in Seq(Byte) /\ rx.got \in Seq(Byte)
        /\ Len(wire) \in Nat /\ Len(rx.got) \in Nat
        /\ Len(wire) <= Capacity
        /\ want \in Nat
    BY WantType DEF IInv, TypeOK
  <1>3. k \in Nat /\ k >= 1 /\ k <= Len(wire) /\ k <= want - Len(rx.got)
    <2>1. k \in Nat /\ k >= 1
      BY LengthsAssumption
    <2>2. k <= Smaller(Len(wire), want - Len(rx.got))
      BY DEF Read
    <2>3. want - Len(rx.got) \in Int
      BY <1>2
    <2> QED
      BY <1>2, <2>1, <2>2, <2>3, SmallerBounds
  <1>4. /\ SubSeq(wire, 1, k) \in Seq(Byte)
        /\ Len(SubSeq(wire, 1, k)) = k
    BY <1>2, <1>3
  <1>5. /\ SubSeq(wire, k + 1, Len(wire)) \in Seq(Byte)
        /\ Len(SubSeq(wire, k + 1, Len(wire))) = Len(wire) - k
    BY <1>2, <1>3
  <1>6. /\ rx.got \o SubSeq(wire, 1, k) \in Seq(Byte)
        /\ Len(rx.got \o SubSeq(wire, 1, k)) = Len(rx.got) + k
    BY <1>2, <1>4, ConcatProperties
  <1>7. /\ rx' \in [section : {"prelude", "data"}, packet : Nat,
                    got : Seq(Byte)]
        /\ rx'.section = rx.section
        /\ rx'.packet = rx.packet
        /\ Len(rx'.got) = Len(rx.got) + k
    BY <1>6 DEF IInv, TypeOK, Read
  <1>8. want' = want /\ FitInv'
    BY <1>7 DEF want, data_len, message_len, FitInv, IInv, Read, sender
  <1>9. Len(rx'.got) <= want
    BY <1>2, <1>3, <1>7
  <1>10. wire' \in Seq(Byte) /\ Len(wire') <= Capacity
    <2>1. wire' = SubSeq(wire, k + 1, Len(wire))
      BY DEF Read
    <2>2. Len(wire) - k <= Capacity
      BY <1>2, <1>3, LengthsAssumption
    <2> QED
      BY <1>5, <2>1, <2>2
  <1>11. TypeOK'
    BY <1>7, <1>8, <1>9, <1>10 DEF IInv, TypeOK, Read, sender
  <1> QED
    BY <1>1, <1>8, <1>11 DEF IInv

(* A receiver that fails keeps what it has read.                            *)
LEMMA RecvFailKeeps ==
    ASSUME IInv, NEW err \in {"parse", "nomem", "failure"}, RecvFail(err)
    PROVE  IInv'
  <1>1. WriteInv'
    BY SendersUnchanged DEF IInv, RecvFail
  <1>2. want' = want /\ FitInv'
    BY ReceiverUnchanged DEF RecvFail, IInv, sender
  <1>3. wire' \in Seq(Byte) /\ Len(wire') = 0
    BY DEF RecvFail
  <1>4. TypeOK'
    BY <1>2, <1>3, LengthsAssumption DEF IInv, TypeOK, RecvFail, sender
  <1> QED
    BY <1>1, <1>2, <1>4 DEF IInv

(* The data section is read only if it fits in ipc_recv_mem.                *)
LEMMA DecodePreludeKeeps ==
    ASSUME IInv, DecodePrelude
    PROVE  IInv'
  <1>1. WriteInv'
    BY SendersUnchanged DEF IInv, DecodePrelude
  <1>2. prelude_crc_ok
    BY DEF DecodePrelude, PreludeError
  <1>3. PICK n \in 1 .. Len(packets) : rx.got = Bytes(n, 0, PreludeLen)
    BY <1>2 DEF prelude_crc_ok
  <1>4. rx.got[1][1] = n
    BY <1>3, LengthsAssumption DEF Bytes
  <1>5. data_len(n) \in Nat /\ data_len(n) <= RecvMax
    BY <1>2, <1>4, DataLength, LengthsAssumption
    DEF DecodePrelude, PreludeError, IInv
  <1>6. /\ rx' = [section |-> "data", packet |-> n, got |-> <<>>]
        /\ packets' = packets
    BY <1>4 DEF DecodePrelude, sender
  <1>7. want' = data_len(n) /\ FitInv'
    BY <1>5, <1>6 DEF want, data_len, message_len, FitInv
  <1>8. TypeOK'
    BY <1>5, <1>6, <1>7 DEF IInv, TypeOK, DecodePrelude, sender
  <1> QED
    BY <1>1, <1>7, <1>8 DEF IInv

(* After a packet the receiver starts on the next prelude.                  *)
LEMMA DecodeKeeps ==
    ASSUME IInv, Decode
    PROVE  IInv'
  <1>1. WriteInv'
    BY SendersUnchanged DEF IInv, Decode
  <1>2. rx' = [section |-> "prelude", packet |-> 0, got |-> <<>>]
    BY DEF Decode, NewRead
  <1>3. want' = PreludeLen /\ FitInv'
    BY <1>2 DEF want, FitInv
  <1>4. received' \in Seq(Nat)
    BY DEF IInv, TypeOK, Decode
  <1>5. TypeOK'
    BY <1>2, <1>3, <1>4, LengthsAssumption DEF IInv, TypeOK, Decode, sender
  <1> QED
    BY <1>1, <1>3, <1>5 DEF IInv

(* All steps of the receiver together.                                      *)
LEMMA RecvStepKeeps ==
    ASSUME IInv, RecvStep
    PROVE  IInv'
  <1>1. CASE DecodePreludeFail
    <2>1. PreludeError \in {"parse", "nomem"}
      BY <1>1 DEF DecodePreludeFail, PreludeError
    <2> QED
      BY <1>1, <2>1, RecvFailKeeps DEF DecodePreludeFail
  <1>2. CASE DecodeFail \/ ReadEof \/ ReadTimeout
    BY <1>2, RecvFailKeeps DEF DecodeFail, ReadEof, ReadTimeout
  <1> QED
    BY <1>1, <1>2, ReadKeeps, DecodePreludeKeeps, DecodeKeeps DEF RecvStep

(* A receiver that stops changes nothing else.                              *)
LEMMA HangKeeps ==
    ASSUME IInv, Hang
    PROVE  IInv'
  <1>1. WriteInv'
    BY SendersUnchanged DEF IInv, Hang
  <1>2. want' = want /\ FitInv'
    BY ReceiverUnchanged DEF Hang, IInv, sender
  <1>3. TypeOK'
    BY <1>2 DEF IInv, TypeOK, Hang, sender
  <1> QED
    BY <1>1, <1>2, <1>3 DEF IInv

(* Steps of the rest of the system.                                         *)
LEMMA StutterKeeps ==
    ASSUME IInv, UNCHANGED vars
    PROVE  IInv'
  <1>1. want' = want /\ FitInv'
    BY ReceiverUnchanged DEF vars, IInv
  <1>2. TypeOK'
    BY <1>1 DEF IInv, TypeOK, vars
  <1>3. WriteInv'
    BY DEF IInv, WriteInv, vars, message_len
  <1> QED
    BY <1>1, <1>2, <1>3 DEF IInv

-----------------------------------------------------------------------------
(* The invariant of the byte stream: types and bounds, one writer at a      *)
(* time who writes the packet that ipc_send_mem holds, and a data section   *)
(* that fits in ipc_recv_mem.                                               *)
THEOREM Invariance == Spec => []IInv
  <1>1. Init => IInv
    <2> SUFFICES ASSUME Init
                 PROVE  IInv
      OBVIOUS
    <2>1. want = PreludeLen /\ FitInv
      BY DEF Init, want, NewRead, FitInv
    <2>2. TypeOK
      <3>1. open \in BOOLEAN /\ hung \in BOOLEAN
        BY DEF Init
      <3>2. /\ rx \in [section : {"prelude", "data"}, packet : Nat,
                      got : Seq(Byte)]
            /\ rx.section # "data"
            /\ Len(rx.got) = 0
        BY DEF Init, NewRead
      <3>3. /\ send_pc \in [Threads -> {"idle", "lock", "encode", "write"}]
            /\ rest \in [Threads -> [packet : Nat, done : Nat]]
        BY DEF Init, NoWrite
      <3>4. /\ packets \in Seq(Shapes) /\ wire \in Seq(Byte)
            /\ sent \in Seq(Nat) /\ received \in Seq(Nat)
            /\ Len(packets) = 0 /\ Len(wire) = 0
        BY DEF Init
      <3>5. Len(rx.got) <= want /\ Len(wire) <= Capacity
        BY <2>1, <3>2, <3>4, LengthsAssumption
      <3>6. calls \in 0 .. MaxSends /\ send_mem \in 0 .. Len(packets)
        BY <3>4, LengthsAssumption DEF Init
      <3> QED
        BY <3>1, <3>2, <3>3, <3>4, <3>5, <3>6 DEF TypeOK, Init
    <2>3. WriteInv
      BY DEF Init, WriteInv
    <2> QED
      BY <2>1, <2>2, <2>3 DEF IInv
  <1>2. IInv /\ [Next]_vars => IInv'
    <2> SUFFICES ASSUME IInv, [Next]_vars
                 PROVE  IInv'
      OBVIOUS
    <2>1. ASSUME NEW t \in Threads, SendStep(t)
          PROVE  IInv'
      BY <2>1, EncodeKeeps, EncodeFailKeeps, WriteKeeps, WriteFailKeeps
      DEF SendStep
    <2> QED
      BY <2>1, SendBeginKeeps, SendLockKeeps, CloseKeeps, RecvStepKeeps,
         HangKeeps, StutterKeeps DEF Next
  <1> QED
    BY <1>1, <1>2, PTL DEF Spec

(* Type correctness, for any sizes of buffers, packets and socket.          *)
THEOREM TypeCorrect == Spec => []TypeOK
  <1>1. IInv => TypeOK
    BY DEF IInv
  <1> QED
    BY <1>1, Invariance, PTL

(* eventsteam_get_packet never reads past the end of ipc_recv_mem, whatever *)
(* length a prelude announces.                                              *)
THEOREM RecvMemSafe == Spec => []RecvMemInBounds
  <1>1. IInv => RecvMemInBounds
    <2> SUFFICES ASSUME IInv
                 PROVE  RecvMemInBounds
      OBVIOUS
    <2>1. /\ Len(rx.got) \in Nat /\ Len(rx.got) <= want
          /\ want \in Nat
      BY WantType DEF IInv, TypeOK
    <2>2. want <= RecvMax
      BY RecvHoldsPrelude DEF IInv, FitInv, TypeOK, want
    <2> QED
      BY <2>1, <2>2, LengthsAssumption DEF RecvMemInBounds
  <1> QED
    BY <1>1, Invariance, PTL

-----------------------------------------------------------------------------
(* The byte stream, from the start of the packet that the receiver reads:   *)
(* what it has read of the packet, then what the socket holds.              *)
Base == IF rx.section = "data" THEN PreludeLen ELSE 0

Unread == Base + Len(rx.got) + Len(wire)

stream ==
    [i \in 1 .. Unread |->
        IF i <= Base THEN <<rx.packet, i>>
        ELSE IF i <= Base + Len(rx.got) THEN rx.got[i - Base]
        ELSE wire[i - (Base + Len(rx.got))]]

lens == [n \in 1 .. Len(packets) |-> message_len(packets[n])]

(* A view of a stream: its bytes, how many of them count, the packets in    *)
(* their order and how many, the number of the first one in the stream, and *)
(* the lengths of packets.                                                  *)
ViewOK(v) ==
    /\ v.good \in Nat /\ v.count \in Nat /\ v.next \in Nat \ {0}
    /\ \A i \in 1 .. v.good : v.bytes[i][2] \in Nat
    /\ \A j \in 1 .. v.count : v.len[v.order[j]] \in Nat \ {0}
    /\ \A i, j \in 1 .. v.count : v.order[i] = v.order[j] => i = j

(* The bytes are whole packets in their order, the last one perhaps in      *)
(* part: they begin with the start of the first one, a packet goes on until *)
(* it is complete, and after it the next one starts.                        *)
Framed(v) ==
    /\ ViewOK(v)
    /\ \A i \in 1 .. v.good : \E j \in 1 .. v.count : v.bytes[i][1] = v.order[j]
    /\ v.good > 0 => v.next <= v.count /\ v.bytes[1] = <<v.order[v.next], 1>>
    /\ \A i, k \in 1 .. v.good :
          i <= k /\ v.bytes[i][2] + (k - i) <= v.len[v.bytes[i][1]] =>
              v.bytes[k] = <<v.bytes[i][1], v.bytes[i][2] + (k - i)>>
    /\ \A i \in 1 .. v.good, j \in 1 .. v.count :
          i < v.good /\ v.bytes[i] = <<v.order[j], v.len[v.order[j]]>> =>
              j < v.count /\ v.bytes[i + 1] = <<v.order[j + 1], 1>>

View(good, order, count) ==
    [bytes |-> stream, good |-> good, order |-> order, count |-> count,
     next |-> Len(received) + 1, len |-> lens]

(* The first c packets that were sent, and then packet q.                   *)
Before(c, q) == [j \in 1 .. c + 1 |-> IF j <= c THEN sent[j] ELSE q]

(* The stream is c packets and the first d bytes of packet q, up to good.   *)
TornAt(c, q, d, good) ==
    /\ good \in 1 .. Unread
    /\ q \in 1 .. Len(packets)
    /\ \A j \in 1 .. c : sent[j] < q
    /\ d < lens[q]
    /\ stream[good] = <<q, d>>
    /\ Framed(View(good, Before(c, q), c + 1))

(* The stream ends with the last packet that was sent.                      *)
AllWhole ==
    /\ Framed(View(Unread, sent, Len(sent)))
    /\ IF Unread = 0 THEN Len(received) = Len(sent)
       ELSE stream[Unread] = <<sent[Len(sent)], lens[sent[Len(sent)]]>>

(* Packets are sent in the order in which they are framed.                  *)
OrderInv ==
    /\ \A i \in 1 .. Len(sent) : sent[i] \in 1 .. Len(packets)
    /\ \A i, j \in 1 .. Len(sent) : i < j => sent[i] < sent[j]
    /\ \A t \in Threads : send_pc[t] = "write" =>
          \A i \in 1 .. Len(sent) : sent[i] < rest[t].packet

(* Until a packet is torn, the stream is what was sent and not received,    *)
(* and what has been written of the packet that is being sent.              *)
IntactInv ==
    recv_err = "none" /\ cut = {} =>
        /\ (\A t \in Threads : ~Torn(t)) => AllWhole
        /\ \A t \in Threads : Torn(t) =>
              TornAt(Len(sent), rest[t].packet, rest[t].done, Unread)

(* The first c packets are followed by the start of packet q, up to good,   *)
(* and neither the stream nor a writer goes on with it.                     *)
CutAt(c, q, good) ==
    /\ TornAt(c, q, stream[good][2], good)
    /\ good < Unread => stream[good + 1] # <<q, stream[good][2] + 1>>
    /\ \A t \in Threads : send_pc[t] = "write" => rest[t].packet # q

(* Once a packet has been torn, the stream is as before up to there.        *)
CutInv ==
    recv_err = "none" => \A c \in cut :
        /\ c \in 0 .. Len(sent)
        /\ \E q \in 1 .. Len(packets), good \in 1 .. Unread : CutAt(c, q, good)

(* What a receiver failed to parse on a stream that was not torn.           *)
CauseInv ==
    recv_err = "parse" /\ cut = {} =>
        LET n == IF rx.section = "data" THEN rx.packet ELSE rx.got[1][1]
        IN  n \in 1 .. Len(packets) /\ packets[n].form # "good"

(* Sends that have begun and not framed their packet.                       *)
Unframed == {t \in Threads : send_pc[t] \in {"lock", "encode"}}

CountInv ==
    /\ IsFiniteSet(Unframed)
    /\ Len(packets) + Cardinality(Unframed) <= calls

SInv == OrderInv /\ IntactInv /\ CutInv /\ CauseInv /\ CountInv
-----------------------------------------------------------------------------
(* What a framed stream says of its first packet.                           *)
LEMMA FirstPacket ==
    ASSUME NEW v, Framed(v),
           NEW k \in 1 .. v.good, k <= v.len[v.order[v.next]]
    PROVE  v.next \in 1 .. v.count /\ v.bytes[k] = <<v.order[v.next], k>>
  <1>a. v.good \in Nat /\ v.count \in Nat /\ v.next \in Nat \ {0}
    BY DEF Framed, ViewOK
  <1>1. v.good > 0 /\ 1 \in 1 .. v.good
    BY <1>a
  <1>2. v.next <= v.count /\ v.bytes[1] = <<v.order[v.next], 1>>
    BY <1>a, <1>1 DEF Framed
  <1>3. v.bytes[1][1] = v.order[v.next] /\ v.bytes[1][2] = 1
    BY <1>a, <1>2
  <1>4. 1 <= k /\ v.bytes[1][2] + (k - 1) = k
    BY <1>a, <1>3
  <1>5. v.bytes[1][2] + (k - 1) <= v.len[v.bytes[1][1]] =>
          v.bytes[k] = <<v.bytes[1][1], v.bytes[1][2] + (k - 1)>>
    BY <1>a, <1>1, <1>4 DEF Framed
  <1> QED
    BY <1>a, <1>2, <1>3, <1>4, <1>5

(* w is v without its first m bytes, which are its first packet.            *)
Drops(v, w, m) ==
    /\ w.order = v.order /\ w.count = v.count /\ w.len = v.len
    /\ w.next = v.next + 1 /\ w.good = v.good - m
    /\ \A i \in 1 .. v.good - m : w.bytes[i] = v.bytes[i + m]

(* The first packet is complete: without it the stream is framed from the   *)
(* next packet on.                                                          *)
LEMMA WithoutFirst ==
    ASSUME NEW v, NEW w, Framed(v), v.len[v.order[v.next]] \in 1 .. v.good,
           Drops(v, w, v.len[v.order[v.next]])
    PROVE  Framed(w)
  <1> DEFINE m == v.len[v.order[v.next]]
  <1>a. v.good \in Nat /\ v.count \in Nat /\ v.next \in Nat \ {0}
    BY DEF Framed, ViewOK
  <1>b. m \in Nat /\ m >= 1 /\ m <= v.good /\ m \in 1 .. v.good
    BY <1>a
  <1>m. m = v.len[v.order[v.next]]
    OBVIOUS
  <1> HIDE DEF m
  <1>c. v.next \in 1 .. v.count /\ v.bytes[m] = <<v.order[v.next], m>>
    <2>1. m <= v.len[v.order[v.next]]
      BY <1>b, <1>m
    <2> QED
      BY <1>b, <2>1, FirstPacket
  <1>d. /\ w.order = v.order /\ w.count = v.count /\ w.len = v.len
        /\ w.next = v.next + 1 /\ w.good = v.good - m /\ w.good \in Nat
    BY <1>a, <1>b DEF Drops, m
  <1>e. \A i \in 1 .. w.good : i + m \in 1 .. v.good /\ w.bytes[i] = v.bytes[i + m]
    <2> TAKE i \in 1 .. w.good
    <2>1. i \in 1 .. v.good - m
      BY <1>d
    <2>2. i + m \in 1 .. v.good
      BY <1>a, <1>b, <2>1
    <2> QED
      BY <2>1, <2>2 DEF Drops, m
  <1>2. \A i \in 1 .. w.good : \E j \in 1 .. w.count : w.bytes[i][1] = w.order[j]
    BY <1>d, <1>e DEF Framed
  <1>3. w.good > 0 => w.next <= w.count /\ w.bytes[1] = <<w.order[w.next], 1>>
    <2> HAVE w.good > 0
    <2>1. m < v.good /\ 1 \in 1 .. w.good
      BY <1>a, <1>b, <1>d
    <2>2. v.bytes[m] = <<v.order[v.next], v.len[v.order[v.next]]>>
      <3>1. <<v.order[v.next], m>> = <<v.order[v.next], v.len[v.order[v.next]]>>
        BY <1>m
      <3> QED
        BY <1>c, <3>1, Zenon
    <2>3. v.next < v.count /\ v.bytes[m + 1] = <<v.order[v.next + 1], 1>>
      BY <1>b, <1>c, <2>1, <2>2 DEF Framed
    <2>4. w.bytes[1] = v.bytes[1 + m] /\ 1 + m = m + 1
      BY <1>b, <1>e, <2>1
    <2>5. w.next <= w.count
      BY <1>a, <1>d, <2>3
    <2> QED
      BY <1>d, <2>3, <2>4, <2>5
  <1>4. \A i, k \in 1 .. w.good :
            i <= k /\ w.bytes[i][2] + (k - i) <= w.len[w.bytes[i][1]] =>
                w.bytes[k] = <<w.bytes[i][1], w.bytes[i][2] + (k - i)>>
    <2> TAKE i, k \in 1 .. w.good
    <2> HAVE i <= k /\ w.bytes[i][2] + (k - i) <= w.len[w.bytes[i][1]]
    <2>1. i + m \in 1 .. v.good /\ k + m \in 1 .. v.good /\ i + m <= k + m
      BY <1>b, <1>d, <1>e
    <2>2. (k + m) - (i + m) = k - i
      BY <1>b, <1>d
    <2>3. w.bytes[i] = v.bytes[i + m] /\ w.bytes[k] = v.bytes[k + m]
      BY <1>e
    <2>4. v.bytes[i + m][2] + (k - i) <= v.len[v.bytes[i + m][1]]
      BY <1>d, <2>3
    <2>5. v.bytes[k + m] = <<v.bytes[i + m][1], v.bytes[i + m][2] + (k - i)>>
      BY <2>1, <2>2, <2>4 DEF Framed
    <2> QED
      BY <2>3, <2>5
  <1>5. \A i \in 1 .. w.good, j \in 1 .. w.count :
            i < w.good /\ w.bytes[i] = <<w.order[j], w.len[w.order[j]]>> =>
                j < w.count /\ w.bytes[i + 1] = <<w.order[j + 1], 1>>
    <2> TAKE i \in 1 .. w.good, j \in 1 .. w.count
    <2> HAVE i < w.good /\ w.bytes[i] = <<w.order[j], w.len[w.order[j]]>>
    <2>1. i + m \in 1 .. v.good /\ i + m < v.good /\ i + 1 \in 1 .. w.good
      BY <1>a, <1>b, <1>d, <1>e
    <2>2. w.bytes[i] = v.bytes[i + m] /\ w.bytes[i + 1] = v.bytes[(i + 1) + m]
      BY <1>e, <2>1
    <2>3. (i + 1) + m = (i + m) + 1
      BY <1>b, <2>1
    <2>4. j < v.count /\ v.bytes[(i + m) + 1] = <<v.order[j + 1], 1>>
      BY <1>d, <2>1, <2>2 DEF Framed
    <2> QED
      BY <1>d, <2>2, <2>3, <2>4
  <1>6. ViewOK(w)
    <2>1. \A i \in 1 .. w.good : w.bytes[i][2] \in Nat
      BY <1>e DEF Framed, ViewOK
    <2>2. \A j \in 1 .. w.count : w.len[w.order[j]] \in Nat \ {0}
      BY <1>d DEF Framed, ViewOK
    <2>3. \A i, j \in 1 .. w.count : w.order[i] = w.order[j] => i = j
      BY <1>d DEF Framed, ViewOK
    <2>4. w.good \in Nat /\ w.count \in Nat /\ w.next \in Nat \ {0}
      BY <1>a, <1>d
    <2> QED
      BY <2>1, <2>2, <2>3, <2>4 DEF ViewOK
  <1> QED
    BY <1>2, <1>3, <1>4, <1>5, <1>6 DEF Framed

(* A packet of which the stream holds only the beginning is not complete    *)
(* in it.                                                                   *)
LEMMA TornNotWhole ==
    ASSUME NEW v, Framed(v), NEW d \in Nat,
           v.bytes[v.good] = <<v.order[v.count], d>>,
           d < v.len[v.order[v.count]],
           v.len[v.order[v.next]] \in 1 .. v.good
    PROVE  v.next < v.count
  <1> DEFINE m == v.len[v.order[v.next]]
  <1>a. v.good \in Nat /\ v.count \in Nat /\ v.next \in Nat \ {0}
    BY DEF Framed, ViewOK
  <1>b. m \in Nat /\ m <= v.good /\ m \in 1 .. v.good /\ m <= m
    BY <1>a
  <1>m. m = v.len[v.order[v.next]]
    OBVIOUS
  <1>d. d < v.len[v.order[v.count]]
    OBVIOUS
  <1> HIDE DEF m
  <1>c. v.next \in 1 .. v.count /\ v.bytes[m] = <<v.order[v.next], m>>
    <2>1. m <= v.len[v.order[v.next]]
      BY <1>b, <1>m
    <2> QED
      BY <1>b, <2>1, FirstPacket
  <1>2. CASE m = v.good
    <2>1. v.order[v.next] = v.order[v.count] /\ m = d
      BY <1>c, <1>2
    <2> QED
      BY <1>b, <1>m, <1>d, <2>1
  <1>3. CASE m < v.good
    <2>1. v.bytes[m] = <<v.order[v.next], v.len[v.order[v.next]]>>
      <3>1. <<v.order[v.next], m>> = <<v.order[v.next], v.len[v.order[v.next]]>>
        BY <1>m
      <3> QED
        BY <1>c, <3>1, Zenon
    <2> QED
      BY <1>b, <1>c, <1>3, <2>1 DEF Framed
  <1> QED
    BY <1>a, <1>b, <1>2, <1>3

(* w is v followed by k bytes of packet q, which ends v after d bytes.      *)
Continues(v, w, q, d, k) ==
    /\ v.good > 0 /\ v.bytes[v.good] = <<q, d>>
    /\ d < v.len[q] /\ d + k <= v.len[q]
    /\ w.order = v.order /\ w.count = v.count /\ w.len = v.len
    /\ w.next = v.next /\ w.good = v.good + k
    /\ \A i \in 1 .. v.good : w.bytes[i] = v.bytes[i]
    /\ \A i \in 1 .. k : w.bytes[v.good + i] = <<q, d + i>>

(* The writer goes on with the packet at the end of the stream.             *)
LEMMA GoesOn ==
    ASSUME NEW v, NEW w, NEW q, NEW d \in Nat, NEW k \in Nat, Framed(v),
           Continues(v, w, q, d, k)
    PROVE  Framed(w)
  <1> USE DEF Continues
  <1>a. v.good \in Nat /\ v.count \in Nat /\ v.next \in Nat \ {0}
    BY DEF Framed, ViewOK
  <1>b. \A i \in 1 .. v.good : v.bytes[i][2] \in Nat /\ v.len[v.bytes[i][1]] \in Nat
    BY DEF Framed, ViewOK
  <1>0. \A i \in 1 .. v.good + k :
          \/ i \in 1 .. v.good
          \/ i > v.good /\ i - v.good \in 1 .. k /\ w.bytes[i] = <<q, d + (i - v.good)>>
    <2> TAKE i \in 1 .. v.good + k
    <2>1. CASE i > v.good
      <3>1. i - v.good \in 1 .. k /\ v.good + (i - v.good) = i
        BY <1>a, <2>1
      <3> QED
        BY <1>a, <2>1, <3>1
    <2> QED
      BY <1>a, <2>1
  <1>1. v.good \in 1 .. v.good
    BY <1>a
  <1>2. \A i \in 1 .. v.good + k : \E j \in 1 .. v.count : w.bytes[i][1] = v.order[j]
    <2> TAKE i \in 1 .. v.good + k
    <2>1. PICK j \in 1 .. v.count : q = v.order[j]
      BY <1>a, <1>1 DEF Framed
    <2>2. i \in 1 .. v.good => \E h \in 1 .. v.count : w.bytes[i][1] = v.order[h]
      BY <1>a DEF Framed
    <2> QED
      BY <1>a, <1>0, <2>1, <2>2
  <1>3. v.good + k > 0 => v.next <= v.count /\ w.bytes[1] = <<v.order[v.next], 1>>
    BY <1>a DEF Framed
  <1>4. \A i, h \in 1 .. v.good + k :
            i <= h /\ w.bytes[i][2] + (h - i) <= v.len[w.bytes[i][1]] =>
                w.bytes[h] = <<w.bytes[i][1], w.bytes[i][2] + (h - i)>>
    <2> TAKE i, h \in 1 .. v.good + k
    <2> HAVE i <= h /\ w.bytes[i][2] + (h - i) <= v.len[w.bytes[i][1]]
    <2>1. CASE i \in 1 .. v.good /\ h \in 1 .. v.good
      BY <1>a, <2>1 DEF Framed
    <2>2. CASE i \in 1 .. v.good /\ h > v.good
      <3>1. w.bytes[h] = <<q, d + (h - v.good)>>
        BY <1>a, <1>0, <2>2
      <3>2. /\ w.bytes[i] = v.bytes[i] /\ v.bytes[i][2] \in Nat
            /\ v.len[v.bytes[i][1]] \in Nat
        BY <1>b, <2>2
      <3>3. v.bytes[i][2] + (v.good - i) <= v.len[v.bytes[i][1]]
        BY <1>a, <2>2, <3>2
      <3>4. v.bytes[v.good] = <<v.bytes[i][1], v.bytes[i][2] + (v.good - i)>>
        BY <1>a, <1>1, <2>2, <3>3 DEF Framed
      <3>5. q = v.bytes[i][1] /\ d = v.bytes[i][2] + (v.good - i)
        BY <1>a, <3>4
      <3>6. \A a \in Nat : d = a + (v.good - i) => d + (h - v.good) = a + (h - i)
        BY <1>a, <2>2
      <3>7. d + (h - v.good) = v.bytes[i][2] + (h - i)
        BY <1>a, <3>2, <3>5, <3>6
      <3> QED
        BY <1>a, <3>1, <3>2, <3>5, <3>7
    <2>3. CASE i > v.good
      <3>1. h > v.good
        BY <1>a, <2>3
      <3>2. /\ w.bytes[i] = <<q, d + (i - v.good)>>
            /\ w.bytes[h] = <<q, d + (h - v.good)>>
        BY <1>a, <1>0, <2>3, <3>1
      <3>3. d + (h - v.good) = (d + (i - v.good)) + (h - i)
        BY <1>a
      <3> QED
        BY <1>a, <3>2, <3>3
    <2> QED
      BY <1>a, <2>1, <2>2, <2>3
  <1>5. \A i \in 1 .. v.good + k, j \in 1 .. v.count :
            i < v.good + k /\ w.bytes[i] = <<v.order[j], v.len[v.order[j]]>> =>
                j < v.count /\ w.bytes[i + 1] = <<v.order[j + 1], 1>>
    <2> TAKE i \in 1 .. v.good + k, j \in 1 .. v.count
    <2> HAVE i < v.good + k /\ w.bytes[i] = <<v.order[j], v.len[v.order[j]]>>
    <2>1. CASE i < v.good
      <3>1. i \in 1 .. v.good /\ i + 1 \in 1 .. v.good
        BY <1>a, <2>1
      <3> QED
        BY <1>a, <2>1, <3>1 DEF Framed
    <2>2. CASE i >= v.good
      <3>1. w.bytes[i] = <<q, d + (i - v.good)>>
        BY <1>a, <1>0, <1>1, <2>2
      <3>2. v.order[j] = q /\ v.len[q] = d + (i - v.good)
        BY <1>a, <3>1
      <3> QED
        BY <1>a, <3>2
    <2> QED
      BY <1>a, <2>1, <2>2
  <1>6. ViewOK(w)
    BY <1>a, <1>0 DEF Framed, ViewOK
  <1> QED
    BY <1>a, <1>2, <1>3, <1>4, <1>5, <1>6 DEF Framed

(* w is v, which ends with a whole packet, followed by the first k bytes of *)
(* packet q.                                                                *)
Starts(v, w, q, k) ==
    /\ IF v.good = 0 THEN v.next = v.count + 1
       ELSE v.bytes[v.good] = <<v.order[v.count], v.len[v.order[v.count]]>>
    /\ v.len[q] \in Nat /\ k <= v.len[q]
    /\ w.count = v.count + 1 /\ w.len = v.len /\ w.next = v.next
    /\ w.order[v.count + 1] = q
    /\ \A j \in 1 .. v.count : w.order[j] = v.order[j] /\ v.order[j] # q
    /\ w.good = v.good + k
    /\ \A i \in 1 .. v.good : w.bytes[i] = v.bytes[i]
    /\ \A i \in 1 .. k : w.bytes[v.good + i] = <<q, i>>

(* The writer starts a further packet, after the ones that are complete.    *)
LEMMA StartsNew ==
    ASSUME NEW v, NEW w, NEW q, NEW k \in Nat \ {0}, Framed(v),
           Starts(v, w, q, k)
    PROVE  Framed(w)
  <1> USE DEF Starts
  <1>a. v.good \in Nat /\ v.count \in Nat /\ v.next \in Nat \ {0}
    BY DEF Framed, ViewOK
  <1>b. \A i \in 1 .. v.good : v.bytes[i][2] \in Nat /\ v.len[v.bytes[i][1]] \in Nat
    BY DEF Framed, ViewOK
  <1>0. \A i \in 1 .. v.good + k :
          \/ i \in 1 .. v.good
          \/ i > v.good /\ i - v.good \in 1 .. k /\ w.bytes[i] = <<q, i - v.good>>
    <2> TAKE i \in 1 .. v.good + k
    <2>1. CASE i > v.good
      <3>1. i - v.good \in 1 .. k /\ v.good + (i - v.good) = i
        BY <1>a, <2>1
      <3> QED
        BY <1>a, <2>1, <3>1
    <2> QED
      BY <1>a, <2>1
  <1>1. \A j \in 1 .. v.count : j \in 1 .. v.count + 1
    BY <1>a
  <1>2. \A i \in 1 .. v.good + k : \E j \in 1 .. v.count + 1 : w.bytes[i][1] = w.order[j]
    <2> TAKE i \in 1 .. v.good + k
    <2>1. CASE i \in 1 .. v.good
      <3>1. PICK j \in 1 .. v.count : v.bytes[i][1] = v.order[j]
        BY <1>a, <2>1 DEF Framed
      <3> QED
        BY <1>a, <1>1, <2>1, <3>1
    <2>2. CASE i > v.good
      <3>1. v.count + 1 \in 1 .. v.count + 1 /\ w.bytes[i][1] = q
        BY <1>a, <1>0, <2>2
      <3> QED
        BY <1>a, <3>1
    <2> QED
      BY <1>a, <2>1, <2>2
  <1>3. v.good + k > 0 => v.next <= v.count + 1 /\ w.bytes[1] = <<w.order[v.next], 1>>
    <2>1. CASE v.good = 0
      <3>1. 1 \in 1 .. k /\ w.bytes[v.good + 1] = <<q, 1>>
        BY <1>a
      <3> QED
        BY <1>a, <2>1, <3>1
    <2>2. CASE v.good > 0
      <3>1. /\ v.next <= v.count /\ v.bytes[1] = <<v.order[v.next], 1>>
            /\ 1 \in 1 .. v.good
        BY <1>a, <2>2 DEF Framed
      <3>2. v.next \in 1 .. v.count
        BY <1>a, <3>1
      <3> QED
        BY <1>a, <3>1, <3>2
    <2> QED
      BY <1>a, <2>1, <2>2
  <1>4. \A i, h \in 1 .. v.good + k :
            i <= h /\ w.bytes[i][2] + (h - i) <= v.len[w.bytes[i][1]] =>
                w.bytes[h] = <<w.bytes[i][1], w.bytes[i][2] + (h - i)>>
    <2> TAKE i, h \in 1 .. v.good + k
    <2> HAVE i <= h /\ w.bytes[i][2] + (h - i) <= v.len[w.bytes[i][1]]
    <2>1. CASE i \in 1 .. v.good /\ h \in 1 .. v.good
      BY <1>a, <2>1 DEF Framed
    <2>2. CASE i \in 1 .. v.good /\ h > v.good
      <3>1. PICK j \in 1 .. v.count : v.bytes[i][1] = v.order[j]
        BY <1>a, <2>2 DEF Framed
      <3>2. /\ w.bytes[i] = v.bytes[i] /\ v.bytes[i][2] \in Nat
            /\ v.len[v.bytes[i][1]] \in Nat
        BY <1>b, <2>2, <3>1
      <3>3. /\ v.bytes[i][2] + (v.good - i) < v.len[v.bytes[i][1]]
            /\ v.good \in 1 .. v.good
        BY <1>a, <2>2, <3>2
      <3>4. v.bytes[v.good] = <<v.bytes[i][1], v.bytes[i][2] + (v.good - i)>>
        BY <1>a, <2>2, <3>2, <3>3 DEF Framed
      <3>5. v.bytes[v.good] = <<v.order[v.count], v.len[v.order[v.count]]>>
        BY <1>a, <3>3
      <3>6. /\ v.bytes[i][1] = v.order[v.count]
            /\ v.bytes[i][2] + (v.good - i) = v.len[v.order[v.count]]
        BY <1>a, <3>4, <3>5
      <3> QED
        BY <1>a, <3>2, <3>3, <3>6
    <2>3. CASE i > v.good
      <3>1. h > v.good
        BY <1>a, <2>3
      <3>2. w.bytes[i] = <<q, i - v.good>> /\ w.bytes[h] = <<q, h - v.good>>
        BY <1>a, <1>0, <2>3, <3>1
      <3>3. h - v.good = (i - v.good) + (h - i)
        BY <1>a
      <3> QED
        BY <1>a, <3>2, <3>3
    <2> QED
      BY <1>a, <2>1, <2>2, <2>3
  <1>5. \A i \in 1 .. v.good + k, j \in 1 .. v.count + 1 :
            i < v.good + k /\ w.bytes[i] = <<w.order[j], v.len[w.order[j]]>> =>
                j < v.count + 1 /\ w.bytes[i + 1] = <<w.order[j + 1], 1>>
    <2> TAKE i \in 1 .. v.good + k, j \in 1 .. v.count + 1
    <2> HAVE i < v.good + k /\ w.bytes[i] = <<w.order[j], v.len[w.order[j]]>>
    <2>1. CASE i \in 1 .. v.good
      <3>1. PICK h \in 1 .. v.count : v.bytes[i][1] = v.order[h]
        BY <1>a, <2>1 DEF Framed
      <3>2. v.order[h] = w.order[j]
        BY <1>a, <2>1, <3>1
      <3>3. j \in 1 .. v.count
        BY <1>a, <3>1, <3>2
      <3>4. v.bytes[i] = <<v.order[j], v.len[v.order[j]]>>
        BY <1>a, <2>1, <3>3
      <3>5. CASE i < v.good
        <4>1. i + 1 \in 1 .. v.good
          BY <1>a, <2>1, <3>5
        <4>2. j < v.count /\ v.bytes[i + 1] = <<v.order[j + 1], 1>>
          BY <1>a, <2>1, <3>3, <3>4, <3>5 DEF Framed
        <4>3. j + 1 \in 1 .. v.count
          BY <1>a, <3>3, <4>2
        <4> QED
          BY <1>a, <4>1, <4>2, <4>3
      <3>6. CASE i = v.good
        <4>1. /\ v.bytes[v.good] = <<v.order[v.count], v.len[v.order[v.count]]>>
              /\ v.count \in 1 .. v.count
          BY <1>a, <2>1, <3>3, <3>6
        <4>2. v.order[j] = v.order[v.count]
          BY <3>4, <3>6, <4>1
        <4>4. j = v.count
          BY <3>3, <4>1, <4>2 DEF Framed, ViewOK
        <4>3. 1 \in 1 .. k /\ w.bytes[v.good + 1] = <<q, 1>>
          BY <1>a
        <4> QED
          BY <1>a, <3>6, <4>3, <4>4
      <3> QED
        BY <1>a, <2>1, <3>5, <3>6
    <2>2. CASE i > v.good
      <3>1. w.bytes[i] = <<q, i - v.good>> /\ i - v.good < k
        BY <1>a, <1>0, <2>2
      <3>2. w.order[j] = q /\ v.len[q] = i - v.good
        BY <1>a, <3>1
      <3> QED
        BY <1>a, <3>1, <3>2
    <2> QED
      BY <1>a, <2>1, <2>2
  <1>6. ViewOK(w)
    <2>1. \A i \in 1 .. w.good : w.bytes[i][2] \in Nat
      <3> TAKE i \in 1 .. w.good
      <3>1. CASE i \in 1 .. v.good
        BY <1>b, <3>1
      <3>2. CASE i > v.good
        BY <1>a, <1>0, <3>2
      <3> QED
        BY <1>a, <3>1, <3>2
    <2>2. \A j \in 1 .. w.count : j \in 1 .. v.count \/ (j = v.count + 1 /\ w.order[j] = q)
      BY <1>a
    <2>3. \A j \in 1 .. w.count : w.len[w.order[j]] \in Nat \ {0}
      BY <2>2 DEF Framed, ViewOK
    <2>4. \A i, j \in 1 .. w.count : w.order[i] = w.order[j] => i = j
      BY <2>2 DEF Framed, ViewOK
    <2> QED
      BY <1>a, <2>1, <2>3, <2>4 DEF ViewOK
  <1> QED
    BY <1>a, <1>2, <1>3, <1>4, <1>5, <1>6 DEF Framed

(* A torn packet is never complete: what follows does not go on with it.    *)
LEMMA TornNeverWhole ==
    ASSUME NEW v, Framed(v), NEW d \in Nat, v.good > 0,
           v.bytes[v.good] = <<v.order[v.count], d>>,
           d < v.len[v.order[v.count]],
           v.len[v.order[v.next]] \in Nat \ {0},
           \A i \in 1 .. v.len[v.order[v.next]] : v.bytes[i] = <<v.order[v.next], i>>,
           v.good < v.len[v.order[v.next]] =>
               v.bytes[v.good + 1] # <<v.order[v.count], d + 1>>
    PROVE  v.len[v.order[v.next]] \in 1 .. v.good /\ v.next < v.count
  <1> DEFINE m == v.len[v.order[v.next]]
  <1>a. v.good \in Nat /\ m \in Nat \ {0}
    BY DEF Framed, ViewOK
  <1>1. CASE v.good < m
    <2>1. v.good \in 1 .. m /\ v.good + 1 \in 1 .. m
      BY <1>a, <1>1
    <2>2. /\ v.bytes[v.good] = <<v.order[v.next], v.good>>
          /\ v.bytes[v.good + 1] = <<v.order[v.next], v.good + 1>>
      BY <2>1
    <2>3. v.order[v.next] = v.order[v.count] /\ v.good = d
      BY <2>2
    <2> QED
      BY <1>1, <2>2, <2>3
  <1>2. CASE v.good >= m
    <2>1. m \in 1 .. v.good
      BY <1>a, <1>2
    <2> QED
      BY <2>1, TornNotWhole
  <1> QED
    BY <1>a, <1>1, <1>2

(* w is v as far as a framed stream depends on it.                          *)
Agrees(v, w) ==
    /\ w.good = v.good /\ w.count = v.count /\ w.next = v.next
    /\ \A i \in 1 .. v.good : w.bytes[i] = v.bytes[i]
    /\ \A j \in 1 .. v.count :
          w.order[j] = v.order[j] /\ w.len[v.order[j]] = v.len[v.order[j]]

(* Two views that agree are framed alike.                                   *)
LEMMA AgreeFramed ==
    ASSUME NEW v, NEW w, Framed(v), Agrees(v, w)
    PROVE  Framed(w)
  <1>1. v.good \in Nat /\ v.count \in Nat /\ v.next \in Nat \ {0}
    BY DEF Framed, ViewOK
  <1>2. w.good = v.good /\ w.count = v.count /\ w.next = v.next
    BY DEF Agrees
  <1>3. \A i \in 1 .. v.good : w.bytes[i] = v.bytes[i]
    BY DEF Agrees
  <1>4. \A j \in 1 .. v.count :
            w.order[j] = v.order[j] /\ w.len[v.order[j]] = v.len[v.order[j]]
    BY DEF Agrees
  <1>5. \A i \in 1 .. v.good : w.len[w.bytes[i][1]] = v.len[v.bytes[i][1]]
    <2> TAKE i \in 1 .. v.good
    <2>1. PICK j \in 1 .. v.count : v.bytes[i][1] = v.order[j]
      BY DEF Framed
    <2> QED
      BY <1>3, <1>4, <2>1
  <1>6. ViewOK(w)
    BY <1>2, <1>3, <1>4 DEF Framed, ViewOK
  <1>7. \A i \in 1 .. w.good : \E j \in 1 .. w.count : w.bytes[i][1] = w.order[j]
    BY <1>2, <1>3, <1>4 DEF Framed
  <1>8. w.good > 0 => w.next <= w.count /\ w.bytes[1] = <<w.order[w.next], 1>>
    <2> HAVE w.good > 0
    <2>1. /\ 1 \in 1 .. v.good /\ v.next <= v.count
          /\ v.bytes[1] = <<v.order[v.next], 1>>
      BY <1>1, <1>2 DEF Framed
    <2>2. v.next \in 1 .. v.count
      BY <1>1, <2>1
    <2> QED
      BY <1>2, <1>3, <1>4, <2>1, <2>2
  <1>9. \A i, k \in 1 .. w.good :
            i <= k /\ w.bytes[i][2] + (k - i) <= w.len[w.bytes[i][1]] =>
                w.bytes[k] = <<w.bytes[i][1], w.bytes[i][2] + (k - i)>>
    BY <1>2, <1>3, <1>5 DEF Framed
  <1>10. \A i \in 1 .. w.good, j \in 1 .. w.count :
            i < w.good /\ w.bytes[i] = <<w.order[j], w.len[w.order[j]]>> =>
                j < w.count /\ w.bytes[i + 1] = <<w.order[j + 1], 1>>
    <2> TAKE i \in 1 .. w.good, j \in 1 .. w.count
    <2> HAVE i < w.good /\ w.bytes[i] = <<w.order[j], w.len[w.order[j]]>>
    <2>1. i \in 1 .. v.good /\ j \in 1 .. v.count /\ i < v.good
      BY <1>2
    <2>2. v.bytes[i] = <<v.order[j], v.len[v.order[j]]>>
      BY <1>3, <1>4, <2>1
    <2>3. j < v.count /\ v.bytes[i + 1] = <<v.order[j + 1], 1>>
      BY <2>1, <2>2 DEF Framed
    <2>4. i + 1 \in 1 .. v.good /\ j + 1 \in 1 .. v.count
      BY <1>1, <2>1, <2>3
    <2> QED
      BY <1>2, <1>3, <1>4, <2>3, <2>4
  <1> QED
    BY <1>6, <1>7, <1>8, <1>9, <1>10 DEF Framed

-----------------------------------------------------------------------------
(* The stream in a state of the invariant.                                  *)
LEMMA StreamType ==
    ASSUME TypeOK
    PROVE  /\ Base \in Nat /\ Unread \in Nat
           /\ \A i \in 1 .. Unread : stream[i] \in Byte
           /\ lens \in [1 .. Len(packets) -> Nat \ {0}]
  <1>0. rx.got \in Seq(Byte) /\ wire \in Seq(Byte) /\ rx.packet \in Nat
    BY DEF TypeOK
  <1>1. Base \in Nat /\ Len(rx.got) \in Nat /\ Len(wire) \in Nat
    BY LengthsAssumption DEF Base, TypeOK
  <1>2. Unread \in Nat
    BY <1>1 DEF Unread
  <1>3. ASSUME NEW i \in 1 .. Unread
        PROVE  stream[i] \in Byte
    <2>1. CASE i <= Base
      <3>1. stream[i] = <<rx.packet, i>>
        BY <2>1 DEF stream
      <3> QED
        BY <1>0, <1>2, <3>1 DEF Byte
    <2>2. CASE i > Base /\ i <= Base + Len(rx.got)
      <3>1. i - Base \in 1 .. Len(rx.got)
        BY <1>1, <1>2, <2>2
      <3>2. stream[i] = rx.got[i - Base]
        <4>1. ~(i <= Base)
          BY <1>1, <1>2, <2>2
        <4> QED
          BY <2>2, <4>1 DEF stream
      <3> QED
        BY <1>0, <3>1, <3>2
    <2>3. CASE i > Base + Len(rx.got)
      <3>1. i - (Base + Len(rx.got)) \in 1 .. Len(wire)
        BY <1>1, <1>2, <2>3 DEF Unread
      <3>2. stream[i] = wire[i - (Base + Len(rx.got))]
        <4>1. ~(i <= Base) /\ ~(i <= Base + Len(rx.got))
          BY <1>1, <1>2, <2>3
        <4> QED
          BY <4>1 DEF stream
      <3> QED
        BY <1>0, <3>1, <3>2
    <2> QED
      BY <1>1, <1>2, <2>1, <2>2, <2>3
  <1>4. lens \in [1 .. Len(packets) -> Nat \ {0}]
    BY DataLength, LengthsAssumption DEF lens
  <1> QED
    BY <1>1, <1>2, <1>3, <1>4

(* gg_file_read moves bytes from the socket to the receiver.                *)
LEMMA ReadStream ==
    ASSUME TypeOK, NEW k \in 1 .. Capacity, Read(k)
    PROVE  Unread' = Unread /\ stream' = stream
  <1>0. wire \in Seq(Byte) /\ rx.got \in Seq(Byte)
    BY DEF TypeOK
  <1>1. /\ Len(wire) \in Nat /\ Len(rx.got) \in Nat
        /\ want \in Nat /\ Base \in Nat /\ Unread \in Nat
    BY <1>0, WantType, StreamType
  <1>2. k \in Nat /\ k >= 1 /\ k <= Len(wire)
    <2>1. k \in Nat /\ k >= 1
      BY LengthsAssumption
    <2>2. k <= Smaller(Len(wire), want - Len(rx.got))
      BY DEF Read
    <2>3. want - Len(rx.got) \in Int
      BY <1>1
    <2> QED
      BY <1>1, <2>1, <2>2, <2>3, SmallerBounds
  <1> DEFINE head == SubSeq(wire, 1, k)
  <1>3. head \in Seq(Byte) /\ Len(head) = k /\ \A i \in 1 .. k : head[i] = wire[i]
    BY <1>0, <1>1, <1>2
  <1>4. /\ rx'.got = rx.got \o head /\ rx'.section = rx.section
        /\ rx'.packet = rx.packet
    BY DEF Read, TypeOK
  <1> HIDE DEF head
  <1>5. /\ Len(rx'.got) = Len(rx.got) + k
        /\ \A i \in 1 .. Len(rx.got) : rx'.got[i] = rx.got[i]
        /\ \A i \in 1 .. k : rx'.got[Len(rx.got) + i] = wire[i]
    <2>1. Len(rx'.got) = Len(rx.got) + k
      BY <1>0, <1>3, <1>4, ConcatProperties
    <2>2. \A i \in 1 .. Len(rx.got) : rx'.got[i] = rx.got[i]
      BY <1>0, <1>1, <1>3, <1>4
    <2>3. \A i \in 1 .. k : rx'.got[Len(rx.got) + i] = head[i]
      BY <1>0, <1>1, <1>3, <1>4
    <2> QED
      BY <1>3, <2>1, <2>2, <2>3
  <1>6. /\ Len(wire') = Len(wire) - k
        /\ \A i \in 1 .. Len(wire) - k : wire'[i] = wire[i + k]
    <2>1. wire' = SubSeq(wire, k + 1, Len(wire))
      BY DEF Read
    <2> QED
      BY <1>0, <1>1, <1>2, <2>1
  <1>7. Base' = Base
    BY <1>4 DEF Base
  <1>8. Unread' = Unread
    BY <1>1, <1>2, <1>5, <1>6, <1>7 DEF Unread
  <1>9. ASSUME NEW i \in 1 .. Unread
        PROVE  (stream')[i] = stream[i]
    <2> DEFINE g == Len(rx.got)
    <2>0. g \in Nat /\ Len(rx'.got) = g + k
      BY <1>1, <1>5
    <2>g. g = Len(rx.got)
      OBVIOUS
    <2> HIDE DEF g
    <2>1. CASE i <= Base
      BY <1>1, <1>4, <1>7, <1>8, <2>1 DEF stream
    <2>2. CASE i > Base /\ i <= Base + g
      <3>1. i - Base \in 1 .. g /\ i <= Base' + Len(rx'.got) /\ ~(i <= Base')
        BY <1>1, <1>2, <1>7, <2>0, <2>2
      <3>2. (stream')[i] = rx'.got[i - Base]
        BY <1>7, <1>8, <3>1 DEF stream
      <3>3. stream[i] = rx.got[i - Base]
        <4>1. ~(i <= Base) /\ i <= Base + Len(rx.got)
          BY <1>1, <2>g, <2>2
        <4> QED
          BY <4>1 DEF stream
      <3> QED
        BY <1>5, <2>g, <3>1, <3>2, <3>3
    <2>3. CASE i > Base + g /\ i <= Base + g + k
      <3>1. /\ i - (Base + g) \in 1 .. k
            /\ i - Base = g + (i - (Base + g))
            /\ i <= Base' + Len(rx'.got) /\ ~(i <= Base')
        BY <1>1, <1>2, <1>7, <2>0, <2>3
      <3>2. (stream')[i] = rx'.got[i - Base]
        BY <1>7, <1>8, <3>1 DEF stream
      <3>3. stream[i] = wire[i - (Base + g)]
        <4>1. ~(i <= Base) /\ ~(i <= Base + Len(rx.got))
          BY <1>1, <2>g, <2>3
        <4> QED
          BY <2>g, <4>1 DEF stream
      <3> QED
        BY <1>5, <2>g, <3>1, <3>2, <3>3
    <2>4. CASE i > Base + g + k
      <3>1. /\ i - (Base + g + k) \in 1 .. Len(wire) - k
            /\ i - (Base + g + k) + k = i - (Base + g)
            /\ ~(i <= Base' + Len(rx'.got)) /\ ~(i <= Base')
            /\ i - (Base' + Len(rx'.got)) = i - (Base + g + k)
        <4>1. i <= Base + g + Len(wire)
          BY <2>g DEF Unread
        <4>2. \A b, l \in Nat : i > b + g + k /\ i <= b + g + l =>
                 /\ i - (b + g + k) \in 1 .. l - k
                 /\ i - (b + g + k) + k = i - (b + g)
                 /\ ~(i <= b + (g + k)) /\ ~(i <= b)
                 /\ i - (b + (g + k)) = i - (b + g + k)
          BY <1>1, <1>2, <2>0
        <4> QED
          BY <1>1, <1>7, <2>0, <2>4, <4>1, <4>2
      <3>2. (stream')[i] = wire'[i - (Base + g + k)]
        BY <1>8, <3>1 DEF stream
      <3>3. stream[i] = wire[i - (Base + g)]
        <4>1. ~(i <= Base) /\ ~(i <= Base + Len(rx.got))
          BY <1>1, <1>2, <2>g, <2>4
        <4> QED
          BY <2>g, <4>1 DEF stream
      <3> QED
        BY <1>6, <3>1, <3>2, <3>3
    <2> QED
      BY <1>1, <1>2, <2>0, <2>1, <2>2, <2>3, <2>4
  <1> QED
    BY <1>8, <1>9 DEF stream

(* The prelude that has been read is that of the packet it names.           *)
LEMMA DecodePreludeStream ==
    ASSUME TypeOK, DecodePrelude
    PROVE  Unread' = Unread /\ stream' = stream
  <1>1. PICK n \in 1 .. Len(packets) : rx.got = Bytes(n, 0, PreludeLen)
    BY DEF DecodePrelude, PreludeError, prelude_crc_ok
  <1>2. PreludeLen \in Nat \ {0}
    BY LengthsAssumption
  <1>3. /\ Len(rx.got) = PreludeLen
        /\ \A i \in 1 .. PreludeLen : rx.got[i] = <<n, i>>
    BY <1>1, <1>2 DEF Bytes
  <1>4. /\ rx' = [section |-> "data", packet |-> n, got |-> <<>>]
        /\ wire' = wire /\ rx.section = "prelude"
    BY <1>2, <1>3 DEF DecodePrelude, SectionRead
  <1>5. Base = 0 /\ Base' = PreludeLen /\ Len(rx'.got) = 0 /\ Len(wire) \in Nat
    BY <1>4 DEF Base, TypeOK
  <1>6. Unread' = Unread /\ Unread = PreludeLen + Len(wire)
    BY <1>2, <1>3, <1>4, <1>5 DEF Unread
  <1>7. ASSUME NEW i \in 1 .. Unread
        PROVE  (stream')[i] = stream[i]
    <2>1. CASE i <= PreludeLen
      <3>1. (stream')[i] = <<n, i>>
        BY <1>4, <1>5, <1>6, <2>1 DEF stream
      <3>2. stream[i] = rx.got[i]
        BY <1>2, <1>3, <1>5, <1>6, <2>1 DEF stream
      <3>3. i \in 1 .. PreludeLen
        BY <1>2, <1>5, <1>6, <2>1
      <3> QED
        BY <1>3, <3>1, <3>2, <3>3
    <2>2. CASE i > PreludeLen
      <3>1. (stream')[i] = wire[i - PreludeLen]
        BY <1>2, <1>4, <1>5, <1>6, <2>2 DEF stream
      <3>2. stream[i] = wire[i - PreludeLen]
        BY <1>2, <1>3, <1>5, <1>6, <2>2 DEF stream
      <3> QED
        BY <3>1, <3>2
    <2> QED
      BY <1>2, <1>5, <1>6, <2>1, <2>2
  <1> QED
    BY <1>6, <1>7 DEF stream

(* A write appends bytes of the packet.                                     *)
LEMMA WriteStream ==
    ASSUME IInv, NEW t \in Threads, NEW k \in 1 .. Capacity, Write(t, k)
    PROVE  /\ k \in Nat \ {0}
           /\ rest[t].packet = send_mem /\ send_mem \in 1 .. Len(packets)
           /\ rest[t].done \in Nat
           /\ rest[t].done + k <= lens[send_mem]
           /\ Unread' = Unread + k
           /\ \A i \in 1 .. Unread : (stream')[i] = stream[i]
           /\ \A i \in 1 .. k :
                (stream')[Unread + i] = <<rest[t].packet, rest[t].done + i>>
  <1> DEFINE n == rest[t].packet
             done == rest[t].done
             new == Bytes(n, done, done + k)
  <1>1. /\ n = send_mem /\ send_mem \in 1 .. Len(packets) /\ n \in Nat
        /\ done \in Nat
    BY DEF Write, IInv, WriteInv, TypeOK
  <1>m. message_len(packets[n]) \in Nat
    BY <1>1, DataLength DEF IInv
  <1>0. wire \in Seq(Byte)
    BY DEF IInv, TypeOK
  <1>2. /\ Len(wire) \in Nat /\ Len(rx.got) \in Nat
        /\ Base \in Nat /\ Unread \in Nat
    BY StreamType DEF IInv, TypeOK
  <1>3. k \in Nat \ {0}
    BY LengthsAssumption
  <1>d. n = rest[t].packet /\ done = rest[t].done
    OBVIOUS
  <1>4. k <= message_len(packets[n]) - done
    <2>1. k <= Smaller(message_len(packets[n]) - done, Capacity - Len(wire))
      BY DEF Write
    <2>2. message_len(packets[n]) - done \in Int
      BY <1>1, <1>m
    <2>3. Capacity - Len(wire) \in Int
      BY <1>2, LengthsAssumption
    <2> QED
      BY <1>3, <2>1, <2>2, <2>3, SmallerBounds
  <1>7. wire' = wire \o new /\ rx' = rx
    BY <1>1 DEF Write
  <1> HIDE DEF n, done
  <1>5. done + k <= lens[send_mem]
    <2>1. lens[send_mem] = message_len(packets[n])
      BY <1>1 DEF lens
    <2> QED
      BY <1>1, <1>m, <1>3, <1>4, <2>1
  <1>6. /\ new \in Seq(Byte) /\ Len(new) = k
        /\ \A i \in 1 .. k : new[i] = <<n, done + i>>
    BY <1>1, <1>3, BytesType
  <1> HIDE DEF new
  <1>8. /\ Len(wire') = Len(wire) + k
        /\ \A i \in 1 .. Len(wire) : wire'[i] = wire[i]
        /\ \A i \in 1 .. k : wire'[Len(wire) + i] = new[i]
    <2>1. Len(wire') = Len(wire) + k
      BY <1>0, <1>6, <1>7, ConcatProperties
    <2>2. \A i \in 1 .. Len(wire) : wire'[i] = wire[i]
      BY <1>0, <1>6, <1>7
    <2>3. \A i \in 1 .. k : wire'[Len(wire) + i] = new[i]
      BY <1>0, <1>6, <1>7
    <2> QED
      BY <2>1, <2>2, <2>3
  <1>9. Base' = Base /\ Unread' = Unread + k
    BY <1>2, <1>3, <1>7, <1>8 DEF Base, Unread
  <1>10. ASSUME NEW i \in 1 .. Unread
         PROVE  (stream')[i] = stream[i]
    <2>1. i \in 1 .. Unread'
      BY <1>2, <1>3, <1>9
    <2>2. CASE i <= Base + Len(rx.got)
      BY <1>2, <1>7, <1>9, <2>1, <2>2 DEF stream
    <2>3. CASE i > Base + Len(rx.got)
      <3>1. i - (Base + Len(rx.got)) \in 1 .. Len(wire)
        BY <1>2, <2>3 DEF Unread
      <3>2. stream[i] = wire[i - (Base + Len(rx.got))]
        <4>1. ~(i <= Base) /\ ~(i <= Base + Len(rx.got))
          BY <1>2, <2>3
        <4> QED
          BY <4>1 DEF stream
      <3>3. (stream')[i] = wire'[i - (Base + Len(rx.got))]
        <4>1. ~(i <= Base') /\ ~(i <= Base' + Len(rx'.got))
          BY <1>2, <1>7, <1>9, <2>3
        <4>2. (stream')[i] = wire'[i - (Base' + Len(rx'.got))]
          BY <2>1, <4>1 DEF stream
        <4> QED
          BY <1>7, <1>9, <4>2
      <3> QED
        BY <1>8, <3>1, <3>2, <3>3
    <2> QED
      BY <1>2, <2>2, <2>3
  <1>11. ASSUME NEW i \in 1 .. k
         PROVE  (stream')[Unread + i] = <<n, done + i>>
    <2>1. /\ Unread + i \in 1 .. Unread'
          /\ Unread + i > Base + Len(rx.got) /\ Unread + i > Base
          /\ Unread + i - (Base + Len(rx.got)) = Len(wire) + i
      <3>1. Unread = Base + Len(rx.got) + Len(wire)
        BY DEF Unread
      <3>2. \A b, g, l \in Nat :
              /\ b + g + l + i \in 1 .. b + g + l + k
              /\ b + g + l + i > b + g /\ b + g + l + i > b
              /\ b + g + l + i - (b + g) = l + i
        BY <1>3
      <3> QED
        BY <1>2, <1>9, <3>1, <3>2
    <2>2. (stream')[Unread + i] = wire'[Len(wire) + i]
      <3>1. ~(Unread + i <= Base') /\ ~(Unread + i <= Base' + Len(rx'.got))
        BY <1>2, <1>7, <1>9, <2>1
      <3>2. PICK j \in 1 .. Unread' : j = Unread + i
        BY <2>1
      <3>3. (stream')[j] = wire'[j - (Base' + Len(rx'.got))]
        <4>1. ~(j <= Base') /\ ~(j <= Base' + Len(rx'.got))
          BY <3>1, <3>2
        <4> QED
          BY <4>1 DEF stream
      <3>4. j - (Base' + Len(rx'.got)) = Len(wire) + i
        <4>1. Base' + Len(rx'.got) = Base + Len(rx.got)
          BY <1>7, <1>9
        <4>2. j - (Base + Len(rx.got)) = Len(wire) + i
          <5>1. \A b, g, l \in Nat : j = b + g + l + i => j - (b + g) = l + i
            BY <1>3
          <5>2. j = Base + Len(rx.got) + Len(wire) + i
            BY <3>2 DEF Unread
          <5> QED
            BY <1>2, <5>1, <5>2
        <4> QED
          BY <4>1, <4>2
      <3>5. (stream')[j] = wire'[Len(wire) + i]
        BY <3>3, <3>4
      <3> QED
        BY <3>2, <3>5
    <2> QED
      BY <1>6, <1>8, <2>2
  <1> QED
    BY <1>1, <1>d, <1>3, <1>5, <1>9, <1>10, <1>11

(* A packet that is decoded leaves the stream, which began with it.         *)
LEMMA DecodeStream ==
    ASSUME TypeOK, Decode
    PROVE  LET m == lens[rx.packet]
           IN  /\ rx.packet \in 1 .. Len(packets)
               /\ m \in 1 .. Unread
               /\ \A i \in 1 .. m : stream[i] = <<rx.packet, i>>
               /\ Unread' = Unread - m
               /\ \A i \in 1 .. Unread - m : (stream')[i] = stream[i + m]
  <1> DEFINE n == rx.packet
             data == data_len(n)
  <1>1. /\ rx.section = "data" /\ n \in 1 .. Len(packets)
        /\ data \in Nat /\ Base = PreludeLen
        /\ PreludeLen \in Nat \ {0} /\ Len(wire) \in Nat
    BY DataLength, LengthsAssumption DEF TypeOK, Decode, SectionRead, Base
  <1>2. lens[n] = PreludeLen + data
    BY <1>1, DataLength, LengthsAssumption DEF lens, data_len
  <1>3. Len(rx.got) = data /\ \A i \in 1 .. data : rx.got[i] = <<n, PreludeLen + i>>
    <2>1. rx.got = Bytes(n, PreludeLen, PreludeLen + data)
      BY DEF Decode, message_crc_ok
    <2>2. PreludeLen + data - PreludeLen = data
      BY <1>1
    <2> HIDE DEF data
    <2> QED
      BY <1>1, <2>1, <2>2 DEF Bytes
  <1> HIDE DEF data
  <1>4. Unread = lens[n] + Len(wire) /\ lens[n] \in 1 .. Unread
    BY <1>1, <1>2, <1>3 DEF Unread
  <1>5. ASSUME NEW i \in 1 .. lens[n]
        PROVE  stream[i] = <<n, i>>
    <2>0. i \in 1 .. Unread
      BY <1>1, <1>2, <1>4
    <2>1. CASE i <= PreludeLen
      BY <1>1, <2>0, <2>1 DEF stream
    <2>2. CASE i > PreludeLen
      <3>1. i - PreludeLen \in 1 .. data /\ PreludeLen + (i - PreludeLen) = i
        BY <1>1, <1>2, <2>2
      <3>2. stream[i] = rx.got[i - PreludeLen]
        BY <1>1, <1>2, <1>3, <2>0, <2>2 DEF stream
      <3> QED
        BY <1>3, <3>1, <3>2
    <2> QED
      BY <1>1, <2>0, <2>1, <2>2
  <1>6. rx' = NewRead /\ wire' = wire
    BY DEF Decode
  <1>7. Base' = 0 /\ Len(rx'.got) = 0
    BY <1>6 DEF Base, NewRead
  <1>8. Unread' = Unread - lens[n] /\ Unread' = Len(wire)
    BY <1>1, <1>2, <1>4, <1>6, <1>7 DEF Unread
  <1>9. ASSUME NEW i \in 1 .. Unread - lens[n]
        PROVE  (stream')[i] = stream[i + lens[n]]
    <2>1. i \in 1 .. Len(wire) /\ i \in 1 .. Unread' /\ i + lens[n] \in 1 .. Unread
      BY <1>1, <1>2, <1>4, <1>8
    <2>2. (stream')[i] = wire[i]
      BY <1>6, <1>7, <2>1 DEF stream
    <2>3. /\ ~(i + lens[n] <= Base) /\ ~(i + lens[n] <= Base + Len(rx.got))
          /\ i + lens[n] - (Base + Len(rx.got)) = i
      BY <1>1, <1>2, <1>3, <2>1
    <2>4. stream[i + lens[n]] = wire[i]
      <3>1. PICK j \in 1 .. Unread : j = i + lens[n]
        BY <2>1
      <3>2. stream[j] = wire[j - (Base + Len(rx.got))]
        <4>1. ~(j <= Base) /\ ~(j <= Base + Len(rx.got))
          BY <2>3, <3>1
        <4> QED
          BY <4>1 DEF stream
      <3>3. j - (Base + Len(rx.got)) = i
        BY <1>1, <1>2, <1>3, <2>3, <3>1
      <3>4. stream[j] = wire[i]
        BY <3>2, <3>3
      <3> QED
        BY <3>1, <3>4
    <2> QED
      BY <2>2, <2>4
  <1> QED
    BY <1>1, <1>4, <1>5, <1>8, <1>9

-----------------------------------------------------------------------------
(* A step that leaves the stream and what is sent and received alone, and    *)
(* the lengths of the packets that there are.                               *)
Quiet ==
    /\ stream' = stream /\ Unread' = Unread
    /\ UNCHANGED <<sent, received>>
    /\ Len(packets') \in Nat /\ Len(packets') >= Len(packets)
    /\ \A n \in 1 .. Len(packets) : (lens')[n] = lens[n]

(* Such a step leaves a stream that ends in a torn packet as it is.         *)
LEMMA QuietTorn ==
    ASSUME TypeOK, OrderInv, Quiet, NEW c \in 0 .. Len(sent),
           NEW q, NEW d, NEW good, TornAt(c, q, d, good)
    PROVE  TornAt(c, q, d, good)'
  <1> DEFINE v == View(good, Before(c, q), c + 1)
             w == View(good, Before(c, q), c + 1)'
  <1>1. Framed(v) /\ q \in 1 .. Len(packets) /\ Len(packets) \in Nat
    BY DEF TornAt, TypeOK
  <1>2. Before(c, q)' = Before(c, q)
    BY DEF Before, Quiet
  <1>3. \A j \in 1 .. c + 1 : Before(c, q)[j] \in 1 .. Len(packets)
    <2>1. Len(sent) \in Nat
      BY DEF TypeOK
    <2> QED
      BY <1>1, <2>1 DEF Before, OrderInv
  <1>4. /\ w.bytes = stream /\ w.good = good /\ w.order = Before(c, q)
        /\ w.count = c + 1 /\ w.next = Len(received) + 1 /\ w.len = lens'
    BY <1>2 DEF View, Quiet
  <1>5. /\ v.bytes = stream /\ v.good = good /\ v.order = Before(c, q)
        /\ v.count = c + 1 /\ v.next = Len(received) + 1 /\ v.len = lens
    BY DEF View
  <1>6. Agrees(v, w)
    <2> HIDE DEF v, w
    <2>1. \A j \in 1 .. v.count :
             w.order[j] = v.order[j] /\ w.len[v.order[j]] = v.len[v.order[j]]
      BY <1>3, <1>4, <1>5 DEF Quiet
    <2> QED
      BY <1>4, <1>5, <2>1 DEF Agrees
  <1>7. Framed(w)
    <2> HIDE DEF v, w
    <2> QED
      BY <1>1, <1>6, AgreeFramed
  <1>8. q \in 1 .. Len(packets') /\ (lens')[q] = lens[q]
    BY <1>1 DEF Quiet
  <1> QED
    BY <1>7, <1>8 DEF TornAt, Quiet

(* Such a step leaves a stream of whole packets as it is.                   *)
LEMMA QuietWhole ==
    ASSUME TypeOK, OrderInv, Quiet, AllWhole
    PROVE  AllWhole'
  <1> DEFINE v == View(Unread, sent, Len(sent))
             w == View(Unread, sent, Len(sent))'
  <1>1. Framed(v) /\ Len(sent) \in Nat
    BY DEF AllWhole, TypeOK
  <1>2. \A j \in 1 .. Len(sent) : sent[j] \in 1 .. Len(packets)
    BY DEF OrderInv
  <1>3. /\ w.bytes = stream /\ w.good = Unread /\ w.order = sent
        /\ w.count = Len(sent) /\ w.next = Len(received) + 1 /\ w.len = lens'
    BY DEF View, Quiet
  <1>4. /\ v.bytes = stream /\ v.good = Unread /\ v.order = sent
        /\ v.count = Len(sent) /\ v.next = Len(received) + 1 /\ v.len = lens
    BY DEF View
  <1>5. Framed(w)
    <2> HIDE DEF v, w
    <2>1. \A j \in 1 .. v.count :
             w.order[j] = v.order[j] /\ w.len[v.order[j]] = v.len[v.order[j]]
      BY <1>2, <1>3, <1>4 DEF Quiet
    <2>2. Agrees(v, w)
      BY <1>3, <1>4, <2>1 DEF Agrees
    <2> QED
      BY <1>1, <2>2, AgreeFramed
  <1>6. Unread # 0 => Len(sent) \in 1 .. Len(sent)
    <2>1. v.good > 0 => v.next <= v.count /\ v.next \in Nat \ {0}
      BY <1>1 DEF Framed, ViewOK
    <2>2. Unread \in Nat
      BY StreamType
    <2> HIDE DEF v
    <2> QED
      BY <1>1, <1>4, <2>1, <2>2
  <1>7. Unread # 0 => (lens')[sent[Len(sent)]] = lens[sent[Len(sent)]]
    BY <1>2, <1>6 DEF Quiet
  <1>8. IF Unread = 0 THEN Len(received) = Len(sent)
        ELSE stream[Unread] = <<sent[Len(sent)], lens[sent[Len(sent)]]>>
    BY DEF AllWhole
  <1>9. IF Unread' = 0 THEN Len(received') = Len(sent')
        ELSE (stream')[Unread'] = <<sent'[Len(sent')], (lens')[sent'[Len(sent')]]>>
    BY <1>7, <1>8 DEF Quiet
  <1> QED
    BY <1>5, <1>9 DEF AllWhole

(* Who writes after the step was writing the same packet before it, or      *)
(* writes a packet that is new.                                             *)
WritersKept ==
    \A t \in Threads : send_pc'[t] = "write" =>
        \/ send_pc[t] = "write" /\ rest'[t].packet = rest[t].packet
        \/ rest'[t].packet > Len(packets)

(* A quiet step that tears nothing.                                         *)
LEMMA QuietKeeps ==
    ASSUME IInv, SInv, Quiet, WritersKept, UNCHANGED <<recv_err, cut>>,
           cut = {} => \A t \in Threads :
                          (Torn(t)' <=> Torn(t)) /\ (Torn(t) => rest'[t] = rest[t])
    PROVE  IntactInv' /\ CutInv'
  <1>1. TypeOK /\ OrderInv /\ Len(sent) \in 0 .. Len(sent)
    BY DEF IInv, SInv, TypeOK
  <1>2. IntactInv'
    <2> SUFFICES ASSUME recv_err' = "none", cut' = {}
                 PROVE  /\ (\A t \in Threads : ~Torn(t)') => AllWhole'
                        /\ \A t \in Threads : Torn(t)' =>
                              TornAt(Len(sent), rest[t].packet, rest[t].done, Unread)'
      BY DEF IntactInv
    <2>1. recv_err = "none" /\ cut = {}
      OBVIOUS
    <2>2. /\ (\A t \in Threads : ~Torn(t)) => AllWhole
          /\ \A t \in Threads : Torn(t) =>
                TornAt(Len(sent), rest[t].packet, rest[t].done, Unread)
      BY <2>1 DEF SInv, IntactInv
    <2>3. (\A t \in Threads : ~Torn(t)') => AllWhole'
      BY <1>1, <2>1, <2>2, QuietWhole
    <2>4. ASSUME NEW t \in Threads, Torn(t)'
          PROVE  TornAt(Len(sent), rest[t].packet, rest[t].done, Unread)'
      <3>1. Torn(t) /\ rest'[t] = rest[t]
        BY <2>1, <2>4
      <3>2. TornAt(Len(sent), rest[t].packet, rest[t].done, Unread)
        BY <2>2, <3>1
      <3>3. PICK c, q, d, g : /\ c = Len(sent) /\ q = rest[t].packet
                              /\ d = rest[t].done /\ g = Unread
        OBVIOUS
      <3>4. TornAt(c, q, d, g)'
        BY <1>1, <3>2, <3>3, QuietTorn
      <3>5. /\ c = Len(sent') /\ q = rest'[t].packet
            /\ d = rest'[t].done /\ g = Unread'
        BY <3>1, <3>3 DEF Quiet
      <3> QED
        BY <3>4, <3>5 DEF TornAt, Before, View
    <2> QED
      BY <2>3, <2>4
  <1>3. CutInv'
    <2> SUFFICES ASSUME recv_err' = "none", NEW c \in cut'
                 PROVE  /\ c \in 0 .. Len(sent')
                        /\ \E q \in 1 .. Len(packets'), good \in 1 .. Unread' :
                              CutAt(c, q, good)'
      BY DEF CutInv
    <2>1. recv_err = "none" /\ c \in cut
      OBVIOUS
    <2>2. c \in 0 .. Len(sent)
      BY <2>1 DEF SInv, CutInv
    <2>3. PICK q \in 1 .. Len(packets), good \in 1 .. Unread :
             /\ TornAt(c, q, stream[good][2], good)
             /\ good < Unread => stream[good + 1] # <<q, stream[good][2] + 1>>
             /\ \A t \in Threads : send_pc[t] = "write" => rest[t].packet # q
      BY <2>1 DEF SInv, CutInv, CutAt
    <2>4. PICK d : d = stream[good][2]
      OBVIOUS
    <2>5. TornAt(c, q, d, good)'
      BY <1>1, <2>2, <2>3, <2>4, QuietTorn
    <2>6. \A t \in Threads : send_pc'[t] = "write" => rest'[t].packet # q
      <3>1. Len(packets) \in Nat
        BY DEF IInv, TypeOK
      <3> QED
        BY <2>3, <3>1 DEF WritersKept
    <2>7. q \in 1 .. Len(packets') /\ good \in 1 .. Unread' /\ c \in 0 .. Len(sent')
      BY <2>2, <2>3 DEF Quiet, TornAt, IInv, TypeOK
    <2>8. d = (stream')[good][2]
      BY <2>4 DEF Quiet
    <2>9. good < Unread' => (stream')[good + 1] # <<q, d + 1>>
      BY <2>3, <2>4 DEF Quiet
    <2>10. CutAt(c, q, good)'
      BY <2>5, <2>6, <2>8, <2>9 DEF CutAt, TornAt
    <2> QED
      BY <2>7, <2>10
  <1> QED
    BY <1>2, <1>3

(* A timeout or the end of the process tears a packet.                      *)
LEMMA TearKeeps ==
    ASSUME IInv, SInv, Quiet, recv_err' = recv_err, cut = {}, cut' = {Len(sent)},
           NEW u \in Threads, Torn(u), \A t \in Threads : send_pc'[t] # "write"
    PROVE  IntactInv' /\ CutInv'
  <1>1. TypeOK /\ OrderInv /\ Len(sent) \in 0 .. Len(sent)
    BY DEF IInv, SInv, TypeOK
  <1>2. IntactInv'
    BY DEF IntactInv
  <1>3. CutInv'
    <2> SUFFICES ASSUME recv_err = "none"
                 PROVE  CutInv'
      BY DEF CutInv
    <2>1. PICK c, q, d, g : /\ c = Len(sent) /\ q = rest[u].packet
                            /\ d = rest[u].done /\ g = Unread
      OBVIOUS
    <2>2. TornAt(c, q, d, g)
      BY <2>1 DEF SInv, IntactInv
    <2>3. TornAt(c, q, d, g)'
      BY <1>1, <2>1, <2>2, QuietTorn
    <2>4. /\ q \in 1 .. Len(packets') /\ g \in 1 .. Unread' /\ g = Unread'
          /\ (stream')[g] = <<q, d>> /\ c \in 0 .. Len(sent') /\ cut' = {c}
      BY <1>1, <2>1, <2>3 DEF TornAt, Quiet
    <2>5. d = (stream')[g][2] /\ ~(g < Unread')
      <3>1. Unread \in Nat
        BY <1>1, StreamType
      <3> QED
        BY <2>1, <2>4, <3>1 DEF Quiet
    <2>6. CutAt(c, q, g)'
      BY <2>3, <2>5 DEF CutAt, TornAt
    <2> QED
      BY <2>4, <2>6 DEF CutInv
  <1> QED
    BY <1>2, <1>3

-----------------------------------------------------------------------------
(* The order of the packets up to the torn one.                             *)
LEMMA BeforeAt ==
    ASSUME NEW c \in Nat, NEW q
    PROVE  Before(c, q)[c + 1] = q /\ \A j \in 1 .. c : Before(c, q)[j] = sent[j]
  <1>1. c + 1 \in 1 .. c + 1 /\ ~(c + 1 <= c)
    OBVIOUS
  <1>2. Before(c, q)[c + 1] = q
    BY <1>1 DEF Before
  <1>3. \A j \in 1 .. c : Before(c, q)[j] = sent[j]
    BY DEF Before
  <1> QED
    BY <1>2, <1>3

(* The receiver takes packet n, of m bytes, from the stream.                *)
Taken(n, m, good, g) == n = rx.packet /\ m = lens[n] /\ g = good - m

(* A packet that is complete leaves a stream that ends in a torn packet:    *)
(* it is not the torn one.                                                  *)
LEMMA DecodeTorn ==
    ASSUME TypeOK, OrderInv, Decode, NEW c \in 0 .. Len(sent), NEW q,
           NEW d \in Nat, NEW good, TornAt(c, q, d, good),
           good < Unread => stream[good + 1] # <<q, d + 1>>,
           NEW n, NEW m, NEW g, Taken(n, m, good, g)
    PROVE  /\ Len(received) + 1 \in 1 .. c
           /\ sent[Len(received) + 1] = n
           /\ m \in 1 .. good - 1
           /\ TornAt(c, q, d, g)'
  <1> DEFINE v == View(good, Before(c, q), c + 1)
             w == View(g, Before(c, q), c + 1)'
  <1>1. /\ n \in 1 .. Len(packets) /\ m \in 1 .. Unread
        /\ Unread' = Unread - m
        /\ \A i \in 1 .. Unread - m : (stream')[i] = stream[i + m]
    BY DecodeStream DEF Taken
  <1>2. \A i \in 1 .. m : stream[i] = <<n, i>>
    BY DecodeStream DEF Taken
  <1>3. /\ good \in 1 .. Unread /\ q \in 1 .. Len(packets) /\ d < lens[q]
        /\ stream[good] = <<q, d>> /\ Framed(v)
    BY DEF TornAt
  <1>4. /\ Unread \in Nat /\ Len(sent) \in Nat /\ Len(received) \in Nat
        /\ c \in Nat /\ lens[q] \in Nat /\ m \in Nat \ {0} /\ good \in Nat \ {0}
        /\ m <= Unread /\ good <= Unread
    <2>1. Unread \in Nat /\ lens \in [1 .. Len(packets) -> Nat \ {0}]
      BY StreamType
    <2>2. Len(sent) \in Nat /\ Len(received) \in Nat
      BY DEF TypeOK
    <2>3. m \in Nat \ {0}
      BY <1>1, <2>1 DEF Taken
    <2>4. m <= Unread
      BY <1>1, <2>1, <2>3
    <2>5. good \in Nat \ {0} /\ good <= Unread
      BY <1>3, <2>1
    <2> QED
      BY <1>3, <2>1, <2>2, <2>3, <2>4, <2>5
  <1>5. /\ v.bytes = stream /\ v.good = good /\ v.order = Before(c, q)
        /\ v.count = c + 1 /\ v.next = Len(received) + 1 /\ v.len = lens
    BY DEF View
  <1>6. Before(c, q)[c + 1] = q /\ \A j \in 1 .. c : Before(c, q)[j] = sent[j]
    <2>1. c \in Nat
      BY <1>4
    <2> QED
      BY <2>1, BeforeAt
  <1>7. UNCHANGED <<sent, packets>> /\ received' = Append(received, n)
    BY DEF Decode, sender, Taken
  <1>8. Before(c, q)' = Before(c, q) /\ lens' = lens
    BY <1>7 DEF Before, lens, message_len
  <1>9. Len(received') = Len(received) + 1
    BY <1>7 DEF TypeOK
  <1>10. /\ w.bytes = stream' /\ w.good = g /\ w.order = Before(c, q)
         /\ w.count = c + 1 /\ w.next = Len(received) + 1 + 1 /\ w.len = lens
    BY <1>8, <1>9 DEF View
  <1> HIDE DEF v, w
  <1>11. v.order[v.next] = n /\ v.next \in 1 .. c + 1
    <2>1. v.good > 0 /\ 1 \in 1 .. m
      BY <1>1, <1>3, <1>4, <1>5
    <2>2. v.next <= v.count /\ stream[1] = <<v.order[v.next], 1>>
      BY <1>3, <1>5, <2>1 DEF Framed
    <2>3. stream[1] = <<n, 1>>
      BY <1>2, <2>1
    <2> QED
      BY <1>4, <1>5, <2>2, <2>3
  <1>12. m \in 1 .. good /\ v.next < v.count
    <2>1. m \in Nat \ {0} /\ good > 0
      BY <1>4
    <2>2. v.len[v.order[v.next]] = m
      BY <1>5, <1>11 DEF Taken
    <2>3. v.bytes[v.good] = <<v.order[v.count], d>> /\ d < v.len[v.order[v.count]]
      BY <1>3, <1>5, <1>6
    <2>4. \A i \in 1 .. v.len[v.order[v.next]] : v.bytes[i] = <<v.order[v.next], i>>
      BY <1>2, <1>5, <1>11, <2>2
    <2>5. v.good < v.len[v.order[v.next]] =>
             v.bytes[v.good + 1] # <<v.order[v.count], d + 1>>
      <3>1. good < m => good < Unread
        BY <1>4
      <3> QED
        BY <1>5, <1>6, <2>2, <3>1
    <2>6. v.len[v.order[v.next]] \in 1 .. v.good /\ v.next < v.count
      <3>1. Framed(v) /\ v.good > 0 /\ v.len[v.order[v.next]] \in Nat \ {0}
        BY <1>3, <1>5, <2>1, <2>2
      <3> QED
        BY <2>3, <2>4, <2>5, <3>1, TornNeverWhole
    <2> QED
      BY <1>5, <2>2, <2>6
  <1>13. Len(received) + 1 \in 1 .. c /\ sent[Len(received) + 1] = n
    <2>1. Len(received) + 1 < c + 1
      BY <1>5, <1>12
    <2>2. Len(received) + 1 \in 1 .. c
      <3>1. \A k, h \in Nat : k + 1 < h + 1 => k + 1 \in 1 .. h
        OBVIOUS
      <3>2. Len(received) \in Nat /\ c \in Nat
        BY <1>4
      <3> QED
        BY <2>1, <3>1, <3>2
    <2> QED
      BY <1>5, <1>6, <1>11, <2>2
  <1>14. m # good
    <2>1. m = good => stream[good] = <<n, m>>
      BY <1>1, <1>2, <1>4
    <2>2. m = good => n = q /\ m = d
      BY <1>3, <2>1
    <2>3. m = lens[n] /\ d < lens[q]
      BY <1>3 DEF Taken
    <2> QED
      BY <1>4, <2>2, <2>3
  <1>15. m \in 1 .. good - 1 /\ g \in 1 .. Unread'
    <2>1. m <= good
      BY <1>4, <1>12
    <2>2. m \in 1 .. good - 1
      BY <1>4, <1>14, <2>1
    <2>3. good - m \in 1 .. Unread - m
      BY <1>4, <1>14, <2>1
    <2> QED
      BY <1>1, <2>2, <2>3 DEF Taken
  <1>16. Framed(w)
    <2>1. v.len[v.order[v.next]] = m /\ m \in 1 .. v.good
      BY <1>5, <1>11, <1>12 DEF Taken
    <2>2. \A i \in 1 .. v.good - m : w.bytes[i] = v.bytes[i + m]
      <3>1. good - m <= Unread - m
        BY <1>1, <1>3, <1>4
      <3>2. \A i \in 1 .. good - m : i \in 1 .. Unread - m
        BY <1>1, <1>3, <1>4, <3>1
      <3> QED
        BY <1>1, <1>5, <1>10, <3>2
    <2>3. Drops(v, w, m)
      BY <1>5, <1>10, <2>2 DEF Drops, Taken
    <2> QED
      BY <1>3, <2>1, <2>3, WithoutFirst
  <1>17. (stream')[g] = <<q, d>>
    <2>1. g \in 1 .. Unread - m /\ g + m = good
      BY <1>1, <1>4, <1>15 DEF Taken
    <2> QED
      BY <1>1, <1>3, <2>1
  <1>18. \A j \in 1 .. c : sent'[j] < q
    BY <1>7 DEF TornAt
  <1>19. TornAt(c, q, d, g)'
    BY <1>3, <1>7, <1>8, <1>15, <1>16, <1>17, <1>18 DEF TornAt, w
  <1> QED
    BY <1>13, <1>15, <1>19

(* A packet that is complete leaves a stream of whole packets.              *)
LEMMA DecodeWhole ==
    ASSUME TypeOK, OrderInv, Decode, AllWhole, NEW n, NEW m, NEW g,
           Taken(n, m, Unread, g)
    PROVE  /\ Len(received) + 1 \in 1 .. Len(sent)
           /\ sent[Len(received) + 1] = n
           /\ AllWhole'
  <1> DEFINE v == View(Unread, sent, Len(sent))
             w == View(Unread, sent, Len(sent))'
  <1>1. /\ n \in 1 .. Len(packets) /\ m \in 1 .. Unread
        /\ Unread' = Unread - m
        /\ \A i \in 1 .. Unread - m : (stream')[i] = stream[i + m]
    BY DecodeStream DEF Taken
  <1>2. \A i \in 1 .. m : stream[i] = <<n, i>>
    BY DecodeStream DEF Taken
  <1>3. Framed(v)
    BY DEF AllWhole
  <1>4. /\ Unread \in Nat /\ Len(sent) \in Nat /\ Len(received) \in Nat
        /\ m \in Nat \ {0} /\ m <= Unread
    <2>1. Unread \in Nat
      BY StreamType
    <2>2. m \in Nat \ {0} /\ m <= Unread
      BY <1>1, <2>1
    <2>3. Len(sent) \in Nat /\ Len(received) \in Nat
      BY DEF TypeOK
    <2> QED
      BY <2>1, <2>2, <2>3
  <1>5. /\ v.bytes = stream /\ v.good = Unread /\ v.order = sent
        /\ v.count = Len(sent) /\ v.next = Len(received) + 1 /\ v.len = lens
    BY DEF View
  <1>6. UNCHANGED <<sent, packets>> /\ received' = Append(received, n)
    BY DEF Decode, sender, Taken
  <1>7. lens' = lens /\ Len(received') = Len(received) + 1
    BY <1>6 DEF lens, message_len, TypeOK
  <1>8. /\ w.bytes = stream' /\ w.good = Unread - m /\ w.order = sent
        /\ w.count = Len(sent) /\ w.next = Len(received) + 1 + 1 /\ w.len = lens
    BY <1>1, <1>6, <1>7 DEF View
  <1> HIDE DEF v, w
  <1>9. v.order[v.next] = n /\ Len(received) + 1 \in 1 .. Len(sent)
    <2>1. v.good > 0 /\ 1 \in 1 .. m
      BY <1>4, <1>5
    <2>2. v.next <= v.count /\ stream[1] = <<v.order[v.next], 1>>
      BY <1>3, <1>5, <2>1 DEF Framed
    <2>3. stream[1] = <<n, 1>>
      BY <1>2, <2>1
    <2>4. Len(received) + 1 <= Len(sent)
      BY <1>5, <2>2
    <2>5. \A k, h \in Nat : k + 1 <= h => k + 1 \in 1 .. h
      OBVIOUS
    <2> QED
      BY <1>4, <2>2, <2>3, <2>4, <2>5
  <1>10. sent[Len(received) + 1] = n
    BY <1>5, <1>9
  <1>11. Framed(w)
    <2>1. v.len[v.order[v.next]] = m /\ m \in 1 .. v.good
      BY <1>1, <1>5, <1>9 DEF Taken
    <2>2. \A i \in 1 .. v.good - m : w.bytes[i] = v.bytes[i + m]
      BY <1>1, <1>5, <1>8
    <2>3. Drops(v, w, m)
      BY <1>5, <1>8, <2>2 DEF Drops
    <2> QED
      BY <1>3, <2>1, <2>3, WithoutFirst
  <1>12. stream[Unread] = <<sent[Len(sent)], lens[sent[Len(sent)]]>>
    <2>1. Unread # 0
      BY <1>4
    <2> QED
      BY <2>1 DEF AllWhole
  <1>13. Framed(View(Unread, sent, Len(sent))')
    BY <1>11 DEF w
  <1>14. CASE Unread' = 0
    <2>1. m = Unread
      BY <1>1, <1>4, <1>14
    <2>2. stream[Unread] = <<n, m>>
      BY <1>2, <1>4, <2>1
    <2>3. sent[Len(sent)] = sent[Len(received) + 1]
      BY <1>10, <1>12, <2>2
    <2>4. Len(sent) \in 1 .. Len(sent)
      BY <1>4, <1>9
    <2>5. Len(sent) = Len(received) + 1
      <3>1. \A i, j \in 1 .. v.count : v.order[i] = v.order[j] => i = j
        BY <1>3 DEF Framed, ViewOK
      <3> QED
        BY <1>5, <1>9, <2>3, <2>4, <3>1
    <2>6. Len(received') = Len(sent')
      BY <1>6, <1>7, <2>5
    <2> QED
      BY <1>9, <1>10, <1>13, <1>14, <2>6 DEF AllWhole
  <1>15. CASE Unread' # 0
    <2>1. PICK k : k = Unread'
      OBVIOUS
    <2>2. k \in 1 .. Unread - m /\ k + m = Unread
      BY <1>1, <1>4, <1>15, <2>1
    <2>3. (stream')[k] = <<sent[Len(sent)], lens[sent[Len(sent)]]>>
      BY <1>1, <1>12, <2>2
    <2>4. (stream')[Unread'] = <<sent'[Len(sent')], (lens')[sent'[Len(sent')]]>>
      BY <1>6, <1>7, <2>1, <2>3
    <2> QED
      BY <1>9, <1>10, <1>13, <1>15, <2>4 DEF AllWhole
  <1> QED
    BY <1>14, <1>15

(* eventsteam_get_packet returns the next packet whose send had succeeded,  *)
(* and none after a torn one.                                               *)
LEMMA DecodeNext ==
    ASSUME IInv, SInv, Decode
    PROVE  /\ Len(received) + 1 \in 1 .. Len(sent)
           /\ sent[Len(received) + 1] = rx.packet
           /\ \A c \in cut : Len(received) < c
           /\ IntactInv' /\ CutInv'
  <1>1. TypeOK /\ OrderInv /\ recv_err = "none" /\ rx.section = "data"
    BY DEF IInv, SInv, Decode, SectionRead, Receiving
  <1>2. Len(sent) \in Nat /\ Len(received) \in Nat
    BY <1>1 DEF TypeOK
  <1>3. /\ UNCHANGED <<send_pc, rest, packets, recv_err, sent, cut>>
        /\ rest \in [Threads -> [packet : Nat, done : Nat]]
    BY <1>1 DEF Decode, sender, TypeOK
  <1>4. PICK n, m : n = rx.packet /\ m = lens[n]
    OBVIOUS
  <1>5. CASE cut = {}
    <2>1. CutInv'
      BY <1>3, <1>5 DEF CutInv
    <2>2. CASE \A t \in Threads : ~Torn(t)
      <3>1. AllWhole
        BY <1>1, <1>5, <2>2 DEF SInv, IntactInv
      <3>2. PICK g : Taken(n, m, Unread, g)
        BY <1>4 DEF Taken
      <3>3. /\ Len(received) + 1 \in 1 .. Len(sent)
            /\ sent[Len(received) + 1] = n
            /\ AllWhole'
        BY <1>1, <3>1, <3>2, DecodeWhole
      <3>4. \A t \in Threads : ~Torn(t)'
        BY <1>3, <2>2 DEF Torn
      <3> QED
        BY <1>4, <1>5, <2>1, <3>3, <3>4 DEF IntactInv
    <2>3. CASE \E t \in Threads : Torn(t)
      <3>1. PICK t \in Threads : Torn(t)
        BY <2>3
      <3>2. TornAt(Len(sent), rest[t].packet, rest[t].done, Unread)
        BY <1>1, <1>5, <3>1 DEF SInv, IntactInv
      <3>3. PICK c, q, d, u, g :
               /\ c = Len(sent) /\ q = rest[t].packet /\ d = rest[t].done
               /\ u = Unread /\ g = Unread - m
        OBVIOUS
      <3>4. /\ TornAt(c, q, d, u) /\ Taken(n, m, u, g) /\ d \in Nat
            /\ c \in 0 .. Len(sent)
        BY <1>2, <1>3, <1>4, <3>2, <3>3 DEF Taken
      <3>5. ~(u < Unread)
        BY <1>1, <3>3, StreamType
      <3>6. /\ Len(received) + 1 \in 1 .. c
            /\ sent[Len(received) + 1] = n
            /\ TornAt(c, q, d, g)'
        BY <1>1, <3>4, <3>5, DecodeTorn
      <3>7. Unread' = g
        BY <1>1, <1>4, <3>3, DecodeStream
      <3>8. TornAt(Len(sent), rest[t].packet, rest[t].done, Unread)'
        <4>1. /\ c = Len(sent') /\ q = rest'[t].packet
              /\ d = rest'[t].done /\ g = Unread'
          BY <1>3, <3>3, <3>7
        <4> QED
          BY <3>6, <4>1 DEF TornAt, Before, View
      <3>9. \A u1 \in Threads : Torn(u1)' => u1 = t
        BY <1>3, <3>1 DEF Torn, IInv, WriteInv
      <3>10. Torn(t)'
        BY <1>3, <3>1 DEF Torn
      <3> QED
        BY <1>4, <1>5, <2>1, <3>3, <3>6, <3>8, <3>9, <3>10 DEF IntactInv
    <2> QED
      BY <2>2, <2>3
  <1>6. CASE cut # {}
    <2>1. IntactInv'
      BY <1>3, <1>6 DEF IntactInv
    <2>2. ASSUME NEW c \in cut
          PROVE  /\ c \in 0 .. Len(sent')
                 /\ Len(received) + 1 \in 1 .. c
                 /\ sent[Len(received) + 1] = n
                 /\ \E q \in 1 .. Len(packets'), g \in 1 .. Unread' : CutAt(c, q, g)'
      <3>1. c \in 0 .. Len(sent)
        BY <1>1 DEF SInv, CutInv
      <3>2. PICK q \in 1 .. Len(packets), good \in 1 .. Unread :
               /\ TornAt(c, q, stream[good][2], good)
               /\ good < Unread => stream[good + 1] # <<q, stream[good][2] + 1>>
               /\ \A t \in Threads : send_pc[t] = "write" => rest[t].packet # q
        BY <1>1 DEF SInv, CutInv, CutAt
      <3>3. PICK d, g : d = stream[good][2] /\ g = good - m
        OBVIOUS
      <3>4. Taken(n, m, good, g) /\ d \in Nat
        <4>1. stream[good] \in Byte
          BY <1>1, StreamType
        <4> QED
          BY <1>4, <3>3, <4>1 DEF Taken, Byte
      <3>5. /\ Len(received) + 1 \in 1 .. c
            /\ sent[Len(received) + 1] = n
            /\ m \in 1 .. good - 1
            /\ TornAt(c, q, d, g)'
        BY <1>1, <3>1, <3>2, <3>3, <3>4, DecodeTorn
      <3>6. /\ Unread' = Unread - m /\ Unread \in Nat /\ m \in Nat
            /\ \A i \in 1 .. Unread - m : (stream')[i] = stream[i + m]
        <4>1. Unread \in Nat
          BY <1>1, StreamType
        <4>2. m \in 1 .. Unread
          BY <1>1, <1>4, DecodeStream
        <4> QED
          BY <1>1, <1>4, <4>1, <4>2, DecodeStream
      <3>7. g \in 1 .. Unread' /\ g + m = good /\ good \in Nat
        BY <3>3, <3>5, <3>6
      <3>8. (stream')[g] = stream[good]
        BY <3>6, <3>7
      <3>9. g < Unread' => (stream')[g + 1] # <<q, d + 1>>
        <4> HAVE g < Unread'
        <4>1. g + 1 \in 1 .. Unread - m /\ g + 1 + m = good + 1 /\ good < Unread
          BY <3>6, <3>7
        <4>2. (stream')[g + 1] = stream[good + 1]
          BY <3>6, <4>1
        <4> QED
          BY <3>2, <3>3, <4>1, <4>2
      <3>10. d = (stream')[g][2]
        BY <3>3, <3>8
      <3>11. \A t \in Threads : send_pc'[t] = "write" => rest'[t].packet # q
        BY <1>3, <3>2
      <3>12. CutAt(c, q, g)'
        BY <3>5, <3>9, <3>10, <3>11 DEF CutAt, TornAt
      <3> QED
        BY <1>3, <3>1, <3>5, <3>7, <3>12
    <2>3. CutInv'
      BY <1>3, <2>2 DEF CutInv
    <2>4. PICK c \in cut : TRUE
      BY <1>6
    <2>5. c \in 0 .. Len(sent) /\ Len(received) + 1 \in 1 .. c
      BY <1>3, <2>2
    <2>6. Len(received) + 1 \in 1 .. Len(sent)
      BY <1>2, <2>5
    <2>7. \A e \in cut : Len(received) < e
      <3> TAKE e \in cut
      <3>1. e \in 0 .. Len(sent) /\ Len(received) + 1 \in 1 .. e
        BY <1>3, <2>2
      <3> QED
        BY <1>2, <3>1
    <2> QED
      BY <1>4, <2>1, <2>2, <2>3, <2>4, <2>6, <2>7
  <1> QED
    BY <1>5, <1>6

-----------------------------------------------------------------------------
(* A write adds k bytes of packet q, of which d were written, to a stream    *)
(* of u bytes.                                                              *)
Writes(t, k, q, d, u) ==
    q = rest[t].packet /\ d = rest[t].done /\ u = Unread + k

(* What a write does to the senders and to the history.                     *)
LEMMA WriteOutcome ==
    ASSUME IInv, NEW t \in Threads, NEW k \in 1 .. Capacity, Write(t, k),
           NEW q, NEW d, NEW u, Writes(t, k, q, d, u)
    PROVE  /\ UNCHANGED <<packets, received, recv_err, cut>> /\ lens' = lens
           /\ send_pc[t] = "write" /\ recv_err = "none"
           /\ \A x \in Threads : send_pc[x] = "write" => x = t
           /\ \/ /\ d + k = lens[q] /\ sent' = Append(sent, q)
                 /\ \A x \in Threads : send_pc'[x] # "write"
              \/ /\ d + k < lens[q] /\ sent' = sent /\ send_pc' = send_pc
                 /\ rest'[t].packet = q /\ rest'[t].done = d + k
                 /\ \A x \in Threads : x # t => rest'[x] = rest[x]
  <1>1. /\ q \in 1 .. Len(packets) /\ d \in Nat /\ k \in Nat \ {0}
        /\ d + k <= lens[q]
    BY WriteStream DEF Writes
  <1>2. /\ UNCHANGED <<packets, received, recv_err, cut>>
        /\ send_pc[t] = "write" /\ recv_err = "none"
    BY DEF Write
  <1>3. lens' = lens
    BY <1>2 DEF lens, message_len
  <1>4. lens[q] = message_len(packets[q]) /\ lens[q] \in Nat
    BY <1>1, StreamType DEF lens, IInv
  <1>5. \A x \in Threads : send_pc[x] = "write" => x = t
    BY <1>2 DEF IInv, WriteInv
  <1>6. CASE d + k = lens[q]
    <2>1. SendReturn(t) /\ sent' = Append(sent, q)
      BY <1>4, <1>6 DEF Write, Writes
    <2>2. \A x \in Threads : send_pc'[x] # "write"
      BY <1>5, <2>1 DEF SendReturn, IInv, TypeOK
    <2> QED
      BY <1>2, <1>3, <1>5, <1>6, <2>1, <2>2
  <1>7. CASE d + k # lens[q]
    <2>1. /\ rest' = [rest EXCEPT ![t].done = d + k]
          /\ UNCHANGED <<send_pc, sent>>
      BY <1>4, <1>7 DEF Write, Writes
    <2>2. /\ rest'[t].packet = q /\ rest'[t].done = d + k
          /\ \A x \in Threads : x # t => rest'[x] = rest[x]
      BY <2>1 DEF Writes, IInv, TypeOK
    <2>3. d + k < lens[q]
      BY <1>1, <1>4, <1>7
    <2> QED
      BY <1>2, <1>3, <1>5, <2>1, <2>2, <2>3
  <1> QED
    BY <1>6, <1>7

(* On a stream that is not torn, a write leaves what was sent, followed by  *)
(* the packet that is being sent up to what is written of it.               *)
LEMMA WriteFramed ==
    ASSUME IInv, SInv, NEW t \in Threads, NEW k \in 1 .. Capacity, Write(t, k),
           cut = {}, NEW q, NEW d, NEW u, Writes(t, k, q, d, u),
           NEW w, w = [bytes |-> stream', good |-> u,
                       order |-> Before(Len(sent), q), count |-> Len(sent) + 1,
                       next |-> Len(received) + 1, len |-> lens]
    PROVE  /\ Framed(w)
           /\ u = Unread' /\ u \in 1 .. Unread' /\ (stream')[u] = <<q, d + k>>
           /\ q \in 1 .. Len(packets) /\ \A j \in 1 .. Len(sent) : sent[j] < q
  <1>1. /\ q \in 1 .. Len(packets) /\ d \in Nat /\ k \in Nat \ {0}
        /\ d + k <= lens[q] /\ Unread' = u
        /\ \A i \in 1 .. Unread : (stream')[i] = stream[i]
        /\ \A i \in 1 .. k : (stream')[Unread + i] = <<q, d + i>>
    BY WriteStream DEF Writes
  <1>2. /\ Unread \in Nat /\ Len(sent) \in Nat /\ Len(received) \in Nat
        /\ lens[q] \in Nat /\ Len(packets) \in Nat
    <2>1. Len(sent) \in Nat /\ Len(received) \in Nat /\ Len(packets) \in Nat
      BY DEF IInv, TypeOK
    <2>2. Unread \in Nat /\ lens \in [1 .. Len(packets) -> Nat \ {0}]
      BY StreamType DEF IInv
    <2> QED
      BY <1>1, <2>1, <2>2
  <1>3. u = Unread + k
    BY DEF Writes
  <1>4. u \in 1 .. Unread' /\ (stream')[u] = <<q, d + k>>
    <2>1. k \in 1 .. k /\ u \in 1 .. u
      BY <1>1, <1>2, <1>3
    <2> QED
      BY <1>1, <1>3, <2>1
  <1>5. /\ send_pc[t] = "write" /\ recv_err = "none"
        /\ \A x \in Threads : send_pc[x] = "write" => x = t
    BY WriteOutcome
  <1>6. \A j \in 1 .. Len(sent) : sent[j] < q
    BY <1>5 DEF SInv, OrderInv, Writes
  <1>7. /\ Before(Len(sent), q)[Len(sent) + 1] = q
        /\ \A j \in 1 .. Len(sent) : Before(Len(sent), q)[j] = sent[j]
    BY <1>2, BeforeAt
  <1>8. /\ w.bytes = stream' /\ w.good = u /\ w.order = Before(Len(sent), q)
        /\ w.count = Len(sent) + 1 /\ w.next = Len(received) + 1 /\ w.len = lens
    OBVIOUS
  <1>9. CASE d = 0
    <2>1. \A x \in Threads : ~Torn(x)
      <3>1. rest[t].done = 0 /\ ~(0 > 0)
        BY <1>9 DEF Writes
      <3> QED
        BY <1>5, <3>1 DEF Torn
    <2>2. AllWhole
      BY <1>5, <2>1 DEF SInv, IntactInv
    <2> DEFINE v == View(Unread, sent, Len(sent))
    <2>3. /\ v.bytes = stream /\ v.good = Unread /\ v.order = sent
          /\ v.count = Len(sent) /\ v.next = Len(received) + 1 /\ v.len = lens
      BY DEF View
    <2>4. Framed(v) /\ (IF v.good = 0 THEN v.next = v.count + 1
             ELSE v.bytes[v.good] = <<v.order[v.count], v.len[v.order[v.count]]>>)
      BY <2>2 DEF AllWhole, View
    <2> HIDE DEF v
    <2>5. Starts(v, w, q, k)
      <3>1. \A j \in 1 .. v.count : w.order[j] = v.order[j] /\ v.order[j] # q
        <4>1. \A j \in 1 .. Len(sent) : sent[j] # q
          <5> TAKE j \in 1 .. Len(sent)
          <5>1. sent[j] \in Nat /\ q \in Nat /\ sent[j] < q
            BY <1>1, <1>2, <1>6 DEF SInv, OrderInv
          <5> QED
            BY <5>1
        <4> QED
          BY <1>7, <1>8, <2>3, <4>1
      <3>2. \A i \in 1 .. k : w.bytes[v.good + i] = <<q, i>>
        <4>1. \A i \in 1 .. k : d + i = i
          BY <1>1, <1>9
        <4> QED
          BY <1>1, <1>8, <2>3, <4>1
      <3>3. v.len[q] \in Nat /\ k <= v.len[q]
        BY <1>1, <1>2, <1>9, <2>3
      <3>4. \A i \in 1 .. v.good : w.bytes[i] = v.bytes[i]
        BY <1>1, <1>8, <2>3
      <3> QED
        BY <1>3, <1>7, <1>8, <2>3, <2>4, <3>1, <3>2, <3>3, <3>4 DEF Starts
    <2>6. Framed(w)
      BY <1>1, <2>4, <2>5, StartsNew
    <2> QED
      BY <1>1, <1>4, <1>6, <2>6
  <1>10. CASE d > 0
    <2>1. Torn(t)
      BY <1>5, <1>10 DEF Torn, Writes
    <2>2. TornAt(Len(sent), q, d, Unread)
      BY <1>5, <2>1 DEF SInv, IntactInv, Writes
    <2> DEFINE v == View(Unread, Before(Len(sent), q), Len(sent) + 1)
    <2>3. /\ v.bytes = stream /\ v.good = Unread /\ v.order = Before(Len(sent), q)
          /\ v.count = Len(sent) + 1 /\ v.next = Len(received) + 1 /\ v.len = lens
      BY DEF View
    <2>4. /\ Framed(v) /\ stream[Unread] = <<q, d>> /\ d < lens[q] /\ Unread > 0
      BY <1>2, <2>2 DEF TornAt
    <2> HIDE DEF v
    <2>5. Continues(v, w, q, d, k)
      BY <1>1, <1>3, <1>8, <2>3, <2>4 DEF Continues
    <2>6. Framed(w)
      BY <1>1, <2>4, <2>5, GoesOn
    <2> QED
      BY <1>1, <1>4, <1>6, <2>6
  <1>11. d = 0 \/ d > 0
    BY <1>1
  <1> QED
    BY <1>9, <1>10, <1>11

(* A write on a stream that is not torn.                                    *)
LEMMA WriteIntact ==
    ASSUME IInv, SInv, NEW t \in Threads, NEW k \in 1 .. Capacity, Write(t, k)
    PROVE  IntactInv'
  <1>1. PICK q, d, u : Writes(t, k, q, d, u)
    BY DEF Writes
  <1>2. /\ UNCHANGED <<packets, received, recv_err, cut>> /\ lens' = lens
        /\ send_pc[t] = "write" /\ recv_err = "none"
        /\ \A x \in Threads : send_pc[x] = "write" => x = t
    BY <1>1, WriteOutcome
  <1>3. \/ /\ d + k = lens[q] /\ sent' = Append(sent, q)
           /\ \A x \in Threads : send_pc'[x] # "write"
        \/ /\ d + k < lens[q] /\ sent' = sent /\ send_pc' = send_pc
           /\ rest'[t].packet = q /\ rest'[t].done = d + k
           /\ \A x \in Threads : x # t => rest'[x] = rest[x]
    BY <1>1, WriteOutcome
  <1> SUFFICES ASSUME cut = {}
               PROVE  IntactInv'
    BY <1>2 DEF IntactInv
  <1>4. PICK w : w = [bytes |-> stream', good |-> u,
                      order |-> Before(Len(sent), q), count |-> Len(sent) + 1,
                      next |-> Len(received) + 1, len |-> lens]
    OBVIOUS
  <1>5. /\ Framed(w)
        /\ u = Unread' /\ u \in 1 .. Unread' /\ (stream')[u] = <<q, d + k>>
        /\ q \in 1 .. Len(packets) /\ \A j \in 1 .. Len(sent) : sent[j] < q
    BY <1>1, <1>4, WriteFramed
  <1>6. /\ w.bytes = stream' /\ w.good = u /\ w.order = Before(Len(sent), q)
        /\ w.count = Len(sent) + 1 /\ w.next = Len(received) + 1 /\ w.len = lens
    BY <1>4
  <1>7. Len(sent) \in Nat /\ sent \in Seq(Nat) /\ q \in Nat /\ u # 0
    <2>1. Unread' \in Nat
      BY <1>1, StreamType, WriteStream DEF IInv
    <2> QED
      BY <1>5, <2>1 DEF IInv, TypeOK
  <1>8. CASE /\ d + k = lens[q] /\ sent' = Append(sent, q)
             /\ \A x \in Threads : send_pc'[x] # "write"
    <2> DEFINE v == View(Unread, sent, Len(sent))'
    <2>1. /\ Len(sent') = Len(sent) + 1 /\ sent'[Len(sent) + 1] = q
          /\ \A j \in 1 .. Len(sent) : sent'[j] = sent[j]
      BY <1>7, <1>8
    <2>2. /\ v.bytes = stream' /\ v.good = u /\ v.order = sent'
          /\ v.count = Len(sent) + 1 /\ v.next = Len(received) + 1 /\ v.len = lens
      BY <1>2, <1>5, <2>1 DEF View
    <2>3. \A j \in 1 .. Len(sent) + 1 : sent'[j] = Before(Len(sent), q)[j]
      <3>1. /\ Before(Len(sent), q)[Len(sent) + 1] = q
            /\ \A j \in 1 .. Len(sent) : Before(Len(sent), q)[j] = sent[j]
        BY <1>7, BeforeAt
      <3> TAKE j \in 1 .. Len(sent) + 1
      <3>2. j \in 1 .. Len(sent) \/ j = Len(sent) + 1
        BY <1>7
      <3> QED
        BY <2>1, <3>1, <3>2
    <2> HIDE DEF v
    <2>4. Agrees(w, v)
      BY <1>6, <2>2, <2>3 DEF Agrees
    <2>5. Framed(v)
      BY <1>5, <2>4, AgreeFramed
    <2>6. Framed(View(Unread, sent, Len(sent))')
      BY <2>5 DEF v
    <2>7. (stream')[Unread'] = <<sent'[Len(sent')], (lens')[sent'[Len(sent')]]>>
      BY <1>2, <1>5, <1>8, <2>1
    <2>8. AllWhole'
      BY <1>5, <1>7, <2>6, <2>7 DEF AllWhole
    <2>9. \A x \in Threads : ~Torn(x)'
      BY <1>8 DEF Torn
    <2> QED
      BY <2>8, <2>9 DEF IntactInv
  <1>9. CASE /\ d + k < lens[q] /\ sent' = sent /\ send_pc' = send_pc
             /\ rest'[t].packet = q /\ rest'[t].done = d + k
             /\ \A x \in Threads : x # t => rest'[x] = rest[x]
    <2>1. PICK c, e : c = Len(sent) /\ e = d + k
      OBVIOUS
    <2>2. View(u, Before(c, q), c + 1)' = w
      BY <1>2, <1>4, <1>9, <2>1 DEF View, Before
    <2>3. TornAt(c, q, e, u)'
      BY <1>2, <1>5, <1>9, <2>1, <2>2 DEF TornAt
    <2>4. TornAt(Len(sent), rest[t].packet, rest[t].done, Unread)'
      <3>1. /\ c = Len(sent') /\ q = rest'[t].packet
            /\ e = rest'[t].done /\ u = Unread'
        BY <1>5, <1>9, <2>1
      <3> QED
        BY <2>3, <3>1 DEF TornAt, Before, View
    <2>5. \A x \in Threads : Torn(x)' => x = t
      BY <1>2, <1>9 DEF Torn
    <2>6. Torn(t)'
      <3>1. d + k > 0
        BY <1>1, WriteStream DEF Writes
      <3> QED
        BY <1>2, <1>9, <3>1 DEF Torn
    <2> QED
      BY <2>4, <2>5, <2>6 DEF IntactInv
  <1> QED
    BY <1>3, <1>8, <1>9

(* A write behind a torn packet leaves the stream as it is up to there.     *)
LEMMA WriteTorn ==
    ASSUME IInv, SInv, NEW t \in Threads, NEW k \in 1 .. Capacity, Write(t, k),
           NEW c \in 0 .. Len(sent), NEW q, NEW d, NEW good, TornAt(c, q, d, good)
    PROVE  TornAt(c, q, d, good)'
  <1> DEFINE v == View(good, Before(c, q), c + 1)
             w == View(good, Before(c, q), c + 1)'
  <1>1. PICK p, e, u : Writes(t, k, p, e, u)
    BY DEF Writes
  <1>2. UNCHANGED <<packets, received>> /\ lens' = lens
    BY <1>1, WriteOutcome
  <1>3. sent' = Append(sent, p) \/ sent' = sent
    BY <1>1, WriteOutcome
  <1>4. /\ Unread' = Unread + k /\ k \in Nat \ {0}
        /\ \A i \in 1 .. Unread : (stream')[i] = stream[i]
    BY WriteStream
  <1>5. /\ good \in 1 .. Unread /\ q \in 1 .. Len(packets) /\ d < lens[q]
        /\ stream[good] = <<q, d>> /\ Framed(v) /\ \A j \in 1 .. c : sent[j] < q
    BY DEF TornAt
  <1>6. sent \in Seq(Nat) /\ Len(sent) \in Nat /\ Unread \in Nat
    BY StreamType DEF IInv, TypeOK
  <1>7. \A j \in 1 .. c : sent'[j] = sent[j]
    <2>1. \A j \in 1 .. c : j \in 1 .. Len(sent)
      BY <1>6
    <2>2. \A x, j : j \in 1 .. Len(sent) => Append(sent, x)[j] = sent[j]
      BY <1>6
    <2> QED
      BY <1>3, <2>1, <2>2
  <1>8. Before(c, q)' = Before(c, q)
    BY <1>7 DEF Before
  <1>9. /\ w.bytes = stream' /\ w.good = good /\ w.order = Before(c, q)
        /\ w.count = c + 1 /\ w.next = Len(received) + 1 /\ w.len = lens
    BY <1>2, <1>8 DEF View
  <1>10. /\ v.bytes = stream /\ v.good = good /\ v.order = Before(c, q)
         /\ v.count = c + 1 /\ v.next = Len(received) + 1 /\ v.len = lens
    BY DEF View
  <1>11. \A i \in 1 .. good : i \in 1 .. Unread
    BY <1>5, <1>6
  <1>12. Agrees(v, w)
    <2> HIDE DEF v, w
    <2> QED
      BY <1>4, <1>9, <1>10, <1>11 DEF Agrees
  <1>13. Framed(w)
    <2> HIDE DEF v, w
    <2> QED
      BY <1>5, <1>12, AgreeFramed
  <1>14. good \in 1 .. Unread'
    BY <1>4, <1>5, <1>6
  <1> QED
    BY <1>2, <1>4, <1>5, <1>7, <1>13, <1>14 DEF TornAt

(* A write behind a torn packet does not go on with it: its bytes are those *)
(* of another packet.                                                       *)
LEMMA WriteCut ==
    ASSUME IInv, SInv, NEW t \in Threads, NEW k \in 1 .. Capacity, Write(t, k)
    PROVE  CutInv'
  <1>1. PICK p, e, u : Writes(t, k, p, e, u)
    BY DEF Writes
  <1>2. /\ UNCHANGED <<packets, received, recv_err, cut>>
        /\ send_pc[t] = "write" /\ recv_err = "none"
    BY <1>1, WriteOutcome
  <1>3. \/ /\ sent' = Append(sent, p)
           /\ \A x \in Threads : send_pc'[x] # "write"
        \/ /\ sent' = sent /\ send_pc' = send_pc /\ rest'[t].packet = p
           /\ \A x \in Threads : x # t => rest'[x] = rest[x]
    BY <1>1, WriteOutcome
  <1>4. /\ Unread' = Unread + k /\ k \in Nat \ {0}
        /\ \A i \in 1 .. Unread : (stream')[i] = stream[i]
        /\ \A i \in 1 .. k : (stream')[Unread + i] = <<p, e + i>>
    BY <1>1, WriteStream DEF Writes
  <1>5. sent \in Seq(Nat) /\ Len(sent) \in Nat /\ Unread \in Nat
    BY StreamType DEF IInv, TypeOK
  <1> SUFFICES ASSUME NEW c \in cut
               PROVE  /\ c \in 0 .. Len(sent')
                      /\ \E q \in 1 .. Len(packets'), good \in 1 .. Unread' :
                            CutAt(c, q, good)'
    BY <1>2 DEF CutInv
  <1>6. c \in 0 .. Len(sent)
    BY <1>2 DEF SInv, CutInv
  <1>7. PICK q \in 1 .. Len(packets), good \in 1 .. Unread :
           /\ TornAt(c, q, stream[good][2], good)
           /\ good < Unread => stream[good + 1] # <<q, stream[good][2] + 1>>
           /\ \A x \in Threads : send_pc[x] = "write" => rest[x].packet # q
    BY <1>2 DEF SInv, CutInv, CutAt
  <1>8. PICK d : d = stream[good][2]
    OBVIOUS
  <1>9. TornAt(c, q, d, good)'
    BY <1>6, <1>7, <1>8, WriteTorn
  <1>10. c \in 0 .. Len(sent') /\ good \in 1 .. Unread' /\ q \in 1 .. Len(packets')
    <2>1. Len(sent') = Len(sent) + 1 \/ sent' = sent
      BY <1>3, <1>5
    <2>2. c \in 0 .. Len(sent')
      BY <1>5, <1>6, <2>1
    <2>3. good \in 1 .. Unread'
      BY <1>4, <1>5
    <2> QED
      BY <1>2, <2>2, <2>3
  <1>11. d = (stream')[good][2]
    BY <1>4, <1>8
  <1>12. (stream')[good + 1] # <<q, d + 1>>
    <2>1. CASE good < Unread
      <3>1. good + 1 \in 1 .. Unread
        BY <1>5, <2>1
      <3> QED
        BY <1>4, <1>7, <1>8, <2>1, <3>1
    <2>2. CASE good = Unread
      <3>1. (stream')[good + 1] = <<p, e + 1>>
        BY <1>4, <2>2
      <3>2. p # q
        BY <1>1, <1>2, <1>7 DEF Writes
      <3> QED
        BY <3>1, <3>2
    <2> QED
      BY <1>5, <2>1, <2>2
  <1>13. \A x \in Threads : send_pc'[x] = "write" => rest'[x].packet # q
    <2>1. rest[t].packet = p /\ p # q
      BY <1>1, <1>2, <1>7 DEF Writes
    <2> QED
      BY <1>3, <1>7, <2>1
  <1>14. CutAt(c, q, good)'
    BY <1>9, <1>11, <1>12, <1>13 DEF CutAt, TornAt
  <1> QED
    BY <1>10, <1>14

-----------------------------------------------------------------------------
(* Packets are sent in the order of framing: what a thread frames is new.   *)
LEMMA OrderQuiet ==
    ASSUME IInv, TypeOK', OrderInv, WritersKept, sent' = sent,
           Len(packets') >= Len(packets)
    PROVE  OrderInv'
  <1>1. /\ Len(packets) \in Nat /\ Len(packets') \in Nat
        /\ \A t \in Threads : rest'[t].packet \in Nat
    <2>1. Len(packets) \in Nat
      BY DEF IInv, TypeOK
    <2>2. Len(packets') \in Nat
      BY DEF TypeOK
    <2>3. rest' \in [Threads -> [packet : Nat, done : Nat]]
      BY DEF TypeOK
    <2> QED
      BY <2>1, <2>2, <2>3
  <1>2. \A i \in 1 .. Len(sent) : sent[i] \in 1 .. Len(packets')
    BY <1>1 DEF OrderInv
  <1>3. ASSUME NEW t \in Threads, send_pc'[t] = "write",
               NEW i \in 1 .. Len(sent)
        PROVE  sent[i] < rest'[t].packet
    <2>1. CASE send_pc[t] = "write" /\ rest'[t].packet = rest[t].packet
      BY <2>1 DEF OrderInv
    <2>2. CASE rest'[t].packet > Len(packets)
      <3>1. sent[i] \in 1 .. Len(packets)
        BY DEF OrderInv
      <3> QED
        BY <1>1, <2>2, <3>1
    <2> QED
      BY <1>3, <2>1, <2>2 DEF WritersKept
  <1> QED
    BY <1>2, <1>3 DEF OrderInv

(* A send that succeeds is that of the packet framed last.                  *)
LEMMA WriteOrder ==
    ASSUME IInv, SInv, NEW t \in Threads, NEW k \in 1 .. Capacity, Write(t, k)
    PROVE  OrderInv'
  <1>0. TypeOK'
    BY WriteKeeps DEF IInv
  <1>1. PICK q, d, u : Writes(t, k, q, d, u)
    BY DEF Writes
  <1>2. /\ packets' = packets /\ send_pc[t] = "write"
        /\ \A x \in Threads : send_pc[x] = "write" => x = t
    BY <1>1, WriteOutcome
  <1>3. \/ /\ sent' = Append(sent, q)
           /\ \A x \in Threads : send_pc'[x] # "write"
        \/ /\ sent' = sent /\ send_pc' = send_pc /\ rest'[t].packet = q
    BY <1>1, WriteOutcome
  <1>4. q = rest[t].packet /\ q \in 1 .. Len(packets)
    BY <1>1, WriteStream DEF Writes
  <1>5. OrderInv /\ sent \in Seq(Nat) /\ Len(sent) \in Nat /\ Len(packets) \in Nat
    BY DEF SInv, IInv, TypeOK
  <1>6. CASE /\ sent' = Append(sent, q)
             /\ \A x \in Threads : send_pc'[x] # "write"
    <2>1. /\ Len(sent') = Len(sent) + 1 /\ sent'[Len(sent) + 1] = q
          /\ \A j \in 1 .. Len(sent) : sent'[j] = sent[j]
      BY <1>4, <1>5, <1>6
    <2>2. \A i \in 1 .. Len(sent') : i \in 1 .. Len(sent) \/ i = Len(sent) + 1
      BY <1>5, <2>1
    <2>3. \A i \in 1 .. Len(sent) : sent[i] < q /\ sent[i] \in 1 .. Len(packets)
      BY <1>2, <1>4, <1>5 DEF OrderInv
    <2>4. \A i \in 1 .. Len(sent') : sent'[i] \in 1 .. Len(packets')
      BY <1>2, <1>4, <2>1, <2>2, <2>3
    <2>5. ASSUME NEW i \in 1 .. Len(sent'), NEW j \in 1 .. Len(sent'), i < j
          PROVE  sent'[i] < sent'[j]
      <3>1. i \in 1 .. Len(sent)
        BY <1>5, <2>1, <2>5
      <3>2. CASE j \in 1 .. Len(sent)
        BY <1>5, <2>1, <2>5, <3>1, <3>2 DEF OrderInv
      <3>3. CASE j = Len(sent) + 1
        BY <2>1, <2>3, <3>1, <3>3
      <3> QED
        BY <2>2, <3>2, <3>3
    <2> QED
      BY <1>6, <2>4, <2>5 DEF OrderInv
  <1>7. CASE sent' = sent /\ send_pc' = send_pc /\ rest'[t].packet = q
    <2>1. WritersKept
      BY <1>2, <1>4, <1>7 DEF WritersKept
    <2> QED
      BY <1>0, <1>2, <1>5, <1>7, <2>1, OrderQuiet
  <1> QED
    BY <1>3, <1>6, <1>7

-----------------------------------------------------------------------------
(* A stream that is not torn begins with a packet.                          *)
LEMMA IntactFirst ==
    ASSUME IInv, SInv, recv_err = "none", cut = {}, Unread > 0
    PROVE  \E n \in 1 .. Len(packets) :
              \A i \in 1 .. Unread : i <= lens[n] => stream[i] = <<n, i>>
  <1>1. OrderInv /\ Len(sent) \in Nat
    BY DEF SInv, IInv, TypeOK
  <1>2. \E v : /\ Framed(v) /\ v.bytes = stream /\ v.good = Unread /\ v.len = lens
               /\ \A j \in 1 .. v.count : v.order[j] \in 1 .. Len(packets)
    <2>1. CASE \A t \in Threads : ~Torn(t)
      <3> DEFINE v == View(Unread, sent, Len(sent))
      <3>1. Framed(v)
        BY <2>1 DEF SInv, IntactInv, AllWhole
      <3>2. /\ v.bytes = stream /\ v.good = Unread /\ v.order = sent
            /\ v.count = Len(sent) /\ v.len = lens
        BY DEF View
      <3> HIDE DEF v
      <3>3. \A j \in 1 .. v.count : v.order[j] \in 1 .. Len(packets)
        BY <1>1, <3>2 DEF OrderInv
      <3> QED
        BY <3>1, <3>2, <3>3
    <2>2. CASE \E t \in Threads : Torn(t)
      <3>1. PICK t \in Threads : Torn(t)
        BY <2>2
      <3>2. PICK q : q = rest[t].packet
        OBVIOUS
      <3> DEFINE v == View(Unread, Before(Len(sent), q), Len(sent) + 1)
      <3>3. Framed(v) /\ q \in 1 .. Len(packets)
        BY <3>1, <3>2 DEF SInv, IntactInv, TornAt
      <3>4. /\ v.bytes = stream /\ v.good = Unread
            /\ v.order = Before(Len(sent), q)
            /\ v.count = Len(sent) + 1 /\ v.len = lens
        BY DEF View
      <3> HIDE DEF v
      <3>5. \A j \in 1 .. v.count : v.order[j] \in 1 .. Len(packets)
        <4>1. /\ Before(Len(sent), q)[Len(sent) + 1] = q
              /\ \A j \in 1 .. Len(sent) : Before(Len(sent), q)[j] = sent[j]
          BY <1>1, BeforeAt
        <4>2. \A j \in 1 .. Len(sent) + 1 : j \in 1 .. Len(sent) \/ j = Len(sent) + 1
          BY <1>1
        <4> QED
          BY <1>1, <3>3, <3>4, <4>1, <4>2 DEF OrderInv
      <3> QED
        BY <3>3, <3>4, <3>5
    <2> QED
      BY <2>1, <2>2
  <1>3. PICK v : /\ Framed(v) /\ v.bytes = stream /\ v.good = Unread /\ v.len = lens
                 /\ \A j \in 1 .. v.count : v.order[j] \in 1 .. Len(packets)
    BY <1>2
  <1>4. v.next \in 1 .. v.count
    <2>1. v.count \in Nat /\ v.next \in Nat \ {0} /\ v.next <= v.count
      BY <1>3 DEF Framed, ViewOK
    <2> QED
      BY <2>1
  <1>5. v.order[v.next] \in 1 .. Len(packets)
    BY <1>3, <1>4
  <1>6. \A i \in 1 .. Unread :
           i <= lens[v.order[v.next]] => stream[i] = <<v.order[v.next], i>>
    BY <1>3, FirstPacket
  <1> QED
    BY <1>5, <1>6

(* The prelude of a stream that is not torn has a checksum that matches.    *)
LEMMA PreludeMatches ==
    ASSUME IInv, SInv, cut = {}, SectionRead("prelude")
    PROVE  prelude_crc_ok /\ rx.got[1][1] \in 1 .. Len(packets)
  <1>1. recv_err = "none" /\ rx.section = "prelude" /\ Len(rx.got) = PreludeLen
    BY DEF SectionRead, Receiving, want
  <1>2. PreludeLen \in Nat \ {0} /\ Len(wire) \in Nat /\ rx.got \in Seq(Byte)
    BY LengthsAssumption DEF IInv, TypeOK
  <1>3. Base = 0 /\ Unread = PreludeLen + Len(wire)
    BY <1>1, <1>2 DEF Base, Unread
  <1>4. Unread > 0
    BY <1>2, <1>3
  <1>5. PICK n \in 1 .. Len(packets) :
           \A i \in 1 .. Unread : i <= lens[n] => stream[i] = <<n, i>>
    BY <1>1, <1>4, IntactFirst
  <1>6. lens[n] \in Nat /\ PreludeLen < lens[n]
    <2>1. message_len(packets[n]) \in Nat /\ message_len(packets[n]) > PreludeLen
      BY DataLength DEF IInv
    <2> QED
      BY <1>2, <2>1 DEF lens
  <1>7. ASSUME NEW i \in 1 .. PreludeLen
        PROVE  rx.got[i] = <<n, i>>
    <2>1. i \in Nat /\ ~(i <= 0) /\ i <= PreludeLen /\ i - 0 = i
      BY <1>2
    <2>2. i \in 1 .. Unread /\ i <= lens[n]
      BY <1>2, <1>3, <1>6, <2>1
    <2>3. ~(i <= Base) /\ i <= Base + Len(rx.got)
      BY <1>1, <1>2, <1>3, <2>1
    <2>4. stream[i] = rx.got[i - Base]
      BY <2>2, <2>3 DEF stream
    <2> QED
      BY <1>3, <1>5, <2>1, <2>2, <2>4
  <1>8. rx.got = Bytes(n, 0, PreludeLen)
    <2>1. PreludeLen - 0 = PreludeLen /\ \A i \in 1 .. PreludeLen : 0 + i = i
      BY <1>2
    <2>2. Bytes(n, 0, PreludeLen) = [i \in 1 .. PreludeLen |-> <<n, i>>]
      BY <2>1 DEF Bytes
    <2>3. rx.got = [i \in 1 .. PreludeLen |-> rx.got[i]]
      BY <1>1, <1>2
    <2> QED
      BY <1>7, <2>2, <2>3
  <1>9. rx.got[1][1] = n
    BY <1>2, <1>7
  <1> QED
    BY <1>8, <1>9 DEF prelude_crc_ok

(* The data section of a stream that is not torn has a checksum that        *)
(* matches: the two ends agree on where the packet ends.                    *)
LEMMA MessageMatches ==
    ASSUME IInv, SInv, cut = {}, SectionRead("data")
    PROVE  message_crc_ok
  <1> DEFINE p == rx.packet
             data == data_len(p)
  <1>1. /\ recv_err = "none" /\ rx.section = "data" /\ Len(rx.got) = data
        /\ p \in 1 .. Len(packets)
    BY DEF SectionRead, Receiving, want, IInv, TypeOK
  <1>2. /\ PreludeLen \in Nat \ {0} /\ Len(wire) \in Nat /\ rx.got \in Seq(Byte)
        /\ data \in Nat \ {0}
    <2>1. data \in Nat /\ data > 0
      BY <1>1, DataLength DEF IInv
    <2>2. rx.got \in Seq(Byte) /\ Len(wire) \in Nat
      BY DEF IInv, TypeOK
    <2> QED
      BY <2>1, <2>2, LengthsAssumption
  <1>3. lens[p] = PreludeLen + data
    BY <1>1, DataLength, LengthsAssumption DEF lens, data_len, IInv
  <1>m. message_crc_ok <=> rx.got = Bytes(p, PreludeLen, PreludeLen + data)
    BY DEF message_crc_ok
  <1> HIDE DEF data, p
  <1>4. Base = PreludeLen /\ Unread = PreludeLen + data + Len(wire) /\ Unread > 0
    BY <1>1, <1>2 DEF Base, Unread
  <1>5. PICK n \in 1 .. Len(packets) :
           \A i \in 1 .. Unread : i <= lens[n] => stream[i] = <<n, i>>
    BY <1>1, <1>4, IntactFirst
  <1>6. n = p
    <2>1. 1 \in 1 .. Unread /\ 1 <= PreludeLen /\ 1 <= lens[n]
      <3>1. lens[n] \in Nat \ {0}
        BY StreamType DEF IInv
      <3> QED
        BY <1>2, <1>4, <3>1
    <2>2. stream[1] = <<p, 1>>
      BY <1>4, <2>1 DEF stream, p
    <2>3. stream[1] = <<n, 1>>
      BY <1>5, <2>1
    <2> QED
      BY <2>2, <2>3
  <1>7. ASSUME NEW i \in 1 .. data
        PROVE  rx.got[i] = <<p, PreludeLen + i>>
    <2>1. PICK j \in 1 .. Unread : j = PreludeLen + i
      BY <1>2, <1>4
    <2>2. /\ j <= lens[n] /\ ~(j <= Base) /\ j <= Base + Len(rx.got) /\ j - Base = i
      BY <1>1, <1>2, <1>3, <1>4, <1>6, <2>1
    <2>3. stream[j] = rx.got[j - Base]
      BY <2>2 DEF stream
    <2>4. stream[j] = <<p, PreludeLen + i>>
      BY <1>5, <1>6, <2>1, <2>2
    <2> QED
      BY <2>2, <2>3, <2>4
  <1>8. rx.got = Bytes(p, PreludeLen, PreludeLen + data)
    <2>1. PreludeLen + data - PreludeLen = data
      BY <1>2
    <2>2. Bytes(p, PreludeLen, PreludeLen + data)
             = [i \in 1 .. data |-> <<p, PreludeLen + i>>]
      BY <1>2, <2>1 DEF Bytes
    <2>3. rx.got = [i \in 1 .. data |-> rx.got[i]]
      BY <1>1, <1>2
    <2> QED
      BY <1>7, <2>2, <2>3
  <1> QED
    BY <1>m, <1>8

(* The receiver fails to parse what was built wrongly, or a torn stream.    *)
LEMMA PreludeCause ==
    ASSUME IInv, SInv, DecodePreludeFail
    PROVE  CauseInv'
  <1> SUFFICES ASSUME recv_err' = "parse", cut' = {}
               PROVE  /\ rx.got[1][1] \in 1 .. Len(packets)
                      /\ packets[rx.got[1][1]].form # "good"
    BY DEF CauseInv, DecodePreludeFail, SectionRead, RecvFail, sender
  <1>1. cut = {} /\ SectionRead("prelude") /\ PreludeError = "parse"
    BY DEF DecodePreludeFail, RecvFail
  <1>2. prelude_crc_ok /\ rx.got[1][1] \in 1 .. Len(packets)
    BY <1>1, PreludeMatches
  <1>3. packets[rx.got[1][1]].form = "bad_lengths"
    BY <1>1, <1>2 DEF PreludeError
  <1> QED
    BY <1>2, <1>3

(* The same for the message as a whole.                                     *)
LEMMA DecodeCause ==
    ASSUME IInv, SInv, DecodeFail
    PROVE  CauseInv'
  <1> SUFFICES ASSUME cut' = {}
               PROVE  /\ rx.packet \in 1 .. Len(packets)
                      /\ packets[rx.packet].form # "good"
    BY DEF CauseInv, DecodeFail, SectionRead, RecvFail, sender
  <1>1. cut = {} /\ SectionRead("data") /\ rx.section = "data"
    BY DEF DecodeFail, RecvFail, SectionRead
  <1>2. message_crc_ok
    BY <1>1, MessageMatches
  <1> QED
    BY <1>1, <1>2 DEF DecodeFail, IInv, TypeOK

(* What it failed to parse stays as it is.                                  *)
LEMMA CauseQuiet ==
    ASSUME IInv, SInv, UNCHANGED <<rx, recv_err>>, cut' = {} => cut = {},
           Len(packets') \in Nat, Len(packets') >= Len(packets),
           \A n \in 1 .. Len(packets) : packets'[n] = packets[n]
    PROVE  CauseInv'
  <1> SUFFICES ASSUME recv_err = "parse", cut = {}
               PROVE  CauseInv'
    BY DEF CauseInv
  <1>1. PICK n : n = IF rx.section = "data" THEN rx.packet ELSE rx.got[1][1]
    OBVIOUS
  <1>2. n \in 1 .. Len(packets) /\ packets[n].form # "good"
    BY <1>1 DEF SInv, CauseInv
  <1>3. n \in 1 .. Len(packets') /\ packets'[n].form # "good"
    <2>1. Len(packets) \in Nat
      BY DEF IInv, TypeOK
    <2> QED
      BY <1>2, <2>1
  <1> QED
    BY <1>1, <1>3 DEF CauseInv

-----------------------------------------------------------------------------
(* Sends that begin, and packets that are framed.                           *)
LEMMA CountQuiet ==
    ASSUME IInv, CountInv, UNCHANGED <<packets, calls>>,
           Unframed' \subseteq Unframed
    PROVE  CountInv'
  <1>1. IsFiniteSet(Unframed)
    BY DEF CountInv
  <1>2. IsFiniteSet(Unframed') /\ Cardinality(Unframed') <= Cardinality(Unframed)
    BY <1>1, FS_Subset
  <1>3. /\ Cardinality(Unframed) \in Nat /\ Cardinality(Unframed') \in Nat
        /\ Len(packets) \in Nat /\ calls \in Nat
    BY <1>1, <1>2, FS_CardinalityType, LengthsAssumption DEF IInv, TypeOK
  <1> QED
    BY <1>2, <1>3 DEF CountInv

(* A send that begins is counted, and its packet is not framed yet.         *)
LEMMA CountBegin ==
    ASSUME IInv, CountInv, NEW t \in Threads, SendBegin(t)
    PROVE  CountInv'
  <1>1. IsFiniteSet(Unframed) /\ Len(packets) + Cardinality(Unframed) <= calls
    BY DEF CountInv
  <1>2. Unframed' = Unframed \cup {t} /\ t \notin Unframed
    BY DEF Unframed, SendBegin, IInv, TypeOK
  <1>3. IsFiniteSet(Unframed') /\ Cardinality(Unframed') = Cardinality(Unframed) + 1
    BY <1>1, <1>2, FS_AddElement
  <1>4. /\ Cardinality(Unframed) \in Nat /\ Len(packets) \in Nat /\ calls \in Nat
        /\ packets' = packets /\ calls' = calls + 1
    BY <1>1, FS_CardinalityType, LengthsAssumption DEF IInv, TypeOK, SendBegin
  <1> QED
    BY <1>1, <1>3, <1>4 DEF CountInv

(* A send that frames its packet has begun before.                          *)
LEMMA CountEncode ==
    ASSUME IInv, CountInv, NEW t \in Threads, NEW s \in Shapes, Encode(t, s)
    PROVE  CountInv'
  <1>1. IsFiniteSet(Unframed) /\ Len(packets) + Cardinality(Unframed) <= calls
    BY DEF CountInv
  <1>2. Unframed' = Unframed \ {t} /\ t \in Unframed
    BY DEF Unframed, Encode, IInv, TypeOK
  <1>3. IsFiniteSet(Unframed') /\ Cardinality(Unframed') = Cardinality(Unframed) - 1
    BY <1>1, <1>2, FS_RemoveElement
  <1>4. /\ Cardinality(Unframed) \in Nat /\ Len(packets) \in Nat /\ calls \in Nat
    BY <1>1, FS_CardinalityType, LengthsAssumption DEF IInv, TypeOK
  <1>5. Len(packets') = Len(packets) + 1 /\ calls' = calls
    BY AppendPacket DEF IInv, Encode
  <1> QED
    BY <1>1, <1>3, <1>4, <1>5 DEF CountInv

(* The end of the process ends all sends.                                   *)
LEMMA CountClose ==
    ASSUME IInv, CountInv, Close
    PROVE  CountInv'
  <1>1. Unframed' = {}
    BY DEF Unframed, Close
  <1>2. IsFiniteSet(Unframed') /\ Cardinality(Unframed') = 0
    BY <1>1, FS_EmptySet
  <1>3. /\ Cardinality(Unframed) \in Nat /\ Len(packets) \in Nat /\ calls \in Nat
        /\ packets' = packets /\ calls' = calls
    BY FS_CardinalityType, LengthsAssumption DEF CountInv, IInv, TypeOK, Close
  <1> QED
    BY <1>2, <1>3 DEF CountInv

-----------------------------------------------------------------------------
(* A quiet step keeps the invariant of the stream.                          *)
LEMMA QuietSInv ==
    ASSUME IInv, TypeOK', SInv, Quiet, WritersKept, UNCHANGED <<recv_err, cut>>,
           cut = {} => \A t \in Threads :
                          (Torn(t)' <=> Torn(t)) /\ (Torn(t) => rest'[t] = rest[t]),
           CauseInv', CountInv'
    PROVE  SInv'
  <1>1. IntactInv' /\ CutInv'
    BY QuietKeeps
  <1>2. OrderInv'
    BY OrderQuiet DEF SInv, Quiet
  <1> QED
    BY <1>1, <1>2 DEF SInv

(* Steps that leave the packets, the socket and the receiver alone.         *)
LEMMA SameStream ==
    ASSUME TypeOK, UNCHANGED <<packets, wire, rx, sent, received>>
    PROVE  Quiet
  <1>1. Base' = Base /\ Unread' = Unread /\ lens' = lens
    BY DEF Base, Unread, lens, message_len
  <1>2. stream' = stream
    BY <1>1 DEF stream
  <1>3. Len(packets) \in Nat
    BY DEF TypeOK
  <1> QED
    BY <1>1, <1>2, <1>3 DEF Quiet

(* Steps that leave what the receiver holds, and the packets, alone.        *)
LEMMA SameCause ==
    ASSUME IInv, SInv, UNCHANGED <<packets, rx, recv_err>>, cut' = {} => cut = {}
    PROVE  CauseInv'
  <1>1. Len(packets) \in Nat
    BY DEF IInv, TypeOK
  <1> QED
    BY <1>1, CauseQuiet

(* A send that begins does not touch the stream.                            *)
LEMMA SendBeginStream ==
    ASSUME IInv, SInv, NEW t \in Threads, SendBegin(t)
    PROVE  SInv'
  <1>1. TypeOK' /\ TypeOK /\ CountInv
    BY SendBeginKeeps DEF IInv, SInv
  <1>2. Quiet /\ CauseInv'
    BY <1>1, SameStream, SameCause DEF SendBegin
  <1>3. CountInv'
    BY <1>1, CountBegin
  <1>4. WritersKept
    BY <1>1 DEF WritersKept, SendBegin, TypeOK
  <1>5. \A x \in Threads :
           (Torn(x)' <=> Torn(x)) /\ (Torn(x) => rest'[x] = rest[x])
    BY <1>1 DEF Torn, SendBegin, TypeOK
  <1> QED
    BY <1>1, <1>2, <1>3, <1>4, <1>5, QuietSInv DEF SendBegin

(* Nor does one that takes the mutex.                                       *)
LEMMA SendLockStream ==
    ASSUME IInv, SInv, NEW t \in Threads, SendLock(t)
    PROVE  SInv'
  <1>1. TypeOK' /\ TypeOK /\ CountInv
    BY SendLockKeeps DEF IInv, SInv
  <1>2. Quiet /\ CauseInv'
    BY <1>1, SameStream, SameCause DEF SendLock
  <1>3. CountInv'
    <2>1. Unframed' \subseteq Unframed
      BY <1>1 DEF Unframed, SendLock, TypeOK
    <2> QED
      BY <1>1, <2>1, CountQuiet DEF SendLock
  <1>4. WritersKept
    BY <1>1 DEF WritersKept, SendLock, TypeOK
  <1>5. \A x \in Threads :
           (Torn(x)' <=> Torn(x)) /\ (Torn(x) => rest'[x] = rest[x])
    BY <1>1 DEF Torn, SendLock, TypeOK
  <1> QED
    BY <1>1, <1>2, <1>3, <1>4, <1>5, QuietSInv DEF SendLock

(* A packet that is framed has bytes of its own: none is in the stream.     *)
LEMMA EncodeStream ==
    ASSUME IInv, SInv, NEW t \in Threads, NEW s \in Shapes, Encode(t, s)
    PROVE  SInv'
  <1>1. TypeOK' /\ TypeOK /\ CountInv /\ Len(packets) \in Nat
    <2>1. TypeOK' /\ TypeOK /\ CountInv
      BY EncodeKeeps DEF IInv, SInv
    <2>2. Len(packets) \in Nat
      BY DEF IInv, TypeOK
    <2> QED
      BY <2>1, <2>2
  <1>2. /\ Len(packets') = Len(packets) + 1
        /\ \A n \in 1 .. Len(packets) : packets'[n] = packets[n]
    BY <1>1, AppendPacket DEF Encode
  <1>3. Len(packets') \in Nat /\ Len(packets') >= Len(packets)
    BY <1>1, <1>2
  <1>4. Quiet
    <2>1. Base' = Base /\ Unread' = Unread
      BY DEF Base, Unread, Encode
    <2>2. stream' = stream
      BY <2>1 DEF stream, Encode
    <2>3. \A n \in 1 .. Len(packets) : (lens')[n] = lens[n]
      <3> TAKE n \in 1 .. Len(packets)
      <3>1. n \in 1 .. Len(packets')
        BY <1>1, <1>2
      <3> QED
        BY <1>2, <3>1 DEF lens, message_len
    <2> QED
      BY <1>3, <2>1, <2>2, <2>3 DEF Quiet, Encode
  <1>5. CauseInv'
    BY <1>2, <1>3, CauseQuiet DEF Encode
  <1>6. CountInv'
    BY <1>1, CountEncode
  <1>7. rest'[t].packet > Len(packets) /\ ~(rest'[t].done > 0)
    <2>1. rest'[t] = [packet |-> Len(packets) + 1, done |-> 0]
      BY <1>1 DEF Encode, TypeOK
    <2> QED
      BY <1>1, <2>1
  <1>8. \A x \in Threads : x # t => send_pc'[x] = send_pc[x] /\ rest'[x] = rest[x]
    BY <1>1 DEF Encode, TypeOK
  <1>9. WritersKept
    BY <1>7, <1>8 DEF WritersKept
  <1>10. \A x \in Threads :
            (Torn(x)' <=> Torn(x)) /\ (Torn(x) => rest'[x] = rest[x])
    <2>1. ~Torn(t) /\ ~Torn(t)'
      BY <1>7 DEF Torn, Encode
    <2> QED
      BY <1>8, <2>1 DEF Torn
  <1> QED
    BY <1>1, <1>4, <1>5, <1>6, <1>9, <1>10, QuietSInv DEF Encode

(* A packet that does not fit never reaches the stream.                     *)
LEMMA EncodeFailStream ==
    ASSUME IInv, SInv, NEW t \in Threads, NEW s \in Shapes, EncodeFail(t, s)
    PROVE  SInv'
  <1>1. TypeOK' /\ TypeOK /\ CountInv
    BY EncodeFailKeeps DEF IInv, SInv
  <1>2. Quiet /\ CauseInv'
    BY <1>1, SameStream, SameCause DEF EncodeFail
  <1>3. CountInv'
    <2>1. Unframed' \subseteq Unframed
      BY <1>1 DEF Unframed, EncodeFail, SendReturn, TypeOK
    <2> QED
      BY <1>1, <2>1, CountQuiet DEF EncodeFail
  <1>4. WritersKept
    BY <1>1 DEF WritersKept, EncodeFail, SendReturn, TypeOK
  <1>5. \A x \in Threads :
           (Torn(x)' <=> Torn(x)) /\ (Torn(x) => rest'[x] = rest[x])
    BY <1>1 DEF Torn, EncodeFail, SendReturn, TypeOK
  <1> QED
    BY <1>1, <1>2, <1>3, <1>4, <1>5, QuietSInv DEF EncodeFail

(* A write extends the stream, or ends a send.                              *)
LEMMA WriteSInv ==
    ASSUME IInv, SInv, NEW t \in Threads, NEW k \in 1 .. Capacity, Write(t, k)
    PROVE  SInv'
  <1>1. TypeOK /\ CountInv
    BY DEF IInv, SInv
  <1>2. CauseInv'
    BY SameCause DEF Write
  <1>3. CountInv'
    <2>1. Unframed' \subseteq Unframed
      BY <1>1 DEF Unframed, Write, SendReturn, TypeOK
    <2> QED
      BY <1>1, <2>1, CountQuiet DEF Write
  <1> QED
    BY <1>2, <1>3, WriteIntact, WriteCut, WriteOrder DEF SInv

(* After a timeout the packet is torn if any of it was written.             *)
LEMMA WriteFailStream ==
    ASSUME IInv, SInv, NEW t \in Threads, WriteFail(t)
    PROVE  SInv'
  <1>1. TypeOK' /\ TypeOK /\ CountInv /\ send_pc[t] = "write"
    BY WriteFailKeeps DEF IInv, SInv, WriteFail
  <1>2. cut' = IF Torn(t) /\ cut = {} THEN {Len(sent)} ELSE cut
    BY DEF WriteFail, CutIf
  <1>3. Quiet /\ CauseInv'
    <2>1. cut' = {} => cut = {}
      BY <1>2
    <2> QED
      BY <1>1, <2>1, SameStream, SameCause DEF WriteFail
  <1>4. CountInv'
    <2>1. Unframed' \subseteq Unframed
      BY <1>1 DEF Unframed, WriteFail, SendReturn, TypeOK
    <2> QED
      BY <1>1, <2>1, CountQuiet DEF WriteFail
  <1>5. /\ \A x \in Threads : send_pc'[x] # "write"
        /\ \A x \in Threads : send_pc[x] = "write" => x = t
    BY <1>1 DEF WriteFail, SendReturn, TypeOK, IInv, WriteInv
  <1>6. WritersKept
    BY <1>5 DEF WritersKept
  <1>7. OrderInv'
    BY <1>1, <1>3, <1>6, OrderQuiet DEF SInv, Quiet
  <1>8. CASE Torn(t) /\ cut = {}
    <2>1. IntactInv' /\ CutInv'
      BY <1>2, <1>3, <1>5, <1>8, TearKeeps DEF WriteFail
    <2> QED
      BY <1>3, <1>4, <1>7, <2>1 DEF SInv
  <1>9. CASE ~(Torn(t) /\ cut = {})
    <2>1. UNCHANGED <<recv_err, cut>>
      BY <1>2, <1>9 DEF WriteFail
    <2>2. cut = {} => \A x \in Threads : ~Torn(x) /\ ~Torn(x)'
      BY <1>5, <1>9 DEF Torn
    <2> QED
      BY <1>1, <1>3, <1>4, <1>6, <2>1, <2>2, QuietSInv
  <1> QED
    BY <1>8, <1>9

(* A process that ends in the middle of a packet tears it.                  *)
LEMMA CloseStream ==
    ASSUME IInv, SInv, Close
    PROVE  SInv'
  <1>1. TypeOK' /\ TypeOK /\ CountInv
    BY CloseKeeps DEF IInv, SInv
  <1>2. cut' = IF (\E t \in Threads : Torn(t)) /\ cut = {} THEN {Len(sent)}
               ELSE cut
    BY DEF Close, CutIf
  <1>3. Quiet /\ CauseInv'
    <2>1. cut' = {} => cut = {}
      BY <1>2
    <2> QED
      BY <1>1, <2>1, SameStream, SameCause DEF Close
  <1>4. CountInv'
    BY <1>1, CountClose
  <1>5. \A x \in Threads : send_pc'[x] # "write"
    BY DEF Close
  <1>6. WritersKept
    BY <1>5 DEF WritersKept
  <1>7. OrderInv'
    BY <1>1, <1>3, <1>6, OrderQuiet DEF SInv, Quiet
  <1>8. CASE (\E t \in Threads : Torn(t)) /\ cut = {}
    <2>1. PICK t \in Threads : Torn(t)
      BY <1>8
    <2>2. IntactInv' /\ CutInv'
      BY <1>2, <1>3, <1>5, <1>8, <2>1, TearKeeps DEF Close
    <2> QED
      BY <1>3, <1>4, <1>7, <2>2 DEF SInv
  <1>9. CASE ~((\E t \in Threads : Torn(t)) /\ cut = {})
    <2>1. UNCHANGED <<recv_err, cut>>
      BY <1>2, <1>9 DEF Close
    <2>2. cut = {} => \A x \in Threads : ~Torn(x) /\ ~Torn(x)'
      BY <1>5, <1>9 DEF Torn
    <2> QED
      BY <1>1, <1>3, <1>4, <1>6, <2>1, <2>2, QuietSInv
  <1> QED
    BY <1>8, <1>9

(* The receiver leaves the senders alone.                                   *)
LEMMA ReceiverStep ==
    ASSUME IInv, SInv, UNCHANGED sender
    PROVE  /\ WritersKept /\ CountInv'
           /\ \A x \in Threads :
                 (Torn(x)' <=> Torn(x)) /\ (Torn(x) => rest'[x] = rest[x])
  <1>1. UNCHANGED <<send_pc, rest, packets, calls>>
    BY DEF sender
  <1>2. Unframed' \subseteq Unframed
    BY <1>1 DEF Unframed
  <1>3. CountInv'
    BY <1>1, <1>2, CountQuiet DEF SInv
  <1> QED
    BY <1>1, <1>3 DEF WritersKept, Torn

(* Reading moves along the stream.                                          *)
LEMMA ReadingStream ==
    ASSUME IInv, SInv,
           DecodePrelude \/ \E k \in 1 .. Capacity : Read(k)
    PROVE  SInv'
  <1>1. TypeOK /\ TypeOK'
    BY ReadKeeps, DecodePreludeKeeps DEF IInv
  <1>2. /\ UNCHANGED <<sender, recv_err, cut, sent, received>>
        /\ recv_err = "none"
    BY DEF DecodePrelude, SectionRead, Read, Receiving
  <1>3. Unread' = Unread /\ stream' = stream
    BY <1>1, ReadStream, DecodePreludeStream
  <1>4. Quiet
    <2>1. packets' = packets /\ Len(packets) \in Nat
      BY <1>1, <1>2 DEF sender, TypeOK
    <2>2. lens' = lens
      BY <2>1 DEF lens, message_len
    <2> QED
      BY <1>2, <1>3, <2>1, <2>2 DEF Quiet
  <1>5. CauseInv'
    BY <1>2 DEF CauseInv
  <1> QED
    BY <1>1, <1>2, <1>4, <1>5, ReceiverStep, QuietSInv

(* Nothing is read after a failure.                                         *)
LEMMA FailStream ==
    ASSUME IInv, SInv, NEW err \in {"parse", "nomem", "failure"}, RecvFail(err),
           CauseInv'
    PROVE  SInv'
  <1>1. TypeOK' /\ OrderInv
    BY RecvFailKeeps DEF IInv, SInv
  <1>2. WritersKept /\ CountInv'
    BY ReceiverStep DEF RecvFail
  <1>3. IntactInv' /\ CutInv'
    BY DEF RecvFail, IntactInv, CutInv
  <1>4. OrderInv'
    <2>1. sent' = sent /\ packets' = packets /\ Len(packets) \in Nat
      BY DEF RecvFail, sender, IInv, TypeOK
    <2> QED
      BY <1>1, <1>2, <2>1, OrderQuiet
  <1> QED
    BY <1>2, <1>3, <1>4 DEF SInv

(* A packet leaves the stream when it is decoded.                           *)
LEMMA DecodeSInv ==
    ASSUME IInv, SInv, Decode
    PROVE  SInv'
  <1>1. TypeOK' /\ OrderInv
    BY DecodeKeeps DEF IInv, SInv
  <1>2. WritersKept /\ CountInv'
    BY ReceiverStep DEF Decode
  <1>3. OrderInv'
    <2>1. sent' = sent /\ packets' = packets /\ Len(packets) \in Nat
      BY DEF Decode, sender, IInv, TypeOK
    <2> QED
      BY <1>1, <1>2, <2>1, OrderQuiet
  <1>4. CauseInv'
    BY DEF CauseInv, Decode, SectionRead, Receiving
  <1> QED
    BY <1>2, <1>3, <1>4, DecodeNext DEF SInv

(* All steps of the receiver together.                                      *)
LEMMA RecvStream ==
    ASSUME IInv, SInv, RecvStep
    PROVE  SInv'
  <1>1. CASE DecodePreludeFail
    <2>1. PreludeError \in {"parse", "nomem"}
      BY <1>1 DEF DecodePreludeFail, PreludeError
    <2> QED
      BY <1>1, <2>1, PreludeCause, FailStream DEF DecodePreludeFail
  <1>2. CASE DecodeFail
    BY <1>2, DecodeCause, FailStream DEF DecodeFail
  <1>3. CASE ReadEof \/ ReadTimeout
    <2>1. RecvFail("failure")
      BY <1>3 DEF ReadEof, ReadTimeout
    <2>2. CauseInv'
      BY <2>1 DEF CauseInv, RecvFail
    <2> QED
      BY <2>1, <2>2, FailStream
  <1> QED
    BY <1>1, <1>2, <1>3, ReadingStream, DecodeSInv DEF RecvStep

(* Steps that change nothing of the stream.                                 *)
LEMMA IdleStream ==
    ASSUME IInv, SInv, Hang \/ UNCHANGED vars
    PROVE  SInv'
  <1>1. TypeOK /\ TypeOK'
    BY HangKeeps, StutterKeeps DEF IInv
  <1>2. UNCHANGED <<sender, wire, rx, recv_err, sent, received, cut>>
    BY DEF Hang, vars, sender
  <1>3. Quiet /\ CauseInv'
    BY <1>1, <1>2, SameStream, SameCause DEF sender
  <1> QED
    BY <1>1, <1>2, <1>3, ReceiverStep, QuietSInv

-----------------------------------------------------------------------------
(* Whatever writes are torn, and although the connection stays in use       *)
(* afterwards, the bytes between the two ends are the packets that were     *)
(* sent and not received, in their order, up to the torn packet if there is *)
(* one: the receiver never loses its place in the stream before it.         *)
THEOREM StreamInvariance == Spec => []SInv
  <1>1. Init => SInv
    <2> SUFFICES ASSUME Init
                 PROVE  SInv
      OBVIOUS
    <2>1. /\ Len(sent) = 0 /\ Len(received) = 0 /\ Len(packets) = 0
          /\ Len(wire) = 0 /\ Len(rx.got) = 0 /\ rx.section = "prelude"
          /\ calls = 0 /\ cut = {} /\ recv_err = "none"
          /\ \A t \in Threads : send_pc[t] = "idle"
      BY DEF Init, NewRead
    <2>2. Unread = 0
      BY <2>1 DEF Unread, Base
    <2>3. OrderInv
      BY <2>1 DEF OrderInv
    <2>4. AllWhole
      <3> DEFINE v == View(Unread, sent, Len(sent))
      <3>1. v.good = 0 /\ v.count = 0 /\ v.next = 1
        BY <2>1, <2>2 DEF View
      <3> HIDE DEF v
      <3>2. Framed(v)
        BY <3>1 DEF Framed, ViewOK
      <3> QED
        BY <2>1, <2>2, <3>2 DEF AllWhole, v
    <2>5. IntactInv
      BY <2>1, <2>4 DEF IntactInv, Torn
    <2>6. CutInv /\ CauseInv
      BY <2>1 DEF CutInv, CauseInv
    <2>7. CountInv
      <3>1. Unframed = {}
        BY <2>1 DEF Unframed
      <3>2. IsFiniteSet(Unframed) /\ Cardinality(Unframed) = 0
        BY <3>1, FS_EmptySet
      <3> QED
        BY <2>1, <3>2 DEF CountInv
    <2> QED
      BY <2>3, <2>5, <2>6, <2>7 DEF SInv
  <1>2. IInv /\ SInv /\ [Next]_vars => SInv'
    <2> SUFFICES ASSUME IInv, SInv, [Next]_vars
                 PROVE  SInv'
      OBVIOUS
    <2>1. ASSUME NEW t \in Threads, SendStep(t)
          PROVE  SInv'
      BY <2>1, EncodeStream, EncodeFailStream, WriteSInv, WriteFailStream
      DEF SendStep
    <2> QED
      BY <2>1, SendBeginStream, SendLockStream, CloseStream, RecvStream,
         IdleStream DEF Next
  <1> QED
    BY <1>1, <1>2, Invariance, PTL DEF Spec

(* eventsteam_get_packet fails to parse only a stream with a torn packet in *)
(* it or a packet that was built wrongly, whatever the sizes of packets,    *)
(* buffers and socket and however many threads send.                        *)
THEOREM ParseErrorsExplained == Spec => []ParseErrorsHaveACause
  <1>1. SInv => ParseErrorsHaveACause
    BY DEF SInv, CauseInv, ParseErrorsHaveACause
  <1> QED
    BY <1>1, StreamInvariance, PTL

-----------------------------------------------------------------------------
(* A send that succeeds puts its packet on the channel.                     *)
LEMMA WriteSends ==
    ASSUME IInv, SInv, NEW t \in Threads, NEW k \in 1 .. Capacity, Write(t, k)
    PROVE  [PC!Next]_(PC!vars)
  <1>1. PICK q, d, u : Writes(t, k, q, d, u)
    BY DEF Writes
  <1>2. UNCHANGED <<received, cut>> /\ (sent' = Append(sent, q) \/ sent' = sent)
    BY <1>1, WriteOutcome
  <1>3. q \in 1 .. Len(packets)
    BY <1>1, WriteStream DEF Writes
  <1>4. q \in 1 .. MaxSends
    <2>1. /\ Len(packets) + Cardinality(Unframed) <= calls
          /\ Cardinality(Unframed) \in Nat
      BY FS_CardinalityType DEF SInv, CountInv
    <2>2. Len(packets) \in Nat
      BY DEF IInv, TypeOK
    <2>3. calls \in Nat /\ calls <= MaxSends /\ MaxSends \in Nat
      BY LengthsAssumption DEF IInv, TypeOK
    <2>4. Len(packets) <= MaxSends
      BY <2>1, <2>2, <2>3
    <2> QED
      BY <1>3, <2>2, <2>3, <2>4
  <1> QED
    BY <1>2, <1>4 DEF PC!Next, PC!Send, PC!vars

(* A packet that is decoded is the next one of the channel.                 *)
LEMMA DecodeReceives ==
    ASSUME IInv, SInv, Decode
    PROVE  PC!Receive
  <1>1. /\ Len(received) + 1 \in 1 .. Len(sent)
        /\ sent[Len(received) + 1] = rx.packet
        /\ \A c \in cut : Len(received) < c
    BY DecodeNext
  <1>2. Len(received) < Len(sent)
    <2>1. Len(received) \in Nat /\ Len(sent) \in Nat
      BY DEF IInv, TypeOK
    <2> QED
      BY <1>1, <2>1
  <1> QED
    BY <1>1, <1>2 DEF Decode, PC!Receive

(* A packet that is torn cuts the channel.                                  *)
LEMMA TearCuts ==
    ASSUME UNCHANGED <<sent, received>>, NEW torn, CutIf(torn)
    PROVE  [PC!Next]_(PC!vars)
  BY DEF CutIf, PC!Next, PC!Cut, PC!vars

(* The bytes of a connection implement a packet channel: however writes     *)
(* are split, torn by a timeout or by the end of a process, and whatever is *)
(* written behind a torn packet, eventsteam_get_packet returns only packets *)
(* whose send had succeeded, in their order, each once, and none sent after *)
(* a torn one.                                                              *)
THEOREM ImplementsPacketChannel == Spec => IsPacketChannel
  <1>1. Init => PC!Init
    BY DEF Init, PC!Init
  <1>2. IInv /\ SInv /\ [Next]_vars => [PC!Next]_(PC!vars)
    <2> SUFFICES ASSUME IInv, SInv, [Next]_vars
                 PROVE  [PC!Next]_(PC!vars)
      OBVIOUS
    <2>1. UNCHANGED <<sent, received, cut>> => [PC!Next]_(PC!vars)
      BY DEF PC!vars
    <2>2. ASSUME NEW t \in Threads, SendBegin(t) \/ SendLock(t) \/ SendStep(t)
          PROVE  [PC!Next]_(PC!vars)
      <3>1. CASE SendBegin(t) \/ SendLock(t) \/
                 \E s \in Shapes : Encode(t, s) \/ EncodeFail(t, s)
        BY <2>1, <3>1 DEF SendBegin, SendLock, Encode, EncodeFail
      <3>2. CASE WriteFail(t)
        BY <3>2, TearCuts DEF WriteFail
      <3> QED
        BY <2>2, <3>1, <3>2, WriteSends DEF SendStep
    <2>3. CASE Close
      BY <2>3, TearCuts DEF Close
    <2>4. CASE RecvStep
      <3>1. CASE Decode
        BY <3>1, DecodeReceives DEF PC!Next
      <3>2. CASE RecvStep /\ ~Decode
        <4>1. UNCHANGED <<sent, received, cut>>
          BY <3>2 DEF RecvStep, Read, DecodePrelude, DecodePreludeFail,
             DecodeFail, ReadEof, ReadTimeout, RecvFail
        <4> QED
          BY <2>1, <4>1
      <3> QED
        BY <2>4, <3>1, <3>2
    <2>5. CASE Hang \/ UNCHANGED vars
      BY <2>1, <2>5 DEF Hang, vars
    <2> QED
      BY <2>2, <2>3, <2>4, <2>5 DEF Next
  <1> QED
    BY <1>1, <1>2, Invariance, StreamInvariance, PTL
    DEF Spec, IsPacketChannel, PC!Spec
=============================================================================
