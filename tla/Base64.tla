------------------------------- MODULE Base64 -------------------------------
(***************************************************************************)
(* Base64 (src/src/base64.c), on ASCII codes and bytes.  Decoding may be   *)
(* in place: the memory that is read is the memory that is written.        *)
(***************************************************************************)
EXTENDS Integers, Sequences

PAD == 61

NotBase64 == -1

base64_char_to_byte(c) ==
  CASE c \in 65..90 -> c - 65
    [] c \in 97..122 -> c - 71
    [] c \in 48..57 -> c + 4
    [] c = 43 -> 62
    [] c = 47 -> 63
    [] OTHER -> NotBase64

BASE64_TABLE(n) == CHOOSE c \in 0..127 : base64_char_to_byte(c) = n

BadSegment == [ok |-> FALSE, bytes |-> <<>>]

\* Mutant: bits that no byte uses are ignored.
base64_decode_segment_Lax(seg) ==
  LET v == [k \in 1..4 |-> base64_char_to_byte(seg[k])]
      b1 == v[1] * 4 + v[2] \div 16
      b2 == (v[2] % 16) * 16 + v[3] \div 4
  IN IF NotBase64 \in {v[1], v[2]} THEN BadSegment
     ELSE IF seg[3] = PAD THEN [ok |-> seg[4] = PAD, bytes |-> <<b1>>]
     ELSE IF v[3] = NotBase64 THEN BadSegment
     ELSE IF seg[4] = PAD THEN [ok |-> TRUE, bytes |-> <<b1, b2>>]
     ELSE IF v[4] = NotBase64 THEN BadSegment
     ELSE [ok |-> TRUE, bytes |-> <<b1, b2, (v[3] % 4) * 64 + v[4]>>]

\* Four characters; padding is allowed if the bits it hides are zero.
base64_decode_segment(seg) ==
  LET v == [k \in 1..4 |-> base64_char_to_byte(seg[k])]
      b1 == v[1] * 4 + v[2] \div 16
      b2 == (v[2] % 16) * 16 + v[3] \div 4
  IN IF NotBase64 \in {v[1], v[2]} THEN BadSegment
     ELSE IF seg[3] = PAD
       THEN [ok |-> seg[4] = PAD /\ v[2] % 16 = 0, bytes |-> <<b1>>]
     ELSE IF v[3] = NotBase64 THEN BadSegment
     ELSE IF seg[4] = PAD THEN [ok |-> v[3] % 4 = 0, bytes |-> <<b1, b2>>]
     ELSE IF v[4] = NotBase64 THEN BadSegment
     ELSE [ok |-> TRUE, bytes |-> <<b1, b2, (v[3] % 4) * 64 + v[4]>>]

\* The four characters of segment k.
Segment(mem, k) == [i \in 1..4 |-> mem[4 * k - 4 + i]]

\* memcpy of the bytes of a segment to where the output has got to.
Written(mem, w, bytes) ==
  [k \in DOMAIN mem |->
     IF k \in w..(w + Len(bytes) - 1) THEN bytes[k - w + 1] ELSE mem[k]]

\* One turn of the loop, for segment k: mem[1..w - 1] is decoded, and last says
\* that there was padding.  A turn that fails ends the loop.
DecodeTurn(s, k) ==
  LET r == base64_decode_segment(Segment(s.mem, k))
  IN IF ~s.ok \/ s.last \/ ~r.ok THEN [s EXCEPT !.ok = FALSE]
     ELSE [ok |-> TRUE, mem |-> Written(s.mem, s.w, r.bytes),
           w |-> s.w + Len(r.bytes), last |-> Len(r.bytes) # 3]

DecodeStart(mem) == [ok |-> TRUE, mem |-> mem, w |-> 1, last |-> FALSE]

\* The loop: what there is after each number of segments.
DecodeTurns(mem) ==
  LET turns[k \in 0..(Len(mem) \div 4)] ==
        IF k = 0 THEN DecodeStart(mem) ELSE DecodeTurn(turns[k - 1], k)
  IN turns

gg_base64_decode_in_place(mem) ==
  LET s == DecodeTurns(mem)[Len(mem) \div 4]
  IN IF Len(mem) % 4 # 0 THEN [ok |-> FALSE, data |-> mem]
     ELSE [ok |-> s.ok, data |-> IF s.ok THEN SubSeq(s.mem, 1, s.w - 1) ELSE s.mem]

\* The four characters for a chunk of n bytes x, y and z; a missing one is 0.
EncodeChunk(n, x, y, z) ==
  LET chunk == x * 65536 + y * 256 + z
      c(k) == BASE64_TABLE((chunk \div k) % 64)
  IN <<c(262144), c(4096), IF n > 1 THEN c(64) ELSE PAD, IF n > 2 THEN c(1) ELSE PAD>>

\* Bytes 3k - 2 to 3k become segment k.
EncodeSegment(buf, k) ==
  LET at(j) == IF j <= Len(buf) THEN buf[j] ELSE 0
  IN EncodeChunk(Len(buf) - 3 * k + 3, at(3 * k - 2), at(3 * k - 1), at(3 * k))

gg_base64_encode(buf) ==
  [j \in 1..(4 * ((Len(buf) + 2) \div 3)) |->
     EncodeSegment(buf, (j + 3) \div 4)[((j - 1) % 4) + 1]]
=============================================================================
