-------------------------- MODULE BindingsProofs --------------------------
(***************************************************************************)
(* Proofs about base64, publish and subscribe, and subscription objects.   *)
(*                                                                         *)
(* Base64: the loop of gg_base64_decode is followed turn by turn           *)
(* (AfterTurns).  After k turns the bytes of the first k segments are at   *)
(* the front of the memory and the segments to come are as they were,      *)
(* because a turn writes at most three bytes for the four that it has      *)
(* read.  With the two facts about one segment (ChunkDecodes,              *)
(* SegmentEncodes) decoding inverts encoding, and encoding inverts every   *)
(* decoding that succeeds, for texts of any length.                        *)
(*                                                                         *)
(* Publish and subscribe: whatever is on its way to a component is one of  *)
(* Deliveries, and the handler of its stream makes of it what the          *)
(* publisher gave.                                                         *)
(*                                                                         *)
(* Subscriptions: however C++ and Rust variables are moved, swapped,       *)
(* reset, released, assigned and destroyed, and whatever callbacks do with *)
(* their copy of a handle, no subscription is lost, shared or closed by a  *)
(* variable that does not own it.                                          *)
(***************************************************************************)
EXTENDS Base64Calls, PubSub, Subscriptions, SequenceTheorems, WellFoundedInduction, TLAPS

-----------------------------------------------------------------------------
\* A set of numbers that is not empty has a least one.
LEMMA LeastNumber ==
  ASSUME NEW S, S \subseteq Nat, S # {}
  PROVE  \E m \in S : \A n \in S : m <= n
<1> DEFINE R == {p \in Nat \X Nat : p[1] < p[2]}
<1>1. OpToRel(<, Nat) = R
  BY DEF OpToRel
<1>2. IsWellFoundedOn(R, Nat)
  BY <1>1, NatLessThanWellFounded
<1>3. PICK m \in S : \A n \in S : ~(<<n, m>> \in R)
  <2> HIDE DEF R
  <2> QED
    BY <1>2, WFMin
<1>4. \A n \in S : m <= n
  <2> TAKE n \in S
  <2>1. <<n, m>> \in Nat \X Nat /\ ~(n < m)
    BY <1>3
  <2> QED
    BY <2>1
<1> QED
  BY <1>4

\* A character that is a digit of base64 has one value below 64, and no other
\* character has it; the padding is not a digit.
LEMMA Digits ==
  /\ \A c \in Int : base64_char_to_byte(c) \in (0..63) \cup {NotBase64}
  /\ \A c, d \in Int : /\ base64_char_to_byte(c) = base64_char_to_byte(d)
                       /\ base64_char_to_byte(c) # NotBase64
                       => c = d
  /\ base64_char_to_byte(PAD) = NotBase64
  /\ \A c \in Int : base64_char_to_byte(c) # NotBase64 => c \in 0..127
BY DEF base64_char_to_byte, NotBase64, PAD

\* Every six-bit number is the digit of a character.
LEMMA DigitExists ==
  \A n \in 0..63 : \E c \in 0..127 : base64_char_to_byte(c) = n
<1> TAKE n \in 0..63
<1> DEFINE c == IF n < 26 THEN n + 65 ELSE IF n < 52 THEN n + 71
               ELSE IF n < 62 THEN n - 4 ELSE IF n = 62 THEN 43 ELSE 47
<1>1. c \in 0..127 /\ base64_char_to_byte(c) = n
  BY DEF base64_char_to_byte
<1> QED
  BY <1>1

\* BASE64_TABLE is the inverse.
LEMMA Table ==
  ASSUME NEW n \in 0..63
  PROVE  /\ BASE64_TABLE(n) \in 0..127
         /\ base64_char_to_byte(BASE64_TABLE(n)) = n
         /\ BASE64_TABLE(n) # PAD
<1>1. BASE64_TABLE(n) \in 0..127 /\ base64_char_to_byte(BASE64_TABLE(n)) = n
  <2>1. \E c \in 0..127 : base64_char_to_byte(c) = n
    BY DigitExists
  <2> QED
    BY <2>1, Zenon DEF BASE64_TABLE
<1> QED
  BY <1>1, Digits DEF NotBase64

\* The table gives the character of a digit.
LEMMA TableOfDigit ==
  ASSUME NEW c \in Int, base64_char_to_byte(c) # NotBase64
  PROVE  BASE64_TABLE(base64_char_to_byte(c)) = c
<1>1. base64_char_to_byte(c) \in 0..63
  BY Digits
<1> DEFINE n == base64_char_to_byte(c)
<1>2. BASE64_TABLE(n) \in 0..127 /\ base64_char_to_byte(BASE64_TABLE(n)) = n
  <2> HIDE DEF n
  <2> QED
    BY <1>1, Table DEF n
<1> QED
  BY <1>2, Digits

Byte == 0..255

\* The four characters of a chunk, by the six-bit groups of its bytes.
LEMMA ChunkCharacters ==
  ASSUME NEW n, NEW x \in Byte, NEW y \in Byte, NEW z \in Byte
  PROVE  EncodeChunk(n, x, y, z) =
           <<BASE64_TABLE(x \div 4), BASE64_TABLE((x % 4) * 16 + y \div 16),
             IF n > 1 THEN BASE64_TABLE((y % 16) * 4 + z \div 64) ELSE PAD,
             IF n > 2 THEN BASE64_TABLE(z % 64) ELSE PAD>>
<1> DEFINE a == x \div 4
           b == x % 4
           c == y \div 16
           d == y % 16
           e == z \div 64
           f == z % 64
           chunk == x * 65536 + y * 256 + z
<1>1. /\ a \in 0..63 /\ b \in 0..3 /\ x = 4 * a + b
      /\ c \in 0..15 /\ d \in 0..15 /\ y = 16 * c + d
      /\ e \in 0..3 /\ f \in 0..63 /\ z = 64 * e + f
  BY DEF Byte
<1>2. chunk \in Nat /\ chunk = 262144 * a + 4096 * (16 * b + c) + 64 * (4 * d + e) + f
  BY <1>1 DEF Byte
<1>3. EncodeChunk(n, x, y, z) =
        <<BASE64_TABLE((chunk \div 262144) % 64), BASE64_TABLE((chunk \div 4096) % 64),
          IF n > 1 THEN BASE64_TABLE((chunk \div 64) % 64) ELSE PAD,
          IF n > 2 THEN BASE64_TABLE((chunk \div 1) % 64) ELSE PAD>>
  BY SMT DEF EncodeChunk
<1> HIDE DEF a, b, c, d, e, f, chunk
<1>4. (chunk \div 262144) % 64 = a
  <2>1. chunk \div 262144 = a
    BY <1>1, <1>2
  <2> QED
    BY <2>1, <1>1
<1>5. (chunk \div 4096) % 64 = b * 16 + c
  <2>1. chunk \div 4096 = 64 * a + (16 * b + c)
    BY <1>1, <1>2
  <2>2. (64 * a + (16 * b + c)) % 64 = 16 * b + c
    BY <1>1
  <2> QED
    BY <2>1, <2>2, <1>1
<1>6. (chunk \div 64) % 64 = d * 4 + e
  <2>1. chunk \div 64 = 64 * (64 * a + (16 * b + c)) + (4 * d + e)
    BY <1>1, <1>2
  <2>2. (64 * (64 * a + (16 * b + c)) + (4 * d + e)) % 64 = 4 * d + e
    BY <1>1
  <2> QED
    BY <2>1, <2>2, <1>1
<1>7. (chunk \div 1) % 64 = f
  <2>1. chunk \div 1 = 64 * (64 * (64 * a + (16 * b + c)) + (4 * d + e)) + f
    BY <1>1, <1>2
  <2>2. (64 * (64 * (64 * a + (16 * b + c)) + (4 * d + e)) + f) % 64 = f
    BY <1>1
  <2> QED
    BY <2>1, <2>2, <1>1
<1>8. EncodeChunk(n, x, y, z) =
        <<BASE64_TABLE(a), BASE64_TABLE(b * 16 + c),
          IF n > 1 THEN BASE64_TABLE(d * 4 + e) ELSE PAD,
          IF n > 2 THEN BASE64_TABLE(f) ELSE PAD>>
  BY <1>3, <1>4, <1>5, <1>6, <1>7, SMT
<1> QED
  BY <1>8, Zenon DEF a, b, c, d, e, f

\* What base64_decode_segment (src/src/base64.c:30) makes of two digits, s and t,
\* where the four have the values a, b, c and d.
SegmentDecoded(s, t, a, b, c, d) ==
  LET b1 == a * 4 + b \div 16
      b2 == (b % 16) * 16 + c \div 4
  IN IF s = PAD THEN [ok |-> t = PAD /\ b % 16 = 0, bytes |-> <<b1>>]
     ELSE IF c = NotBase64 THEN BadSegment
     ELSE IF t = PAD THEN [ok |-> c % 4 = 0, bytes |-> <<b1, b2>>]
     ELSE IF d = NotBase64 THEN BadSegment
     ELSE [ok |-> TRUE, bytes |-> <<b1, b2, (c % 4) * 64 + d>>]

\* A segment that begins with two digits, by the digits of its characters.
LEMMA SegmentOfDigits ==
  ASSUME NEW p, NEW q, NEW s, NEW t,
         base64_char_to_byte(p) # NotBase64, base64_char_to_byte(q) # NotBase64
  PROVE  base64_decode_segment(<<p, q, s, t>>) =
           SegmentDecoded(s, t, base64_char_to_byte(p), base64_char_to_byte(q),
                          base64_char_to_byte(s), base64_char_to_byte(t))
<1> DEFINE seg == <<p, q, s, t>>
           v == [k \in 1..4 |-> base64_char_to_byte(seg[k])]
<1>1. /\ v[1] = base64_char_to_byte(p) /\ v[2] = base64_char_to_byte(q)
      /\ v[3] = base64_char_to_byte(s) /\ v[4] = base64_char_to_byte(t)
      /\ seg[3] = s /\ seg[4] = t
  OBVIOUS
<1>2. base64_decode_segment(seg) =
        IF NotBase64 \in {v[1], v[2]} THEN BadSegment
        ELSE SegmentDecoded(seg[3], seg[4], v[1], v[2], v[3], v[4])
  BY Zenon DEF base64_decode_segment, SegmentDecoded
<1> HIDE DEF v, seg
<1>3. NotBase64 \notin {v[1], v[2]}
  BY <1>1
<1> QED
  BY <1>1, <1>2, <1>3, Zenon DEF seg

\* A segment that does not begin with two digits is refused.
LEMMA SegmentOfOthers ==
  ASSUME NEW p, NEW q, NEW s, NEW t,
         base64_char_to_byte(p) = NotBase64 \/ base64_char_to_byte(q) = NotBase64
  PROVE  ~base64_decode_segment(<<p, q, s, t>>).ok
  BY DEF base64_decode_segment, BadSegment

\* The bytes of a chunk of n, of which three are in a full one.
ChunkBytes(n, x, y, z) == IF n = 1 THEN <<x>> ELSE IF n = 2 THEN <<x, y>> ELSE <<x, y, z>>

\* Encoding and decoding a chunk gives its bytes.
LEMMA ChunkDecodes ==
  ASSUME NEW n \in Nat \ {0}, NEW x \in Byte, NEW y \in Byte, NEW z \in Byte,
         n = 1 => y = 0, n <= 2 => z = 0
  PROVE  base64_decode_segment(EncodeChunk(n, x, y, z)) =
           [ok |-> TRUE, bytes |-> ChunkBytes(n, x, y, z)]
<1> DEFINE va == x \div 4
           vb == (x % 4) * 16 + y \div 16
           vc == (y % 16) * 4 + z \div 64
           vd == z % 64
<1>1. va \in 0..63 /\ vb \in 0..63 /\ vc \in 0..63 /\ vd \in 0..63
  BY DEF Byte
<1>2. /\ va * 4 + vb \div 16 = x
      /\ (vb % 16) * 16 + vc \div 4 = y
      /\ (vc % 4) * 64 + vd = z
      /\ n = 1 => vb % 16 = 0
      /\ n = 2 => vc % 4 = 0
  BY DEF Byte
<1> DEFINE p == BASE64_TABLE(va)
           q == BASE64_TABLE(vb)
           s == IF n > 1 THEN BASE64_TABLE(vc) ELSE PAD
           t == IF n > 2 THEN BASE64_TABLE(vd) ELSE PAD
<1>3. EncodeChunk(n, x, y, z) = <<p, q, s, t>>
  BY ChunkCharacters, Zenon
<1> HIDE DEF va, vb, vc, vd
<1>4. /\ base64_char_to_byte(p) = va /\ base64_char_to_byte(q) = vb
      /\ n > 1 => base64_char_to_byte(s) = vc /\ s # PAD
      /\ n > 2 => base64_char_to_byte(t) = vd /\ t # PAD
      /\ n <= 1 => s = PAD
      /\ n <= 2 => t = PAD
  BY <1>1, Table
<1> HIDE DEF p, q, s, t
<1>5. NotBase64 \notin 0..63
  BY DEF NotBase64
<1> DEFINE c == base64_char_to_byte(s)
           d == base64_char_to_byte(t)
<1>6. base64_decode_segment(<<p, q, s, t>>) = SegmentDecoded(s, t, va, vb, c, d)
  BY <1>1, <1>4, <1>5, SegmentOfDigits
<1> HIDE DEF c, d
<1>7. CASE n = 1
  <2>1. s = PAD /\ t = PAD /\ vb % 16 = 0
    BY <1>2, <1>4, <1>7
  <2> QED
    BY <1>2, <1>3, <1>6, <1>7, <2>1 DEF SegmentDecoded, ChunkBytes
<1>8. CASE n = 2
  <2>1. s # PAD /\ c = vc /\ c # NotBase64 /\ t = PAD /\ c % 4 = 0 /\ n # 1
    BY <1>1, <1>2, <1>4, <1>5, <1>8 DEF c
  <2> QED
    BY <1>2, <1>3, <1>6, <1>8, <2>1 DEF SegmentDecoded, ChunkBytes
<1>9. CASE n > 2
  <2>1. /\ s # PAD /\ c = vc /\ c # NotBase64 /\ t # PAD /\ d = vd /\ d # NotBase64
        /\ n # 1 /\ n # 2
    BY <1>1, <1>4, <1>5, <1>9 DEF c, d
  <2> QED
    BY <1>2, <1>3, <1>6, <1>9, <2>1, Zenon DEF SegmentDecoded, ChunkBytes
<1> QED
  BY <1>7, <1>8, <1>9

\* A segment that is accepted has one to three bytes, and they encode to it.
LEMMA SegmentEncodes ==
  ASSUME NEW seg \in [1..4 -> Int], base64_decode_segment(seg).ok,
         NEW n \in Nat
  PROVE  LET bytes == base64_decode_segment(seg).bytes
         IN /\ bytes \in Seq(Byte)
            /\ Len(bytes) \in 1..3
            /\ n = Len(bytes) \/ (n > 3 /\ Len(bytes) = 3) =>
                 EncodeChunk(n, bytes[1], IF n > 1 THEN bytes[2] ELSE 0,
                             IF n > 2 THEN bytes[3] ELSE 0) = seg
<1> DEFINE p == seg[1]
           q == seg[2]
           s == seg[3]
           t == seg[4]
           a == base64_char_to_byte(p)
           b == base64_char_to_byte(q)
           c == base64_char_to_byte(s)
           d == base64_char_to_byte(t)
           bytes == base64_decode_segment(seg).bytes
           b1 == a * 4 + b \div 16
           b2 == (b % 16) * 16 + c \div 4
           b3 == (c % 4) * 64 + d
<1>1. seg = <<p, q, s, t>> /\ p \in Int /\ q \in Int /\ s \in Int /\ t \in Int
  OBVIOUS
<1>2. a # NotBase64 /\ b # NotBase64
  BY <1>1, SegmentOfOthers
<1>3. base64_decode_segment(seg) = SegmentDecoded(s, t, a, b, c, d)
  BY <1>1, <1>2, SegmentOfDigits
<1>4. /\ a \in 0..63 /\ b \in 0..63
      /\ c # NotBase64 => c \in 0..63
      /\ d # NotBase64 => d \in 0..63
  BY <1>1, <1>2, Digits
<1>5. /\ BASE64_TABLE(a) = p /\ BASE64_TABLE(b) = q
      /\ c # NotBase64 => BASE64_TABLE(c) = s
      /\ d # NotBase64 => BASE64_TABLE(d) = t
  BY <1>1, <1>2, TableOfDigit
<1> HIDE DEF p, q, s, t, a, b, c, d
<1>6. b1 \in Byte /\ b1 \div 4 = a /\ (b1 % 4) * 16 + 0 \div 16 = (b \div 16) * 16
  BY <1>4 DEF Byte
<1>7. 0 \in Byte /\ 0 \div 16 = 0 /\ (0 % 16) * 4 + 0 \div 64 = 0
  BY DEF Byte
<1>8. CASE s = PAD
  <2>1. bytes = <<b1>> /\ t = PAD /\ b % 16 = 0
    <3> DEFINE fits == t = PAD /\ b % 16 = 0
    <3>1. base64_decode_segment(seg) = [ok |-> fits, bytes |-> <<b1>>]
      BY <1>3, <1>8, Zenon DEF SegmentDecoded
    <3> HIDE DEF b1, fits
    <3>2. base64_decode_segment(seg).ok = fits /\ bytes = <<b1>>
      BY <3>1
    <3> QED
      BY <3>2 DEF fits
  <2>2. (b \div 16) * 16 = b
    BY <2>1, <1>4
  <2>3. EncodeChunk(1, b1, 0, 0) = <<p, q, s, t>>
    <3> HIDE DEF b1
    <3>1. EncodeChunk(1, b1, 0, 0) =
             <<BASE64_TABLE(b1 \div 4), BASE64_TABLE((b1 % 4) * 16 + 0 \div 16), PAD, PAD>>
      <4>1. ~(1 > 1) /\ ~(1 > 2)
        OBVIOUS
      <4> QED
        BY <4>1, <1>6, <1>7, ChunkCharacters, Zenon
    <3> QED
      BY <3>1, <2>1, <2>2, <1>5, <1>6, <1>8, Zenon
  <2>4. bytes \in Seq(Byte) /\ Len(bytes) = 1 /\ bytes[1] = b1
    BY <2>1, <1>6
  <2> QED
    BY <2>3, <2>4, <1>1
<1>9. CASE s # PAD /\ t = PAD
  <2>1. bytes = <<b1, b2>> /\ c % 4 = 0 /\ c # NotBase64
    <3>1. base64_decode_segment(seg) =
            IF c = NotBase64 THEN BadSegment ELSE [ok |-> c % 4 = 0, bytes |-> <<b1, b2>>]
      BY <1>3, <1>9, Zenon DEF SegmentDecoded
    <3>2. ~BadSegment.ok
      BY DEF BadSegment
    <3>3. c # NotBase64
      BY <3>1, <3>2
    <3> DEFINE fits == c % 4 = 0
    <3>4. base64_decode_segment(seg) = [ok |-> fits, bytes |-> <<b1, b2>>]
      BY <3>1, <3>3, Zenon
    <3> HIDE DEF b1, b2, fits
    <3>5. base64_decode_segment(seg).ok = fits /\ bytes = <<b1, b2>>
      BY <3>4
    <3> QED
      BY <3>3, <3>5 DEF fits
  <2>2. /\ b2 \in Byte /\ (b1 % 4) * 16 + b2 \div 16 = b
        /\ (b2 % 16) * 4 + 0 \div 64 = c
    BY <2>1, <1>4 DEF Byte
  <2>3. EncodeChunk(2, b1, b2, 0) = <<p, q, s, t>>
    <3> HIDE DEF b1, b2
    <3>1. EncodeChunk(2, b1, b2, 0) =
             <<BASE64_TABLE(b1 \div 4), BASE64_TABLE((b1 % 4) * 16 + b2 \div 16),
               BASE64_TABLE((b2 % 16) * 4 + 0 \div 64), PAD>>
      <4>1. 2 > 1 /\ ~(2 > 2)
        OBVIOUS
      <4> QED
        BY <4>1, <1>6, <1>7, <2>2, ChunkCharacters, Zenon
    <3> QED
      BY <3>1, <2>1, <2>2, <1>5, <1>6, <1>9, Zenon
  <2>4. bytes \in Seq(Byte) /\ Len(bytes) = 2 /\ bytes[1] = b1 /\ bytes[2] = b2
    BY <2>1, <2>2, <1>6
  <2> QED
    BY <2>3, <2>4, <1>1
<1>10. CASE s # PAD /\ t # PAD
  <2>1. bytes = <<b1, b2, b3>> /\ c # NotBase64 /\ d # NotBase64
    BY <1>3, <1>10 DEF SegmentDecoded, BadSegment
  <2>2. /\ b2 \in Byte /\ (b1 % 4) * 16 + b2 \div 16 = b
        /\ b3 \in Byte /\ (b2 % 16) * 4 + b3 \div 64 = c
        /\ b3 % 64 = d
    BY <2>1, <1>4 DEF Byte
  <2>3. ASSUME n > 2
        PROVE  EncodeChunk(n, b1, b2, b3) = <<p, q, s, t>>
    <3> HIDE DEF b1, b2, b3
    <3>1. EncodeChunk(n, b1, b2, b3) =
             <<BASE64_TABLE(b1 \div 4), BASE64_TABLE((b1 % 4) * 16 + b2 \div 16),
               BASE64_TABLE((b2 % 16) * 4 + b3 \div 64), BASE64_TABLE(b3 % 64)>>
      <4>1. n > 1
        BY <2>3
      <4> QED
        BY <4>1, <1>6, <2>2, <2>3, ChunkCharacters, Zenon
    <3> QED
      BY <3>1, <2>1, <2>2, <1>5, <1>6, Zenon
  <2>4. /\ bytes \in Seq(Byte) /\ Len(bytes) = 3
        /\ bytes[1] = b1 /\ bytes[2] = b2 /\ bytes[3] = b3
    BY <2>1, <2>2, <1>6
  <2> QED
    BY <2>3, <2>4, <1>1
<1> QED
  BY <1>8, <1>9, <1>10

-----------------------------------------------------------------------------
\* The loop of gg_base64_decode is a function: one can always be extended by a
\* turn.
LEMMA TurnsExist ==
  ASSUME NEW mem, NEW n \in Nat
  PROVE  \E f : f = [k \in 0..n |-> IF k = 0 THEN DecodeStart(mem) ELSE DecodeTurn(f[k - 1], k)]
<1> DEFINE Are(f, m) ==
             f = [k \in 0..m |-> IF k = 0 THEN DecodeStart(mem) ELSE DecodeTurn(f[k - 1], k)]
           S == {m \in Nat : ~\E f : Are(f, m)}
<1> SUFFICES ASSUME S # {}
             PROVE  FALSE
  OBVIOUS
<1>1. PICK m \in S : \A i \in S : m <= i
  BY LeastNumber
<1>2. CASE m = 0
  <2>1. Are([k \in 0..0 |-> DecodeStart(mem)], 0)
    OBVIOUS
  <2> QED
    BY <2>1, <1>2
<1>3. CASE m # 0
  <2>1. m - 1 \in Nat /\ ~(m <= m - 1)
    BY <1>3
  <2>2. PICK f : Are(f, m - 1)
    BY <2>1, <1>1
  <2> DEFINE g == [k \in 0..m |-> IF k < m THEN f[k] ELSE DecodeTurn(f[m - 1], m)]
  <2>3. \A k \in 0..(m - 1) :
          f[k] = IF k = 0 THEN DecodeStart(mem) ELSE DecodeTurn(f[k - 1], k)
    BY <2>2
  <2>4. ASSUME NEW k \in 0..m
        PROVE  g[k] = IF k = 0 THEN DecodeStart(mem) ELSE DecodeTurn(g[k - 1], k)
    BY <2>1, <2>3
  <2>5. Are(g, m)
    <3> DEFINE h == [k \in 0..m |-> IF k = 0 THEN DecodeStart(mem) ELSE DecodeTurn(g[k - 1], k)]
    <3>1. \A k \in 0..m : g[k] = h[k]
      BY <2>4
    <3>2. DOMAIN g = 0..m /\ DOMAIN h = 0..m
      OBVIOUS
    <3>3. g = h
      <4>1. g = [k \in DOMAIN g |-> g[k]] /\ h = [k \in DOMAIN h |-> h[k]]
        OBVIOUS
      <4> HIDE DEF g, h
      <4> QED
        BY <3>1, <3>2, <4>1
    <3> QED
      BY <3>3
  <2> QED
    BY <2>5
<1> QED
  BY <1>2, <1>3

\* So DecodeTurns is what its definition says.
LEMMA DecodeTurnsStep ==
  ASSUME NEW mem, Len(mem) \div 4 \in Nat
  PROVE  /\ DecodeTurns(mem)[0] = DecodeStart(mem)
         /\ \A k \in 1..(Len(mem) \div 4) :
              DecodeTurns(mem)[k] = DecodeTurn(DecodeTurns(mem)[k - 1], k)
<1> DEFINE n == Len(mem) \div 4
           Are(f) ==
             f = [k \in 0..n |-> IF k = 0 THEN DecodeStart(mem) ELSE DecodeTurn(f[k - 1], k)]
           g == DecodeTurns(mem)
<1>1. \E f : Are(f)
  <2> HIDE DEF n
  <2> QED
    BY TurnsExist DEF n
<1>2. g = CHOOSE f : Are(f)
  BY Zenon DEF DecodeTurns
<1>3. Are(g)
  <2> HIDE DEF Are, g
  <2> QED
    BY <1>1, <1>2, Zenon
<1> HIDE DEF g, n
<1>4. \A k \in 0..n : g[k] = IF k = 0 THEN DecodeStart(mem) ELSE DecodeTurn(g[k - 1], k)
  BY <1>3, Zenon
<1>5. g[0] = DecodeStart(mem) /\ \A k \in 1..n : g[k] = DecodeTurn(g[k - 1], k)
  BY <1>4 DEF n
<1> QED
  BY <1>5 DEF g, n

-----------------------------------------------------------------------------
Decoded(T, j) == base64_decode_segment(Segment(T, j))

\* The first k segments of T are accepted: padding is only in the last.
Accepted(T, k) ==
  \A j \in 1..k : Decoded(T, j).ok /\ (j < k => Len(Decoded(T, j).bytes) = 3)

\* What there is after k turns: the loop has gone on while the segments were
\* accepted, and then their bytes are at the front and the rest is as it was.
TurnType(T) == [ok : BOOLEAN, mem : [1..Len(T) -> Int], w : Int, last : BOOLEAN]

AfterTurns(T, s, k) ==
  /\ s \in TurnType(T)
  /\ s.ok <=> Accepted(T, k)
  /\ s.ok =>
       /\ \A i \in (4 * k + 1)..Len(T) : s.mem[i] = T[i]
       /\ \A j \in 1..k : \A i \in 1..Len(Decoded(T, j).bytes) :
            s.mem[3 * j - 3 + i] = Decoded(T, j).bytes[i]
       /\ s.w = IF k = 0 THEN 1 ELSE 3 * k - 2 + Len(Decoded(T, k).bytes)
       /\ s.last <=> k # 0 /\ Len(Decoded(T, k).bytes) # 3

\* A segment is four characters.
LEMMA SegmentType ==
  ASSUME NEW n \in Nat, NEW mem \in [1..n -> Int], NEW k \in Nat \ {0}, 4 * k <= n
  PROVE  Segment(mem, k) \in [1..4 -> Int]
<1>1. \A i \in 1..4 : 4 * k - 4 + i \in 1..n
  OBVIOUS
<1> QED
  BY <1>1 DEF Segment

\* An accepted segment yields one to three bytes.
LEMMA DecodedType ==
  ASSUME NEW seg \in [1..4 -> Int], base64_decode_segment(seg).ok
  PROVE  /\ base64_decode_segment(seg).bytes \in Seq(Byte)
         /\ Len(base64_decode_segment(seg).bytes) \in 1..3
  BY SegmentEncodes, 0 \in Nat

\* The loop invariant holds before the first turn.
LEMMA FirstTurn ==
  ASSUME NEW T \in Seq(Int)
  PROVE  AfterTurns(T, DecodeStart(T), 0)
<1>1. DecodeStart(T) \in TurnType(T)
  BY DEF DecodeStart, TurnType
<1>2. Accepted(T, 0)
  BY DEF Accepted
<1> QED
  BY <1>1, <1>2 DEF AfterTurns, DecodeStart

\* new is mem, of n bytes, with bytes written to w.
HasBytes(new, n, mem, w, bytes) ==
  /\ new \in [1..n -> Int]
  /\ \A i \in 1..Len(bytes) : new[w - 1 + i] = bytes[i]
  /\ \A i \in 1..n : i < w \/ i >= w + Len(bytes) => new[i] = mem[i]

\* What memcpy leaves in the memory.
LEMMA WrittenBytes ==
  ASSUME NEW n \in Nat, NEW mem \in [1..n -> Int], NEW w \in Nat \ {0},
         NEW bytes \in Seq(Byte), w + Len(bytes) - 1 <= n
  PROVE  HasBytes(Written(mem, w, bytes), n, mem, w, bytes)
<1>1. Len(bytes) \in Nat /\ \A i \in 1..Len(bytes) : bytes[i] \in Int
  <2>1. Byte \subseteq Int
    BY DEF Byte
  <2>2. Len(bytes) \in Nat /\ \A i \in 1..Len(bytes) : bytes[i] \in Byte
    OBVIOUS
  <2> QED
    BY <2>1, <2>2
<1>2. ASSUME NEW i \in 1..n, i \in w..(w + Len(bytes) - 1)
      PROVE  i - w + 1 \in 1..Len(bytes)
  BY <1>1, <1>2
<1>3. Written(mem, w, bytes) \in [1..n -> Int]
  BY <1>1, <1>2 DEF Written
<1>4. ASSUME NEW i \in 1..Len(bytes)
      PROVE  Written(mem, w, bytes)[w - 1 + i] = bytes[i]
  <2>1. /\ w - 1 + i \in 1..n /\ w - 1 + i \in w..(w + Len(bytes) - 1)
        /\ w - 1 + i - w + 1 = i
    BY <1>1
  <2> QED
    BY <2>1 DEF Written
<1>5. ASSUME NEW i \in 1..n, i < w \/ i >= w + Len(bytes)
      PROVE  Written(mem, w, bytes)[i] = mem[i]
  BY <1>1, <1>5 DEF Written
<1> QED
  BY <1>3, <1>4, <1>5 DEF HasBytes

\* Turn k writes behind what it has read, and before what it will read.
LEMMA TurnBounds ==
  ASSUME NEW k \in Nat \ {0}, NEW l \in 1..3, NEW n \in Nat, 4 * k <= n
  PROVE  /\ 3 * k - 2 \in Nat \ {0}
         /\ 3 * k - 2 + l - 1 <= n
         /\ 3 * k - 2 - 1 = 3 * k - 3
         /\ \A i \in (4 * k + 1)..n :
              i \in 1..n /\ i >= 3 * k - 2 + l /\ i \in (4 * (k - 1) + 1)..n
  OBVIOUS

\* A turn of the loop keeps its invariant.
LEMMA NextTurn ==
  ASSUME NEW T \in Seq(Int), NEW k \in Nat \ {0}, 4 * k <= Len(T),
         NEW s, AfterTurns(T, s, k - 1)
  PROVE  AfterTurns(T, DecodeTurn(s, k), k)
<1> DEFINE r == base64_decode_segment(Segment(s.mem, k))
           u == DecodeTurn(s, k)
           n == Len(T)
<1>1. n \in Nat /\ T \in [1..n -> Int] /\ k - 1 \in Nat
  OBVIOUS
<1>2. /\ s \in TurnType(T) /\ s.ok \in BOOLEAN /\ s.mem \in [1..n -> Int]
      /\ s.w \in Int /\ s.last \in BOOLEAN
  BY DEF AfterTurns, TurnType
<1>3. ASSUME s.ok
      PROVE  r = Decoded(T, k)
  <2>1. \A i \in 1..4 : 4 * k - 4 + i \in (4 * (k - 1) + 1)..n
    BY <1>1
  <2>2. \A i \in 1..4 : s.mem[4 * k - 4 + i] = T[4 * k - 4 + i]
    BY <2>1, <1>3 DEF AfterTurns
  <2>3. Segment(s.mem, k) = Segment(T, k)
    BY <2>2 DEF Segment
  <2> QED
    BY <2>3 DEF Decoded
<1>4. /\ ~s.ok \/ s.last \/ ~r.ok => u = [s EXCEPT !.ok = FALSE]
      /\ ~(~s.ok \/ s.last \/ ~r.ok) =>
           u = [ok |-> TRUE, mem |-> Written(s.mem, s.w, r.bytes),
                w |-> s.w + Len(r.bytes), last |-> Len(r.bytes) # 3]
  BY Zenon DEF DecodeTurn
<1>5. Accepted(T, k) <=> s.ok /\ ~s.last /\ Decoded(T, k).ok
  <2>1. Accepted(T, k) <=> /\ Accepted(T, k - 1) /\ Decoded(T, k).ok
                           /\ k - 1 # 0 => Len(Decoded(T, k - 1).bytes) = 3
    <3>1. \A j \in 1..k : j \in 1..(k - 1) \/ j = k
      OBVIOUS
    <3>2. \A j \in 1..(k - 1) : j \in 1..k /\ j < k /\ (j < k - 1 \/ j = k - 1)
      OBVIOUS
    <3>3. k \in 1..k /\ ~(k < k) /\ (k - 1 # 0 => k - 1 \in 1..(k - 1))
      OBVIOUS
    <3>4. ASSUME Accepted(T, k)
          PROVE  /\ Accepted(T, k - 1) /\ Decoded(T, k).ok
                 /\ k - 1 # 0 => Len(Decoded(T, k - 1).bytes) = 3
      BY <3>2, <3>3, <3>4 DEF Accepted
    <3>5. ASSUME Accepted(T, k - 1), Decoded(T, k).ok,
                 k - 1 # 0 => Len(Decoded(T, k - 1).bytes) = 3
          PROVE  Accepted(T, k)
      <4> SUFFICES ASSUME NEW j \in 1..k
                   PROVE  Decoded(T, j).ok /\ (j < k => Len(Decoded(T, j).bytes) = 3)
        BY DEF Accepted
      <4>1. CASE j = k
        BY <4>1, <3>5
      <4>2. CASE j = k - 1
        BY <4>2, <3>2, <3>5 DEF Accepted
      <4>3. CASE j < k - 1
        BY <4>3, <3>5 DEF Accepted
      <4> QED
        BY <4>1, <4>2, <4>3
    <3> QED
      BY <3>4, <3>5
  <2>2. s.ok => (s.last <=> k - 1 # 0 /\ Len(Decoded(T, k - 1).bytes) # 3)
    BY DEF AfterTurns
  <2>3. s.ok <=> Accepted(T, k - 1)
    BY DEF AfterTurns
  <2> QED
    BY <2>1, <2>2, <2>3
<1> HIDE DEF u
<1>6. CASE ~s.ok \/ s.last \/ ~r.ok
  <2>1. u \in TurnType(T) /\ ~u.ok
    BY <1>2, <1>4, <1>6 DEF TurnType
  <2>2. ~Accepted(T, k)
    BY <1>3, <1>5, <1>6
  <2> QED
    BY <2>1, <2>2 DEF AfterTurns, u
<1>7. CASE s.ok /\ ~s.last /\ r.ok
  <2> DEFINE bytes == r.bytes
  <2>1. bytes \in Seq(Byte) /\ Len(bytes) \in 1..3
    BY <1>1, <1>2, <1>7, SegmentType, DecodedType
  <2>2. r = Decoded(T, k)
    BY <1>3, <1>7
  <2>3. s.w = 3 * k - 2
    <3>1. /\ s.w = IF k - 1 = 0 THEN 1 ELSE 3 * (k - 1) - 2 + Len(Decoded(T, k - 1).bytes)
          /\ ~(k - 1 # 0 /\ Len(Decoded(T, k - 1).bytes) # 3)
      BY <1>7, Zenon DEF AfterTurns
    <3>2. CASE k - 1 = 0
      BY <3>1, <3>2
    <3>3. CASE k - 1 # 0
      <4>1. Len(Decoded(T, k - 1).bytes) = 3 /\ s.w = 3 * (k - 1) - 2 + 3
        BY <3>1, <3>3, Zenon
      <4> QED
        BY <4>1
    <3> QED
      BY <3>2, <3>3
  <2>4. u = [ok |-> TRUE, mem |-> Written(s.mem, s.w, bytes),
             w |-> s.w + Len(bytes), last |-> Len(bytes) # 3]
    BY <1>4, <1>7
  <2> HIDE DEF bytes
  <2>5. /\ Written(s.mem, s.w, bytes) \in [1..n -> Int]
        /\ \A i \in 1..Len(bytes) : Written(s.mem, s.w, bytes)[3 * k - 3 + i] = bytes[i]
        /\ \A i \in 1..n : i < 3 * k - 2 \/ i >= 3 * k - 2 + Len(bytes) =>
             Written(s.mem, s.w, bytes)[i] = s.mem[i]
    <3>1. /\ 3 * k - 2 \in Nat \ {0} /\ 3 * k - 2 + Len(bytes) - 1 <= n
          /\ 3 * k - 2 - 1 = 3 * k - 3
      BY <1>1, <2>1, TurnBounds, Zenon
    <3> DEFINE w == 3 * k - 2
    <3>2. w = 3 * k - 2 /\ s.w = w
      BY <2>3
    <3> DEFINE m == s.mem
    <3>3. m \in [1..n -> Int] /\ n \in Nat
      BY <1>1, <1>2
    <3> HIDE DEF m, n, w
    <3>4. HasBytes(Written(m, w, bytes), n, m, w, bytes)
      <4>1. w \in Nat \ {0} /\ w + Len(bytes) - 1 <= n
        BY <3>1 DEF w
      <4>2. bytes \in Seq(Byte)
        BY <2>1
      <4> QED
        BY <3>3, <4>1, <4>2, WrittenBytes
    <3> QED
      BY <3>1, <3>2, <3>4, Zenon DEF m, HasBytes
  <2>6. /\ u.ok = TRUE /\ u.mem = Written(s.mem, s.w, bytes)
        /\ u.w = s.w + Len(bytes) /\ u.last = (Len(bytes) # 3)
    BY <2>4
  <2>7. u \in TurnType(T)
    BY <1>2, <2>1, <2>4, <2>5 DEF TurnType
  <2>8. Accepted(T, k)
    BY <1>5, <1>7, <2>2
  <2>9. \A i \in (4 * k + 1)..n : u.mem[i] = T[i]
    <3> TAKE i \in (4 * k + 1)..n
    <3>1. i \in 1..n /\ i >= 3 * k - 2 + Len(bytes) /\ i \in (4 * (k - 1) + 1)..n
      BY <1>1, <2>1, TurnBounds, Zenon
    <3>2. s.mem[i] = T[i]
      BY <3>1, <1>7 DEF AfterTurns
    <3> QED
      BY <3>1, <3>2, <2>5, <2>6
  <2>10. ASSUME NEW j \in 1..k, NEW i \in 1..Len(Decoded(T, j).bytes)
         PROVE  u.mem[3 * j - 3 + i] = Decoded(T, j).bytes[i]
    <3>1. CASE j = k
      BY <3>1, <2>2, <2>5, <2>6 DEF bytes
    <3>2. CASE j # k
      <4>1. j \in 1..(k - 1) /\ j < k
        BY <3>2
      <4>2. Len(Decoded(T, j).bytes) = 3
        BY <4>1, <2>8 DEF Accepted
      <4>3. 3 * j - 3 + i \in 1..n /\ 3 * j - 3 + i < 3 * k - 2
        BY <4>1, <4>2, <1>1
      <4>4. s.mem[3 * j - 3 + i] = Decoded(T, j).bytes[i]
        BY <4>1, <1>7 DEF AfterTurns
      <4> QED
        BY <4>3, <4>4, <2>5, <2>6
    <3> QED
      BY <3>1, <3>2
  <2>11. u.w = 3 * k - 2 + Len(Decoded(T, k).bytes)
    BY <2>1, <2>2, <2>3, <2>6 DEF bytes
  <2>12. u.last <=> k # 0 /\ Len(Decoded(T, k).bytes) # 3
    BY <2>2, <2>6 DEF bytes
  <2> QED
    <3>1. k # 0
      OBVIOUS
    <3>2. AfterTurns(T, u, k)
      BY <3>1, <2>6, <2>7, <2>8, <2>9, <2>10, <2>11, <2>12 DEF AfterTurns
    <3> QED
      BY <3>2 DEF u
<1> QED
  BY <1>2, <1>6, <1>7

\* So the loop invariant holds after every turn.
LEMMA TurnsInv ==
  ASSUME NEW T \in Seq(Int)
  PROVE  \A k \in 0..(Len(T) \div 4) : AfterTurns(T, DecodeTurns(T)[k], k)
<1> DEFINE n == Len(T) \div 4
           S == {k \in 0..n : ~AfterTurns(T, DecodeTurns(T)[k], k)}
<1>1. n \in Nat /\ 4 * n <= Len(T)
  OBVIOUS
<1> SUFFICES ASSUME S # {}
             PROVE  FALSE
  OBVIOUS
<1>2. PICK m \in S : \A i \in S : m <= i
  <2>1. S \subseteq Nat
    BY <1>1
  <2> HIDE DEF S
  <2> QED
    BY <2>1, LeastNumber
<1> HIDE DEF n
<1>3. /\ DecodeTurns(T)[0] = DecodeStart(T)
      /\ \A k \in 1..n : DecodeTurns(T)[k] = DecodeTurn(DecodeTurns(T)[k - 1], k)
  BY <1>1, DecodeTurnsStep DEF n
<1>4. m # 0
  BY <1>3, FirstTurn
<1>5. m - 1 \in 0..n /\ ~(m <= m - 1) /\ m \in 1..n
  BY <1>1, <1>4
<1>6. AfterTurns(T, DecodeTurns(T)[m - 1], m - 1)
  BY <1>2, <1>5
<1>7. m \in Nat \ {0} /\ 4 * m <= Len(T)
  BY <1>1, <1>5
<1>8. AfterTurns(T, DecodeTurn(DecodeTurns(T)[m - 1], m), m)
  BY <1>6, <1>7, NextTurn
<1> QED
  BY <1>3, <1>5, <1>8

-----------------------------------------------------------------------------
\* The bytes of the segments of T, one after the other.
IsDecoding(T, K, data) ==
  /\ data \in Seq(Int)
  /\ Len(data) = IF K = 0 THEN 0 ELSE 3 * K - 3 + Len(Decoded(T, K).bytes)
  /\ \A j \in 1..K : \A i \in 1..Len(Decoded(T, j).bytes) :
       data[3 * j - 3 + i] = Decoded(T, j).bytes[i]

\* A segment of a text has one to three bytes if it is accepted.
LEMMA AcceptedBytes ==
  ASSUME NEW T \in Seq(Int), NEW K \in Nat, Len(T) = 4 * K, Accepted(T, K), NEW j \in 1..K
  PROVE  /\ Segment(T, j) \in [1..4 -> Int]
         /\ Decoded(T, j).ok
         /\ Decoded(T, j).bytes \in Seq(Byte)
         /\ Len(Decoded(T, j).bytes) \in 1..3
         /\ j # K => Len(Decoded(T, j).bytes) = 3
<1>1. Len(T) \in Nat /\ T \in [1..Len(T) -> Int] /\ j \in Nat \ {0} /\ 4 * j <= Len(T)
  OBVIOUS
<1>2. Segment(T, j) \in [1..4 -> Int]
  BY <1>1, SegmentType
<1>3. Decoded(T, j).ok /\ (j # K => Len(Decoded(T, j).bytes) = 3)
  BY DEF Accepted
<1> QED
  BY <1>2, <1>3, DecodedType DEF Decoded

\* The first l of n bytes.
LEMMA Prefix ==
  ASSUME NEW n \in Nat, NEW mem \in [1..n -> Int], NEW l \in 0..n
  PROVE  /\ SubSeq(mem, 1, l) \in Seq(Int)
         /\ Len(SubSeq(mem, 1, l)) = l
         /\ \A i \in 1..l : SubSeq(mem, 1, l)[i] = mem[i]
<1>1. mem \in Seq(Int) /\ Len(mem) = n
  OBVIOUS
<1> QED
  BY <1>1

\* What gg_base64_decode_in_place returns (src/src/base64.c:122).
LEMMA DecodeResult ==
  ASSUME NEW T \in Seq(Int), NEW K \in Nat, Len(T) = 4 * K
  PROVE  LET d == gg_base64_decode_in_place(T)
         IN (d.ok <=> Accepted(T, K)) /\ (d.ok => IsDecoding(T, K, d.data))
<1> DEFINE s == DecodeTurns(T)[K]
           d == gg_base64_decode_in_place(T)
<1>1. Len(T) \div 4 = K /\ Len(T) % 4 = 0
  OBVIOUS
<1>2. AfterTurns(T, s, K)
  <2>1. K \in 0..(Len(T) \div 4)
    BY <1>1
  <2> HIDE DEF s
  <2> QED
    BY <2>1, TurnsInv DEF s
<1>3. d = [ok |-> s.ok, data |-> IF s.ok THEN SubSeq(s.mem, 1, s.w - 1) ELSE s.mem]
  BY <1>1, Zenon DEF gg_base64_decode_in_place
<1> HIDE DEF s, d
<1>4. s.ok \in BOOLEAN /\ s.mem \in [1..Len(T) -> Int] /\ s.w \in Int
  BY <1>2 DEF AfterTurns, TurnType
<1>5. d.ok = s.ok /\ (s.ok => d.data = SubSeq(s.mem, 1, s.w - 1))
  BY <1>3
<1>6. d.ok <=> Accepted(T, K)
  BY <1>2, <1>5 DEF AfterTurns
<1>7. ASSUME s.ok
      PROVE  IsDecoding(T, K, d.data)
  <2> DEFINE l == IF K = 0 THEN 0 ELSE 3 * K - 3 + Len(Decoded(T, K).bytes)
  <2>1. l \in 0..Len(T) /\ s.w - 1 = l
    <3>1. s.w = IF K = 0 THEN 1 ELSE 3 * K - 2 + Len(Decoded(T, K).bytes)
      BY <1>2, <1>7, Zenon DEF AfterTurns
    <3>2. CASE K = 0
      BY <3>1, <3>2
    <3>3. CASE K # 0
      <4>1. K \in 1..K
        BY <3>3
      <4>2. Len(Decoded(T, K).bytes) \in 1..3
        BY <4>1, <1>5, <1>6, <1>7, AcceptedBytes
      <4> DEFINE b == Len(Decoded(T, K).bytes)
      <4> HIDE DEF b
      <4>3. b \in 1..3 /\ s.w = 3 * K - 2 + b /\ l = 3 * K - 3 + b
        BY <3>1, <3>3, <4>2 DEF b
      <4> HIDE DEF l
      <4> QED
        BY <4>3, <3>3
    <3> QED
      BY <3>2, <3>3
  <2> HIDE DEF l
  <2>3. /\ d.data \in Seq(Int) /\ Len(d.data) = l
        /\ \A i \in 1..l : d.data[i] = s.mem[i]
    <3> DEFINE mem == s.mem
               n == Len(T)
    <3>1. n \in Nat /\ mem \in [1..n -> Int] /\ l \in 0..n /\ d.data = SubSeq(mem, 1, l)
      BY <1>4, <1>5, <1>7, <2>1
    <3> HIDE DEF mem, n
    <3>2. /\ d.data \in Seq(Int) /\ Len(d.data) = l
          /\ \A i \in 1..l : d.data[i] = mem[i]
      BY <3>1, Prefix
    <3> QED
      BY <3>2 DEF mem
  <2>4. ASSUME NEW j \in 1..K, NEW i \in 1..Len(Decoded(T, j).bytes)
        PROVE  d.data[3 * j - 3 + i] = Decoded(T, j).bytes[i]
    <3>1. /\ Len(Decoded(T, j).bytes) \in 1..3
          /\ j # K => Len(Decoded(T, j).bytes) = 3
          /\ Len(Decoded(T, K).bytes) \in 1..3
      <4>1. K \in 1..K /\ Accepted(T, K)
        BY <1>5, <1>6, <1>7
      <4>2. /\ Len(Decoded(T, j).bytes) \in 1..3
            /\ j # K => Len(Decoded(T, j).bytes) = 3
        BY <4>1, AcceptedBytes
      <4>3. Len(Decoded(T, K).bytes) \in 1..3
        BY <4>1, AcceptedBytes
      <4> QED
        BY <4>2, <4>3
    <3>2. 3 * j - 3 + i \in 1..l
      <4> DEFINE b == Len(Decoded(T, j).bytes)
                 c == Len(Decoded(T, K).bytes)
      <4>1. b \in 1..3 /\ (j # K => b = 3) /\ c \in 1..3 /\ (j = K => b = c) /\ i \in 1..b
        BY <3>1
      <4>2. l = 3 * K - 3 + c
        <5>1. K # 0
          OBVIOUS
        <5> QED
          BY <5>1, Zenon DEF l
      <4> HIDE DEF b, c
      <4> QED
        BY <4>1, <4>2
    <3>3. s.mem[3 * j - 3 + i] = Decoded(T, j).bytes[i]
      BY <1>2, <1>7 DEF AfterTurns
    <3> QED
      BY <3>2, <3>3, <2>3
  <2> QED
    BY <2>3, <2>4 DEF IsDecoding, l
<1> QED
  BY <1>5, <1>6, <1>7 DEF d

-----------------------------------------------------------------------------
\* A chunk becomes four characters.
LEMMA ChunkType ==
  ASSUME NEW n, NEW x \in Byte, NEW y \in Byte, NEW z \in Byte
  PROVE  EncodeChunk(n, x, y, z) \in [1..4 -> Int]
<1> DEFINE a == x \div 4
           b == (x % 4) * 16 + y \div 16
           c == (y % 16) * 4 + z \div 64
           d == z % 64
<1>1. a \in 0..63 /\ b \in 0..63 /\ c \in 0..63 /\ d \in 0..63
  BY DEF Byte
<1>2. EncodeChunk(n, x, y, z) =
        <<BASE64_TABLE(a), BASE64_TABLE(b), IF n > 1 THEN BASE64_TABLE(c) ELSE PAD,
          IF n > 2 THEN BASE64_TABLE(d) ELSE PAD>>
  BY ChunkCharacters, Zenon
<1> HIDE DEF a, b, c, d
<1>3. /\ BASE64_TABLE(a) \in Int /\ BASE64_TABLE(b) \in Int /\ BASE64_TABLE(c) \in Int
      /\ BASE64_TABLE(d) \in Int /\ PAD \in Int
  <2>1. \A v \in 0..63 : BASE64_TABLE(v) \in Int
    BY Table
  <2>2. PAD \in Int
    BY DEF PAD
  <2> QED
    BY <1>1, <2>1, <2>2
<1> QED
  BY <1>2, <1>3

\* Where segment k of a text is.
LEMMA SegmentPlace ==
  ASSUME NEW k \in Nat \ {0}, NEW i \in 1..4
  PROVE  ((4 * k - 4 + i) + 3) \div 4 = k /\ (((4 * k - 4 + i) - 1) % 4) + 1 = i
<1>1. /\ (4 * k - 4 + i) + 3 = 4 * k + (i - 1) /\ (4 * k - 4 + i) - 1 = 4 * (k - 1) + (i - 1)
      /\ i - 1 \in 0..3
  OBVIOUS
<1>2. (4 * k + (i - 1)) \div 4 = k /\ (4 * (k - 1) + (i - 1)) % 4 = i - 1
  BY <1>1
<1> QED
  BY <1>1, <1>2

\* Character j of a text is in segment (j + 3) div 4.
LEMMA PlaceOfCharacter ==
  ASSUME NEW K \in Nat, NEW j \in 1..(4 * K)
  PROVE  /\ (j + 3) \div 4 \in 1..K /\ ((j - 1) % 4) + 1 \in 1..4
         /\ j = 4 * ((j + 3) \div 4) - 4 + (((j - 1) % 4) + 1)
  OBVIOUS

\* Every byte of a binary is one of three of a chunk.
LEMMA PlaceOfByte ==
  ASSUME NEW p \in Nat \ {0}
  PROVE  \E j \in Nat \ {0}, i \in 1..3 : p = 3 * j - 3 + i
<1>1. (p + 2) \div 3 \in Nat \ {0} /\ ((p + 2) % 3) + 1 \in 1..3
      /\ p = 3 * ((p + 2) \div 3) - 3 + (((p + 2) % 3) + 1)
  OBVIOUS
<1> QED
  BY <1>1

\* What gg_base64_encode writes (src/src/base64.c:129): for every three bytes or
\* what is left of them a segment.
LEMMA EncodedText ==
  ASSUME NEW buf \in Seq(Byte), NEW K \in Nat, K = (Len(buf) + 2) \div 3
  PROVE  LET T == gg_base64_encode(buf)
         IN /\ T \in Seq(Int) /\ Len(T) = 4 * K
            /\ \A k \in 1..K : /\ EncodeSegment(buf, k) \in [1..4 -> Int]
                               /\ Segment(T, k) = EncodeSegment(buf, k)
<1> DEFINE T == gg_base64_encode(buf)
           n == Len(buf)
<1>1. n \in Nat /\ \A i \in 1..n : buf[i] \in Byte
  OBVIOUS
<1>2. 0 \in Byte
  BY DEF Byte
<1>3. ASSUME NEW k \in 1..K
      PROVE  EncodeSegment(buf, k) \in [1..4 -> Int]
  <2> DEFINE at(j) == IF j <= Len(buf) THEN buf[j] ELSE 0
  <2>1. EncodeSegment(buf, k) =
          EncodeChunk(Len(buf) - 3 * k + 3, at(3 * k - 2), at(3 * k - 1), at(3 * k))
    BY Zenon DEF EncodeSegment
  <2>2. \A j \in Nat \ {0} : at(j) \in Byte
    BY <1>1, <1>2
  <2>3. 3 * k - 2 \in Nat \ {0} /\ 3 * k - 1 \in Nat \ {0} /\ 3 * k \in Nat \ {0}
    OBVIOUS
  <2>4. at(3 * k - 2) \in Byte /\ at(3 * k - 1) \in Byte /\ at(3 * k) \in Byte
    BY <2>2, <2>3
  <2> HIDE DEF at
  <2> QED
    BY <2>1, <2>4, ChunkType
<1>4. T = [j \in 1..(4 * K) |-> EncodeSegment(buf, (j + 3) \div 4)[((j - 1) % 4) + 1]]
  BY Zenon DEF gg_base64_encode
<1> HIDE DEF T
<1>5. ASSUME NEW j \in 1..(4 * K)
      PROVE  EncodeSegment(buf, (j + 3) \div 4)[((j - 1) % 4) + 1] \in Int
  <2> DEFINE k == (j + 3) \div 4
             i == ((j - 1) % 4) + 1
  <2>1. k \in 1..K /\ i \in 1..4
    BY PlaceOfCharacter
  <2> HIDE DEF k, i
  <2>2. EncodeSegment(buf, k)[i] \in Int
    BY <2>1, <1>3
  <2> QED
    BY <2>2 DEF k, i
<1>6. T \in [1..(4 * K) -> Int]
  BY <1>4, <1>5, Zenon
<1>7. T \in Seq(Int) /\ Len(T) = 4 * K
  <2>1. 4 * K \in Nat
    OBVIOUS
  <2> QED
    BY <1>6, <2>1
<1>8. ASSUME NEW k \in 1..K
      PROVE  Segment(T, k) = EncodeSegment(buf, k)
  <2>1. ASSUME NEW i \in 1..4
        PROVE  T[4 * k - 4 + i] = EncodeSegment(buf, k)[i]
    <3>1. k \in Nat \ {0} /\ 4 * k - 4 + i \in 1..(4 * K)
      OBVIOUS
    <3>2. ((4 * k - 4 + i) + 3) \div 4 = k /\ (((4 * k - 4 + i) - 1) % 4) + 1 = i
      BY <3>1, SegmentPlace
    <3>3. T[4 * k - 4 + i] =
            EncodeSegment(buf, ((4 * k - 4 + i) + 3) \div 4)[(((4 * k - 4 + i) - 1) % 4) + 1]
      BY <1>4, <3>1, Zenon
    <3> QED
      BY <3>2, <3>3, Zenon
  <2> DEFINE e == EncodeSegment(buf, k)
  <2>2. e \in [1..4 -> Int]
    BY <1>3
  <2> HIDE DEF e
  <2> QED
    BY <2>1, <2>2 DEF Segment, e
<1> QED
  BY <1>3, <1>7, <1>8 DEF T

\* Every binary is what its encoding decodes to.
LEMMA EncodeDecodes ==
  ASSUME NEW buf \in Seq(Byte)
  PROVE  LET d == gg_base64_decode_in_place(gg_base64_encode(buf))
         IN d.ok /\ d.data = buf
<1> DEFINE T == gg_base64_encode(buf)
           n == Len(buf)
           K == (n + 2) \div 3
           d == gg_base64_decode_in_place(T)
           at(j) == IF j <= n THEN buf[j] ELSE 0
<1>1. n \in Nat /\ K \in Nat /\ n <= 3 * K /\ (K # 0 => n >= 3 * K - 2) /\ (K = 0 => n = 0)
  OBVIOUS
<1>2. /\ T \in Seq(Int) /\ Len(T) = 4 * K
      /\ \A k \in 1..K : Segment(T, k) = EncodeSegment(buf, k)
  BY <1>1, EncodedText
<1>3. \A i \in 1..n : buf[i] \in Byte
  OBVIOUS
<1> HIDE DEF T, n, K
<1>4. ASSUME NEW k \in 1..K
      PROVE  /\ Decoded(T, k).ok
             /\ Decoded(T, k).bytes \in Seq(Byte)
             /\ Len(Decoded(T, k).bytes) = IF n - 3 * k + 3 >= 3 THEN 3 ELSE n - 3 * k + 3
             /\ \A i \in 1..Len(Decoded(T, k).bytes) :
                  Decoded(T, k).bytes[i] = buf[3 * k - 3 + i]
  <2> DEFINE m == n - 3 * k + 3
             x == at(3 * k - 2)
             y == at(3 * k - 1)
             z == at(3 * k)
  <2>1. m \in Nat \ {0} /\ (m = 1 => y = 0) /\ (m <= 2 => z = 0)
    BY <1>1
  <2>2. /\ x \in Byte /\ x = buf[3 * k - 2]
        /\ y \in Byte /\ (m > 1 => y = buf[3 * k - 1])
        /\ z \in Byte /\ (m > 2 => z = buf[3 * k])
    <3>1. 0 \in Byte
      BY DEF Byte
    <3>2. /\ 3 * k - 2 \in 1..n
          /\ 3 * k - 1 <= n => 3 * k - 1 \in 1..n
          /\ 3 * k <= n => 3 * k \in 1..n
          /\ m > 1 => 3 * k - 1 <= n
          /\ m > 2 => 3 * k <= n
      BY <1>1
    <3> QED
      BY <3>1, <3>2, <1>3
  <2>3. EncodeSegment(buf, k) = EncodeChunk(m, x, y, z)
    BY Zenon DEF EncodeSegment, n
  <2> HIDE DEF m, x, y, z
  <2>4. Decoded(T, k) = [ok |-> TRUE, bytes |-> ChunkBytes(m, x, y, z)]
    <3>1. Decoded(T, k) = base64_decode_segment(EncodeChunk(m, x, y, z))
      BY <1>2, <2>3 DEF Decoded
    <3> QED
      BY <3>1, <2>1, <2>2, ChunkDecodes
  <2> DEFINE bytes == Decoded(T, k).bytes
  <2>5. /\ Decoded(T, k).ok
        /\ bytes = IF m = 1 THEN <<x>> ELSE IF m = 2 THEN <<x, y>> ELSE <<x, y, z>>
    BY <2>4 DEF ChunkBytes
  <2> HIDE DEF bytes
  <2>6. /\ bytes \in Seq(Byte)
        /\ Len(bytes) = IF m >= 3 THEN 3 ELSE m
        /\ \A i \in 1..Len(bytes) : bytes[i] = buf[3 * k - 3 + i]
    <3>1. CASE m = 1
      <4>1. bytes = <<x>>
        BY <2>5, <3>1
      <4>2. bytes \in Seq(Byte) /\ Len(bytes) = 1 /\ bytes[1] = x /\ 3 * k - 3 + 1 = 3 * k - 2
        BY <4>1, <2>2
      <4> QED
        BY <4>2, <2>2, <3>1
    <3>2. CASE m = 2
      <4>1. bytes = <<x, y>>
        BY <2>5, <3>2
      <4>2. /\ bytes \in Seq(Byte) /\ Len(bytes) = 2 /\ bytes[1] = x /\ bytes[2] = y
            /\ 3 * k - 3 + 1 = 3 * k - 2 /\ 3 * k - 3 + 2 = 3 * k - 1
        BY <4>1, <2>2
      <4>3. y = buf[3 * k - 1]
        BY <2>2, <3>2
      <4>4. \A i \in 1..2 : i = 1 \/ i = 2
        OBVIOUS
      <4> QED
        BY <4>2, <4>3, <4>4, <2>2, <3>2
    <3>3. CASE m > 2
      <4>1. bytes = <<x, y, z>>
        BY <2>5, <3>3
      <4>2. /\ bytes \in Seq(Byte) /\ Len(bytes) = 3
            /\ bytes[1] = x /\ bytes[2] = y /\ bytes[3] = z
            /\ 3 * k - 3 + 1 = 3 * k - 2 /\ 3 * k - 3 + 2 = 3 * k - 1 /\ 3 * k - 3 + 3 = 3 * k
        BY <4>1, <2>2
      <4>3. y = buf[3 * k - 1] /\ z = buf[3 * k] /\ m >= 3
        BY <2>1, <2>2, <3>3
      <4>4. \A i \in 1..3 : i = 1 \/ i = 2 \/ i = 3
        OBVIOUS
      <4> QED
        BY <4>2, <4>3, <4>4, <2>2
    <3> QED
      BY <3>1, <3>2, <3>3, <2>1
  <2> QED
    BY <2>5, <2>6 DEF bytes, m
<1>5. Accepted(T, K)
  <2> SUFFICES ASSUME NEW j \in 1..K
               PROVE  Decoded(T, j).ok /\ (j < K => Len(Decoded(T, j).bytes) = 3)
    BY DEF Accepted
  <2>1. j < K => n - 3 * j + 3 >= 3
    BY <1>1
  <2> QED
    BY <2>1, <1>4
<1>6. d.ok /\ IsDecoding(T, K, d.data)
  BY <1>1, <1>2, <1>5, DecodeResult
<1> HIDE DEF d
<1>7. d.data \in Seq(Int) /\ Len(d.data) = n
  <2>1. CASE K = 0
    BY <2>1, <1>1, <1>6 DEF IsDecoding
  <2>2. CASE K # 0
    <3>1. K \in 1..K /\ (n - 3 * K + 3 >= 3 => n - 3 * K + 3 = 3)
      BY <2>2, <1>1
    <3>2. Len(Decoded(T, K).bytes) = n - 3 * K + 3
      BY <3>1, <1>4
    <3>3. d.data \in Seq(Int) /\ Len(d.data) = 3 * K - 3 + Len(Decoded(T, K).bytes)
      BY <2>2, <1>6 DEF IsDecoding
    <3> QED
      BY <3>2, <3>3, <1>1
  <2> QED
    BY <2>1, <2>2
<1>8. ASSUME NEW p \in 1..n
      PROVE  d.data[p] = buf[p]
  <2>1. PICK j \in Nat \ {0}, i \in 1..3 : p = 3 * j - 3 + i
    <3>1. p \in Nat \ {0}
      BY <1>1
    <3> QED
      BY <3>1, PlaceOfByte, Zenon
  <2>2. j \in 1..K /\ i <= n - 3 * j + 3
    BY <2>1, <1>1
  <2>3. i \in 1..Len(Decoded(T, j).bytes)
    BY <2>2, <1>1, <1>4
  <2>4. d.data[3 * j - 3 + i] = Decoded(T, j).bytes[i]
    BY <2>2, <2>3, <1>6 DEF IsDecoding
  <2> QED
    BY <2>1, <2>2, <2>3, <2>4, <1>4
<1>9. d.data = buf
  <2>1. Len(buf) = n /\ buf \in Seq(Byte)
    BY DEF n
  <2> DEFINE e == d.data
  <2> HIDE DEF e
  <2>2. e \in Seq(Int) /\ Len(e) = Len(buf) /\ \A p \in 1..Len(buf) : e[p] = buf[p]
    BY <2>1, <1>7, <1>8 DEF e
  <2>3. e = buf
    BY <2>1, <2>2
  <2> QED
    BY <2>3 DEF e
<1> QED
  BY <1>6, <1>9 DEF d, T

\* Every text that is accepted is the encoding of what it decodes to.
LEMMA DecodeEncodes ==
  ASSUME NEW T \in Seq(Int), gg_base64_decode_in_place(T).ok
  PROVE  gg_base64_encode(gg_base64_decode_in_place(T).data) = T
<1> DEFINE d == gg_base64_decode_in_place(T)
           data == d.data
           n == Len(data)
           K == Len(T) \div 4
<1>1. Len(T) % 4 = 0
  <2>1. Len(T) % 4 # 0 => ~gg_base64_decode_in_place(T).ok
    BY DEF gg_base64_decode_in_place
  <2> QED
    BY <2>1
<1>2. K \in Nat /\ Len(T) = 4 * K
  BY <1>1
<1> HIDE DEF K
<1>3. Accepted(T, K) /\ IsDecoding(T, K, data)
  BY <1>2, DecodeResult
<1> HIDE DEF d, data
<1>4. \A j \in 1..K : /\ Segment(T, j) \in [1..4 -> Int]
                      /\ Decoded(T, j).ok
                      /\ Decoded(T, j).bytes \in Seq(Byte)
                      /\ Len(Decoded(T, j).bytes) \in 1..3
                      /\ j # K => Len(Decoded(T, j).bytes) = 3
  BY <1>2, <1>3, AcceptedBytes
<1>5. /\ n \in Nat /\ K = (n + 2) \div 3
      /\ K = 0 => n = 0
      /\ K # 0 => n = 3 * K - 3 + Len(Decoded(T, K).bytes)
  <2>1. CASE K = 0
    BY <2>1, <1>3 DEF IsDecoding
  <2>2. CASE K # 0
    <3>1. K \in 1..K
      BY <2>2, <1>2
    <3> DEFINE l == Len(Decoded(T, K).bytes)
    <3>2. l \in 1..3 /\ n = 3 * K - 3 + l
      BY <2>2, <3>1, <1>3, <1>4 DEF IsDecoding
    <3> HIDE DEF l, n
    <3>3. n + 2 = 3 * K + (l - 1) /\ l - 1 \in 0..2
      BY <3>2, <1>2
    <3>4. (3 * K + (l - 1)) \div 3 = K
      BY <3>2, <1>2
    <3>5. n \in Nat /\ K = (n + 2) \div 3
      BY <2>2, <3>2, <3>3, <3>4, <1>2
    <3> QED
      BY <2>2, <3>2, <3>5, Zenon DEF l
  <2> QED
    BY <2>1, <2>2
<1> HIDE DEF n
<1>6. data \in Seq(Byte)
  <2>1. ASSUME NEW p \in 1..n
        PROVE  data[p] \in Byte
    <3>0. p \in Nat \ {0}
      BY <1>5
    <3>1. PICK j \in Nat \ {0}, i \in 1..3 : p = 3 * j - 3 + i
      BY <3>0, PlaceOfByte, Zenon
    <3>2. K # 0 /\ j \in 1..K
      BY <3>1, <1>2, <1>5
    <3>3. i \in 1..Len(Decoded(T, j).bytes)
      <4> DEFINE l == Len(Decoded(T, j).bytes)
      <4>1. l \in 1..3 /\ (j # K => l = 3) /\ (j = K => n = 3 * j - 3 + l)
        BY <3>2, <1>4, <1>5
      <4> HIDE DEF l
      <4>2. i \in 1..l
        BY <4>1, <3>1, <1>5
      <4> QED
        BY <4>2 DEF l
    <3>4. data[p] = Decoded(T, j).bytes[i]
      BY <3>1, <3>2, <3>3, <1>3 DEF IsDecoding
    <3> QED
      BY <3>2, <3>3, <3>4, <1>4
  <2>2. data \in Seq(Int)
    BY <1>3 DEF IsDecoding
  <2>3. \A p \in 1..Len(data) : data[p] \in Byte
    BY <2>1 DEF n
  <2> QED
    BY <2>2, <2>3
<1> DEFINE E == gg_base64_encode(data)
<1>7. /\ E \in Seq(Int) /\ Len(E) = 4 * K
      /\ \A k \in 1..K : Segment(E, k) = EncodeSegment(data, k)
  BY <1>2, <1>5, <1>6, EncodedText DEF n
<1> HIDE DEF E
<1>8. ASSUME NEW k \in 1..K
      PROVE  EncodeSegment(data, k) = Segment(T, k)
  <2> DEFINE seg == Segment(T, k)
             bytes == Decoded(T, k).bytes
             l == Len(bytes)
             m == n - 3 * k + 3
             at(j) == IF j <= n THEN data[j] ELSE 0
  <2>1. /\ seg \in [1..4 -> Int] /\ base64_decode_segment(seg).ok
        /\ bytes = base64_decode_segment(seg).bytes
        /\ bytes \in Seq(Byte) /\ l \in 1..3
        /\ k # K => l = 3
    BY <1>4 DEF Decoded
  <2>2. \A i \in 1..l : data[3 * k - 3 + i] = bytes[i]
    BY <1>3 DEF IsDecoding
  <2>3. /\ m \in Nat /\ (m = l \/ (m > 3 /\ l = 3))
        /\ 3 * k - 2 <= n
        /\ m > 1 <=> 3 * k - 1 <= n
        /\ m > 2 <=> 3 * k <= n
    <3>1. k = K => n = 3 * k - 3 + l
      <4>1. K # 0
        BY <1>2
      <4> QED
        BY <4>1, <1>5, Zenon
    <3> HIDE DEF l
    <3>2. CASE k = K
      BY <2>1, <3>1, <3>2
    <3>3. CASE k # K
      <4>1. PICK e \in 1..3 : n = 3 * K - 3 + e
        <5>1. K \in 1..K /\ K # 0
          BY <1>2
        <5> QED
          BY <5>1, <1>4, <1>5
      <4>2. k <= K - 1 /\ l = 3
        BY <3>3, <2>1, <1>2
      <4> QED
        BY <4>1, <4>2, <1>2
    <3> QED
      BY <3>2, <3>3
  <2>4. EncodeSegment(data, k) = EncodeChunk(m, at(3 * k - 2), at(3 * k - 1), at(3 * k))
    BY Zenon DEF EncodeSegment, n
  <2>5. EncodeChunk(m, bytes[1], IF m > 1 THEN bytes[2] ELSE 0,
                    IF m > 2 THEN bytes[3] ELSE 0) = seg
    <3> HIDE DEF m, seg
    <3> QED
      BY <2>1, <2>3, SegmentEncodes
  <2>6. /\ at(3 * k - 2) = bytes[1]
        /\ at(3 * k - 1) = IF m > 1 THEN bytes[2] ELSE 0
        /\ at(3 * k) = IF m > 2 THEN bytes[3] ELSE 0
    <3>1. /\ 1 \in 1..l /\ (m > 1 => 2 \in 1..l) /\ (m > 2 => 3 \in 1..l)
          /\ 3 * k - 3 + 1 = 3 * k - 2 /\ 3 * k - 3 + 2 = 3 * k - 1 /\ 3 * k - 3 + 3 = 3 * k
      <4> HIDE DEF l, m
      <4> QED
        BY <2>1, <2>3
    <3> HIDE DEF l, m
    <3> QED
      BY <2>2, <2>3, <3>1
  <2> HIDE DEF at, m, bytes, seg
  <2> QED
    BY <2>4, <2>5, <2>6 DEF seg
<1>9. ASSUME NEW j \in 1..(4 * K)
      PROVE  E[j] = T[j]
  <2> DEFINE k == (j + 3) \div 4
             i == ((j - 1) % 4) + 1
  <2>1. k \in 1..K /\ i \in 1..4 /\ j = 4 * k - 4 + i
    BY <1>2, PlaceOfCharacter
  <2> HIDE DEF k, i
  <2>2. Segment(E, k)[i] = Segment(T, k)[i]
    BY <2>1, <1>7, <1>8
  <2>3. Segment(E, k)[i] = E[4 * k - 4 + i] /\ Segment(T, k)[i] = T[4 * k - 4 + i]
    BY <2>1 DEF Segment
  <2> QED
    BY <2>1, <2>2, <2>3
<1>10. E = T
  BY <1>2, <1>7, <1>9
<1> QED
  BY <1>10 DEF E, data, d

Base64Spec == Base64Init /\ [][Base64Next]_base64

\* gg_base64_encode and gg_base64_decode_in_place (src/src/base64.c:122 and 129)
\* are inverse to each other: what is encoded is decoded to the same bytes, in
\* place, and nothing but an encoding is accepted, whatever the length.
THEOREM Base64IsExact == Base64Spec => []Base64Exact
<1>1. Base64Init => Base64Exact
  BY DEF Base64Init, Base64Idle, Base64Exact
<1>2. Base64Exact /\ [Base64Next]_base64 => Base64Exact'
  <2> SUFFICES ASSUME Base64Exact, [Base64Next]_base64
               PROVE  Base64Exact'
    OBVIOUS
  <2>1. ASSUME NEW buf \in Binaries, Base64Encode(buf)
        PROVE  Base64Exact'
    <3>1. base64'.op = "encode" /\ base64'.from = buf /\ base64'.to = gg_base64_encode(buf)
      BY <2>1 DEF Base64Encode
    <3>2. buf \in Seq(Byte)
      BY BinaryAssumption DEF Byte
    <3>3. /\ gg_base64_decode_in_place(gg_base64_encode(buf)).ok
          /\ gg_base64_decode_in_place(gg_base64_encode(buf)).data = buf
      BY <3>2, EncodeDecodes
    <3>4. "encode" # "decode"
      OBVIOUS
    <3> QED
      BY <3>1, <3>3, <3>4, Zenon DEF Base64Exact
  <2>2. ASSUME NEW text \in Base64Texts, Base64Decode(text)
        PROVE  Base64Exact'
    <3> DEFINE r == gg_base64_decode_in_place(text)
    <3>1. base64' = [op |-> "decode", ok |-> r.ok, from |-> text, to |-> r.data]
      BY <2>2, Zenon DEF Base64Decode
    <3>2. text \in Seq(Int)
      <4>1. Seq(0..255) \subseteq Seq(Int)
        <5>1. 0..255 \subseteq Int
          OBVIOUS
        <5> QED
          BY <5>1, SeqMonotonic
      <4> QED
        BY <4>1, Base64TextAssumption
    <3>3. r.ok => gg_base64_encode(r.data) = text
      BY <3>2, DecodeEncodes
    <3> HIDE DEF r
    <3>4. /\ base64'.op = "decode" /\ base64'.ok = r.ok
          /\ base64'.from = text /\ base64'.to = r.data
      BY <3>1
    <3>5. "encode" # "decode"
      OBVIOUS
    <3> QED
      BY <3>3, <3>4, <3>5, Zenon DEF Base64Exact
  <2>3. CASE Base64Return
    BY <2>3 DEF Base64Return, Base64Idle, Base64Exact
  <2>4. CASE UNCHANGED base64
    BY <2>4 DEF Base64Exact
  <2> QED
    BY <2>1, <2>2, <2>3, <2>4 DEF Base64Next
<1> QED
  BY <1>1, <1>2, PTL DEF Base64Spec

-----------------------------------------------------------------------------
PubSubSpec == PubSubInit /\ [][PubSubNext]_pubsubVars

-----------------------------------------------------------------------------
\* The one pair with a key is found.
LEMMA FoundOnce ==
  ASSUME NEW pairs, NEW key, NEW i \in Int, Matches(pairs, key) = {i}
  PROVE  gg_map_get(pairs, key) = i /\ Get(pairs, key) = pairs[i].val
<1>1. gg_map_get(pairs, key) = i
  BY DEF gg_map_get
<1> QED
  BY <1>1 DEF Get

\* A key that no pair has is not found.
LEMMA NotFound ==
  ASSUME NEW pairs, NEW key, Matches(pairs, key) = {}
  PROVE  gg_map_get(pairs, key) = 0
  BY DEF gg_map_get

\* Key and value of a pair.
LEMMA PairData ==
  ASSUME NEW k, NEW v
  PROVE  gg_kv("out", k, v).key.data = k /\ gg_kv("out", k, v).val = v
  BY DEF gg_kv

IsPair(pairs, k, v) == pairs = <<gg_kv("out", k, v)>>

\* A map with one pair has its key and no other.
LEMMA OnePair ==
  ASSUME NEW k, NEW v, NEW pairs, IsPair(pairs, k, v)
  PROVE  /\ gg_map_get(pairs, k) = 1 /\ gg_map_get(pairs, k) # 0 /\ Get(pairs, k) = v
         /\ \A other : other # k => gg_map_get(pairs, other) = 0
         /\ pairs[1].key.data = k /\ pairs[1].val = v
<1>1. DOMAIN pairs = 1..1 /\ pairs[1].key.data = k /\ pairs[1].val = v /\ 1 \in 1..1
  BY PairData DEF IsPair
<1>2. \A j \in 1..1 : j = 1
  OBVIOUS
<1>3. gg_map_get(pairs, k) = 1 /\ Get(pairs, k) = v
  <2>1. Matches(pairs, k) = {1}
    BY <1>1, <1>2 DEF Matches
  <2> QED
    BY <2>1, <1>1, FoundOnce
<1>4. ASSUME NEW other, other # k
      PROVE  gg_map_get(pairs, other) = 0
  <2>1. Matches(pairs, other) = {}
    BY <1>1, <1>2, <1>4 DEF Matches
  <2> QED
    BY <2>1, NotFound
<1> QED
  BY <1>1, <1>3, <1>4

\* The same for maps as GG_MAP builds them, with one, two and three fields.
LEMMA MapOfOne ==
  ASSUME NEW k, NEW v
  PROVE  /\ Map(<<<<k, v>>>>).t = "map"
         /\ IsPair(Map(<<<<k, v>>>>).pairs, k, v)
<1> DEFINE fields == <<<<k, v>>>>
<1>1. DOMAIN fields = 1..1 /\ fields[1][1] = k /\ fields[1][2] = v
  OBVIOUS
<1>2. [i \in DOMAIN fields |-> gg_kv("out", fields[i][1], fields[i][2])] = <<gg_kv("out", k, v)>>
  BY <1>1
<1> QED
  BY <1>2 DEF Map, gg_obj_map, IsPair

\* Two fields with different keys.
LEMMA MapOfTwo ==
  ASSUME NEW k1, NEW v1, NEW k2, NEW v2, k1 # k2
  PROVE  LET m == Map(<<<<k1, v1>>, <<k2, v2>>>>)
         IN /\ m.t = "map"
            /\ gg_map_get(m.pairs, k1) = 1 /\ Get(m.pairs, k1) = v1
            /\ gg_map_get(m.pairs, k2) = 2 /\ Get(m.pairs, k2) = v2
<1> DEFINE m == Map(<<<<k1, v1>>, <<k2, v2>>>>)
           pairs == m.pairs
<1>1. m.t = "map" /\ pairs = <<gg_kv("out", k1, v1), gg_kv("out", k2, v2)>>
  BY DEF Map, gg_obj_map
<1> HIDE DEF m
<1>2. /\ DOMAIN pairs = 1..2
      /\ pairs[1].key.data = k1 /\ pairs[1].val = v1
      /\ pairs[2].key.data = k2 /\ pairs[2].val = v2
  BY <1>1, PairData
<1>3. 1 \in 1..2 /\ 2 \in 1..2 /\ \A j \in 1..2 : j = 1 \/ j = 2
  OBVIOUS
<1> HIDE DEF pairs
<1>4. gg_map_get(pairs, k1) = 1 /\ Get(pairs, k1) = v1
  <2>1. Matches(pairs, k1) = {1}
    BY <1>2, <1>3 DEF Matches
  <2> QED
    BY <2>1, <1>2, FoundOnce
<1>5. gg_map_get(pairs, k2) = 2 /\ Get(pairs, k2) = v2
  <2>1. Matches(pairs, k2) = {2}
    BY <1>2, <1>3 DEF Matches
  <2> QED
    BY <2>1, <1>2, FoundOnce
<1> QED
  BY <1>1, <1>4, <1>5 DEF m, pairs

\* Three fields with different keys.
LEMMA MapOfThree ==
  ASSUME NEW k1, NEW v1, NEW k2, NEW v2, NEW k3, NEW v3, k1 # k2, k1 # k3, k2 # k3
  PROVE  LET m == Map(<<<<k1, v1>>, <<k2, v2>>, <<k3, v3>>>>)
         IN Get(m.pairs, k1) = v1 /\ Get(m.pairs, k2) = v2
<1> DEFINE m == Map(<<<<k1, v1>>, <<k2, v2>>, <<k3, v3>>>>)
           pairs == m.pairs
<1>1. pairs = <<gg_kv("out", k1, v1), gg_kv("out", k2, v2), gg_kv("out", k3, v3)>>
  BY DEF Map, gg_obj_map
<1> HIDE DEF m
<1>2. /\ DOMAIN pairs = 1..3
      /\ pairs[1].key.data = k1 /\ pairs[1].val = v1
      /\ pairs[2].key.data = k2 /\ pairs[2].val = v2
      /\ pairs[3].key.data = k3
  BY <1>1, PairData
<1>3. 1 \in 1..3 /\ 2 \in 1..3 /\ \A j \in 1..3 : j = 1 \/ j = 2 \/ j = 3
  OBVIOUS
<1> HIDE DEF pairs
<1>4. Get(pairs, k1) = v1
  <2>1. Matches(pairs, k1) = {1}
    BY <1>2, <1>3 DEF Matches
  <2> QED
    BY <2>1, <1>2, FoundOnce
<1>5. Get(pairs, k2) = v2
  <2>1. Matches(pairs, k2) = {2}
    BY <1>2, <1>3 DEF Matches
  <2> QED
    BY <2>1, <1>2, FoundOnce
<1> QED
  BY <1>4, <1>5 DEF m, pairs

\* A map that meets each entry of a schema is valid.
Meets(pairs, e) ==
  IF gg_map_get(pairs, e.key) = 0 THEN e.required # "required"
  ELSE e.required # "missing" /\ e.type \in {"null", pairs[gg_map_get(pairs, e.key)].val.t}

\* A map that meets every entry is valid.
LEMMA ValidMap ==
  ASSUME NEW pairs, NEW schema, \A k \in DOMAIN schema : Meets(pairs, schema[k])
  PROVE  gg_map_validate(pairs, schema) = "OK"
  BY DEF gg_map_validate, Meets

\* The same for schemas of one and of two entries.
LEMMA ValidPairs ==
  ASSUME NEW pairs, NEW a, NEW b, Meets(pairs, a), Meets(pairs, b)
  PROVE  /\ gg_map_validate(pairs, <<a, b>>) = "OK"
         /\ gg_map_validate(pairs, <<a>>) = "OK"
<1>1. \A k \in DOMAIN <<a, b>> : Meets(pairs, <<a, b>>[k])
  OBVIOUS
<1>2. \A k \in DOMAIN <<a>> : Meets(pairs, <<a>>[k])
  OBVIOUS
<1> QED
  BY <1>1, <1>2, ValidMap

\* A field meets the entry of a schema for its type, needed or not.
LEMMA MeetsNeed ==
  ASSUME NEW pairs, NEW key, gg_map_get(pairs, key) # 0
  PROVE  /\ Meets(pairs, Need(key, Get(pairs, key).t))
         /\ Meets(pairs, May(key, Get(pairs, key).t))
  BY DEF Meets, Need, May, Get

\* A field that is not needed may be missing.
LEMMA MeetsMay ==
  ASSUME NEW pairs, NEW key, NEW type, gg_map_get(pairs, key) = 0
  PROVE  Meets(pairs, May(key, type))
  BY DEF Meets, May

-----------------------------------------------------------------------------
\* The events that the server makes of what is published.
TopicEvent(topic, key, message) ==
  [type |-> "SubscriptionResponseMessage",
   data |-> <<gg_kv("out", key, Map(<<<<"message", message>>,
                                      <<"context", Map(<<<<"topic", Text(topic)>>>>)>>>>))>>]

IotEvent(topic, text) ==
  [type |-> "IoTCoreMessage",
   data |-> <<gg_kv("out", "message", Map(<<<<"topicName", Text(topic)>>,
                                            <<"payload", Text(text)>>>>))>>]

\* A request under way is what the command sends, with a note of its stream and
\* of what the caller gave.
UnderWay(r, stream, given) == [op |-> r.op, args |-> r.args, stream |-> stream, given |-> given]

\* The event that the server makes of a publish to a topic.
LEMMA TopicRelayed ==
  ASSUME NEW topic, NEW key, NEW message, NEW stream, NEW given
  PROVE  EventOf(UnderWay(publish_to_topic_common(topic,
                            Map(<<<<key, Map(<<<<"message", message>>>>)>>>>)), stream, given))
         = TopicEvent(topic, key, message)
<1> DEFINE inner == Map(<<<<"message", message>>>>)
           outer == Map(<<<<key, inner>>>>)
           args == Map(<<<<"topic", Text(topic)>>, <<"publishMessage", outer>>>>)
           r == UnderWay(publish_to_topic_common(topic, outer), stream, given)
<1>1. r.op = "PublishToTopic" /\ r.args = args
  BY DEF UnderWay, publish_to_topic_common
<1>2. Get(args.pairs, "topic") = Text(topic) /\ Get(args.pairs, "publishMessage") = outer
  BY MapOfTwo
<1>3. IsPair(outer.pairs, key, inner) /\ IsPair(inner.pairs, "message", message)
  BY MapOfOne
<1>4. /\ outer.pairs[1].key.data = key /\ outer.pairs[1].val = inner
      /\ Get(inner.pairs, "message") = message
  <2> HIDE DEF outer, inner
  <2> QED
    BY <1>3, OnePair
<1> HIDE DEF args, outer, inner, r
<1>5. EventOf(r) = TopicEvent(topic, key, message)
  BY <1>1, <1>2, <1>4, Zenon DEF EventOf, TopicEvent
<1> QED
  BY <1>5 DEF r, outer, inner

\* The event that it makes of a publish to IoT Core.
LEMMA IotRelayed ==
  ASSUME NEW topic, NEW bytes, NEW qos, NEW stream, NEW given
  PROVE  EventOf(UnderWay(ggipc_publish_to_iot_core(topic, bytes, qos), stream, given))
         = IotEvent(topic, gg_base64_encode(bytes))
<1> DEFINE text == gg_base64_encode(bytes)
           args == Map(<<<<"topicName", Text(topic)>>, <<"payload", Text(text)>>,
                         <<"qos", Text(qos)>>>>)
           r == UnderWay(ggipc_publish_to_iot_core(topic, bytes, qos), stream, given)
<1>1. r.op = "PublishToIoTCore" /\ r.args = args
  BY DEF UnderWay, ggipc_publish_to_iot_core
<1>2. Get(args.pairs, "topicName") = Text(topic) /\ Get(args.pairs, "payload") = Text(text)
  <2> HIDE DEF text
  <2> QED
    BY MapOfThree
<1> HIDE DEF args, r, text
<1>3. "PublishToIoTCore" # "PublishToTopic"
  OBVIOUS
<1>4. EventOf(r) = IotEvent(topic, text)
  BY <1>1, <1>2, <1>3, Zenon DEF EventOf, IotEvent
<1> QED
  BY <1>4 DEF r, text

\* What the handlers make of them.
LEMMA TopicHeard ==
  ASSUME NEW topic, NEW key, NEW message, NEW e, e = TopicEvent(topic, key, message),
         \/ key = "jsonMessage" /\ message.t = "map"
         \/ /\ key = "binaryMessage" /\ message.t = "buf"
            /\ gg_base64_decode_in_place(message.data).ok
  PROVE  subscribe_to_topic_resp_handler(e) =
           IF key = "jsonMessage" THEN Called("json", topic, message.pairs)
           ELSE Called("binary", topic, gg_base64_decode_in_place(message.data).data)
<1> DEFINE context == Map(<<<<"topic", Text(topic)>>>>)
           body == Map(<<<<"message", message>>, <<"context", context>>>>)
           json == gg_map_get(e.data, "jsonMessage")
           binary == gg_map_get(e.data, "binaryMessage")
           m == e.data[IF json # 0 THEN json ELSE binary].val.pairs
<1>1. e.type = "SubscriptionResponseMessage" /\ e.data = <<gg_kv("out", key, body)>>
  BY DEF TopicEvent
<1>2. /\ body.t = "map"
      /\ gg_map_get(body.pairs, "message") # 0 /\ Get(body.pairs, "message") = message
      /\ gg_map_get(body.pairs, "context") # 0 /\ Get(body.pairs, "context") = context
  BY MapOfTwo
<1>3. /\ context.t = "map" /\ gg_map_get(context.pairs, "topic") # 0
      /\ Get(context.pairs, "topic") = Text(topic)
  <2>1. context.t = "map" /\ IsPair(context.pairs, "topic", Text(topic))
    BY MapOfOne
  <2> HIDE DEF context
  <2> QED
    BY <2>1, OnePair
<1>4. Text(topic).t = "buf" /\ Text(topic).data = topic
  BY DEF Text, gg_obj_buf
<1> HIDE DEF context, body
<1>5. /\ gg_map_get(e.data, key) = 1 /\ Get(e.data, key) = body
      /\ \A other : other # key => gg_map_get(e.data, other) = 0
      /\ e.data[1].val = body
  <2>1. IsPair(e.data, key, body)
    BY <1>1 DEF IsPair
  <2> QED
    BY <2>1, OnePair
<1>6. "jsonMessage" # "binaryMessage" /\ key \in {"jsonMessage", "binaryMessage"}
  OBVIOUS
<1>7. /\ (json # 0) <=> (key = "jsonMessage")
      /\ (binary # 0) <=> (key = "binaryMessage")
      /\ m = body.pairs
  BY <1>5, <1>6
<1>8. gg_map_validate(e.data, <<May("jsonMessage", "map"), May("binaryMessage", "map")>>) = "OK"
  <2>1. Meets(e.data, May("jsonMessage", "map"))
    BY <1>2, <1>5, <1>6, <1>7, MeetsNeed, MeetsMay
  <2>2. Meets(e.data, May("binaryMessage", "map"))
    BY <1>2, <1>5, <1>6, <1>7, MeetsNeed, MeetsMay
  <2> QED
    BY <2>1, <2>2, ValidPairs
<1>9. gg_map_validate(m, <<Need("message", IF json # 0 THEN "map" ELSE "buf"),
                           Need("context", "map")>>) = "OK"
  <2>1. message.t = IF json # 0 THEN "map" ELSE "buf"
    BY <1>6, <1>7
  <2>2. Meets(m, Need("message", message.t)) /\ Meets(m, Need("context", "map"))
    BY <1>2, <1>3, <1>7, MeetsNeed
  <2> HIDE DEF m, json
  <2> QED
    BY <2>1, <2>2, ValidPairs
<1>10. gg_map_validate(Get(m, "context").pairs, <<Need("topic", "buf")>>) = "OK"
  <2>1. Get(m, "context") = context
    BY <1>2, <1>7
  <2>2. Meets(context.pairs, Need("topic", "buf"))
    BY <1>3, <1>4, MeetsNeed
  <2> QED
    BY <2>1, <2>2, ValidPairs
<1>11. Get(Get(m, "context").pairs, "topic").data = topic /\ Get(m, "message") = message
  BY <1>2, <1>3, <1>4, <1>7
<1>12. ~((json = 0) = (binary = 0))
  BY <1>6, <1>7
<1> HIDE DEF m, json, binary
<1>13. subscribe_to_topic_resp_handler(e) =
         IF json # 0 THEN Called("json", topic, message.pairs)
         ELSE IF gg_base64_decode_in_place(message.data).ok
           THEN Called("binary", topic, gg_base64_decode_in_place(message.data).data)
         ELSE Invalid
  BY <1>1, <1>8, <1>9, <1>10, <1>11, <1>12, Zenon
     DEF subscribe_to_topic_resp_handler, m, json, binary
<1> QED
  BY <1>6, <1>7, <1>13, Zenon

\* subscribe_to_iot_core_resp_handler decodes the payload.
LEMMA IotHeard ==
  ASSUME NEW topic, NEW text, NEW e, e = IotEvent(topic, text),
         gg_base64_decode_in_place(text).ok
  PROVE  subscribe_to_iot_core_resp_handler(e) =
           Called("iot", topic, gg_base64_decode_in_place(text).data)
<1> DEFINE body == Map(<<<<"topicName", Text(topic)>>, <<"payload", Text(text)>>>>)
           m == Get(e.data, "message").pairs
<1>1. e.type = "IoTCoreMessage" /\ e.data = <<gg_kv("out", "message", body)>>
  BY DEF IotEvent
<1>2. /\ body.t = "map"
      /\ gg_map_get(body.pairs, "topicName") # 0 /\ Get(body.pairs, "topicName") = Text(topic)
      /\ gg_map_get(body.pairs, "payload") # 0 /\ Get(body.pairs, "payload") = Text(text)
  BY MapOfTwo
<1>3. /\ Text(topic).t = "buf" /\ Text(topic).data = topic
      /\ Text(text).t = "buf" /\ Text(text).data = text
  BY DEF Text, gg_obj_buf
<1> HIDE DEF body
<1>4. gg_map_get(e.data, "message") # 0 /\ Get(e.data, "message") = body
  <2>1. IsPair(e.data, "message", body)
    BY <1>1 DEF IsPair
  <2> QED
    BY <2>1, OnePair
<1>5. m = body.pairs
  BY <1>4
<1>6. gg_map_validate(e.data, <<Need("message", "map")>>) = "OK"
  <2>1. Meets(e.data, Need("message", "map"))
    BY <1>2, <1>4, MeetsNeed
  <2> QED
    BY <2>1, ValidPairs
<1>7. gg_map_validate(m, <<Need("topicName", "buf"), Need("payload", "buf")>>) = "OK"
  <2>1. Meets(m, Need("topicName", "buf")) /\ Meets(m, Need("payload", "buf"))
    BY <1>2, <1>3, <1>5, MeetsNeed
  <2> HIDE DEF m
  <2> QED
    BY <2>1, ValidPairs
<1>8. Get(m, "topicName").data = topic /\ Get(m, "payload").data = text
  BY <1>2, <1>3, <1>5
<1> HIDE DEF m
<1> QED
  BY <1>1, <1>6, <1>7, <1>8, Zenon DEF subscribe_to_iot_core_resp_handler, m

\* subscribe_to_configuration_update_resp_handler hands the path on.
LEMMA ConfigHeard ==
  ASSUME NEW name, NEW path, path = [k \in 1..Len(path) |-> path[k]]
  PROVE  subscribe_to_configuration_update_resp_handler(ConfigEvent(name, path)) =
           Called("config", name, path)
<1> DEFINE items == [k \in DOMAIN path |-> Text(path[k])]
           list == gg_obj_list("out", items)
           body == Map(<<<<"componentName", Text(name)>>, <<"keyPath", list>>>>)
           e == ConfigEvent(name, path)
           m == Get(e.data, "configurationUpdateEvent").pairs
<1>1. /\ e.type = "ConfigurationUpdateEvents"
      /\ e.data = <<gg_kv("out", "configurationUpdateEvent", body)>>
  BY DEF ConfigEvent
<1>2. list.t = "list" /\ list.items = items
  BY DEF gg_obj_list
<1>3. /\ DOMAIN items = DOMAIN path
      /\ \A k \in DOMAIN path : items[k].t = "buf" /\ items[k].data = path[k]
  BY DEF Text, gg_obj_buf
<1>4. Text(name).t = "buf" /\ Text(name).data = name
  BY DEF Text, gg_obj_buf
<1>5. gg_list_type_check(items, "buf") = "OK"
  BY <1>3 DEF gg_list_type_check
<1>6. [k \in DOMAIN items |-> items[k].data] = path
  <2>1. [k \in DOMAIN items |-> items[k].data] = [k \in DOMAIN path |-> path[k]]
    BY <1>3
  <2>2. path = [k \in DOMAIN path |-> path[k]]
    OBVIOUS
  <2> QED
    BY <2>1, <2>2
<1> HIDE DEF items
<1>7. /\ body.t = "map"
      /\ gg_map_get(body.pairs, "componentName") # 0
      /\ Get(body.pairs, "componentName") = Text(name)
      /\ gg_map_get(body.pairs, "keyPath") # 0 /\ Get(body.pairs, "keyPath") = list
  <2> HIDE DEF list
  <2> QED
    BY MapOfTwo
<1> HIDE DEF body, list, e
<1>8. /\ gg_map_get(e.data, "configurationUpdateEvent") # 0
      /\ Get(e.data, "configurationUpdateEvent") = body
  <2>1. IsPair(e.data, "configurationUpdateEvent", body)
    BY <1>1 DEF IsPair
  <2> QED
    BY <2>1, OnePair
<1>9. m = body.pairs
  BY <1>8
<1>10. gg_map_validate(e.data, <<Need("configurationUpdateEvent", "map")>>) = "OK"
  <2>1. Meets(e.data, Need("configurationUpdateEvent", "map"))
    BY <1>7, <1>8, MeetsNeed
  <2> QED
    BY <2>1, ValidPairs
<1>11. gg_map_validate(m, <<Need("componentName", "buf"), Need("keyPath", "list")>>) = "OK"
  <2>1. Meets(m, Need("componentName", "buf")) /\ Meets(m, Need("keyPath", "list"))
    BY <1>2, <1>4, <1>7, <1>9, MeetsNeed
  <2> HIDE DEF m
  <2> QED
    BY <2>1, ValidPairs
<1>12. Get(m, "componentName").data = name /\ Get(m, "keyPath").items = items
  BY <1>2, <1>4, <1>7, <1>9
<1> HIDE DEF m
<1>13. subscribe_to_configuration_update_resp_handler(e) = Called("config", name, path)
  BY <1>1, <1>5, <1>6, <1>10, <1>11, <1>12, Zenon
     DEF subscribe_to_configuration_update_resp_handler, m
<1> QED
  BY <1>13 DEF e

-----------------------------------------------------------------------------
Streams == {"topic", "iot", "config"}

\* A map that is valid meets each entry of a schema of one or two.
LEMMA MetWhenValid ==
  ASSUME NEW pairs, NEW schema, NEW n \in {1, 2}, DOMAIN schema = 1..n,
         gg_map_validate(pairs, schema) = "OK"
  PROVE  \A k \in 1..n : Meets(pairs, schema[k])
<1> DEFINE found(e) == gg_map_get(pairs, e.key)
           Check(e) ==
             IF found(e) = 0
               THEN IF e.required = "required" THEN "NOENTRY" ELSE "OK"
               ELSE IF \/ e.required = "missing"
                       \/ e.type \notin {"null", pairs[found(e)].val.t}
                      THEN "PARSE"
                      ELSE "OK"
           bad == {k \in DOMAIN schema : Check(schema[k]) # "OK"}
           first == CHOOSE k \in bad : \A j \in bad : k <= j
<1>1. gg_map_validate(pairs, schema) = IF bad = {} THEN "OK" ELSE Check(schema[first])
  BY Zenon DEF gg_map_validate
<1>2. bad \subseteq {1, 2}
  OBVIOUS
<1>3. bad # {} => first \in bad
  <2> HIDE DEF bad
  <2>1. ASSUME bad # {}
        PROVE  \E k \in bad : \A j \in bad : k <= j
    <3>1. CASE 1 \in bad
      BY <1>2, <3>1
    <3>2. CASE 1 \notin bad
      <4>1. bad = {2}
        BY <1>2, <2>1, <3>2
      <4> QED
        BY <4>1
    <3> QED
      BY <3>1, <3>2
  <2> QED
    BY <2>1
<1>4. bad = {}
  <2>1. ASSUME bad # {}
        PROVE  FALSE
    <3>1. Check(schema[first]) # "OK"
      BY <1>3, <2>1
    <3> QED
      BY <1>1, <2>1, <3>1
  <2> QED
    BY <2>1
<1> QED
  BY <1>4 DEF Meets

\* What an entry of a schema that is met says of a map.
LEMMA MetNeed ==
  ASSUME NEW pairs, NEW key, NEW type, type # "null", Meets(pairs, Need(key, type))
  PROVE  Has(pairs, key, type)
  BY DEF Meets, Need, Has, Get

\* The same for an entry that is not required.
LEMMA MetMay ==
  ASSUME NEW pairs, NEW key, NEW type, type # "null", Meets(pairs, May(key, type)),
         gg_map_get(pairs, key) # 0
  PROVE  Has(pairs, key, type)
  BY DEF Meets, May, Has, Get

\* A map that is valid for entries that are required has their fields.
LEMMA NeedsOne ==
  ASSUME NEW pairs, NEW key, NEW type, type # "null",
         gg_map_validate(pairs, <<Need(key, type)>>) = "OK"
  PROVE  Has(pairs, key, type)
<1> DEFINE schema == <<Need(key, type)>>
<1>1. DOMAIN schema = 1..1 /\ schema[1] = Need(key, type) /\ 1 \in 1..1 /\ 1 \in {1, 2}
  OBVIOUS
<1> HIDE DEF schema
<1>2. gg_map_validate(pairs, schema) = "OK"
  BY DEF schema
<1>3. Meets(pairs, Need(key, type))
  BY <1>1, <1>2, MetWhenValid
<1> QED
  BY <1>3, MetNeed

\* The same for two entries that are required.
LEMMA NeedsTwo ==
  ASSUME NEW pairs, NEW k1, NEW t1, NEW k2, NEW t2, t1 # "null", t2 # "null",
         gg_map_validate(pairs, <<Need(k1, t1), Need(k2, t2)>>) = "OK"
  PROVE  Has(pairs, k1, t1) /\ Has(pairs, k2, t2)
<1> DEFINE schema == <<Need(k1, t1), Need(k2, t2)>>
<1>1. /\ DOMAIN schema = 1..2 /\ schema[1] = Need(k1, t1) /\ schema[2] = Need(k2, t2)
      /\ 1 \in 1..2 /\ 2 \in 1..2 /\ 2 \in {1, 2}
  OBVIOUS
<1> HIDE DEF schema
<1>2. gg_map_validate(pairs, schema) = "OK"
  BY DEF schema
<1>3. Meets(pairs, Need(k1, t1)) /\ Meets(pairs, Need(k2, t2))
  BY <1>1, <1>2, MetWhenValid
<1> QED
  BY <1>3, MetNeed

\* The same for two entries that are not required.
LEMMA MayTwo ==
  ASSUME NEW pairs, NEW k1, NEW t1, NEW k2, NEW t2, t1 # "null", t2 # "null",
         gg_map_validate(pairs, <<May(k1, t1), May(k2, t2)>>) = "OK"
  PROVE  /\ gg_map_get(pairs, k1) # 0 => Has(pairs, k1, t1)
         /\ gg_map_get(pairs, k2) # 0 => Has(pairs, k2, t2)
<1> DEFINE schema == <<May(k1, t1), May(k2, t2)>>
<1>1. /\ DOMAIN schema = 1..2 /\ schema[1] = May(k1, t1) /\ schema[2] = May(k2, t2)
      /\ 1 \in 1..2 /\ 2 \in 1..2 /\ 2 \in {1, 2}
  OBVIOUS
<1> HIDE DEF schema
<1>2. gg_map_validate(pairs, schema) = "OK"
  BY DEF schema
<1>3. Meets(pairs, May(k1, t1)) /\ Meets(pairs, May(k2, t2))
  BY <1>1, <1>2, MetWhenValid
<1> QED
  BY <1>3, MetMay

\* subscribe_to_topic_resp_handler refuses an event that does not have its form.
LEMMA TopicRefused ==
  ASSUME NEW e, ~TopicForm(e)
  PROVE  subscribe_to_topic_resp_handler(e) = Invalid
<1> DEFINE json == gg_map_get(e.data, "jsonMessage")
           binary == gg_map_get(e.data, "binaryMessage")
           m == e.data[IF json # 0 THEN json ELSE binary].val.pairs
           topic == Get(Get(m, "context").pairs, "topic").data
           decoded == gg_base64_decode_in_place(Get(m, "message").data)
           type == IF json # 0 THEN "map" ELSE "buf"
           Wrong ==
             \/ e.type # "SubscriptionResponseMessage"
             \/ gg_map_validate(e.data, <<May("jsonMessage", "map"), May("binaryMessage", "map")>>) # "OK"
             \/ (json = 0) = (binary = 0)
             \/ gg_map_validate(m, <<Need("message", type), Need("context", "map")>>) # "OK"
             \/ gg_map_validate(Get(m, "context").pairs, <<Need("topic", "buf")>>) # "OK"
<1>1. subscribe_to_topic_resp_handler(e) =
        IF Wrong THEN Invalid
        ELSE IF json # 0 THEN Called("json", topic, Get(m, "message").pairs)
        ELSE IF decoded.ok THEN Called("binary", topic, decoded.data)
        ELSE Invalid
  BY Zenon DEF subscribe_to_topic_resp_handler
<1>2. ASSUME ~Wrong, json # 0 \/ decoded.ok
      PROVE  FALSE
  <2>1. e.type = "SubscriptionResponseMessage" /\ ((json = 0) # (binary = 0))
    BY <1>2
  <2>2. "map" # "null" /\ "buf" # "null"
    OBVIOUS
  <2>3. type # "null"
    BY <2>2
  <2>4. /\ json # 0 => Has(e.data, "jsonMessage", "map")
        /\ binary # 0 => Has(e.data, "binaryMessage", "map")
    <3>1. gg_map_validate(e.data, <<May("jsonMessage", "map"), May("binaryMessage", "map")>>) = "OK"
      BY <1>2
    <3> QED
      BY <2>2, <3>1, MayTwo
  <2>5. Has(m, "message", type) /\ Has(m, "context", "map")
    <3>1. gg_map_validate(m, <<Need("message", type), Need("context", "map")>>) = "OK"
      BY <1>2
    <3> HIDE DEF m, type
    <3> QED
      BY <2>2, <2>3, <3>1, NeedsTwo
  <2>6. Has(Get(m, "context").pairs, "topic", "buf")
    <3>1. gg_map_validate(Get(m, "context").pairs, <<Need("topic", "buf")>>) = "OK"
      BY <1>2
    <3> HIDE DEF m
    <3> QED
      BY <2>2, <3>1, NeedsOne
  <2>7. CASE json # 0
    <3>1. m = Get(e.data, "jsonMessage").pairs /\ type = "map"
      BY <2>7 DEF Get
    <3>2. binary = 0
      BY <2>1, <2>7
    <3>3. \A other \in {"jsonMessage", "binaryMessage"} \ {"jsonMessage"} : gg_map_get(e.data, other) = 0
      BY <3>2
    <3> HIDE DEF m, type, json, binary
    <3> QED
      BY <2>1, <2>4, <2>5, <2>6, <2>7, <3>1, <3>3 DEF TopicForm
  <2>8. CASE json = 0
    <3>1. m = Get(e.data, "binaryMessage").pairs /\ type = "buf" /\ binary # 0
      BY <2>1, <2>8 DEF Get
    <3>3. \A other \in {"jsonMessage", "binaryMessage"} \ {"binaryMessage"} : gg_map_get(e.data, other) = 0
      BY <2>8
    <3>4. decoded.ok
      BY <1>2, <2>8
    <3> HIDE DEF m, type, json, binary
    <3> QED
      BY <2>1, <2>4, <2>5, <2>6, <3>1, <3>3, <3>4 DEF TopicForm
  <2> QED
    BY <2>7, <2>8
<1> HIDE DEF Wrong, json, decoded
<1> QED
  BY <1>1, <1>2

\* The same for subscribe_to_iot_core_resp_handler.
LEMMA IotRefused ==
  ASSUME NEW e, ~IotForm(e)
  PROVE  subscribe_to_iot_core_resp_handler(e) = Invalid
<1> DEFINE m == Get(e.data, "message").pairs
           decoded == gg_base64_decode_in_place(Get(m, "payload").data)
           Wrong ==
             \/ e.type # "IoTCoreMessage"
             \/ gg_map_validate(e.data, <<Need("message", "map")>>) # "OK"
             \/ gg_map_validate(m, <<Need("topicName", "buf"), Need("payload", "buf")>>) # "OK"
             \/ ~decoded.ok
<1>1. Wrong => subscribe_to_iot_core_resp_handler(e) = Invalid
  BY Zenon DEF subscribe_to_iot_core_resp_handler
<1>2. ASSUME ~Wrong
      PROVE  FALSE
  <2>1. "map" # "null" /\ "buf" # "null"
    OBVIOUS
  <2>2. Has(e.data, "message", "map")
    BY <1>2, <2>1, NeedsOne
  <2>3. Has(m, "topicName", "buf") /\ Has(m, "payload", "buf")
    <3>1. gg_map_validate(m, <<Need("topicName", "buf"), Need("payload", "buf")>>) = "OK"
      BY <1>2
    <3> HIDE DEF m
    <3> QED
      BY <2>1, <3>1, NeedsTwo
  <2> QED
    BY <1>2, <2>2, <2>3, Zenon DEF IotForm
<1> QED
  BY <1>1, <1>2

\* The same for subscribe_to_configuration_update_resp_handler.
LEMMA ConfigRefused ==
  ASSUME NEW e, ~ConfigForm(e)
  PROVE  subscribe_to_configuration_update_resp_handler(e) = Invalid
<1> DEFINE m == Get(e.data, "configurationUpdateEvent").pairs
           path == Get(m, "keyPath").items
           Wrong ==
             \/ e.type # "ConfigurationUpdateEvents"
             \/ gg_map_validate(e.data, <<Need("configurationUpdateEvent", "map")>>) # "OK"
             \/ gg_map_validate(m, <<Need("componentName", "buf"), Need("keyPath", "list")>>) # "OK"
             \/ gg_list_type_check(path, "buf") # "OK"
<1>1. Wrong => subscribe_to_configuration_update_resp_handler(e) = Invalid
  BY Zenon DEF subscribe_to_configuration_update_resp_handler
<1>2. ASSUME ~Wrong
      PROVE  FALSE
  <2>1. "map" # "null" /\ "buf" # "null" /\ "list" # "null"
    OBVIOUS
  <2>2. Has(e.data, "configurationUpdateEvent", "map")
    BY <1>2, <2>1, NeedsOne
  <2>3. Has(m, "componentName", "buf") /\ Has(m, "keyPath", "list")
    <3>1. gg_map_validate(m, <<Need("componentName", "buf"), Need("keyPath", "list")>>) = "OK"
      BY <1>2
    <3> HIDE DEF m
    <3> QED
      BY <2>1, <3>1, NeedsTwo
  <2>4. \A i \in DOMAIN path : path[i].t = "buf"
    <3>1. gg_list_type_check(path, "buf") = "OK"
      BY <1>2
    <3>2. "PARSE" # "OK"
      OBVIOUS
    <3> HIDE DEF path
    <3> QED
      BY <3>1, <3>2, Zenon DEF gg_list_type_check
  <2> QED
    BY <1>2, <2>2, <2>3, <2>4, Zenon DEF ConfigForm
<1> QED
  BY <1>1, <1>2

\* So an event that has no form that it should have reaches no callback.
LEMMA BadEventsRefused ==
  \A stream \in Streams, e \in BadEvents : Handle(stream, e) = Invalid
<1> TAKE stream \in Streams, e \in BadEvents
<1>1. ~TopicForm(e) /\ ~IotForm(e) /\ ~ConfigForm(e)
  BY BadEventAssumption
<1>2. /\ subscribe_to_topic_resp_handler(e) = Invalid
      /\ subscribe_to_iot_core_resp_handler(e) = Invalid
      /\ subscribe_to_configuration_update_resp_handler(e) = Invalid
  BY <1>1, TopicRefused, IotRefused, ConfigRefused
<1>3. stream = "topic" \/ stream = "iot" \/ stream = "config"
  BY DEF Streams
<1> QED
  BY <1>2, <1>3 DEF Handle

Delivery(stream, event, given) == [stream |-> stream, event |-> event, given |-> given]

\* Whatever may be on its way to a component, and what it should hear of it.
Deliveries ==
  {Delivery("topic", TopicEvent(topic, "jsonMessage", gg_obj_map("out", pairs)),
            Called("json", topic, pairs)) : topic \in Topics, pairs \in JsonPayloads}
  \cup
  {Delivery("topic", TopicEvent(topic, "binaryMessage", Text(gg_base64_encode(bytes))),
            Called("binary", topic, bytes)) : topic \in Topics, bytes \in BinaryPayloads}
  \cup
  {Delivery("iot", IotEvent(topic, gg_base64_encode(bytes)), Called("iot", topic, bytes)) :
     topic \in Topics, bytes \in BinaryPayloads}
  \cup
  {Delivery("config", ConfigEvent(name, path), Called("config", name, path)) :
     name \in Topics, path \in KeyPaths}
  \cup
  {Delivery(stream, e, Invalid) : stream \in Streams, e \in BadEvents}

RequestInv ==
  request.op \in {"PublishToTopic", "PublishToIoTCore"} =>
    Delivery(request.stream, EventOf(request), request.given) \in Deliveries

PubSubInv ==
  /\ RequestInv
  /\ inbox \in [Subscribers -> Seq(Deliveries)]
  /\ DOMAIN heard = Subscribers
  /\ PayloadDelivered

\* The handler of its stream makes of an event what it should.
LEMMA DeliveryHeard ==
  ASSUME NEW x \in Deliveries
  PROVE  Handle(x.stream, x.event) = x.given
<1> DEFINE D(stream, event, given) ==
             x.stream = stream /\ x.event = event /\ x.given = given
<1>1. "topic" # "iot" /\ "topic" # "config" /\ "iot" # "config"
  OBVIOUS
<1>2. ASSUME NEW topic, NEW pairs,
             D("topic", TopicEvent(topic, "jsonMessage", gg_obj_map("out", pairs)),
               Called("json", topic, pairs))
      PROVE  Handle(x.stream, x.event) = x.given
  <2> DEFINE message == gg_obj_map("out", pairs)
  <2>1. message.t = "map" /\ message.pairs = pairs
    BY DEF gg_obj_map
  <2> HIDE DEF message
  <2>2. subscribe_to_topic_resp_handler(TopicEvent(topic, "jsonMessage", message)) =
          Called("json", topic, message.pairs)
    BY <2>1, TopicHeard
  <2> QED
    BY <1>1, <1>2, <2>1, <2>2, Zenon DEF Handle, message
<1>3. ASSUME NEW topic, NEW bytes \in BinaryPayloads,
             D("topic", TopicEvent(topic, "binaryMessage", Text(gg_base64_encode(bytes))),
               Called("binary", topic, bytes))
      PROVE  Handle(x.stream, x.event) = x.given
  <2> DEFINE text == gg_base64_encode(bytes)
             message == Text(text)
  <2>1. message.t = "buf" /\ message.data = text
    BY DEF Text, gg_obj_buf
  <2>2. gg_base64_decode_in_place(text).ok /\ gg_base64_decode_in_place(text).data = bytes
    BY PayloadAssumption, EncodeDecodes DEF Byte
  <2> HIDE DEF message, text
  <2>3. subscribe_to_topic_resp_handler(TopicEvent(topic, "binaryMessage", message)) =
          Called("binary", topic, bytes)
    <3>1. "binaryMessage" # "jsonMessage"
      OBVIOUS
    <3> QED
      BY <2>1, <2>2, <3>1, TopicHeard
  <2> QED
    BY <1>1, <1>3, <2>3, Zenon DEF Handle, message, text
<1>4. ASSUME NEW topic, NEW bytes \in BinaryPayloads,
             D("iot", IotEvent(topic, gg_base64_encode(bytes)), Called("iot", topic, bytes))
      PROVE  Handle(x.stream, x.event) = x.given
  <2> DEFINE text == gg_base64_encode(bytes)
  <2>1. gg_base64_decode_in_place(text).ok /\ gg_base64_decode_in_place(text).data = bytes
    BY PayloadAssumption, EncodeDecodes DEF Byte
  <2> HIDE DEF text
  <2>2. subscribe_to_iot_core_resp_handler(IotEvent(topic, text)) = Called("iot", topic, bytes)
    BY <2>1, IotHeard
  <2> QED
    BY <1>1, <1>4, <2>2, Zenon DEF Handle, text
<1>5. ASSUME NEW name, NEW path \in KeyPaths,
             D("config", ConfigEvent(name, path), Called("config", name, path))
      PROVE  Handle(x.stream, x.event) = x.given
  <2>1. subscribe_to_configuration_update_resp_handler(ConfigEvent(name, path)) =
          Called("config", name, path)
    BY KeyPathAssumption, ConfigHeard
  <2> QED
    BY <1>1, <1>5, <2>1, Zenon DEF Handle
<1>6. ASSUME NEW stream \in Streams, NEW e \in BadEvents, D(stream, e, Invalid)
      PROVE  Handle(x.stream, x.event) = x.given
  BY <1>6, BadEventsRefused
<1> QED
  BY <1>2, <1>3, <1>4, <1>5, <1>6 DEF Deliveries, Delivery

\* The fields of a delivery.
LEMMA Delivered ==
  ASSUME NEW stream, NEW event, NEW given
  PROVE  /\ Delivery(stream, event, given).stream = stream
         /\ Delivery(stream, event, given).event = event
         /\ Delivery(stream, event, given).given = given
  BY DEF Delivery

\* The invariant holds at first.
LEMMA InitPubSub == PubSubInit => PubSubInv
<1> SUFFICES ASSUME PubSubInit
             PROVE  PubSubInv
  OBVIOUS
<1>1. RequestInv
  BY DEF PubSubInit, RequestInv, NoRequest
<1>2. inbox \in [Subscribers -> Seq(Deliveries)]
  <2>1. <<>> \in Seq(Deliveries)
    OBVIOUS
  <2> QED
    BY <2>1 DEF PubSubInit
<1> QED
  BY <1>1, <1>2 DEF PubSubInit, PubSubInv, PayloadDelivered

\* An event that is sent is on its way to everybody.
LEMMA SendKeeps ==
  ASSUME NEW stream, NEW event, NEW given, Delivery(stream, event, given) \in Deliveries,
         inbox \in [Subscribers -> Seq(Deliveries)], Send(stream, event, given)
  PROVE  inbox' \in [Subscribers -> Seq(Deliveries)]
<1>1. \A s \in Subscribers : Append(inbox[s], Delivery(stream, event, given)) \in Seq(Deliveries)
  OBVIOUS
<1>2. inbox' = [s \in Subscribers |-> Append(inbox[s], Delivery(stream, event, given))]
  BY DEF Send, Delivery
<1> QED
  BY <1>1, <1>2

\* A publish that is under way will be delivered as what was given.
LEMMA PublishKeeps ==
  ASSUME PubSubInv, NEW r, NEW stream, NEW given, Publish(r, stream, given),
         Delivery(stream, EventOf(UnderWay(r, stream, given)), given) \in Deliveries
  PROVE  PubSubInv'
<1>1. request' = UnderWay(r, stream, given) /\ UNCHANGED <<inbox, heard>>
  BY DEF Publish, UnderWay
<1>2. UnderWay(r, stream, given).stream = stream /\ UnderWay(r, stream, given).given = given
  BY DEF UnderWay
<1>3. RequestInv'
  BY <1>1, <1>2, Zenon DEF RequestInv
<1> QED
  BY <1>1, <1>3 DEF PubSubInv, PayloadDelivered

\* Every step keeps the invariant.
LEMMA NextPubSub ==
  ASSUME PubSubInv, [PubSubNext]_pubsubVars
  PROVE  PubSubInv'
<1>1. ASSUME NEW topic \in Topics, NEW pairs \in JsonPayloads,
             Publish(ggipc_publish_to_topic_json(topic, pairs), "topic",
                     Called("json", topic, pairs))
      PROVE  PubSubInv'
  <2> DEFINE message == gg_obj_map("out", pairs)
             given == Called("json", topic, pairs)
             r == ggipc_publish_to_topic_json(topic, pairs)
  <2>1. EventOf(UnderWay(r, "topic", given)) = TopicEvent(topic, "jsonMessage", message)
    <3> HIDE DEF message, given
    <3> QED
      BY TopicRelayed, Zenon DEF ggipc_publish_to_topic_json, message
  <2>2. Delivery("topic", EventOf(UnderWay(r, "topic", given)), given) \in Deliveries
    BY <2>1 DEF Deliveries
  <2> QED
    BY <1>1, <2>2, PublishKeeps
<1>2. ASSUME NEW topic \in Topics, NEW bytes \in BinaryPayloads,
             Publish(ggipc_publish_to_topic_binary(topic, bytes), "topic",
                     Called("binary", topic, bytes))
      PROVE  PubSubInv'
  <2> DEFINE message == Text(gg_base64_encode(bytes))
             given == Called("binary", topic, bytes)
             r == ggipc_publish_to_topic_binary(topic, bytes)
  <2>1. EventOf(UnderWay(r, "topic", given)) = TopicEvent(topic, "binaryMessage", message)
    <3> HIDE DEF message, given
    <3> QED
      BY TopicRelayed, Zenon DEF ggipc_publish_to_topic_binary, message
  <2>2. Delivery("topic", EventOf(UnderWay(r, "topic", given)), given) \in Deliveries
    BY <2>1 DEF Deliveries
  <2> QED
    BY <1>2, <2>2, PublishKeeps
<1>3. ASSUME NEW topic \in Topics, NEW bytes \in BinaryPayloads,
             Publish(ggipc_publish_to_iot_core(topic, bytes, "0"), "iot",
                     Called("iot", topic, bytes))
      PROVE  PubSubInv'
  <2> DEFINE given == Called("iot", topic, bytes)
             r == ggipc_publish_to_iot_core(topic, bytes, "0")
  <2>1. EventOf(UnderWay(r, "iot", given)) = IotEvent(topic, gg_base64_encode(bytes))
    <3> HIDE DEF given
    <3> QED
      BY IotRelayed
  <2>2. Delivery("iot", EventOf(UnderWay(r, "iot", given)), given) \in Deliveries
    BY <2>1 DEF Deliveries
  <2> QED
    BY <1>3, <2>2, PublishKeeps
<1>4. ASSUME Relay
      PROVE  PubSubInv'
  <2>1. Delivery(request.stream, EventOf(request), request.given) \in Deliveries
    BY <1>4 DEF Relay, PubSubInv, RequestInv
  <2>2. inbox' \in [Subscribers -> Seq(Deliveries)]
    BY <1>4, <2>1, SendKeeps DEF Relay, PubSubInv
  <2>3. RequestInv' /\ UNCHANGED heard
    BY <1>4 DEF Relay, RequestInv
  <2> QED
    BY <2>2, <2>3 DEF PubSubInv, PayloadDelivered
<1>5. ASSUME NEW code, Refuse(code)
      PROVE  PubSubInv'
  <2>1. RequestInv' /\ UNCHANGED <<inbox, heard>>
    BY <1>5 DEF Refuse, RequestInv
  <2> QED
    BY <2>1 DEF PubSubInv, PayloadDelivered
<1>6. ASSUME PublishReturn
      PROVE  PubSubInv'
  <2>1. RequestInv' /\ UNCHANGED <<inbox, heard>>
    BY <1>6 DEF PublishReturn, RequestInv, NoRequest
  <2> QED
    BY <2>1 DEF PubSubInv, PayloadDelivered
<1>7. ASSUME NEW name \in Topics, NEW path \in KeyPaths, ConfigChanged(name, path)
      PROVE  PubSubInv'
  <2>1. Delivery("config", ConfigEvent(name, path), Called("config", name, path)) \in Deliveries
    BY DEF Deliveries
  <2>2. inbox' \in [Subscribers -> Seq(Deliveries)]
    BY <1>7, <2>1, SendKeeps DEF ConfigChanged, PubSubInv
  <2>3. UNCHANGED <<request, heard>>
    BY <1>7 DEF ConfigChanged
  <2> QED
    BY <2>2, <2>3 DEF PubSubInv, RequestInv, PayloadDelivered
<1>8. ASSUME NEW stream \in Streams, NEW e \in BadEvents, SendBad(stream, e)
      PROVE  PubSubInv'
  <2>1. Delivery(stream, e, Invalid) \in Deliveries
    BY DEF Deliveries
  <2>2. inbox' \in [Subscribers -> Seq(Deliveries)]
    BY <1>8, <2>1, SendKeeps DEF SendBad, PubSubInv
  <2>3. UNCHANGED <<request, heard>>
    BY <1>8 DEF SendBad
  <2> QED
    BY <2>2, <2>3 DEF PubSubInv, RequestInv, PayloadDelivered
<1>9. ASSUME NEW s \in Subscribers, Hear(s)
      PROVE  PubSubInv'
  <2> DEFINE x == Head(inbox[s])
             r == Handle(x.stream, x.event)
  <2>1. inbox[s] \in Seq(Deliveries) /\ inbox[s] # <<>>
    BY <1>9 DEF Hear, PubSubInv
  <2>2. x \in Deliveries /\ Tail(inbox[s]) \in Seq(Deliveries)
    BY <2>1
  <2>3. r = x.given
    <3> HIDE DEF x
    <3> QED
      BY <2>2, DeliveryHeard
  <2>4. /\ heard' = [heard EXCEPT ![s] = [err |-> r.err, called |-> r, given |-> x.given]]
        /\ inbox' = [inbox EXCEPT ![s] = Tail(inbox[s])]
        /\ request' = request
    BY <1>9 DEF Hear
  <2>5. inbox' \in [Subscribers -> Seq(Deliveries)]
    BY <2>2, <2>4 DEF PubSubInv
  <2> HIDE DEF r, x
  <2>6. DOMAIN heard' = Subscribers /\ PayloadDelivered'
    <3>1. heard'[s].called = heard'[s].given
      BY <2>3, <2>4 DEF PubSubInv
    <3>2. \A t \in Subscribers : t # s => heard'[t] = heard[t]
      BY <2>4 DEF PubSubInv
    <3>3. DOMAIN heard' = Subscribers
      BY <2>4 DEF PubSubInv
    <3> QED
      BY <3>1, <3>2, <3>3 DEF PubSubInv, PayloadDelivered, Silence
  <2> QED
    BY <2>4, <2>5, <2>6 DEF PubSubInv, RequestInv
<1>10. ASSUME NEW s \in Subscribers, HearDone(s)
       PROVE  PubSubInv'
  <2>1. heard' = [heard EXCEPT ![s] = Silence] /\ UNCHANGED <<request, inbox>>
    BY <1>10 DEF HearDone
  <2>2. DOMAIN heard' = Subscribers /\ PayloadDelivered'
    BY <2>1 DEF PubSubInv, PayloadDelivered
  <2> QED
    BY <2>1, <2>2 DEF PubSubInv, RequestInv
<1>11. CASE UNCHANGED pubsubVars
  BY <1>11 DEF PubSubInv, RequestInv, PayloadDelivered, pubsubVars
<1> QED
  BY <1>1, <1>2, <1>3, <1>4, <1>5, <1>6, <1>7, <1>8, <1>9, <1>10, <1>11
     DEF PubSubNext, Streams

\* A callback hears exactly what was published (src/src/ipc/client/
\* publish_to_topic.c, publish_to_iot_core.c, subscribe_to_topic.c,
\* subscribe_to_iot_core.c, subscribe_to_configuration_update.c): for every topic
\* and payload, any number of components and of events on the way, and with
\* events in between that the handlers refuse.
THEOREM PayloadIsDelivered == PubSubSpec => []PayloadDelivered
<1>1. PubSubInit => PubSubInv
  BY InitPubSub
<1>2. PubSubInv /\ [PubSubNext]_pubsubVars => PubSubInv'
  BY NextPubSub
<1>3. PubSubInv => PayloadDelivered
  BY DEF PubSubInv
<1> QED
  BY <1>1, <1>2, <1>3, PTL DEF PubSubSpec

-----------------------------------------------------------------------------
SubsSpec == SubsInit /\ [][SubsNext]_subVars

(* Handles are numbered as they are made; a callback holds its own or none. *)
SubsTypeOK ==
    /\ made \in Nat
    /\ active \subseteq 1 .. made
    /\ handle \in [Vars -> 0 .. made]
    /\ pending \in [var : Vars \cup {Nothing}, handle : 0 .. made]
    /\ running \in 0 .. made
    /\ locked \in {NoHandle, running}
    /\ given_up \subseteq 1 .. made
    /\ shared \subseteq 1 .. made

(* The handle of a call under way is open unless a callback or the server   *)
(* closed it, and nobody else holds it unless a callback passed it on: the  *)
(* call has not stored it when its first callback may run.                  *)
PendingInv ==
    /\ pending.handle \in active \cup shared \cup {NoHandle}
    /\ \A v \in Vars : handle[v] = pending.handle =>
          handle[v] \in shared \cup {NoHandle}

SubsInv == SubsTypeOK /\ PendingInv /\ SubscriptionOwned

-----------------------------------------------------------------------------
(* No call under way holds no handle.                                       *)
LEMMA NothingPending == NoPending.handle = NoHandle
  BY DEF NoPending

(* A number that names a subscription is one of those given out.            *)
LEMMA HandleMade ==
    ASSUME NEW m \in Nat, NEW h \in 0 .. m
    PROVE  {h} \ {NoHandle} \subseteq 1 .. m
  BY DEF NoHandle

(* What a subscribe of either language does: the new handle is nobody's.    *)
LEMMA SubscribeKeeps ==
    ASSUME SubsInv, NEW v \in Vars, CppSubscribe(v) \/ RustSubscribe(v)
    PROVE  SubsInv'
  <1>1. /\ pending = NoPending /\ made' = made + 1
        /\ active' = active \cup {made + 1}
        /\ pending' = [var |-> v, handle |-> made + 1]
        /\ UNCHANGED <<handle, locked, running, given_up, shared>>
    BY DEF CppSubscribe, RustSubscribe, MayCall
  <1>2. SubsTypeOK'
    BY <1>1 DEF SubsInv, SubsTypeOK
  <1>3. \A w \in Vars : handle[w] # made + 1
    BY DEF SubsInv, SubsTypeOK
  <1>4. PendingInv'
    BY <1>1, <1>3 DEF PendingInv
  <1>5. SubscriptionOwned'
    BY <1>1, <1>3 DEF SubsInv, SubscriptionOwned, NoPending, NoHandle, SubsTypeOK
  <1> QED
    BY <1>2, <1>4, <1>5 DEF SubsInv

(* The handle is stored, and what the variable held before is closed.       *)
LEMMA StoreKeeps ==
    ASSUME SubsInv, NEW v \in Vars, CppStore(v) \/ RustStore(v)
    PROVE  SubsInv'
  <1>1. /\ pending.var = v /\ pending' = NoPending
        /\ active' = active \ {handle[v]}
        /\ handle' = [handle EXCEPT ![v] = pending.handle]
        /\ UNCHANGED <<made, locked, running, given_up, shared>>
    BY DEF CppStore, RustStore, Closed
  <1>2. SubsTypeOK'
    <2>1. made \in Nat /\ pending.handle \in 0 .. made /\ handle \in [Vars -> 0 .. made]
      BY DEF SubsInv, SubsTypeOK
    <2>2. handle' \in [Vars -> 0 .. made]
      BY <1>1, <2>1
    <2>3. pending' \in [var : Vars \cup {Nothing}, handle : 0 .. made]
      BY <1>1, <2>1 DEF NoPending, NoHandle
    <2> QED
      BY <1>1, <2>2, <2>3 DEF SubsInv, SubsTypeOK
  <1>3. PendingInv'
    BY <1>1, NothingPending DEF SubsInv, SubsTypeOK, PendingInv
  <1>4. SubscriptionOwned'
    BY <1>1 DEF SubsInv, SubsTypeOK, PendingInv, SubscriptionOwned, NoHandle
  <1> QED
    BY <1>2, <1>3, <1>4 DEF SubsInv

(* Nothing is pending, what is in v goes to w or is closed, and so on: the  *)
(* handles that variables hold are moved, and one of them may be closed.    *)
LEMMA MovesKeep ==
    ASSUME SubsInv, NEW v \in Vars, NEW w \in Vars,
           MoveConstruct(v, w) \/ MoveAssign(v, w) \/ Swap(v, w) \/ ResetTo(v, w)
    PROVE  SubsInv'
  <1>1. /\ pending = NoPending
        /\ UNCHANGED <<made, pending, locked, running, given_up, shared>>
    BY DEF MoveConstruct, MoveAssign, Swap, ResetTo
  <1>2. \/ UNCHANGED <<active, handle>>
        \/ /\ active' = active
           /\ handle' = [handle EXCEPT ![v] = handle[w], ![w] = handle[v]]
        \/ /\ v # w
           /\ active' = active \ {handle[v]}
           /\ handle' = [handle EXCEPT ![v] = handle[w], ![w] = NoHandle]
    BY DEF MoveConstruct, MoveAssign, Swap, ResetTo, Closed, holds_subscription,
           SubsInv, SubsTypeOK, NoHandle
  <1>3. SubsTypeOK'
    <2>1. made \in Nat /\ handle \in [Vars -> 0 .. made] /\ NoHandle \in 0 .. made
      BY DEF SubsInv, SubsTypeOK, NoHandle
    <2>2. handle' \in [Vars -> 0 .. made]
      BY <1>2, <2>1
    <2>3. active' \subseteq active
      BY <1>2
    <2> QED
      BY <1>1, <2>2, <2>3 DEF SubsInv, SubsTypeOK
  <1>4. PendingInv'
    BY <1>1, NothingPending DEF PendingInv
  <1>5. SubscriptionOwned'
    <2> DEFINE Owned == handle \in [Vars -> 0 .. made] /\ SubscriptionOwned
    <2>1. Owned /\ pending.handle = NoHandle /\ 0 \notin active
      BY <1>1, NothingPending DEF SubsInv, SubsTypeOK
    <2>2. CASE UNCHANGED <<active, handle>>
      BY <1>1, <2>1, <2>2 DEF SubscriptionOwned
    <2>3. CASE /\ active' = active
               /\ handle' = [handle EXCEPT ![v] = handle[w], ![w] = handle[v]]
      BY <1>1, <2>1, <2>3 DEF SubscriptionOwned
    <2>4. CASE /\ v # w
               /\ active' = active \ {handle[v]}
               /\ handle' = [handle EXCEPT ![v] = handle[w], ![w] = NoHandle]
      BY <1>1, <2>1, <2>4 DEF SubscriptionOwned, NoHandle
    <2> QED
      BY <1>2, <2>2, <2>3, <2>4
  <1> QED
    BY <1>3, <1>4, <1>5 DEF SubsInv

(* A variable is closed, dropped or released.                               *)
LEMMA LetGoKeeps ==
    ASSUME SubsInv, NEW v \in Vars, Close(v) \/ RustDrop(v) \/ Release(v)
    PROVE  SubsInv'
  <1>1. /\ pending = NoPending /\ handle' = [handle EXCEPT ![v] = NoHandle]
        /\ UNCHANGED <<made, pending, locked, running, shared>>
        /\ \/ active' = active \ {handle[v]} /\ given_up' = given_up
           \/ active' = active /\ given_up' = given_up \cup ({handle[v]} \ {NoHandle})
    BY DEF Close, RustDrop, Release, Closed
  <1>2. SubsTypeOK'
    <2>1. made \in Nat /\ handle \in [Vars -> 0 .. made] /\ NoHandle \in 0 .. made
      BY DEF SubsInv, SubsTypeOK, NoHandle
    <2>2. handle' \in [Vars -> 0 .. made]
      BY <1>1, <2>1
    <2>3. given_up' \subseteq 1 .. made
      <3>1. given_up \subseteq 1 .. made /\ {handle[v]} \ {NoHandle} \subseteq 1 .. made
        BY <2>1, HandleMade DEF SubsInv, SubsTypeOK
      <3> QED
        BY <1>1, <3>1
    <2> QED
      BY <1>1, <2>2, <2>3 DEF SubsInv, SubsTypeOK
  <1>3. PendingInv'
    BY <1>1, NothingPending DEF PendingInv
  <1>4. SubscriptionOwned'
    BY <1>1 DEF SubsInv, SubsTypeOK, SubscriptionOwned, NoHandle, NoPending
  <1> QED
    BY <1>2, <1>3, <1>4 DEF SubsInv

(* A subscription that nobody can close is one that was given up.           *)
LEMMA ForeverKeeps ==
    ASSUME SubsInv, CppSubscribeForever
    PROVE  SubsInv'
  <1>1. /\ made' = made + 1 /\ active' = active \cup {made + 1}
        /\ given_up' = given_up \cup {made + 1}
        /\ UNCHANGED <<handle, pending, locked, running, shared>>
    BY DEF CppSubscribeForever
  <1>2. SubsTypeOK'
    BY <1>1 DEF SubsInv, SubsTypeOK
  <1>3. PendingInv' /\ SubscriptionOwned'
    BY <1>1 DEF SubsInv, SubsTypeOK, PendingInv, SubscriptionOwned
  <1> QED
    BY <1>2, <1>3 DEF SubsInv

(* A callback keeps its copy: from then on the handle is shared.            *)
LEMMA KeepKeeps ==
    ASSUME SubsInv, NEW v \in Vars, CallbackKeep(v)
    PROVE  SubsInv'
  <1>1. /\ locked # NoHandle /\ handle[v] = NoHandle
        /\ handle' = [handle EXCEPT ![v] = locked]
        /\ shared' = shared \cup {locked} /\ locked' = NoHandle
        /\ UNCHANGED <<pending, made, active, running, given_up>>
    BY DEF CallbackKeep, holds_subscription
  <1>2. SubsTypeOK'
    BY <1>1 DEF SubsInv, SubsTypeOK, NoHandle
  <1>3. PendingInv'
    BY <1>1 DEF SubsInv, SubsTypeOK, PendingInv
  <1>4. SubscriptionOwned'
    BY <1>1 DEF SubsInv, SubsTypeOK, SubscriptionOwned, NoHandle
  <1> QED
    BY <1>2, <1>3, <1>4 DEF SubsInv

(* A callback begins, closes its subscription, returns or throws, or the    *)
(* server ends a stream: variables keep what they hold.                     *)
LEMMA CallbackKeeps ==
    ASSUME SubsInv,
           \/ \E h \in active : CallbackBegin(h) \/ ServerCloses(h)
           \/ CallbackClose \/ CallbackReturn \/ CallbackThrow
    PROVE  SubsInv'
  <1>1. UNCHANGED <<pending, made, handle, given_up>>
    BY DEF CallbackBegin, ServerCloses, CallbackClose, CallbackReturn, CallbackThrow
  <1>2. /\ running' \in 0 .. made /\ locked' \in {NoHandle, running'}
        /\ active' \subseteq active /\ shared \subseteq shared'
        /\ shared' \subseteq 1 .. made /\ active \subseteq active' \cup shared'
    <2>1. /\ made \in Nat /\ active \subseteq 1 .. made /\ shared \subseteq 1 .. made
          /\ running \in 0 .. made /\ locked \in {NoHandle, running}
          /\ NoHandle \in 0 .. made
          /\ 1 .. made \subseteq 0 .. made /\ NoHandle \notin active
          /\ {locked} \ {NoHandle} \subseteq 1 .. made
      <3>1. locked \in 0 .. made /\ made \in Nat
        BY DEF SubsInv, SubsTypeOK, NoHandle
      <3> QED
        BY <3>1, HandleMade DEF SubsInv, SubsTypeOK, NoHandle
    <2>2. CASE \E h \in active : CallbackBegin(h) \/ ServerCloses(h)
      BY <2>1, <2>2 DEF CallbackBegin, ServerCloses, Closed
    <2>3. CASE CallbackClose \/ CallbackReturn \/ CallbackThrow
      BY <2>1, <2>3 DEF CallbackClose, CallbackReturn, CallbackThrow, Closed
    <2> QED
      BY <2>2, <2>3
  <1>3. SubsTypeOK'
    BY <1>1, <1>2 DEF SubsInv, SubsTypeOK
  <1>4. PendingInv' /\ SubscriptionOwned'
    BY <1>1, <1>2 DEF SubsInv, PendingInv, SubscriptionOwned
  <1> QED
    BY <1>3, <1>4 DEF SubsInv

-----------------------------------------------------------------------------
(* The invariant of who holds which handle.                                 *)
THEOREM SubsInvariance == SubsSpec => []SubsInv
  <1>1. SubsInit => SubsInv
    BY DEF SubsInit, SubsInv, SubsTypeOK, PendingInv, SubscriptionOwned, NoPending,
           NoHandle
  <1>2. SubsInv /\ [SubsNext]_subVars => SubsInv'
    <2> SUFFICES ASSUME SubsInv, [SubsNext]_subVars
                 PROVE  SubsInv'
      OBVIOUS
    <2>1. \A v : v \in CppVars \/ v \in RustVars => v \in Vars
      BY DEF Vars
    <2>2. CASE UNCHANGED subVars
      BY <2>2 DEF subVars, SubsInv, SubsTypeOK, PendingInv, SubscriptionOwned
    <2> QED
      BY <2>1, <2>2, SubscribeKeeps, StoreKeeps, MovesKeep, LetGoKeeps,
         ForeverKeeps, KeepKeeps, CallbackKeeps DEF SubsNext
  <1> QED
    BY <1>1, <1>2, PTL DEF SubsSpec

(* An open subscription has an owner or was let go of on purpose, no two     *)
(* variables own the same, and what a variable holds is open until the       *)
(* variable, the server or a copy in a callback closes it: for any number of *)
(* C++ and Rust variables and of subscriptions.                              *)
THEOREM SubscriptionsAreOwned == SubsSpec => []SubscriptionOwned
  <1>1. SubsInv => SubscriptionOwned
    BY DEF SubsInv
  <1> QED
    BY <1>1, SubsInvariance, PTL
=============================================================================
