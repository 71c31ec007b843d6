---------------------------- MODULE Base64Calls ----------------------------
(***************************************************************************)
(* Calls of the base64 functions, for checking what they compute.          *)
(***************************************************************************)
EXTENDS Base64

CONSTANTS
  Binaries,      \* byte sequences that are encoded
  Base64Texts    \* texts that are decoded in place

ASSUME BinaryAssumption == Binaries \subseteq Seq(0..255)

ASSUME Base64TextAssumption == Base64Texts \subseteq Seq(0..255)

VARIABLE base64  \* the last call and what it left

Base64Idle == [op |-> "none", ok |-> TRUE, from |-> <<>>, to |-> <<>>]

Base64Init == base64 = Base64Idle

Base64Encode(buf) ==
  base64' = [op |-> "encode", ok |-> TRUE, from |-> buf, to |-> gg_base64_encode(buf)]

Base64Decode(text) ==
  LET r == gg_base64_decode_in_place(text)
  IN base64' = [op |-> "decode", ok |-> r.ok, from |-> text, to |-> r.data]

Base64Return == base64 # Base64Idle /\ base64' = Base64Idle

Base64Next ==
  \/ base64 = Base64Idle /\ \E buf \in Binaries : Base64Encode(buf)
  \/ base64 = Base64Idle /\ \E text \in Base64Texts : Base64Decode(text)
  \/ Base64Return

\* What gg_base64_encode writes is decoded to the same bytes by
\* gg_base64_decode_in_place, although it overwrites the text that it reads, and
\* nothing else is accepted: a text that decodes is the encoding of what it
\* decodes to, so two texts never stand for the same payload.
Base64Exact ==
  /\ base64.op = "encode" =>
       LET d == gg_base64_decode_in_place(base64.to)
       IN d.ok /\ d.data = base64.from
  /\ base64.op = "decode" /\ base64.ok => gg_base64_encode(base64.to) = base64.from
=============================================================================
