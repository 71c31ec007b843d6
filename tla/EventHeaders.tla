---------------------------- MODULE EventHeaders ----------------------------
(***************************************************************************)
(* The headers of an event-stream packet, byte by byte: header_encode,     *)
(* the validating walk of eventstream_decode (take_header), the iteration  *)
(* that trusts it (eventstream_header_next), and                           *)
(* eventstream_get_common_headers (src/src/eventstream/encode.c, decode.c, *)
(* rpc.c).  The names :message-type, :message-flags and :stream-id are the *)
(* one-byte names 1, 2 and 3.                                              *)
(***************************************************************************)
EXTENDS Integers, Sequences

CONSTANTS
  IntBytes,       \* bytes of an int32 value: 4 in the code
  HeaderBytes,    \* byte sequences that arrive as headers
  HeaderLists     \* lists of headers that are encoded

EVENTSTREAM_INT32 == 4
EVENTSTREAM_STRING == 7

\* What header_encode takes: a name and a string whose lengths can be written.
Header ==
  {h \in [name : Seq(0..255), type : {EVENTSTREAM_INT32, EVENTSTREAM_STRING}, value : Seq(0..255)] :
     /\ Len(h.name) < 256
     /\ IF h.type = EVENTSTREAM_INT32 THEN Len(h.value) = IntBytes ELSE Len(h.value) < 65536}

ASSUME HeaderBytesAssumption == IntBytes \in Nat /\ HeaderBytes \subseteq Seq(0..255)

\* The callers of eventstream_encode give each name once.
ASSUME HeaderListsAssumption ==
  /\ HeaderLists \subseteq Seq(Header)
  /\ \A hs \in HeaderLists : \A j, k \in DOMAIN hs : hs[j].name = hs[k].name => j = k

VARIABLE headers  \* of the packet at hand: where from, the list if sent, the bytes

NoHeaders == [from |-> "none", list |-> <<>>, bytes |-> <<>>]

\* A header: name, type, value, all but the type as bytes.
header_encode(h) ==
  <<Len(h.name)>> \o h.name \o <<h.type>> \o
  (IF h.type = EVENTSTREAM_INT32 THEN h.value
   ELSE <<Len(h.value) \div 256, Len(h.value) % 256>> \o h.value)

\* The byte at i; -1 outside the headers.
ByteAt(s, i) == IF i \in DOMAIN s THEN s[i] ELSE -1

\* Mutant: the length of a string is not checked against what is left.
take_header_Trusting(s, i) ==
  LET t == i + 1 + ByteAt(s, i)
      end == CASE ByteAt(s, t) = EVENTSTREAM_INT32 -> t + 1 + IntBytes
               [] OTHER -> t + 3 + ByteAt(s, t + 1) * 256 + ByteAt(s, t + 2)
  IN IF \/ i > Len(s) \/ t + 2 > Len(s)
        \/ s[t] \notin {EVENTSTREAM_INT32, EVENTSTREAM_STRING} THEN 0
     ELSE IF end > Len(s) + 1 THEN Len(s) + 1 ELSE end

\* Where the header at i ends, checked step by step; 0: it does not fit.
take_header(s, i) ==
  LET t == i + 1 + ByteAt(s, i)                \* the type
      end == CASE ByteAt(s, t) = EVENTSTREAM_INT32 -> t + 1 + IntBytes
               [] OTHER -> t + 3 + ByteAt(s, t + 1) * 256 + ByteAt(s, t + 2)
  IN IF i > Len(s) \/ t > Len(s) \/ s[t] \notin {EVENTSTREAM_INT32, EVENTSTREAM_STRING} THEN 0
     ELSE IF s[t] = EVENTSTREAM_STRING /\ t + 2 > Len(s) THEN 0
     ELSE IF end > Len(s) + 1 THEN 0
     ELSE end

\* One turn of the loop: where it is, and how many headers it has counted.
CountTurn(s, w) ==
  IF w.at \in {0, Len(s) + 1} THEN w ELSE [at |-> take_header(s, w.at), n |-> w.n + 1]

CountTurns(s) ==
  LET turns[k \in 0..Len(s)] == IF k = 0 THEN [at |-> 1, n |-> 0] ELSE CountTurn(s, turns[k - 1])
  IN turns

count_headers(s) ==                            \* -1: GG_ERR_PARSE
  LET w == CountTurns(s)[Len(s)] IN IF w.at = 0 THEN -1 ELSE w.n

\* One header at i and where the next begins.  Nothing is checked: what lies
\* outside is read as -1.
eventstream_header_next(s, i) ==
  LET t == i + 1 + ByteAt(s, i)
      read(from, n) == [k \in 1..n |-> ByteAt(s, from + k - 1)]
      str_len == ByteAt(s, t + 1) * 256 + ByteAt(s, t + 2)
  IN IF ByteAt(s, t) = EVENTSTREAM_INT32
       THEN [h |-> [name |-> read(i + 1, ByteAt(s, i)), type |-> EVENTSTREAM_INT32,
                    value |-> read(t + 1, IntBytes)],
             next |-> t + 1 + IntBytes]
       ELSE [h |-> [name |-> read(i + 1, ByteAt(s, i)), type |-> ByteAt(s, t),
                    value |-> read(t + 3, str_len)],
             next |-> t + 3 + str_len]

\* Where each of n headers begins, and where the last one ends.
Positions(s, n) ==
  LET at[k \in 0..n] == IF k = 0 THEN 1 ELSE eventstream_header_next(s, at[k - 1]).next
  IN at

Iterate(s, n) ==
  LET at == Positions(s, n)
  IN [hs |-> [k \in 1..n |-> eventstream_header_next(s, at[k - 1]).h], end |-> at[n]]

\* The values of the three headers, <<>> standing for the default 0; a later
\* header replaces an earlier one.
eventstream_get_common_headers(hs) ==
  LET named(name) == {k \in DOMAIN hs : hs[k].name = <<name>>}
      last(name) == CHOOSE k \in named(name) : \A j \in named(name) : j <= k
      value(name) == IF named(name) = {} THEN <<>> ELSE hs[last(name)].value
  IN IF \E k \in DOMAIN hs : hs[k].name \in {<<1>>, <<2>>, <<3>>} /\ hs[k].type # EVENTSTREAM_INT32
       THEN [err |-> "INVALID"]
       ELSE [err |-> "OK", type |-> value(1), flags |-> value(2), id |-> value(3)]

\* The loop of eventstream_encode over the headers: the bytes after each.
EncodeTurns(hs) ==
  LET turns[k \in 0..Len(hs)] == IF k = 0 THEN <<>> ELSE turns[k - 1] \o header_encode(hs[k])
  IN turns

EncodedHeaders(hs) == EncodeTurns(hs)[Len(hs)]

HeadersInit == headers = NoHeaders

EncodeHeaders(hs) ==
  headers' = [from |-> "encode", list |-> hs, bytes |-> EncodedHeaders(hs)]

ReceiveHeaders(bytes) ==
  headers' = [from |-> "peer", list |-> <<>>, bytes |-> bytes]

HeadersDone == headers # NoHeaders /\ headers' = NoHeaders

HeadersNext ==
  \/ headers = NoHeaders /\ \E hs \in HeaderLists : EncodeHeaders(hs)
  \/ headers = NoHeaders /\ \E bytes \in HeaderBytes : ReceiveHeaders(bytes)
  \/ HeadersDone

HeadersSpec == HeadersInit /\ [][HeadersNext]_headers

\* Iteration over headers that eventstream_decode accepted stays inside them
\* and ends where they end: it yields headers whose encoding is exactly the
\* bytes received.  Headers written by header_encode are accepted and read
\* back, and the common headers among them have the values sent.
HeadersAgree ==
  LET s == headers.bytes
      n == count_headers(s)
      walk == Iterate(s, n)
      common == eventstream_get_common_headers(walk.hs)
      sent(name) == {headers.list[k].value : k \in {k \in DOMAIN headers.list :
                                                     headers.list[k].name = <<name>>}}
  IN /\ n >= 0 =>
          /\ walk.end = Len(s) + 1
          /\ EncodedHeaders(walk.hs) = s
     /\ headers.from = "encode" =>
          /\ n = Len(headers.list) /\ walk.hs = headers.list
          /\ common.err = "OK" =>
               /\ sent(1) \subseteq {common.type}
               /\ sent(2) \subseteq {common.flags}
               /\ sent(3) \subseteq {common.id}
=============================================================================
