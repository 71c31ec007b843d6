----------------------------- MODULE JsonDecode -----------------------------
(***************************************************************************)
(* The JSON decoder (src/src/json_decode.c).  A buffer is a memory s and   *)
(* the indices i..e that are left of it.  The grammar is data: a parser is *)
(* a record, and parser_call interprets it.  Decoding works in two passes: *)
(* the grammar finds the extent of a value, then the value is taken apart, *)
(* and strings are unescaped in the memory that is still being parsed.     *)
(***************************************************************************)
EXTENDS ObjectValues, JsonEncode, Arena

CONSTANTS
  Texts,           \* texts that are decoded
  Beyond,          \* bytes that may follow the text in memory
  Spaces,          \* capacities of the arena they are decoded into
  FloatExp         \* largest power of ten that a double reaches, up and down

VARIABLE json      \* the last call of the decoder and what it returned

-----------------------------------------------------------------------------
\* Combinators.
Char(set) == [c |-> "char", set |-> set]

Str(str) == [c |-> "str", str |-> str]

OneOf(ps) == [c |-> "one_of", ps |-> ps]

Sequence(ps) == [c |-> "sequence", ps |-> ps]

ZeroOrMore(p) == [c |-> "zero_or_more", p |-> p]

Maybe(p) == [c |-> "maybe", p |-> p]

Nested(p) == [c |-> "nested", p |-> p]

ResultVal(type, p) == [c |-> "result_val", type |-> type, p |-> p]

IncrementCount(p) == [c |-> "increment_count", p |-> p]

\* ParseResult: the type of the value, its content s[from..to], its elements.
PARSE_RESULT_INIT == [type |-> "null", from |-> 1, to |-> 0, count |-> 0]

-----------------------------------------------------------------------------
\* The grammar.
Digit == Char(48..57)

HexDigits == Char((48..57) \cup (65..70) \cup (97..102))

PARSER_JSON_STR_ESCAPE ==
  Sequence(<<Char({BACKSLASH}),
             OneOf(<<Char({QUOTE, BACKSLASH, 47, 98, 102, 110, 114, 116}),
                     Sequence(<<Char({117}), HexDigits, HexDigits,
                                HexDigits, HexDigits>>)>>)>>)

PARSER_JSON_WHITESPACE == ZeroOrMore(Char({32, 10, 13, 9}))

PARSER_JSON_STR ==
  Sequence(<<Char({QUOTE}),
             ResultVal("str", ZeroOrMore(OneOf(<<[c |-> "codepoint"],
                                                 PARSER_JSON_STR_ESCAPE>>))),
             Char({QUOTE})>>)

PARSER_INT_PART ==
  Sequence(<<Maybe(Char({MINUS})),
             OneOf(<<Char({48}), Sequence(<<Char(49..57), ZeroOrMore(Digit)>>)>>)>>)

PARSER_FRAC_PART == Sequence(<<Char({DOT}), ZeroOrMore(Digit)>>)

PARSER_EXPONENT ==
  Sequence(<<Char({101, 69}), Maybe(Char({43, MINUS})), Digit, ZeroOrMore(Digit)>>)

PARSER_JSON_NUMBER ==
  ResultVal("number", Sequence(<<PARSER_INT_PART, Maybe(PARSER_FRAC_PART),
                                 Maybe(PARSER_EXPONENT)>>))

Value == [c |-> "value"]     \* PARSER_JSON_VALUE, which the others refer to

PARSER_JSON_OBJECT_KV ==
  Nested(Sequence(<<PARSER_JSON_STR, PARSER_JSON_WHITESPACE, Char({COLON}), Value>>))

PARSER_JSON_OBJECT ==
  Sequence(<<Char({LBRACE}), PARSER_JSON_WHITESPACE,
             ResultVal("object", Maybe(Sequence(
               <<ZeroOrMore(IncrementCount(Sequence(
                   <<PARSER_JSON_OBJECT_KV, Char({COMMA}), PARSER_JSON_WHITESPACE>>))),
                 IncrementCount(PARSER_JSON_OBJECT_KV)>>))),
             Char({RBRACE})>>)

PARSER_JSON_ARRAY ==
  Sequence(<<Char({LBRACK}), PARSER_JSON_WHITESPACE,
             ResultVal("array", Maybe(Sequence(
               <<ZeroOrMore(IncrementCount(Sequence(<<Nested(Value), Char({COMMA})>>))),
                 IncrementCount(Nested(Value))>>))),
             Char({RBRACK})>>)

PARSER_JSON_VALUE ==
  Sequence(<<PARSER_JSON_WHITESPACE,
             OneOf(<<PARSER_JSON_STR, PARSER_JSON_NUMBER, PARSER_JSON_OBJECT,
                     PARSER_JSON_ARRAY, ResultVal("true", Str(TrueText)),
                     ResultVal("false", Str(FalseText)),
                     ResultVal("null", Str(NullText))>>),
             PARSER_JSON_WHITESPACE>>)

-----------------------------------------------------------------------------
\* The interpreter.
Taken(i, out) == [ok |-> TRUE, i |-> i, out |-> out]

Failed(i, out) == [ok |-> FALSE, i |-> i, out |-> out]

parser_char_fn(set, s, i, e, out) ==
  IF i <= e /\ s[i] \in set THEN Taken(i + 1, out) ELSE Failed(i, out)

parser_str_fn(str, s, i, e, out) ==
  IF e - i + 1 >= Len(str) /\ SubSeq(s, i, i + Len(str) - 1) = str
    THEN Taken(i + Len(str), out)
    ELSE Failed(i, out)

\* Length that the first byte of a UTF-8 sequence announces; 0: not a first byte.
Utf8Len(b) ==
  CASE b \in 0..127 -> 1
    [] b \in 192..223 -> 2
    [] b \in 224..239 -> 3
    [] b \in 240..247 -> 4
    [] OTHER -> 0

parser_json_str_codepoint_fn(s, i, e, out) ==
  IF /\ i <= e
     /\ s[i] > 31 /\ s[i] \notin {QUOTE, BACKSLASH}
     /\ Utf8Len(s[i]) \in 1..(e - i + 1)
     /\ \A k \in i + 1..i + Utf8Len(s[i]) - 1 : s[k] \in 128..191
    THEN Taken(i + Utf8Len(s[i]), out)
    ELSE Failed(i, out)

\* Alternatives from the k-th on; what a failed one wrote to out stays there.
RECURSIVE parser_call(_, _, _, _, _)
RECURSIVE comb_one_of_fn(_, _, _, _, _, _)
RECURSIVE comb_sequence_fn(_, _, _, _, _, _, _)
RECURSIVE comb_zero_or_more_fn(_, _, _, _, _)
comb_one_of_fn(ps, k, s, i, e, out) ==
  IF k > Len(ps) THEN Failed(i, out)
  ELSE LET r == parser_call(ps[k], s, i, e, out)
       IN IF r.ok THEN r ELSE comb_one_of_fn(ps, k + 1, s, i, e, r.out)

comb_sequence_fn(ps, k, s, start, i, e, out) ==
  IF k > Len(ps) THEN Taken(i, out)
  ELSE LET r == parser_call(ps[k], s, i, e, out)
       IN IF r.ok THEN comb_sequence_fn(ps, k + 1, s, start, r.i, e, r.out)
                  ELSE Failed(start, r.out)

comb_zero_or_more_fn(p, s, i, e, out) ==
  LET r == parser_call(p, s, i, e, out)
  IN IF r.ok THEN comb_zero_or_more_fn(p, s, r.i, e, r.out) ELSE Taken(r.i, r.out)

comb_result_val_fn(r, type, i) ==
  IF r.ok THEN [r EXCEPT !.out.type = type, !.out.from = i, !.out.to = r.i - 1] ELSE r

comb_increment_count_fn(r) == IF r.ok THEN [r EXCEPT !.out.count = @ + 1] ELSE r

parser_call(p, s, i, e, out) ==
  CASE p.c = "char" -> parser_char_fn(p.set, s, i, e, out)
    [] p.c = "str" -> parser_str_fn(p.str, s, i, e, out)
    [] p.c = "codepoint" -> parser_json_str_codepoint_fn(s, i, e, out)
    [] p.c = "one_of" -> comb_one_of_fn(p.ps, 1, s, i, e, out)
    [] p.c = "sequence" -> comb_sequence_fn(p.ps, 1, s, i, i, e, out)
    [] p.c = "zero_or_more" -> comb_zero_or_more_fn(p.p, s, i, e, out)
    [] p.c = "maybe" -> [parser_call(p.p, s, i, e, out) EXCEPT !.ok = TRUE]
    [] p.c = "nested" -> [parser_call(p.p, s, i, e, PARSE_RESULT_INIT) EXCEPT !.out = out]
    [] p.c = "result_val" ->
         comb_result_val_fn(parser_call(p.p, s, i, e, out), p.type, i)
    [] p.c = "increment_count" -> comb_increment_count_fn(parser_call(p.p, s, i, e, out))
    [] p.c = "value" -> parser_call(PARSER_JSON_VALUE, s, i, e, out)

-----------------------------------------------------------------------------
\* Strings.
get_uint16_from_hex4(s, i) ==
  LET v(c) == CASE c \in 48..57 -> c - 48 [] c \in 65..70 -> c - 55
                [] c \in 97..102 -> c - 87
  IN 4096 * v(s[i]) + 256 * v(s[i + 1]) + 16 * v(s[i + 2]) + v(s[i + 3])

write_codepoint_utf8(cp) ==
  LET cont(k) == 128 + ((cp \div k) % 64)
  IN IF cp <= 127 THEN <<cp>>
     ELSE IF cp <= 2047 THEN <<192 + (cp \div 64), cont(1)>>
     ELSE IF cp <= 65535 THEN <<224 + (cp \div 4096), cont(64), cont(1)>>
     ELSE <<240 + (cp \div 262144), cont(4096), cont(64), cont(1)>>

\* What an escape at s[i..e] stands for and how long it is; used 0: refused.
\* The grammar has checked its characters, not its surrogates.
Bad == [bytes |-> <<>>, used |-> 0]

High == 55296..56319

Low == 56320..57343

str_conv_handle_utf16_escape(s, i, e) ==
  LET unit == get_uint16_from_hex4(s, i + 2)
      paired == i + 11 <= e /\ s[i + 6] = BACKSLASH /\ s[i + 7] = 117
      low == get_uint16_from_hex4(s, i + 8)
  IN IF unit \in Low \/ (unit \in High /\ (~paired \/ low \notin Low)) THEN Bad
     ELSE IF unit \in High
       THEN [bytes |-> write_codepoint_utf8((unit - 55296) * 1024 + (low - 56320) + 65536),
             used |-> 12]
       ELSE [bytes |-> write_codepoint_utf8(unit), used |-> 6]

str_conv_handle_escape(s, i, e) ==
  LET c == s[i + 1]
      Short == [x \in {98, 102, 110, 114, 116} |->
                  CASE x = 98 -> 8 [] x = 102 -> 12 [] x = 110 -> 10
                    [] x = 114 -> 13 [] x = 116 -> 9]
  IN IF c = 117 THEN str_conv_handle_utf16_escape(s, i, e)
     ELSE [bytes |-> <<IF c \in DOMAIN Short THEN Short[c] ELSE c>>, used |-> 2]

Overwrite(s, w, bytes) ==
  [k \in DOMAIN s |-> IF k \in w..w + Len(bytes) - 1 THEN bytes[k - w + 1] ELSE s[k]]

\* Reads at i, writes at w <= i, in the same memory.
RECURSIVE unescape_string(_, _, _, _)
unescape_string(s, i, w, e) ==
  IF i > e THEN [ok |-> TRUE, s |-> s, w |-> w]
  ELSE LET x == IF s[i] = BACKSLASH THEN str_conv_handle_escape(s, i, e)
                ELSE [bytes |-> <<s[i]>>, used |-> 1]
       IN IF x.used = 0 THEN [ok |-> FALSE, s |-> s, w |-> w]
          ELSE unescape_string(Overwrite(s, w, x.bytes), i + x.used, w + Len(x.bytes), e)

-----------------------------------------------------------------------------
\* Numbers.
IntMin == -IntMax - 1

mult_overflow_int64(a) == a > IntMax \div 10 \/ a < -((IntMax + 1) \div 10)

\* Mutant: only the multiplication is checked.
add_overflow_int64_None(a, b) == FALSE

add_overflow_int64(a, b) == IF b > 0 THEN a > IntMax - b ELSE a < IntMin - b

gg_str_to_int64(str) ==
  LET negative == str # <<>> /\ str[1] = MINUS
      digits == IF negative THEN Tail(str) ELSE str
      Step(acc, c) ==
        LET d == IF negative THEN 48 - c ELSE c - 48
        IN IF acc.err # "OK" THEN acc
           ELSE IF c \notin 48..57 THEN [acc EXCEPT !.err = "INVALID"]
           ELSE IF mult_overflow_int64(acc.n) \/ add_overflow_int64(10 * acc.n, d)
             THEN [acc EXCEPT !.err = "RANGE"]
             ELSE [acc EXCEPT !.n = 10 * acc.n + d]
  IN IF digits = <<>> THEN [err |-> "INVALID", n |-> 0]
     ELSE FoldLeft(Step, [err |-> "OK", n |-> 0], digits)

\* A float is the text of its value without trailing zeros.
RECURSIVE Float(_)
Float(txt) ==
  IF Last(txt) = 48 /\ \A k \in DOMAIN txt : txt[k] \notin {101, 69}
    THEN Float(Front(txt)) ELSE txt

\* The value of the text is zero, or a double reaches the power of ten of its first
\* digit that is not zero.
FloatInRange(txt) ==
  LET First(S) == Min({k \in DOMAIN txt : txt[k] \in S} \cup {Len(txt) + 1})
      exp == First({101, 69})
      point == Min({First({DOT}), exp})
      digit == First(49..57)
      after == SubSeq(txt, exp + 1, Len(txt))
      size == SumOf([k \in DOMAIN after |->
                IF after[k] \in 48..57 THEN (after[k] - 48) * 10^(Len(after) - k) ELSE 0])
      shift == IF after # <<>> /\ after[1] = MINUS THEN -size ELSE size
      power == (IF digit < point THEN point - digit - 1 ELSE point - digit) + shift
  IN digit < exp => power \in -FloatExp..FloatExp

\* strtod reads from s[i] on as much as makes a number: it gets no length.
strtod(s, i) ==
  LET r == parser_call(PARSER_JSON_NUMBER, s, i, Len(s), PARSE_RESULT_INIT)
      txt == SubSeq(s, i, r.i - 1)
  IN [val |-> Float(txt), erange |-> ~FloatInRange(txt)]

-----------------------------------------------------------------------------
\* Values.  d: where decoding is, the memory, the index of the arena, and the
\* object.  A string is the slice "at" of the memory, with what it holds now.
Stop(d, err) == [d EXCEPT !.err = err]

decode_json_str(d, from, to) ==
  LET u == unescape_string(d.s, from, from, to)
  IN IF ~u.ok THEN Stop([d EXCEPT !.s = u.s], "PARSE")
     ELSE [d EXCEPT !.s = u.s,
                    !.obj = gg_obj_buf(<<from, u.w - 1>>, SubSeq(u.s, from, u.w - 1))]

\* What follows the integer that was parsed.
has_frac_or_exp_part(s, int, to) ==
  LET fractional == OneOf(<<PARSER_FRAC_PART, PARSER_EXPONENT>>)
  IN parser_call(fractional, s, int.i, to, PARSE_RESULT_INIT).ok

decode_integer(d, r) == [d EXCEPT !.err = r.err, !.obj = gg_obj_i64(r.n)]

decode_float(d, f) ==
  IF f.erange THEN Stop(d, "RANGE") ELSE [d EXCEPT !.obj = gg_obj_f64(f.val)]

decode_json_number(d, from, to) ==
  LET int == parser_call(PARSER_INT_PART, d.s, from, to, PARSE_RESULT_INIT)
  IN IF has_frac_or_exp_part(d.s, int, to)
       THEN decode_float(d, strtod(d.s, from))
       ELSE decode_integer(d, gg_str_to_int64(SubSeq(d.s, from, to)))

Symbol(d, e, c) ==               \* parser_call(&PARSER_CHAR(c), ...)
  IF d.err # "OK" THEN d
  ELSE IF d.i <= e /\ d.s[d.i] = c THEN [d EXCEPT !.i = @ + 1] ELSE Stop(d, "PARSE")

\* Memory for count elements, if the object is wanted.
Elements(d, count, size) ==
  IF count = 0 \/ ~d.want THEN d
  ELSE LET ptr == gg_arena_alloc(d.capacity, d.index, count * size, 1)
       IN IF ptr = Refused THEN Stop(d, "NOMEM")
          ELSE [d EXCEPT !.index = ptr + count * size]

RECURSIVE take_json_val(_, _)
RECURSIVE decode_json_array(_, _, _, _)
RECURSIVE decode_element(_, _, _, _)
RECURSIVE decode_json_object(_, _, _, _)
RECURSIVE decode_key(_, _, _, _, _)
RECURSIVE decode_member(_, _, _, _, _)
decode_json_array(d, e, count, items) ==
  IF d.err # "OK" THEN d
  ELSE IF Len(items) = count THEN [d EXCEPT !.obj = gg_obj_list("in", items)]
  ELSE decode_element(take_json_val(d, e), e, count, items)

decode_element(v, e, count, items) ==       \* v: after take_json_val
  decode_json_array(IF Len(items) = count - 1 THEN v ELSE Symbol(v, e, COMMA),
                    e, count, Append(items, v.obj))

decode_json_object(d, e, count, pairs) ==
  IF d.err # "OK" THEN d
  ELSE IF Len(pairs) = count
    THEN [d EXCEPT !.obj = gg_obj_map("in", gg_map_canonicalize_shallow(pairs))]
  ELSE decode_key(take_json_val([d EXCEPT !.want = TRUE], e), d.want, e, count, pairs)

After(d, e) == IF d.err = "OK" THEN take_json_val(d, e) ELSE d

decode_key(k, want, e, count, pairs) ==      \* k: after take_json_val, key_obj wanted
  IF k.err # "OK" THEN k
  ELSE IF k.obj.t # "buf" THEN Stop(k, "PARSE")
  ELSE decode_member(k.obj, After(Symbol([k EXCEPT !.want = want], e, COLON), e),
                     e, count, pairs)

decode_member(key, v, e, count, pairs) ==    \* v: after the colon and its value
  IF v.err # "OK" THEN v
  ELSE decode_json_object(IF Len(pairs) = count - 1 THEN v ELSE Symbol(v, e, COMMA),
                          e, count, Append(pairs, gg_kv(key.at, key.data, v.obj)))

\* o: what the grammar found, as a value.
decode_json_val(d, o) ==
  CASE o.type = "str" -> decode_json_str(d, o.from, o.to)
    [] o.type = "number" -> decode_json_number(d, o.from, o.to)
    [] o.type = "array" ->
         decode_json_array(Elements([d EXCEPT !.i = o.from], o.count, SizeofObject),
                           o.to, o.count, <<>>)
    [] o.type = "object" ->
         decode_json_object(Elements([d EXCEPT !.i = o.from], o.count, SizeofKV),
                            o.to, o.count, <<>>)
    [] o.type = "null" -> [d EXCEPT !.obj = GG_OBJ_NULL]
    [] OTHER -> [d EXCEPT !.obj = gg_obj_bool(o.type = "true")]

Parsed(d, r) ==
  IF r.ok THEN [decode_json_val(d, r.out) EXCEPT !.i = r.i] ELSE Stop(d, "PARSE")

take_json_val(d, e) == Parsed(d, parser_call(PARSER_JSON_VALUE, d.s, d.i, e, PARSE_RESULT_INIT))

\* The strings of an object as they are in memory now.
RECURSIVE Reread(_, _)
Reread(s, o) ==
  LET str(at) == SubSeq(s, at[1], at[2])
  IN CASE o.t = "buf" -> [o EXCEPT !.data = str(o.at)]
       [] o.t = "list" -> [o EXCEPT !.items = [k \in DOMAIN @ |-> Reread(s, @[k])]]
       [] o.t = "map" -> [o EXCEPT !.pairs = [k \in DOMAIN @ |->
            [o.pairs[k] EXCEPT !.key.data = str(o.pairs[k].key.at), !.val = Reread(s, @)]]]
       [] OTHER -> o

\* Nothing may follow the value; the arena is committed only if all went well.
\* What an error leaves in the object is not for the caller to use.
Finished(d, e, index, want) ==
  LET err == IF d.err = "OK" /\ d.i <= e THEN "PARSE" ELSE d.err
      filled == err = "OK" /\ want
  IN [err |-> err, obj |-> IF filled THEN Reread(d.s, d.obj) ELSE GG_OBJ_NULL,
      index |-> IF filled THEN d.index ELSE index]

\* The text is s[1..e]; what follows it in memory is not part of it.
gg_json_decode_destructive(s, e, capacity, index, want) ==
  Finished(take_json_val([err |-> "OK", i |-> 1, s |-> s, capacity |-> capacity,
                          index |-> index, want |-> want, obj |-> GG_OBJ_NULL], e),
           e, index, want)

-----------------------------------------------------------------------------
NoCall ==
  [text |-> <<>>, beyond |-> 0, space |-> 0, want |-> FALSE, ret |-> [err |-> "none"]]

JsonInit == json = NoCall

JsonDecodeCall(text, beyond, space, want) ==
  json' = [text |-> text, beyond |-> beyond, space |-> space, want |-> want,
           ret |-> gg_json_decode_destructive(Append(text, beyond), Len(text), space, 0,
                                              want)]

JsonDecodeReturn ==
  /\ json # NoCall
  /\ json' = NoCall

JsonNext ==
  \/ /\ json = NoCall
     /\ \E text \in Texts, beyond \in Beyond, space \in Spaces, want \in BOOLEAN :
          JsonDecodeCall(text, beyond, space, want)
  \/ JsonDecodeReturn
=============================================================================
