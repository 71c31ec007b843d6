-------------------------- MODULE ObjectProperties --------------------------
(***************************************************************************)
(* What a visit, its handlers and the JSON codec promise, stated against   *)
(* definitions that do not look at how they work: recursion over the       *)
(* structure of an object, and JSON as the set of texts that have a        *)
(* meaning.                                                                *)
(***************************************************************************)
EXTENDS ObjectVisit, FiniteSets

RECURSIVE Depth(_)
Depth(o) ==
  LET below == {Depth(Children(o)[k]) : k \in DOMAIN Children(o)}
  IN 1 + (IF below = {} THEN 0 ELSE CHOOSE d \in below : \A x \in below : x <= d)

RECURSIVE Subobjects(_)
Subobjects(o) ==
  (IF o.t \in {"list", "map"} THEN Count(o) ELSE 0) +
  SumOf([k \in DOMAIN Children(o) |-> Subobjects(Children(o)[k])])

TooBig(o) == Depth(o) > MaxDepth \/ Subobjects(o) > MaxSubobjects

\* Nothing that the object reaches is outside the arena; with bufsOnly, no bytes.
RECURSIVE Inside(_, _)
Inside(o, bufsOnly) ==
  /\ o.t = "buf" \/ (o.t \in {"list", "map"} /\ ~bufsOnly) => o.at # "out"
  /\ o.t = "map" => \A k \in DOMAIN o.pairs : o.pairs[k].key.at # "out"
  /\ \A k \in DOMAIN Children(o) : Inside(Children(o)[k], bufsOnly)

\* gg_arena_claim_obj never changes the value of an object, needs at most what
\* gg_obj_mem_usage measures, also when it fails half way, does not fail when
\* that much is free, and leaves nothing outside the arena; claim_obj_bufs does
\* the same for buffers.  gg_obj_mem_usage measures exactly that amount.
ClaimIsComplete ==
  /\ handlers \in {"claim_obj", "claim_obj_bufs"} =>
       /\ Erase(root) = Erase(input)
       /\ ctx.index <= MemUsage(input)
       /\ result = "OK" => Inside(root, handlers = "claim_obj_bufs")
       /\ result = "NOMEM" => ctx.capacity < MemUsage(input)
  /\ handlers = "mem_usage" /\ result = "OK" => ctx.index = MemUsage(input)

\* The fixed stack and the counter of gg_obj_visit are exact: a visit refuses
\* an object only if it is too deep or has too many elements, and a visit that
\* succeeded has seen an object that is neither.
VisitLimitsExact ==
  /\ result = "RANGE" => TooBig(input)
  /\ result = "OK" => ~TooBig(root)
  /\ Len(levels) <= MaxDepth

LexLess(l, r) ==
  \/ Len(l) < Len(r) /\ l = SubSeq(r, 1, Len(l))
  \/ \E i \in DOMAIN l \cap DOMAIN r :
       l[i] < r[i] /\ SubSeq(l, 1, i - 1) = SubSeq(r, 1, i - 1)

RECURSIVE Canonical(_)
Canonical(o) ==
  LET keys == {o.pairs[k].key.data : k \in DOMAIN o.pairs}
      first(key) == o.pairs[CHOOSE k \in Matches(o.pairs, key) :
                              \A j \in Matches(o.pairs, key) : k <= j]
  IN CASE o.t = "list" -> [o EXCEPT !.items = [k \in DOMAIN @ |-> Canonical(@[k])]]
       [] o.t = "map" -> [o EXCEPT !.pairs =
            [k \in 1..Cardinality(keys) |->
               LET p == first(SetToSortSeq(keys, LexLess)[k])
               IN [p EXCEPT !.val = Canonical(@)]]]
       [] OTHER -> o

\* gg_obj_canonicalize leaves every map of the object sorted and with the first
\* of each key, although pruning moves pairs around, and
\* gg_obj_is_canonical accepts exactly the objects it would leave alone.
CanonicalKeepsFirst ==
  /\ handlers = "canonicalize" /\ result = "OK" => root = Canonical(input)
  /\ handlers = "is_canonical" /\ result = "OK" => input = Canonical(input)
  /\ handlers = "is_canonical" /\ result = "FAILURE" => input # Canonical(input)

\* What gg_json_encode writes is JSON with the value of the object, which
\* gg_json_decode_destructive reads back in canonical form; encoding does not
\* fail when there is room for the text.
JsonRoundTrip ==
  handlers = "json_encode" =>
    /\ result = "OK" =>
         LET d == gg_json_decode_destructive(ctx.out, Len(ctx.out), Len(ctx.out) * SizeofKV, 0,
                                              TRUE)
         IN d.err = "OK" /\ Erase(d.obj) = Erase(Canonical(input))
    /\ result = "NOMEM" => ctx.capacity < 6 * (MemUsage(input) + 2)
-----------------------------------------------------------------------------
\* JSON, as in RFC 8259 except that no digit is needed after the point of a
\* number: the set of values that a text stands for.
Rest(s, k) == SubSeq(s, k, Len(s))

Trim(s) ==
  LET solid == {k \in DOMAIN s : s[k] \notin {32, 10, 13, 9}}
      first == CHOOSE k \in solid : \A j \in solid : k <= j
      last == CHOOSE k \in solid : \A j \in solid : k >= j
  IN IF solid = {} THEN <<>> ELSE SubSeq(s, first, last)

AllDigits(s) == \A k \in DOMAIN s : s[k] \in 48..57

IsInt(s) ==
  LET u == IF s # <<>> /\ s[1] = MINUS THEN Tail(s) ELSE s
  IN u # <<>> /\ AllDigits(u) /\ (u[1] = 48 => Len(u) = 1)

IsFrac(s) == s = <<>> \/ (s[1] = DOT /\ AllDigits(Tail(s)))

IsExp(s) ==
  \/ s = <<>>
  \/ /\ Len(s) >= 2 /\ s[1] \in {101, 69}
     /\ LET u == IF s[2] \in {43, MINUS} THEN Rest(s, 3) ELSE Tail(s)
        IN u # <<>> /\ AllDigits(u)

IsFloat(s) ==
  \E a \in 1..Len(s) : \E b \in a..Len(s) :
    /\ a < Len(s)
    /\ IsInt(SubSeq(s, 1, a)) /\ IsFrac(SubSeq(s, a + 1, b)) /\ IsExp(Rest(s, b + 1))

IntOf(s) ==
  LET u == IF s[1] = MINUS THEN Tail(s) ELSE s
      n == SumOf([k \in DOMAIN u |-> (u[k] - 48) * 10^(Len(u) - k)])
  IN IF s[1] = MINUS THEN -n ELSE n

NumberMeaning(s) ==
  (IF IsInt(s) /\ IntOf(s) \in IntMin..IntMax THEN {gg_obj_i64(IntOf(s))} ELSE {}) \cup
  (IF IsFloat(s) /\ FloatInRange(s) THEN {gg_obj_f64(Float(s))} ELSE {})

\* The bytes that one character or escape of a string stands for.
UnitMeaning(p) ==
  LET n == Len(p)
      escape == p[1] = BACKSLASH
      unicode(k) == /\ p[k] = BACKSLASH /\ p[k + 1] = 117
                    /\ \A j \in k + 2..k + 5 : p[j] \in HexDigits.set
      unit(k) == get_uint16_from_hex4(p, k + 2)
  IN IF ~escape
       THEN IF p[1] >= 32 /\ p[1] # QUOTE /\ Utf8Len(p[1]) = n /\ (\A j \in 2..n : p[j] \in 128..191)
              THEN {p} ELSE {}
     ELSE IF n = 2 THEN
       CASE p[2] \in {QUOTE, BACKSLASH, 47} -> {<<p[2]>>}
         [] p[2] = 98 -> {<<8>>} [] p[2] = 102 -> {<<12>>} [] p[2] = 110 -> {<<10>>}
         [] p[2] = 114 -> {<<13>>} [] p[2] = 116 -> {<<9>>}
         [] OTHER -> {}
     ELSE IF n = 6 /\ unicode(1)
       THEN IF unit(1) \in High \cup Low THEN {} ELSE {write_codepoint_utf8(unit(1))}
     ELSE IF n = 12 /\ unicode(1) /\ unicode(7)
       THEN IF unit(1) \in High /\ unit(7) \in Low
              THEN {write_codepoint_utf8(65536 + (unit(1) % 1024) * 1024 + (unit(7) % 1024))}
              ELSE {}
     ELSE {}

RECURSIVE StringMeaning(_)
StringMeaning(s) ==
  IF s = <<>> THEN {<<>>}
  ELSE UNION {{u \o r : u \in UnitMeaning(SubSeq(s, 1, k)), r \in StringMeaning(Rest(s, k + 1))} :
                k \in {k \in {1, 2, 3, 4, 6, 12} : k <= Len(s) /\ UnitMeaning(SubSeq(s, 1, k)) # {}}}

Quoted(s) ==
  IF Len(s) >= 2 /\ s[1] = QUOTE /\ s[Len(s)] = QUOTE
    THEN StringMeaning(SubSeq(s, 2, Len(s) - 1)) ELSE {}

Marks(s, c) == {k \in DOMAIN s : s[k] = c}

RECURSIVE Meaning(_), Items(_), Pairs(_)
Items(s) ==
  {<<v>> : v \in Meaning(s)} \cup
  UNION {{<<v>> \o r : v \in Meaning(SubSeq(s, 1, k - 1)), r \in Items(Rest(s, k + 1))} :
           k \in Marks(s, COMMA)}

Pairs(s) ==
  LET Pair(u) == UNION {{gg_kv("in", key, v) : key \in Quoted(Trim(SubSeq(u, 1, k - 1))),
                                               v \in Meaning(Rest(u, k + 1))} :
                          k \in Marks(u, COLON)}
  IN {<<p>> : p \in Pair(s)} \cup
     UNION {{<<p>> \o r : p \in Pair(SubSeq(s, 1, k - 1)), r \in Pairs(Rest(s, k + 1))} :
              k \in Marks(s, COMMA)}

Meaning(text) ==
  LET s == Trim(text)
      n == Len(s)
      body == SubSeq(s, 2, n - 1)
      Between(l, r) == n >= 2 /\ s[1] = l /\ s[n] = r
  IN CASE s = TrueText -> {gg_obj_bool(TRUE)}
       [] s = FalseText -> {gg_obj_bool(FALSE)}
       [] s = NullText -> {GG_OBJ_NULL}
       [] Between(QUOTE, QUOTE) -> {gg_obj_buf("in", b) : b \in Quoted(s)}
       [] Between(LBRACK, RBRACK) ->
            {gg_obj_list("in", v) : v \in IF Trim(body) = <<>> THEN {<<>>} ELSE Items(body)}
       [] Between(LBRACE, RBRACE) ->
            {gg_obj_map("in", v) : v \in IF Trim(body) = <<>> THEN {<<>>} ELSE Pairs(body)}
       [] OTHER -> NumberMeaning(s)

\* The text ends in a float, and the byte after it in memory is one more digit.
RunsOn(text, beyond) ==
  text # <<>> /\ IsFloat(Trim(text)) /\ Last(text) = Last(Trim(text)) /\ beyond \in 48..57

\* What the decoder returned is what the text means.
Means(text, want, space, r) ==
  LET m == {Erase(Canonical(v)) : v \in Meaning(text)}
  IN /\ r.err = "OK" => IF want THEN m = {Erase(r.obj)} ELSE m # {}
     /\ r.err \in {"PARSE", "RANGE", "INVALID"} => m = {}
     /\ r.err = "NOMEM" => want /\ space < SizeofKV * Len(text) /\ r.index = 0

\* gg_json_decode_destructive accepts exactly the texts that have a meaning (with
\* integers and floats in range) and returns it in canonical form, although the
\* grammar is tried with limited backtracking and strings are unescaped in the
\* memory that is still being parsed; without an object to fill in, it accepts the
\* same texts.  It runs out of memory only in a small arena, and then takes nothing
\* from it.  A text that is nothing but a float is excepted if a digit follows it
\* in memory: decode_json_number hands it to strtod without its length.
JsonMeaning ==
  RunsOn(json.text, json.beyond) \/ Means(json.text, json.want, json.space, json.ret)
=============================================================================
