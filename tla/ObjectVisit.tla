---------------------------- MODULE ObjectVisit ----------------------------
(***************************************************************************)
(* gg_obj_visit (src/src/object_visit.c) and the functions that are sets   *)
(* of handlers for it: gg_arena_claim_obj, gg_arena_claim_obj_bufs,        *)
(* gg_obj_mem_usage, gg_obj_canonicalize, gg_obj_is_canonical and          *)
(* gg_json_encode.  The visit is a loop over an explicit stack of fixed    *)
(* depth; an action is one turn of it.                                     *)
(***************************************************************************)
EXTENDS JsonDecode

CONSTANTS
  MaxDepth,        \* GG_MAX_OBJECT_DEPTH
  MaxSubobjects,   \* GG_MAX_OBJECT_SUBOBJECTS
  Objs,            \* the objects that are visited
  Capacities       \* capacities of the arena, or of the output, of a visit; 0
                   \* is also what a NULL arena amounts to

ASSUME LimitsAssumption == {MaxDepth, MaxSubobjects} \subseteq Nat \ {0}

VARIABLES
  handlers,     \* which function runs the visit; "none": no visit
  input,        \* the object as it was given
  root,         \* the object now
  levels,       \* IterLevels: per level its state and elem_index
  subobjects,   \* elements of lists and maps seen so far
  ctx,          \* of the handlers: index of the arena or bytes written
  result        \* GgError, "none" while the visit runs

visitVars == <<handlers, input, root, levels, subobjects, ctx, result>>

Handlers == {"claim_obj", "claim_obj_bufs", "mem_usage", "canonicalize",
             "is_canonical", "json_encode"}

VisitInit ==
  /\ handlers = "none"
  /\ input = GG_OBJ_NULL
  /\ root = GG_OBJ_NULL
  /\ levels = <<>>
  /\ subobjects = 0
  /\ ctx = [capacity |-> 0, index |-> 0, out |-> <<>>]
  /\ result = "none"

-----------------------------------------------------------------------------
\* Handlers: from an object and the context to the error, the object and the
\* context they leave.
Same(o) == [err |-> "OK", obj |-> o, ctx |-> ctx]

gg_arena_claim_buf(b) ==       \* b: anything with a location and data
  LET ptr == gg_arena_alloc(ctx.capacity, ctx.index, Len(b.data), 1)
  IN IF b.at = "in" THEN Same(b)
     ELSE IF b.data = <<>> THEN Same([b EXCEPT !.at = "null"])
     ELSE IF ptr = Refused THEN [Same(b) EXCEPT !.err = "NOMEM"]
     ELSE [err |-> "OK", obj |-> [b EXCEPT !.at = "in"],
           ctx |-> [ctx EXCEPT !.index = ptr + Len(b.data)]]

Elems(o) == IF o.t = "list" THEN o.items ELSE o.pairs

Sizeof(o) == IF o.t = "list" THEN SizeofObject ELSE SizeofKV

claim_elems(o) ==              \* claim_list and claim_map
  LET size == Len(Elems(o)) * Sizeof(o)
      ptr == gg_arena_alloc(ctx.capacity, ctx.index, size, 1)
  IN IF o.at = "in" THEN Same(o)
     ELSE IF Elems(o) = <<>> THEN Same([o EXCEPT !.at = "null"])
     ELSE IF ptr = Refused THEN [Same(o) EXCEPT !.err = "NOMEM"]
     ELSE [err |-> "OK", obj |-> [o EXCEPT !.at = "in"],
           ctx |-> [ctx EXCEPT !.index = ptr + size]]

Measured(o, n) == [Same(o) EXCEPT !.ctx.index = @ + n]

gg_byte_vec_append(o, bytes) ==
  IF ctx.capacity - Len(ctx.out) < Len(bytes) THEN [Same(o) EXCEPT !.err = "NOMEM"]
  ELSE [Same(o) EXCEPT !.ctx.out = @ \o bytes]

json_encode_on_scalar(o) ==
  CASE o.t = "null" -> gg_byte_vec_append(o, NullText)
    [] o.t = "bool" -> gg_byte_vec_append(o, IF o.b THEN TrueText ELSE FalseText)
    [] o.t = "i64" -> LET x == json_encode_on_i64(o.n)
                      IN IF x.err # "OK" THEN [Same(o) EXCEPT !.err = x.err]
                         ELSE gg_byte_vec_append(o, x.bytes)
    [] o.t = "f64" -> gg_byte_vec_append(o, json_encode_on_f64(o.txt))
    [] o.t = "buf" -> gg_byte_vec_append(o, json_encode_on_buf(o.data))

OnScalar(o) ==
  CASE handlers \in {"claim_obj", "claim_obj_bufs"} /\ o.t = "buf" -> gg_arena_claim_buf(o)
    [] handlers = "mem_usage" /\ o.t = "buf" -> Measured(o, Len(o.data))
    [] handlers = "json_encode" -> json_encode_on_scalar(o)
    [] OTHER -> Same(o)

OnElems(o) ==                  \* on_list, on_map
  CASE handlers = "claim_obj" -> claim_elems(o)
    [] handlers = "mem_usage" -> Measured(o, Len(Elems(o)) * Sizeof(o))
    [] handlers = "canonicalize" /\ o.t = "map" ->
         Same([o EXCEPT !.pairs = gg_map_canonicalize_shallow(@)])
    [] handlers = "is_canonical" /\ o.t = "map" ->
         [Same(o) EXCEPT !.err = IF gg_map_is_canonical(o.pairs) THEN "OK" ELSE "FAILURE"]
    [] handlers = "json_encode" ->
         gg_byte_vec_append(o, IF o.t = "list" THEN <<LBRACK>> ELSE <<LBRACE>>)
    [] OTHER -> Same(o)

\* cont_list; cont_map and on_map_key: what precedes the k-th element.
JsonBefore(o, k) ==
  (IF k = 1 THEN <<>> ELSE <<COMMA>>) \o
  (IF o.t = "list" THEN <<>> ELSE json_encode_on_buf(o.pairs[k].key.data) \o <<COLON>>)

\* Mutant: the keys of a map are not claimed.
BeforeElem_NoKey(o, k) ==
  CASE handlers = "mem_usage" /\ o.t = "map" -> Measured(o, Len(o.pairs[k].key.data))
    [] handlers = "json_encode" -> gg_byte_vec_append(o, JsonBefore(o, k))
    [] OTHER -> Same(o)

BeforeElem(o, k) ==
  CASE handlers \in {"claim_obj", "claim_obj_bufs"} /\ o.t = "map" ->
         LET r == gg_arena_claim_buf(o.pairs[k].key)
         IN [r EXCEPT !.obj = [o EXCEPT !.pairs[k].key = r.obj]]
    [] handlers = "mem_usage" /\ o.t = "map" -> Measured(o, Len(o.pairs[k].key.data))
    [] handlers = "json_encode" -> gg_byte_vec_append(o, JsonBefore(o, k))
    [] OTHER -> Same(o)

AfterElems(o) ==               \* end_list, end_map
  IF handlers = "json_encode"
    THEN gg_byte_vec_append(o, IF o.t = "list" THEN <<RBRACK>> ELSE <<RBRACE>>)
    ELSE Same(o)

-----------------------------------------------------------------------------
\* The object of the k-th level: elem_index was advanced when it was entered.
RECURSIVE At(_, _, _)
At(o, ls, k) ==
  IF k = 1 THEN o
  ELSE LET e == Elems(o)[ls[1].elem_index]
       IN At(IF o.t = "list" THEN e ELSE e.val, Tail(ls), k - 1)

RECURSIVE Put(_, _, _, _)
Put(o, ls, k, new) ==
  LET n == ls[1].elem_index
  IN IF k = 1 THEN new
     ELSE IF o.t = "list" THEN [o EXCEPT !.items[n] = Put(@, Tail(ls), k - 1, new)]
     ELSE [o EXCEPT !.pairs[n].val = Put(@, Tail(ls), k - 1, new)]

cur == At(root, levels, Len(levels))

Visiting(state) == handlers # "none" /\ result = "none" /\ Last(levels).state = state

Leave(ls) == IF Len(ls) = 1 THEN ls ELSE Front(ls)

\* A handler has run: store what it left, and go on at "next" or return.
Apply(r, next, done) ==
  /\ root' = Put(root, levels, Len(levels), r.obj)
  /\ ctx' = r.ctx
  /\ IF r.err # "OK" THEN UNCHANGED levels /\ result' = r.err
     ELSE levels' = next /\ result' = IF done THEN "OK" ELSE "none"
  /\ UNCHANGED <<handlers, input>>

VisitBegin(h, o, capacity) ==
  /\ handlers' = h
  /\ input' = o
  /\ root' = o
  /\ levels' = <<[state |-> "default", elem_index |-> 0]>>
  /\ subobjects' = 0
  /\ ctx' = [capacity |-> capacity, index |-> 0, out |-> <<>>]
  /\ result' = "none"

VisitScalar ==
  /\ Visiting("default")
  /\ cur.t \notin {"list", "map"}
  /\ Apply(OnScalar(cur), Leave(levels), Len(levels) = 1)
  /\ UNCHANGED subobjects

Count(o) == IF o.t = "list" THEN Len(o.items) ELSE 2 * Len(o.pairs)

\* Mutant: a list or map that reaches the limit exactly is refused.
TooMany_AtLimit(o) ==
  Len(Elems(o)) >= (MaxSubobjects - subobjects) \div (IF o.t = "list" THEN 1 ELSE 2)

TooMany(o) ==
  Len(Elems(o)) > (MaxSubobjects - subobjects) \div (IF o.t = "list" THEN 1 ELSE 2)

VisitEnter ==
  /\ Visiting("default")
  /\ cur.t \in {"list", "map"}
  /\ ~TooMany(cur)
  /\ subobjects' = subobjects + Count(cur)
  /\ Apply(OnElems(cur), [levels EXCEPT ![Len(levels)].state = "elems"], FALSE)

VisitElem ==
  LET k == Last(levels).elem_index + 1
      next == Append([levels EXCEPT ![Len(levels)].elem_index = k],
                     [state |-> "default", elem_index |-> 0])
  IN /\ Visiting("elems")
     /\ k <= Len(Elems(cur))
     /\ LET r == BeforeElem(cur, k)
        IN IF r.err = "OK" /\ Len(levels) = MaxDepth
             THEN Apply([r EXCEPT !.err = "RANGE"], levels, FALSE)
             ELSE Apply(r, next, FALSE)
     /\ UNCHANGED subobjects

VisitEnd ==
  /\ Visiting("elems")
  /\ Last(levels).elem_index = Len(Elems(cur))
  /\ Apply(AfterElems(cur), Leave(levels), Len(levels) = 1)
  /\ UNCHANGED subobjects

VisitTooMany ==
  /\ Visiting("default")
  /\ cur.t \in {"list", "map"}
  /\ TooMany(cur)
  /\ result' = "RANGE"
  /\ UNCHANGED <<handlers, input, root, levels, subobjects, ctx>>

VisitReturn ==
  /\ result # "none"
  /\ handlers' = "none"
  /\ input' = GG_OBJ_NULL
  /\ root' = GG_OBJ_NULL
  /\ levels' = <<>>
  /\ subobjects' = 0
  /\ ctx' = [capacity |-> 0, index |-> 0, out |-> <<>>]
  /\ result' = "none"

VisitNext ==
  \/ /\ handlers = "none"
     /\ \E h \in Handlers, o \in Objs, c \in Capacities : VisitBegin(h, o, c)
  \/ VisitScalar
  \/ VisitEnter
  \/ VisitTooMany
  \/ VisitElem
  \/ VisitEnd
  \/ VisitReturn
=============================================================================
