------------------------------ MODULE Objects ------------------------------
(***************************************************************************)
(* Generic objects, and looking into lists and maps (src/src/object.c,     *)
(* map.c, list.c).                                                         *)
(*                                                                         *)
(* An object is a record.  Buffers, lists and maps say in "at" where their *)
(* memory is: inside the arena, outside of it, or nowhere (NULL).          *)
(***************************************************************************)
EXTENDS Integers, Sequences

-----------------------------------------------------------------------------
\* Constructors.
GG_OBJ_NULL == [t |-> "null"]

gg_obj_bool(b) == [t |-> "bool", b |-> b]

gg_obj_i64(n) == [t |-> "i64", n |-> n]

gg_obj_f64(txt) == [t |-> "f64", txt |-> txt]

gg_obj_buf(at, data) == [t |-> "buf", at |-> at, data |-> data]

gg_obj_list(at, items) == [t |-> "list", at |-> at, items |-> items]

gg_obj_map(at, pairs) == [t |-> "map", at |-> at, pairs |-> pairs]

gg_kv(at, data, val) == [key |-> [at |-> at, data |-> data], val |-> val]

-----------------------------------------------------------------------------
\* Maps.  A map is the sequence of its pairs.
Matches(pairs, key) == {i \in DOMAIN pairs : pairs[i].key.data = key}

\* Mutant: the last match.
gg_map_get_Last(pairs, key) ==
  IF Matches(pairs, key) = {} THEN 0
  ELSE CHOOSE i \in Matches(pairs, key) : \A j \in Matches(pairs, key) : i >= j

\* Index of the first pair with this key; 0 if there is none.
gg_map_get(pairs, key) ==
  IF Matches(pairs, key) = {} THEN 0
  ELSE CHOOSE i \in Matches(pairs, key) : \A j \in Matches(pairs, key) : i <= j

\* schema: a sequence of [key, required, type]; "null" stands for any type.
\* The first entry that is not met decides the result.
gg_map_validate(pairs, schema) ==
  LET found(e) == gg_map_get(pairs, e.key)
      Check(e) ==
        IF found(e) = 0
          THEN IF e.required = "required" THEN "NOENTRY" ELSE "OK"
          ELSE IF \/ e.required = "missing"
                  \/ e.type \notin {"null", pairs[found(e)].val.t}
                 THEN "PARSE"
                 ELSE "OK"
      bad == {k \in DOMAIN schema : Check(schema[k]) # "OK"}
  IN IF bad = {} THEN "OK"
     ELSE Check(schema[CHOOSE k \in bad : \A j \in bad : k <= j])

gg_list_type_check(items, type) ==
  IF \A i \in DOMAIN items : items[i].t = type THEN "OK" ELSE "PARSE"
=============================================================================
