--------------------------- MODULE ObjectValues ---------------------------
(***************************************************************************)
(* Canonical maps (src/src/map_canonical.c), and what an object means.     *)
(***************************************************************************)
EXTENDS Objects, SequencesExt

CONSTANTS
  SizeofObject,   \* sizeof(GgObject)
  SizeofKV        \* sizeof(GgKV)

-----------------------------------------------------------------------------
\* Canonical maps.
is_key_less(l, r) ==
  LET n == IF Len(l) > Len(r) THEN Len(r) ELSE Len(l)
      differ == {i \in 1..n : l[i] # r[i]}
  IN IF differ = {} THEN Len(l) < Len(r)
     ELSE LET i == CHOOSE i \in differ : \A j \in differ : i <= j
          IN l[i] < r[i]

\* A pair that is not the first with its key is replaced by the last pair.
RECURSIVE prune_duplicates(_, _)
prune_duplicates(pairs, i) ==
  IF i = 0 THEN pairs
  ELSE IF gg_map_get(pairs, pairs[i].key.data) = i
    THEN prune_duplicates(pairs, i - 1)
    ELSE prune_duplicates(Front([pairs EXCEPT ![i] = Last(pairs)]), i - 1)

RECURSIVE InsertKey(_, _)          \* one round of the insertion sort
InsertKey(pairs, j) ==
  IF j > 1 /\ is_key_less(pairs[j].key.data, pairs[j - 1].key.data)
    THEN InsertKey([pairs EXCEPT ![j] = pairs[j - 1], ![j - 1] = pairs[j]], j - 1)
    ELSE pairs

sort_keys(pairs) ==
  FoldLeftDomain(LAMBDA acc, i : InsertKey(acc, i), pairs, pairs)

gg_map_canonicalize_shallow(pairs) ==
  sort_keys(prune_duplicates(pairs, Len(pairs)))

gg_map_is_canonical(pairs) ==
  \A i \in 2..Len(pairs) : is_key_less(pairs[i - 1].key.data, pairs[i].key.data)

-----------------------------------------------------------------------------
\* What an object means, by its structure: its value without the locations,
\* and the memory that it takes outside the object itself.
RECURSIVE Erase(_)               \* an object without its locations
Erase(o) ==
  CASE o.t = "buf" -> [t |-> "buf", data |-> o.data]
    [] o.t = "list" -> [t |-> "list", items |-> [k \in DOMAIN o.items |-> Erase(o.items[k])]]
    [] o.t = "map" -> [t |-> "map", pairs |->
         [k \in DOMAIN o.pairs |-> <<o.pairs[k].key.data, Erase(o.pairs[k].val)>>]]
    [] OTHER -> o

Children(o) ==
  CASE o.t = "list" -> o.items
    [] o.t = "map" -> [k \in DOMAIN o.pairs |-> o.pairs[k].val]
    [] OTHER -> <<>>

SumOf(seq) == FoldLeft(LAMBDA x, y : x + y, 0, seq)

RECURSIVE MemUsage(_)
MemUsage(o) ==
  SumOf([k \in DOMAIN Children(o) |-> MemUsage(Children(o)[k])]) +
  CASE o.t = "buf" -> Len(o.data)
    [] o.t = "list" -> SizeofObject * Len(o.items)
    [] o.t = "map" -> SizeofKV * Len(o.pairs) +
         SumOf([k \in DOMAIN o.pairs |-> Len(o.pairs[k].key.data)])
    [] OTHER -> 0
=============================================================================
