------------------------------- MODULE Arena -------------------------------
(***************************************************************************)
(* The arena allocator (src/src/arena.c): a buffer of fixed capacity and   *)
(* an index below which everything is handed out.  Pointers are offsets    *)
(* into the buffer, whose start is assumed to be aligned.                  *)
(***************************************************************************)
EXTENDS Integers, Sequences

CONSTANTS
  Capacity,   \* capacity of the arena, in bytes
  Aligns,     \* alignments that callers ask for
  MaxBlocks   \* bound: allocations made from one arena

ASSUME CapacityAssumption == Capacity \in Nat
ASSUME AlignsAssumption == Aligns \subseteq {1, 2, 4, 8, 16}
ASSUME MaxBlocksAssumption == MaxBlocks \in Nat

VARIABLES
  arena_index,   \* arena->index
  blocks,        \* history: what was allocated, in order, with its current size
  newest,        \* history: the block that was handed out or resized last, 0: none
  misused        \* history: a resize of another block, with a wrong size, passed

arenaVars == <<arena_index, blocks, newest, misused>>

Blocks == [ptr : 0..Capacity, size : 0..Capacity, align : Aligns]

Refused == -1    \* the NULL that gg_arena_alloc returns

ArenaInit ==     \* gg_arena_init
  /\ arena_index = 0
  /\ blocks = <<>>
  /\ newest = 0
  /\ misused = FALSE

Padding(index, align) == (align - (index % align)) % align

\* Where gg_arena_alloc puts a block, or Refused.
gg_arena_alloc(capacity, index, size, align) ==
  LET pad == Padding(index, align)
  IN IF pad > capacity - index \/ size > capacity - (index + pad)
       THEN Refused
       ELSE index + pad

Alloc(size, align) ==
  LET ptr == gg_arena_alloc(Capacity, arena_index, size, align)
  IN /\ Len(blocks) < MaxBlocks
     /\ ptr # Refused
     /\ arena_index' = ptr + size
     /\ blocks' = Append(blocks, [ptr |-> ptr, size |-> size, align |-> align])
     /\ newest' = Len(blocks) + 1
     /\ UNCHANGED misused

\* Mutant: the size need not match exactly.
Resizable_Any(ptr, old_size) ==
  ptr < Capacity /\ ptr <= arena_index /\ arena_index - ptr >= old_size

\* The checks of gg_arena_resize_last: owned, allocated, and what the caller says
\* the size is takes ptr to the index.
Resizable(ptr, old_size) ==
  /\ ptr < Capacity
  /\ ptr <= arena_index
  /\ arena_index - ptr = old_size

\* The caller names any block it ever got, and any old size.  The last block
\* with its size, or another block with its size, is what arena.h asks for or
\* comes to the same; another block with a wrong size is not.
ResizeLast(k, old_size, size) ==
  /\ Resizable(blocks[k].ptr, old_size)
  /\ size <= Capacity - blocks[k].ptr
  /\ arena_index' = blocks[k].ptr + size
  /\ blocks' = [blocks EXCEPT ![k].size = size]
  /\ newest' = k
  /\ misused' = (misused \/ (k # newest /\ old_size # blocks[k].size))

AllocRest ==     \* gg_arena_alloc_rest
  Alloc(Capacity - arena_index, 1)

Reset ==         \* the owner of the buffer initialises a new arena over it
  /\ blocks # <<>>
  /\ arena_index' = 0
  /\ blocks' = <<>>
  /\ newest' = 0
  /\ misused' = FALSE

ArenaNext ==
  \/ \E size \in 0..Capacity, align \in Aligns : Alloc(size, align)
  \/ \E k \in DOMAIN blocks, old_size, size \in 0..Capacity :
       ResizeLast(k, old_size, size)
  \/ 1 \in Aligns /\ AllocRest
  \/ Reset

ArenaSpec == ArenaInit /\ [][ArenaNext]_arenaVars

-----------------------------------------------------------------------------
ArenaTypeOK ==
  /\ arena_index \in 0..Capacity
  /\ blocks \in Seq(Blocks)
  /\ newest \in 0..Len(blocks)
  /\ misused \in BOOLEAN

Disjoint(a, b) ==
  \/ a.size = 0
  \/ b.size = 0
  \/ a.ptr + a.size <= b.ptr
  \/ b.ptr + b.size <= a.ptr

\* Whatever allocations and resizes a program makes, with whatever block and old
\* size, gg_arena_alloc and gg_arena_resize_last hand out aligned memory inside
\* the arena.  That memory is below the index and overlaps no other, as long as no
\* resize combined a block that was not the last with a wrong size: a wrong
\* (stale) size for the last block is always refused, and so is the right size
\* for a block that memory was handed out behind.
ArenaSafe ==
  /\ arena_index \in 0..Capacity
  /\ \A k \in DOMAIN blocks :
       /\ blocks[k].ptr + blocks[k].size <= Capacity
       /\ blocks[k].ptr % blocks[k].align = 0
  /\ ~misused =>
       /\ \A k \in DOMAIN blocks :
            blocks[k].size > 0 => blocks[k].ptr + blocks[k].size <= arena_index
       /\ \A j, k \in DOMAIN blocks : j # k => Disjoint(blocks[j], blocks[k])
=============================================================================
