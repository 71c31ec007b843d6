--------------------------- MODULE LibraryProofs ---------------------------
(***************************************************************************)
(* Proofs about the library's state machines: the arena of src/src/arena.c,*)
(* the retries of src/src/backoff.c, the calls of src/src/file.c that open *)
(* directories and files, and the headers of src/src/eventstream.          *)
(*                                                                         *)
(* ArenaSafe is inductive together with the types: the index never falls   *)
(* below the start of the block that is resized, and every other block     *)
(* that has bytes ends at or before it.  It holds for every capacity,      *)
(* every set of alignments up to 16 and any number of allocations.         *)
(*                                                                         *)
(* FullJitter follows from the window before and after each delay.  It     *)
(* needs that powers of two double, which is a fact about the number of    *)
(* subsets of a set here (SubsetsDouble).                                  *)
(*                                                                         *)
(* FilesInv says for each call where it stands on its path, and that the   *)
(* shared buffer holds its component while it has the mutex.  It holds for *)
(* any number of threads, any paths and any other process.  What a name    *)
(* says about a path is induction over the path; it is a least             *)
(* counterexample here (LeastNumber).                                      *)
(*                                                                         *)
(* HeadersAgree rests on one relation, Laid: the headers of a list stand   *)
(* one after the other and nothing else does.  Bytes that count_headers    *)
(* accepts are laid out so, and so are the bytes eventstream_encode        *)
(* writes; and headers laid out so are counted, read back and are what     *)
(* encoding them gives.  The loops are functions by LoopExists, and what   *)
(* holds after every turn is shown with UpTo.                              *)
(***************************************************************************)
EXTENDS Arena, Backoff, Files, EventHeaders, FiniteSetTheorems, SequenceTheorems,
        WellFoundedInduction, TLAPS

\* The padding of gg_arena_alloc (src/src/arena.c:33) aligns any index, and is
\* shorter than the alignment.
LEMMA PaddingAligns ==
  ASSUME NEW index \in Nat, NEW align \in Aligns
  PROVE  /\ Padding(index, align) \in 0..(align - 1)
         /\ (index + Padding(index, align)) % align = 0
<1>1. align \in {1, 2, 4, 8, 16}
  BY AlignsAssumption
<1>2. CASE align = 1
  BY <1>2 DEF Padding
<1>3. CASE align = 2
  BY <1>3 DEF Padding
<1>4. CASE align = 4
  BY <1>4 DEF Padding
<1>5. CASE align = 8
  BY <1>5 DEF Padding
<1>6. CASE align = 16
  BY <1>6 DEF Padding
<1> QED
  BY <1>1, <1>2, <1>3, <1>4, <1>5, <1>6

\* What gg_arena_alloc returns lies between the index and the end, with room for
\* the block.
LEMMA AllocFits ==
  ASSUME NEW index \in 0..Capacity, NEW size \in Nat, NEW align \in Aligns,
         gg_arena_alloc(Capacity, index, size, align) # Refused
  PROVE  LET ptr == gg_arena_alloc(Capacity, index, size, align)
         IN /\ ptr \in index..Capacity
            /\ ptr + size <= Capacity
            /\ ptr % align = 0
<1> DEFINE pad == Padding(index, align)
<1>1. pad \in Nat /\ (index + pad) % align = 0
  BY PaddingAligns, AlignsAssumption, CapacityAssumption
<1> HIDE DEF pad
<1>2. /\ ~(pad > Capacity - index \/ size > Capacity - (index + pad))
      /\ gg_arena_alloc(Capacity, index, size, align) = index + pad
  BY DEF gg_arena_alloc, pad
<1> QED
  BY <1>1, <1>2, CapacityAssumption

\* The block that was handed out or resized last ends at the index, so for it
\* gg_arena_resize_last accepts no size but its own.
LastEnds ==
  blocks # <<>> => /\ newest \in DOMAIN blocks
                   /\ arena_index = blocks[newest].ptr + blocks[newest].size

\* The two parts of ArenaSafe.
Inside(b) == b.ptr + b.size <= Capacity /\ b.ptr % b.align = 0

Apart ==
  /\ \A k \in DOMAIN blocks :
       blocks[k].size > 0 => blocks[k].ptr + blocks[k].size <= arena_index
  /\ \A j, k \in DOMAIN blocks : j # k => Disjoint(blocks[j], blocks[k])

ArenaInv ==
  /\ ArenaTypeOK
  /\ LastEnds
  /\ \A k \in DOMAIN blocks : Inside(blocks[k])
  /\ ~misused => Apart

\* An allocation keeps the blocks apart (src/src/arena.c:21).
LEMMA AllocKeepsArenaInv ==
  ASSUME ArenaInv, NEW size \in 0..Capacity, NEW align \in Aligns, Alloc(size, align)
  PROVE  ArenaInv'
<1> DEFINE ptr == gg_arena_alloc(Capacity, arena_index, size, align)
           b == [ptr |-> ptr, size |-> size, align |-> align]
<1>1. /\ ptr \in arena_index..Capacity
      /\ ptr + size <= Capacity
      /\ ptr % align = 0
  BY AllocFits, CapacityAssumption DEF Alloc, ArenaInv, ArenaTypeOK
<1>2. /\ arena_index' = ptr + size
      /\ blocks' = Append(blocks, b)
      /\ newest' = Len(blocks) + 1
      /\ misused' = misused
  BY DEF Alloc
<1> HIDE DEF ptr
<1>3. b \in Blocks
  BY <1>1, CapacityAssumption DEF Blocks, ArenaInv, ArenaTypeOK
<1>4. ArenaTypeOK'
  BY <1>1, <1>2, <1>3, CapacityAssumption DEF ArenaInv, ArenaTypeOK
<1>5. /\ DOMAIN blocks' = 1..(Len(blocks) + 1)
      /\ \A k \in DOMAIN blocks : blocks'[k] = blocks[k] /\ blocks[k] \in Blocks
      /\ blocks'[Len(blocks) + 1] = b
      /\ DOMAIN blocks = 1..Len(blocks)
      /\ Len(blocks) + 1 \in DOMAIN blocks'
  BY <1>2, <1>3 DEF ArenaInv, ArenaTypeOK
<1>6. LastEnds'
  BY <1>2, <1>5 DEF LastEnds
<1>7. \A k \in DOMAIN blocks' : Inside(blocks'[k])
  BY <1>1, <1>5 DEF Inside, ArenaInv
<1>8. ASSUME ~misused
      PROVE  Apart'
  <2>1. \A k \in DOMAIN blocks :
          blocks[k].size > 0 => blocks[k].ptr + blocks[k].size <= ptr
    BY <1>1, <1>5, <1>8, CapacityAssumption DEF ArenaInv, ArenaTypeOK, Apart, Blocks
  <2>2. ASSUME NEW k \in DOMAIN blocks', blocks'[k].size > 0
        PROVE  blocks'[k].ptr + blocks'[k].size <= arena_index'
    BY <2>1, <2>2, <1>1, <1>2, <1>5, CapacityAssumption DEF ArenaInv, ArenaTypeOK, Blocks
  <2>3. ASSUME NEW j \in DOMAIN blocks', NEW k \in DOMAIN blocks', j # k
        PROVE  Disjoint(blocks'[j], blocks'[k])
    <3>1. CASE j \in DOMAIN blocks /\ k \in DOMAIN blocks
      BY <3>1, <1>5, <1>8, <2>3 DEF ArenaInv, Apart
    <3>2. CASE j \in DOMAIN blocks /\ k = Len(blocks) + 1
      BY <3>2, <1>5, <2>1, CapacityAssumption DEF Disjoint, Blocks
    <3>3. CASE j = Len(blocks) + 1 /\ k \in DOMAIN blocks
      BY <3>3, <1>5, <2>1, CapacityAssumption DEF Disjoint, Blocks
    <3> QED
      BY <3>1, <3>2, <3>3, <1>5, <2>3 DEF ArenaInv, ArenaTypeOK
  <2> QED
    BY <2>2, <2>3 DEF Apart
<1> QED
  BY <1>2, <1>4, <1>6, <1>7, <1>8 DEF ArenaInv

\* So does growing or shrinking a block, unless it is not the last and the size
\* that the caller gives is not its size (src/src/arena.c:60).
LEMMA ResizeKeepsArenaInv ==
  ASSUME ArenaInv, NEW i \in DOMAIN blocks, NEW old_size \in 0..Capacity,
         NEW size \in 0..Capacity, ResizeLast(i, old_size, size)
  PROVE  ArenaInv'
<1>1. /\ blocks[i] \in Blocks
      /\ arena_index - blocks[i].ptr = old_size
      /\ size <= Capacity - blocks[i].ptr
      /\ arena_index' = blocks[i].ptr + size
      /\ newest' = i
      /\ misused' = (misused \/ (i # newest /\ old_size # blocks[i].size))
  BY DEF ArenaInv, ArenaTypeOK, ResizeLast, Resizable
<1>2. /\ DOMAIN blocks' = DOMAIN blocks
      /\ blocks'[i] = [blocks[i] EXCEPT !.size = size]
      /\ \A k \in DOMAIN blocks : k # i => blocks'[k] = blocks[k]
      /\ \A k \in DOMAIN blocks : blocks[k] \in Blocks
  BY DEF ArenaInv, ArenaTypeOK, ResizeLast
<1>3. /\ blocks'[i].ptr = blocks[i].ptr
      /\ blocks'[i].size = size
      /\ blocks'[i].align = blocks[i].align
      /\ blocks'[i] \in Blocks
  BY <1>1, <1>2 DEF Blocks
<1>4. ArenaTypeOK'
  <2>1. arena_index' \in 0..Capacity
    BY <1>1, CapacityAssumption DEF Blocks
  <2>2. blocks' \in Seq(Blocks) /\ Len(blocks') = Len(blocks)
    BY <1>3, <1>2 DEF ArenaInv, ArenaTypeOK, ResizeLast
  <2>3. newest' \in 0..Len(blocks') /\ misused' \in BOOLEAN
    BY <2>2, <1>1 DEF ArenaInv, ArenaTypeOK
  <2> QED
    BY <2>1, <2>2, <2>3 DEF ArenaTypeOK
<1>5. LastEnds'
  BY <1>1, <1>2, <1>3 DEF LastEnds
<1>6. \A k \in DOMAIN blocks' : Inside(blocks'[k])
  BY <1>1, <1>2, <1>3, CapacityAssumption DEF Inside, ArenaInv, Blocks
<1>7. ASSUME ~misused'
      PROVE  Apart'
  \* The size is the block's own: the last block ends at the index.
  <2>1. arena_index = blocks[i].ptr + blocks[i].size
    <3>1. CASE i = newest
      BY <3>1 DEF ArenaInv, LastEnds
    <3>2. CASE old_size = blocks[i].size
      BY <3>2, <1>1 DEF ArenaInv, ArenaTypeOK, Blocks
    <3> QED
      BY <3>1, <3>2, <1>1, <1>7
  <2>2. Apart
    BY <1>1, <1>7 DEF ArenaInv
  \* Every other block with bytes ends where the resized one begins, or before.
  <2>3. ASSUME NEW k \in DOMAIN blocks, k # i, blocks[k].size > 0
        PROVE  blocks[k].ptr + blocks[k].size <= blocks[i].ptr
    <3>1. /\ blocks[k].ptr + blocks[k].size <= arena_index
          /\ Disjoint(blocks[k], blocks[i])
          /\ blocks[k] \in Blocks
          /\ arena_index \in 0..Capacity
      BY <1>2, <2>2, <2>3 DEF ArenaInv, ArenaTypeOK, Apart
    <3> QED
      BY <3>1, <2>1, <2>3, <1>1, CapacityAssumption DEF Disjoint, Blocks
  <2>4. ASSUME NEW k \in DOMAIN blocks', blocks'[k].size > 0
        PROVE  blocks'[k].ptr + blocks'[k].size <= arena_index'
    BY <2>3, <2>4, <1>1, <1>2, <1>3, CapacityAssumption DEF Blocks
  <2>5. ASSUME NEW j \in DOMAIN blocks', NEW k \in DOMAIN blocks', j # k
        PROVE  Disjoint(blocks'[j], blocks'[k])
    <3>1. CASE j # i /\ k # i
      BY <3>1, <1>2, <2>2, <2>5 DEF Apart
    <3>2. CASE j # i /\ k = i
      BY <3>2, <1>2, <1>3, <2>3, CapacityAssumption DEF Disjoint, Blocks
    <3>3. CASE j = i /\ k # i
      BY <3>3, <1>2, <1>3, <2>3, CapacityAssumption DEF Disjoint, Blocks
    <3> QED
      BY <3>1, <3>2, <3>3, <2>5
  <2> QED
    BY <2>4, <2>5 DEF Apart
<1> QED
  BY <1>4, <1>5, <1>6, <1>7 DEF ArenaInv

\* Memory that gg_arena_alloc and gg_arena_resize_last hand out is aligned and
\* inside the arena, whatever block and old size a caller gives; and it never
\* overlaps, unless a resize gave a wrong size for a block that was not the last.
THEOREM ArenaIsSafe == ArenaSpec => []ArenaSafe
<1>1. ArenaInit => ArenaInv
  <2> SUFFICES ASSUME ArenaInit
               PROVE  ArenaInv
    OBVIOUS
  <2>1. blocks = <<>> /\ arena_index = 0 /\ newest = 0 /\ misused = FALSE
    BY DEF ArenaInit
  <2>2. ArenaTypeOK
    <3>1. blocks \in Seq(Blocks) /\ Len(blocks) = 0
      BY <2>1
    <3>2. arena_index \in 0..Capacity
      BY <2>1, CapacityAssumption
    <3>3. newest \in 0..Len(blocks)
      BY <2>1, <3>1
    <3>4. misused \in BOOLEAN
      BY <2>1
    <3> QED
      BY <3>1, <3>2, <3>3, <3>4 DEF ArenaTypeOK
  <2>3. DOMAIN blocks = {}
    BY <2>1
  <2> QED
    BY <2>1, <2>2, <2>3 DEF ArenaInv, LastEnds, Apart
<1>2. ArenaInv /\ [ArenaNext]_arenaVars => ArenaInv'
  <2> SUFFICES ASSUME ArenaInv, [ArenaNext]_arenaVars
               PROVE  ArenaInv'
    OBVIOUS
  <2>1. ASSUME NEW size \in 0..Capacity, NEW align \in Aligns, Alloc(size, align)
        PROVE  ArenaInv'
    BY <2>1, AllocKeepsArenaInv
  <2>2. ASSUME NEW k \in DOMAIN blocks, NEW old_size \in 0..Capacity,
               NEW size \in 0..Capacity, ResizeLast(k, old_size, size)
        PROVE  ArenaInv'
    BY <2>2, ResizeKeepsArenaInv
  <2>3. CASE 1 \in Aligns /\ AllocRest
    <3>1. Capacity - arena_index \in 0..Capacity
      BY CapacityAssumption DEF ArenaInv, ArenaTypeOK
    <3> QED
      BY <2>3, <3>1, AllocKeepsArenaInv DEF AllocRest
  <2>4. CASE Reset
    <3>1. blocks' = <<>> /\ arena_index' = 0 /\ newest' = 0 /\ misused' = FALSE
      BY <2>4 DEF Reset
    <3>2. ArenaTypeOK'
      <4>1. blocks' \in Seq(Blocks) /\ Len(blocks') = 0
        BY <3>1
      <4>2. arena_index' \in 0..Capacity
        BY <3>1, CapacityAssumption
      <4>3. newest' \in 0..Len(blocks')
        BY <3>1, <4>1
      <4>4. misused' \in BOOLEAN
        BY <3>1
      <4> QED
        BY <4>1, <4>2, <4>3, <4>4 DEF ArenaTypeOK
    <3>3. DOMAIN blocks' = {}
      BY <3>1
    <3> QED
      BY <3>1, <3>2, <3>3 DEF ArenaInv, LastEnds, Apart
  <2>5. CASE UNCHANGED arenaVars
    BY <2>5 DEF arenaVars, ArenaInv, ArenaTypeOK, LastEnds, Apart
  <2> QED
    BY <2>1, <2>2, <2>3, <2>4, <2>5 DEF ArenaNext
<1>3. ArenaInv => ArenaSafe
  BY DEF ArenaInv, ArenaTypeOK, ArenaSafe, Inside, Apart
<1> QED
  BY <1>1, <1>2, <1>3, PTL DEF ArenaSpec

-----------------------------------------------------------------------------
BackoffSpec == BackoffInit /\ [][BackoffNext]_backoffVars

\* A set with one more element has twice as many subsets.
LEMMA SubsetsDouble ==
  ASSUME NEW S, IsFiniteSet(S), NEW x, x \notin S
  PROVE  Cardinality(SUBSET (S \cup {x})) = 2 * Cardinality(SUBSET S)
<1> DEFINE A == SUBSET S
           W == SUBSET (S \cup {x})
           B == W \ A
           f == [T \in A |-> T \cup {x}]
<1>1. IsFiniteSet(A) /\ IsFiniteSet(W)
  <2>1. IsFiniteSet(S \cup {x})
    BY FS_AddElement
  <2> QED
    BY <2>1, FS_SUBSET, Zenon
<1>2. Cardinality(A) \in Nat /\ Cardinality(W) \in Nat
  <2> HIDE DEF A, W
  <2> QED
    BY <1>1, FS_CardinalityType
<1>3. f \in Bijection(A, B)
  <2>1. \A T \in A : f[T] = T \cup {x} /\ f[T] \in B
    OBVIOUS
  <2>2. ASSUME NEW T \in A, NEW U \in A, f[T] = f[U]
        PROVE  T = U
    <3>1. T = f[T] \ {x} /\ U = f[U] \ {x}
      OBVIOUS
    <3> QED
      BY <2>2, <3>1
  <2>3. \A V \in B : V \ {x} \in A /\ f[V \ {x}] = V
    OBVIOUS
  <2>4. f \in [A -> B]
    BY <2>1
  <2> HIDE DEF A, B, f
  <2> QED
    BY <2>2, <2>3, <2>4 DEF Bijection, Injection, Surjection, IsInjective
<1>4. Cardinality(B) = Cardinality(A)
  <2> HIDE DEF A, B, f
  <2> QED
    BY <1>1, <1>3, FS_Bijection DEF ExistsBijection
<1>5. W \cap A = A
  OBVIOUS
<1>6. Cardinality(B) = Cardinality(W) - Cardinality(A)
  <2> HIDE DEF A, W
  <2> QED
    BY <1>1, <1>5, FS_Difference
<1> QED
  <2> HIDE DEF A, W, B
  <2>1. Cardinality(W) = 2 * Cardinality(A)
    BY <1>2, <1>4, <1>6
  <2> QED
    BY <2>1 DEF A, W

\* So powers of two double.
LEMMA PowersDouble ==
  ASSUME NEW n \in Nat
  PROVE  2^n \in Nat /\ 2^(n + 1) = 2 * 2^n
<1> DEFINE S == 1..n
           m == n + 1
<1>1. m \notin S /\ S \cup {m} = 1..m /\ m \in Nat
  OBVIOUS
<1>2. IsFiniteSet(S) /\ Cardinality(S) = n
  BY FS_Interval
<1>3. IsFiniteSet(S \cup {m}) /\ Cardinality(S \cup {m}) = m
  BY <1>1, <1>2, FS_AddElement
<1> HIDE DEF S
<1>4. IsFiniteSet(SUBSET S) /\ Cardinality(SUBSET S) = 2^Cardinality(S)
  BY <1>2, FS_SUBSET, Zenon
<1>5. Cardinality(SUBSET (S \cup {m})) = 2^Cardinality(S \cup {m})
  BY <1>3, FS_SUBSET, Zenon
<1>6. Cardinality(SUBSET S) \in Nat
  BY <1>4, FS_CardinalityType, Zenon
<1>7. Cardinality(SUBSET (S \cup {m})) = 2 * Cardinality(SUBSET S)
  BY <1>1, <1>2, SubsetsDouble
<1>8. 2^n = Cardinality(SUBSET S) /\ 2^m = Cardinality(SUBSET (S \cup {m}))
  BY <1>2, <1>3, <1>4, <1>5, Zenon
<1> QED
  BY <1>6, <1>7, <1>8, Zenon

\* And are not zero.
LEMMA PowersArePositive ==
  ASSUME NEW n \in Nat
  PROVE  2^n \in Nat \ {0}
<1>1. IsFiniteSet(1..n) /\ Cardinality(1..n) = n
  BY FS_Interval
<1>2. PICK S : S = 1..n /\ IsFiniteSet(S) /\ Cardinality(S) = n
  BY <1>1
<1>3. IsFiniteSet(SUBSET S) /\ Cardinality(SUBSET S) = 2^n
  BY <1>2, FS_SUBSET, Zenon
<1>4. SUBSET S # {}
  OBVIOUS
<1>5. Cardinality(SUBSET S) # 0
  BY <1>3, <1>4, FS_EmptySet, Zenon
<1> QED
  BY <1>3, <1>5, PowersDouble, Zenon

\* The window of the delay after f failures and one more: doubled f times and
\* capped, but the first is not capped.
WindowAfter(f) ==
  IF f = 0 THEN params.base ELSE Least(params.max, params.base * 2^f)

BackoffTypeOK ==
  /\ backoff \in {"idle", "try", "sleep", "done", "trap", "exit"}
  /\ params.base \in Nat /\ params.max \in Nat /\ params.attempts \in Nat
  /\ backoff \notin {"idle", "done"} =>
       params.base \in 1..UintMax /\ params.max \in 0..UintMax
  /\ failed \in Nat /\ slept \in Nat /\ window \in Nat

\* Before a call of fn there is one left, and the window is that of the next
\* delay; during a delay it is that of the last failure.
BackoffInv ==
  /\ BackoffTypeOK
  /\ backoff = "idle" => failed = 0 /\ params.attempts = 0
  /\ backoff = "try" => window = WindowAfter(failed)
  /\ backoff = "sleep" => failed # 0 /\ window = WindowAfter(failed - 1)
  /\ backoff = "try" /\ failed # 0 =>
       slept < WindowAfter(failed - 1) \/ (failed > 1 /\ params.max = 0)
  /\ backoff = "trap" => failed > 1 /\ params.max = 0
  /\ backoff # "done" => retval = "none"
  /\ retval = "UNSUPPORTED" <=> backoff = "done" /\ params.base = 0
  /\ backoff \in {"try", "sleep"} =>
       (params.attempts # 0 => failed < params.attempts)
  /\ params.attempts # 0 => failed <= params.attempts
  /\ retval = "FAILURE" => failed = params.attempts

\* Doubling a number that is at most half of another does not exceed it, and
\* doubling one that is more does.
LEMMA HalfOf ==
  ASSUME NEW w \in Nat, NEW max \in Nat
  PROVE  w <= max \div 2 <=> 2 * w <= max
  OBVIOUS

\* The doubling that a number of 32 bits can hold does not wrap.
LEMMA NoWrapBelow ==
  ASSUME NEW v \in Nat, NEW u \in Nat, v <= u
  PROVE  v % (u + 1) = v
  OBVIOUS

\* A delay doubles the window up to the cap.
LEMMA WindowDoubles ==
  ASSUME NEW base \in 1..UintMax, NEW max \in 0..UintMax, NEW n \in Nat, NEW w,
         w = IF n = 0 THEN base ELSE Least(max, base * 2^n)
  PROVE  NextWindow(w, max) = Least(max, base * 2^(n + 1))
<1>1. UintMax \in Nat /\ base \in Nat /\ max \in Nat
  BY BackoffAssumption
<1>2. PICK p \in Nat, q \in Nat : p = 2^n /\ q = 2^(n + 1) /\ q = 2 * p
  <2>1. n + 1 \in Nat
    OBVIOUS
  <2>2. 2^n \in Nat /\ 2^(n + 1) \in Nat /\ 2^(n + 1) = 2 * 2^n
    BY <2>1, PowersDouble, Zenon
  <2> QED
    BY <2>2, Zenon
<1>3. PICK d \in Nat : d = base * p /\ base * q = 2 * d
  BY <1>1, <1>2
<1>4. n = 0 => p = 1
  <2>1. Cardinality(SUBSET {}) = 2^0 /\ SUBSET {} = {{}}
    BY FS_EmptySet, FS_SUBSET, Zenon
  <2> QED
    BY <1>2, <2>1, FS_Singleton, Zenon
<1>5. w \in Nat /\ w = IF n = 0 THEN d ELSE Least(max, d)
  BY <1>1, <1>2, <1>3, <1>4 DEF Least
<1>6. NextWindow(w, max) = IF 2 * w <= max THEN 2 * w ELSE max
  <2>1. ASSUME 2 * w <= max
        PROVE  (2 * w) % (UintMax + 1) = 2 * w
    BY <1>1, <1>5, <2>1, NoWrapBelow
  <2> QED
    BY <1>1, <1>5, <2>1, HalfOf DEF NextWindow
<1>7. NextWindow(w, max) = Least(max, 2 * d)
  BY <1>1, <1>3, <1>5, <1>6 DEF Least
<1> QED
  BY <1>2, <1>3, <1>7, Zenon

\* The next window is a number.
LEMMA WindowType ==
  ASSUME NEW w \in Nat, NEW max \in Nat
  PROVE  NextWindow(w, max) \in Nat
<1>1. UintMax \in Nat
  BY BackoffAssumption
<1> QED
  BY <1>1 DEF NextWindow

\* Only a maximum of zero empties the window, and not the first one.
LEMMA EmptyWindow ==
  ASSUME failed \in Nat \ {0}, params.base \in 1..UintMax, params.max \in 0..UintMax,
         WindowAfter(failed - 1) = 0
  PROVE  failed > 1 /\ params.max = 0
<1>1. PICK n \in Nat : n = failed - 1
  OBVIOUS
<1>2. UintMax \in Nat
  BY BackoffAssumption
<1>3. n # 0
  BY <1>1, <1>2 DEF WindowAfter
<1>4. PICK p \in Nat \ {0} : p = 2^n
  BY PowersArePositive, Zenon
<1>5. PICK d \in Nat \ {0} : d = params.base * p
  BY <1>2, <1>4
<1>6. Least(params.max, d) = 0
  BY <1>1, <1>3, <1>4, <1>5 DEF WindowAfter
<1> QED
  BY <1>1, <1>2, <1>3, <1>5, <1>6 DEF Least

\* Every delay of gg_backoff (src/src/backoff.c) is drawn from the window that full
\* jitter asks for, the first not capped, the modulo is undefined only for
\* max_ms = 0, and fn is called as often as it should be: for every base, maximum
\* and number of attempts of 32 bits.
THEOREM JitterIsFull == BackoffSpec => []FullJitter
<1>1. BackoffInit => BackoffInv
  BY DEF BackoffInit, BackoffInv, BackoffTypeOK
<1>2. BackoffInv /\ [BackoffNext]_backoffVars => BackoffInv'
  <2> SUFFICES ASSUME BackoffInv, [BackoffNext]_backoffVars
               PROVE  BackoffInv'
    OBVIOUS
  <2>1. ASSUME NEW b \in Bases, NEW m \in Maxima, NEW a \in Attempts,
               BackoffCall(b, m, a)
        PROVE  BackoffInv'
    BY <2>1, BackoffAssumption DEF BackoffCall, BackoffInv, BackoffTypeOK, WindowAfter
  <2>2. CASE TrySucceeds
    BY <2>2 DEF TrySucceeds, BackoffInv, BackoffTypeOK
  <2>3. CASE TryFails
    BY <2>3 DEF TryFails, BackoffInv, BackoffTypeOK, WindowAfter
  <2>4. ASSUME NEW delay \in 0..UintMax, Sleep(delay), window # 0 => delay < window
        PROVE  BackoffInv'
    <3>1. /\ backoff = "sleep" /\ backoff' = "try"
          /\ UNCHANGED <<params, failed, retval>>
          /\ window' = NextWindow(window, params.max)
          /\ slept' = delay
      BY <2>4 DEF Sleep
    <3>2. /\ failed \in Nat \ {0} /\ window = WindowAfter(failed - 1) /\ window \in Nat
          /\ params.base \in 1..UintMax /\ params.max \in 0..UintMax
      BY <3>1 DEF BackoffInv, BackoffTypeOK
    <3>3. PICK n \in Nat : n = failed - 1 /\ n + 1 = failed
      BY <3>2
    <3>4. window' = Least(params.max, params.base * 2^(n + 1))
      <4>1. window = IF n = 0 THEN params.base ELSE Least(params.max, params.base * 2^n)
        BY <3>2, <3>3 DEF WindowAfter
      <4>2. NextWindow(window, params.max) = Least(params.max, params.base * 2^(n + 1))
        BY <4>1, <3>2, WindowDoubles, Zenon
      <4> QED
        BY <4>2, <3>1, Zenon
    <3>5. window' = WindowAfter(failed)'
      BY <3>1, <3>2, <3>3, <3>4 DEF WindowAfter
    <3>6. window' \in Nat /\ slept' \in Nat
      <4>1. params.max \in Nat /\ delay \in Nat
        BY <3>2, BackoffAssumption
      <4>2. NextWindow(window, params.max) \in Nat
        BY <4>1, <3>2, WindowType, Zenon
      <4> QED
        BY <4>1, <4>2, <3>1, Zenon
    <3>7. slept' < WindowAfter(failed - 1)' \/ (failed > 1 /\ params.max = 0)
      <4>1. CASE window # 0
        BY <4>1, <2>4, <3>1, <3>2 DEF WindowAfter
      <4>2. CASE window = 0
        BY <4>2, <3>2, EmptyWindow
      <4> QED
        BY <4>1, <4>2
    <3> QED
      BY <3>1, <3>5, <3>6, <3>7 DEF BackoffInv, BackoffTypeOK
  <2>7. ASSUME NEW delay \in 0..UintMax, Modulo(delay)
        PROVE  BackoffInv'
    <3>1. CASE Sleep(delay) /\ (window # 0 => delay < window)
      BY <3>1, <2>4
    <3>2. CASE /\ window = 0 /\ backoff = "sleep" /\ backoff' = "trap"
               /\ UNCHANGED <<params, failed, window, slept, retval>>
      <4>1. /\ failed \in Nat \ {0} /\ window = WindowAfter(failed - 1)
            /\ params.base \in 1..UintMax /\ params.max \in 0..UintMax
        BY <3>2 DEF BackoffInv, BackoffTypeOK
      <4>2. failed > 1 /\ params.max = 0
        BY <3>2, <4>1, EmptyWindow
      <4> QED
        BY <3>2, <4>2 DEF BackoffInv, BackoffTypeOK
    <3> QED
      BY <2>7, <3>1, <3>2 DEF Modulo
  <2>8. CASE SleepFails
    BY <2>8 DEF SleepFails, BackoffInv, BackoffTypeOK
  <2>5. CASE BackoffReturn
    BY <2>5 DEF BackoffReturn, BackoffInv, BackoffTypeOK
  <2>6. CASE UNCHANGED backoffVars
    BY <2>6 DEF backoffVars, BackoffInv, BackoffTypeOK, WindowAfter
  <2> QED
    BY <2>1, <2>2, <2>3, <2>5, <2>6, <2>7, <2>8 DEF BackoffNext
<1>3. BackoffInv => FullJitter
  BY DEF BackoffInv, BackoffTypeOK, WindowAfter, FullJitter, FullWindow
<1> QED
  BY <1>1, <1>2, <1>3, PTL DEF BackoffSpec

-----------------------------------------------------------------------------
\* A walk to a directory, the file in it, and the steps that use path_comp_buf.
Walking == {"copydir", "lock", "comp", "open", "mkdir", "mkdirat", "fsync", "reopen"}
AtFile == {"copyfile", "file", "openfile"}
Locked == {"comp", "open", "mkdir", "mkdirat", "fsync", "reopen", "openfile"}

\* What an open returns.
Errs == {"OK", "INVALID", "FAILURE", "RANGE", "NOMEM", "NODATA"}

\* The components of paths.
Comps == STRING \cup {NoName}

Calls == [op : Ops, create : BOOLEAN, path : Seq(Comps), todo : Seq(Comps),
          at : Seq(Comps)]

FilesTypeOK ==
  /\ comp_mtx \in Openers \cup {Nobody}
  /\ comp_buf \in Comps
  /\ open_pc \in [Openers -> {"idle", "done", "read"} \cup Walking \cup AtFile]
  /\ call \in [Openers -> Calls]
  /\ open_ret \in [Openers -> {"none"} \cup Errs]
  /\ opened \in [Openers -> Seq(Comps)]
  /\ troubled \in [Openers -> BOOLEAN]

\* Who is between a lock and an unlock of path_comp_buf_mtx has it.
BufferInv == \A t \in Openers : comp_mtx = t <=> open_pc[t] \in Locked

\* The base exists, and names are neither empty nor too long.
TreeInv ==
  /\ <<>> \in dirs
  /\ \A x \in dirs \cup files : x \in Seq(Comps)
  /\ \A x \in dirs \cup files : \A i \in 1..Len(x) : x[i] # NoName /\ x[i] # LongName

\* What a call is for and how far it is.
KindInv(t) ==
  /\ open_pc[t] # "done" => open_ret[t] = "none"
  /\ open_pc[t] \in AtFile => call[t].op # "dir"
  /\ open_pc[t] = "read" => call[t].op = "read"
  /\ call[t].op = "read" => ~call[t].create

\* The part of a path that names directories ends at this component.
DirEnd(c) == IF c.op = "dir" THEN Len(c.path) ELSE Len(c.path) - 1

\* A call stands where the first n components of its path lead, if nobody has
\* removed that directory.
Stands(c, n) == c.at = Removed \/ Names(c.at, c.path, n)

\* A walk has the components before it from the n-th on, up to the last one that
\* is not empty.
Ahead(c, n, e) ==
  /\ n < e /\ c.path[e] # NoName
  /\ \A i \in (e + 1)..DirEnd(c) : c.path[i] = NoName
  /\ c.todo = SubSeq(c.path, n + 1, e)
  /\ Stands(c, n)

\* A file was asked for in a directory without a name.
Nameless(c) ==
  /\ c.op # "dir" /\ Len(c.path) > 1
  /\ strip_trailing_slashes(Front(c.path)) = <<>>
  /\ c.todo = <<NoName>>

\* A call is on its way to what its path names, and the buffer holds its own
\* component from the time it is written to the system calls that read it.
WayInv(t) ==
  LET c == call[t]
  IN /\ open_pc[t] \in Walking =>
          Nameless(c) \/ \E n, e \in 0..DirEnd(c) : Ahead(c, n, e)
     /\ open_pc[t] \in Walking \cup AtFile => c.path \in OpenPaths
     /\ open_pc[t] \in {"open", "mkdir", "mkdirat", "fsync", "reopen"} =>
          /\ comp_buf = Head(c.todo) /\ comp_buf # LongName
          /\ comp_buf = NoName => Len(c.todo) = 1
     /\ open_pc[t] \in AtFile => Stands(c, Len(c.path) - 1)
     /\ open_pc[t] = "openfile" => comp_buf = Last(c.path) /\ comp_buf # LongName
     /\ open_pc[t] = "read" => Names(opened[t], c.path, Len(c.path))

\* Where a call stands exists, and what it finds missing, or has made, stays so
\* while it has the lock, unless it is in trouble.
MadeInv(t) ==
  \/ troubled[t]
  \/ /\ open_pc[t] \in Walking \cup AtFile => call[t].at \in dirs
     /\ open_pc[t] \in {"mkdir", "mkdirat"} => Named(t) \notin dirs \cup files
     /\ open_pc[t] \in {"fsync", "reopen"} => Named(t) \in dirs

\* What a call that has returned leaves behind.
DoneInv(t) ==
  open_pc[t] = "done" =>
    /\ open_ret[t] = "OK" => Names(opened[t], call[t].path, Len(call[t].path))
    /\ call[t].create /\ open_ret[t] # "OK" => Excused(t)

CallInv(t) == KindInv(t) /\ WayInv(t) /\ MadeInv(t) /\ DoneInv(t)

FilesInv == FilesTypeOK /\ BufferInv /\ TreeInv /\ \A t \in Openers : CallInv(t)

-----------------------------------------------------------------------------
\* Components and paths have their types.
LEMMA PathsOfComps ==
  /\ NoName \in Comps /\ LongName \in Comps
  /\ \A s \in Seq(STRING) : s \in Seq(Comps)
<1>1. NoName \in Comps /\ STRING \subseteq Comps
  BY DEF Comps
<1>2. Seq(STRING) \subseteq Seq(Comps)
  BY <1>1, SeqMonotonic
<1> QED
  BY <1>1, <1>2, LongNameAssumption

\* A set of numbers that is not empty has a least one.
LEMMA LeastNumber ==
  ASSUME NEW S, S \subseteq Nat, S # {}
  PROVE  \E m \in S : \A n \in S : m <= n
<1> DEFINE R == {p \in Nat \X Nat : p[1] < p[2]}
<1>1. OpToRel(<, Nat) = R
  BY DEF OpToRel
<1>2. IsWellFoundedOn(R, Nat)
  BY <1>1, NatLessThanWellFounded
<1>3. PICK m \in S : \A n \in S : ~(<<n, m>> \in R)
  <2> HIDE DEF R
  <2> QED
    BY <1>2, WFMin
<1>4. \A n \in S : m <= n
  <2> TAKE n \in S
  <2>1. <<n, m>> \in Nat \X Nat /\ ~(n < m)
    BY <1>3
  <2> QED
    BY <2>1
<1> QED
  BY <1>4

\* So a set that is bounded has a greatest one.
LEMMA GreatestNumber ==
  ASSUME NEW n \in Nat, NEW S, S \subseteq 0..n, S # {}
  PROVE  Max(S) \in S /\ \A i \in S : i <= Max(S)
<1> DEFINE T == {i \in 0..n : n - i \in S}
<1>1. PICK s \in S : TRUE
  OBVIOUS
<1>2. T \subseteq Nat /\ n - s \in T
  BY <1>1
<1>3. PICK m \in T : \A k \in T : m <= k
  BY <1>2, LeastNumber
<1>4. n - m \in S /\ \A i \in S : n - m >= i
  <2>1. n - m \in S
    OBVIOUS
  <2>2. ASSUME NEW i \in S
        PROVE  n - m >= i
    <3>1. n - i \in 0..n /\ n - (n - i) = i
      OBVIOUS
    <3>2. n - i \in T
      BY <3>1
    <3> QED
      <4>1. m <= n - i
        BY <1>3, <3>2
      <4> QED
        BY <4>1, m \in 0..n, i \in 0..n
  <2> QED
    BY <2>1, <2>2
<1> QED
  BY <1>4 DEF Max

\* strip_trailing_slashes cuts a path after its last component that is not empty.
LEMMA StripCuts ==
  ASSUME NEW path \in Seq(Comps)
  PROVE  \E e \in 0..Len(path) :
           /\ strip_trailing_slashes(path) = SubSeq(path, 1, e)
           /\ e > 0 => path[e] # NoName
           /\ \A i \in (e + 1)..Len(path) : path[i] = NoName
<1> DEFINE S == {0} \cup {i \in 1..Len(path) : path[i] # NoName}
<1>1. S \subseteq 0..Len(path) /\ S # {} /\ Len(path) \in Nat
  OBVIOUS
<1>2. Max(S) \in S /\ \A i \in S : i <= Max(S)
  BY <1>1, GreatestNumber
<1>3. strip_trailing_slashes(path) = SubSeq(path, 1, Max(S))
  BY DEF strip_trailing_slashes
<1> HIDE DEF S
<1>4. \A i \in (Max(S) + 1)..Len(path) : path[i] = NoName
  BY <1>1, <1>2 DEF S
<1>5. Max(S) \in 0..Len(path) /\ (Max(S) > 0 => path[Max(S)] # NoName)
  BY <1>1, <1>2 DEF S
<1> QED
  BY <1>3, <1>4, <1>5

\* The base is what no component names.
LEMMA NamesBase ==
  ASSUME NEW path
  PROVE  Names(<<>>, path, 0)
<1> DEFINE place == [i \in 1..0 |-> 0]
<1>1. place \in [1..Len(<<>>) -> 1..0]
  OBVIOUS
<1>2. 1..Len(<<>>) = {} /\ 1..0 = {}
  OBVIOUS
<1>3. {place[i] : i \in 1..Len(<<>>)} = {k \in 1..0 : path[k] # NoName}
  BY <1>2
<1> QED
  BY <1>1, <1>2, <1>3 DEF Names

\* Empty components do not change what is named.
LEMMA NamesSkip ==
  ASSUME NEW name \in Seq(Comps), NEW path \in Seq(Comps), NEW n \in Nat, NEW m \in Nat,
         Names(name, path, n), n <= m, \A k \in (n + 1)..m : path[k] = NoName
  PROVE  Names(name, path, m)
<1>1. PICK place \in [1..Len(name) -> 1..n] :
        /\ \A i, j \in 1..Len(name) : i < j => place[i] < place[j]
        /\ \A i \in 1..Len(name) : name[i] = path[place[i]]
        /\ {place[i] : i \in 1..Len(name)} = {k \in 1..n : path[k] # NoName}
  BY DEF Names
<1>2. 1..n \subseteq 1..m
  OBVIOUS
<1>3. place \in [1..Len(name) -> 1..m]
  BY <1>2
<1>4. {k \in 1..n : path[k] # NoName} = {k \in 1..m : path[k] # NoName}
  OBVIOUS
<1> QED
  BY <1>1, <1>3, <1>4 DEF Names

\* A component that is not empty is one more name.
LEMMA NamesNext ==
  ASSUME NEW name \in Seq(Comps), NEW path \in Seq(Comps), NEW n \in Nat,
         Names(name, path, n), path[n + 1] # NoName
  PROVE  Names(Append(name, path[n + 1]), path, n + 1)
<1>1. PICK place \in [1..Len(name) -> 1..n] :
        /\ \A i, j \in 1..Len(name) : i < j => place[i] < place[j]
        /\ \A i \in 1..Len(name) : name[i] = path[place[i]]
        /\ {place[i] : i \in 1..Len(name)} = {k \in 1..n : path[k] # NoName}
  BY DEF Names
<1> DEFINE len == Len(name)
           longer == Append(name, path[n + 1])
           next == [i \in 1..(len + 1) |-> IF i = len + 1 THEN n + 1 ELSE place[i]]
<1>2. len \in Nat /\ Len(longer) = len + 1 /\ longer[len + 1] = path[n + 1]
      /\ \A i \in 1..len : longer[i] = name[i]
  OBVIOUS
<1>3. next \in [1..Len(longer) -> 1..(n + 1)]
  BY <1>2
<1>4. ASSUME NEW i \in 1..Len(longer), NEW j \in 1..Len(longer), i < j
      PROVE  next[i] < next[j]
  <2>1. i \in 1..len /\ next[i] = place[i] /\ place[i] \in 1..n
    BY <1>2, <1>4
  <2>2. CASE j = len + 1
    BY <1>2, <2>1, <2>2
  <2>3. CASE j # len + 1
    <3>1. j \in 1..len /\ next[j] = place[j]
      BY <1>2, <2>3
    <3> QED
      BY <1>1, <1>4, <2>1, <3>1
  <2> QED
    BY <2>2, <2>3
<1>5. ASSUME NEW i \in 1..Len(longer)
      PROVE  longer[i] = path[next[i]]
  <2>1. CASE i = len + 1
    BY <1>2, <2>1
  <2>2. CASE i # len + 1
    <3>1. i \in 1..len /\ next[i] = place[i]
      BY <1>2, <2>2
    <3> QED
      BY <1>1, <1>2, <3>1
  <2> QED
    BY <2>1, <2>2
<1>6. {next[i] : i \in 1..Len(longer)} = {k \in 1..(n + 1) : path[k] # NoName}
  <2>1. ASSUME NEW i \in 1..Len(longer)
        PROVE  next[i] \in 1..(n + 1) /\ path[next[i]] # NoName
    BY <1>1, <1>2
  <2>2. ASSUME NEW k \in 1..(n + 1), path[k] # NoName
        PROVE  \E i \in 1..Len(longer) : next[i] = k
    <3>1. CASE k = n + 1
      <4>1. len + 1 \in 1..Len(longer) /\ next[len + 1] = n + 1
        BY <1>2
      <4> QED
        BY <3>1, <4>1
    <3>2. CASE k # n + 1
      <4>1. k \in {q \in 1..n : path[q] # NoName}
        BY <2>2, <3>2
      <4>2. PICK i \in 1..len : place[i] = k
        BY <1>1, <4>1
      <4> QED
        BY <1>2, <4>2
    <3> QED
      BY <3>1, <3>2
  <2> QED
    BY <2>1, <2>2
<1> HIDE DEF longer, next
<1>7. Names(longer, path, n + 1)
  BY <1>3, <1>4, <1>5, <1>6 DEF Names
<1> QED
  BY <1>7 DEF longer

-----------------------------------------------------------------------------
\* A thread does nothing.
Unmoved(u) ==
  /\ open_pc'[u] = open_pc[u] /\ call'[u] = call[u]
  /\ open_ret'[u] = open_ret[u] /\ opened'[u] = opened[u]
  /\ troubled'[u] = troubled[u]

\* A thread that does nothing keeps its invariant if the tree only grows, and it
\* has the lock only if neither the buffer nor the tree changes.
LEMMA OthersKeep ==
  ASSUME FilesInv, NEW u \in Openers, Unmoved(u), dirs \subseteq dirs',
         files \subseteq files',
         \/ open_pc[u] \notin Locked
         \/ UNCHANGED <<comp_buf, dirs, files>>
  PROVE  CallInv(u)'
<1>1. CallInv(u)
  BY DEF FilesInv
<1>2. KindInv(u)'
  BY <1>1 DEF CallInv, KindInv, Unmoved
<1>3. WayInv(u)'
  BY <1>1 DEF CallInv, WayInv, Unmoved, Locked, Nameless, Ahead, Stands, Removed, DirEnd
<1>4. MadeInv(u)'
  BY <1>1 DEF CallInv, MadeInv, Unmoved, Locked, Named
<1>5. DoneInv(u)'
  BY <1>1 DEF CallInv, DoneInv, Unmoved, Excused
<1> QED
  BY <1>2, <1>3, <1>4, <1>5 DEF CallInv

\* Only one thread has the lock.
LEMMA OneHolder ==
  ASSUME FilesInv, NEW t \in Openers, NEW u \in Openers, u # t,
         open_pc[t] \in Locked \/ comp_mtx = Nobody
  PROVE  open_pc[u] \notin Locked
  BY NobodyAssumption DEF FilesInv, BufferInv

\* Every return: it remains to say why the call failed, or that it opened what it
\* should.
LEMMA ReturnKeeps ==
  ASSUME FilesInv, NEW t \in Openers, open_pc[t] # "done", NEW err \in Errs,
         NEW what \in Seq(Comps), NEW c \in Calls, NEW trouble \in BOOLEAN,
         NEW used, NEW got, ReturnWith(t, err, used, got, what),
         call' = [call EXCEPT ![t] = c], troubled' = [troubled EXCEPT ![t] = trouble],
         comp_buf' = comp_buf, dirs \subseteq dirs', files \subseteq files',
         open_pc[t] \in Locked \/ UNCHANGED <<dirs, files>>,
         TreeInv', c.op = "read" => ~c.create,
         err = "OK" => Names(what, c.path, Len(c.path)),
         c.create /\ err # "OK" => Excused(t)'
  PROVE  FilesInv'
<1>1. /\ open_pc' = [open_pc EXCEPT ![t] = "done"]
      /\ open_ret' = [open_ret EXCEPT ![t] = err]
      /\ opened' = [opened EXCEPT ![t] = what]
      /\ comp_mtx' = IF comp_mtx = t THEN Nobody ELSE comp_mtx
  BY DEF ReturnWith
<1>2. FilesTypeOK /\ BufferInv /\ KindInv(t)
  BY DEF FilesInv, CallInv
<1>4. FilesTypeOK'
  BY <1>1, <1>2 DEF FilesTypeOK
<1>5. BufferInv'
  BY <1>1, <1>2, NobodyAssumption DEF BufferInv, FilesTypeOK, Locked
<1>6. CallInv(t)'
  <2>1. /\ open_pc'[t] = "done" /\ open_ret'[t] = err /\ opened'[t] = what
        /\ call'[t] = c /\ troubled'[t] = trouble
    BY <1>1, <1>2 DEF FilesTypeOK
  <2>2. KindInv(t)' /\ WayInv(t)'
    BY <2>1 DEF KindInv, WayInv, Walking, AtFile
  <2>3. MadeInv(t)'
    BY <2>1 DEF MadeInv, Walking, AtFile
  <2>4. DoneInv(t)'
    BY <2>1 DEF DoneInv
  <2> QED
    BY <2>2, <2>3, <2>4 DEF CallInv
<1>7. ASSUME NEW u \in Openers, u # t
      PROVE  CallInv(u)'
  <2>1. Unmoved(u)
    BY <1>1, <1>2, <1>7 DEF Unmoved, FilesTypeOK
  <2>2. open_pc[t] \in Locked => open_pc[u] \notin Locked
    BY <1>7, OneHolder
  <2> QED
    BY <2>1, <2>2, OthersKeep
<1> QED
  BY <1>4, <1>5, <1>6, <1>7 DEF FilesInv

\* Every step of a call that does not return.
LEMMA GotoKeeps ==
  ASSUME FilesInv, NEW t \in Openers, NEW c \in Calls, NEW trouble \in BOOLEAN,
         NEW where \in {"read"} \cup Walking \cup AtFile,
         open_pc' = [open_pc EXCEPT ![t] = where],
         call' = [call EXCEPT ![t] = c], troubled' = [troubled EXCEPT ![t] = trouble],
         comp_buf' \in Comps, dirs \subseteq dirs', files \subseteq files',
         \/ open_pc[t] \in Locked \/ comp_mtx = Nobody
         \/ UNCHANGED <<comp_buf, dirs, files>>,
         \/ where \in Locked /\ comp_mtx' = t /\ comp_mtx \in {t, Nobody}
         \/ where \notin Locked /\ open_pc[t] \in Locked /\ comp_mtx' = Nobody
         \/ where \notin Locked /\ open_pc[t] \notin Locked /\ comp_mtx' = comp_mtx,
         open_ret' = open_ret,
         NEW what \in Seq(Comps), opened' = [opened EXCEPT ![t] = what],
         TreeInv', KindInv(t)', WayInv(t)', MadeInv(t)'
  PROVE  FilesInv'
<1>1. FilesTypeOK /\ BufferInv
  BY DEF FilesInv
<1>2. FilesTypeOK'
  BY <1>1 DEF FilesTypeOK
<1>3. BufferInv'
  BY <1>1, NobodyAssumption DEF BufferInv, FilesTypeOK
<1>4. DoneInv(t)'
  BY <1>1 DEF DoneInv, FilesTypeOK, Walking, AtFile
<1>5. ASSUME NEW u \in Openers, u # t
      PROVE  CallInv(u)'
  <2>1. Unmoved(u)
    BY <1>1, <1>5 DEF Unmoved, FilesTypeOK
  <2>2. open_pc[t] \in Locked \/ comp_mtx = Nobody => open_pc[u] \notin Locked
    BY <1>5, OneHolder
  <2> QED
    BY <2>1, <2>2, OthersKeep
<1> QED
  BY <1>2, <1>3, <1>4, <1>5 DEF FilesInv, CallInv

-----------------------------------------------------------------------------
\* The types of one call.
LEMMA CallTypes ==
  ASSUME FilesInv, NEW t \in Openers
  PROVE  /\ call[t] \in Calls /\ call[t].op \in Ops /\ call[t].create \in BOOLEAN
         /\ call[t].path \in Seq(Comps) /\ call[t].todo \in Seq(Comps)
         /\ call[t].at \in Seq(Comps) /\ comp_buf \in Comps
         /\ Named(t) \in Seq(Comps) /\ opened[t] \in Seq(Comps)
         /\ troubled[t] \in BOOLEAN /\ call = [call EXCEPT ![t] = call[t]]
         /\ troubled = [troubled EXCEPT ![t] = troubled[t]]
         /\ opened = [opened EXCEPT ![t] = opened[t]]
  BY DEF FilesInv, FilesTypeOK, Calls, Named

\* A path that is opened has a component.
LEMMA PathHasLast ==
  ASSUME NEW path \in OpenPaths
  PROVE  /\ path \in Seq(Comps) /\ Len(path) \in Nat \ {0}
         /\ \E i \in 1..Len(path) : path[i] # NoName
         /\ Last(path) = path[Len(path)]
         /\ \A i \in 1..Len(path) : path[i] \in ToSet(path)
<1>1. path \in Seq(Comps) /\ ToSet(path) \ {NoName} # {}
  BY OpenPathsAssumption, PathsOfComps
<1>2. DOMAIN path = 1..Len(path)
  BY <1>1
<1> QED
  BY <1>1, <1>2 DEF ToSet, Last

\* No name is empty, and no directory stands in one that was removed.
LEMMA NamesAreNames ==
  ASSUME TreeInv, NEW at \in Seq(Comps), NEW x \in Comps,
         Append(at, x) \in dirs \cup files
  PROVE  x # NoName /\ x # LongName /\ at # Removed
<1>1. /\ Len(Append(at, x)) = Len(at) + 1 /\ Append(at, x)[Len(at) + 1] = x
      /\ Len(at) \in Nat
      /\ \A i \in 1..Len(at) : Append(at, x)[i] = at[i]
  OBVIOUS
<1> DEFINE y == Append(at, x)
<1>2. \A i \in 1..Len(y) : y[i] # NoName /\ y[i] # LongName
  BY DEF TreeInv
<1> HIDE DEF y
<1>3. x # NoName /\ x # LongName
  <2>1. Len(at) + 1 \in 1..Len(y) /\ y[Len(at) + 1] = x
    BY <1>1 DEF y
  <2> QED
    BY <1>2, <2>1
<1>4. ASSUME at = Removed
      PROVE  FALSE
  <2>1. Len(at) = 1 /\ at[1] = LongName
    BY <1>4 DEF Removed
  <2>2. 1 \in 1..Len(y) /\ y[1] = LongName
    BY <1>1, <2>1 DEF y
  <2> QED
    BY <1>2, <2>2
<1> QED
  BY <1>3, <1>4

\* What exists where a call stands is what the next component names.
LEMMA StandsNext ==
  ASSUME TreeInv, NEW c \in Calls, NEW n \in Nat, Stands(c, n), NEW x \in Comps,
         x = c.path[n + 1], Append(c.at, x) \in dirs \cup files
  PROVE  Names(Append(c.at, x), c.path, n + 1)
<1>1. c.at \in Seq(Comps) /\ c.path \in Seq(Comps)
  BY DEF Calls
<1>2. x # NoName /\ Names(c.at, c.path, n)
  BY <1>1, NamesAreNames DEF Stands
<1> QED
  BY <1>1, <1>2, NamesNext

\* A walk that finds what it looks for is on its way.
LEMMA WalkFinds ==
  ASSUME FilesInv, NEW t \in Openers, open_pc[t] \in {"open", "mkdir", "mkdirat", "fsync", "reopen"},
         Named(t) \in dirs \cup files
  PROVE  \E n, e \in 0..DirEnd(call[t]) :
           /\ Ahead(call[t], n, e) /\ comp_buf = call[t].path[n + 1]
           /\ Names(Named(t), call[t].path, n + 1)
<1> DEFINE c == call[t]
<1>1. c \in Calls /\ c.at \in Seq(Comps) /\ comp_buf \in Comps /\ c.path \in Seq(Comps)
  BY CallTypes
<1>2. TreeInv /\ WayInv(t) /\ Named(t) = Append(c.at, comp_buf)
  BY DEF FilesInv, CallInv, Named
<1>3. comp_buf # NoName
  BY <1>1, <1>2, NamesAreNames
<1>4. /\ comp_buf = Head(c.todo)
      /\ (Nameless(c) \/ \E n, e \in 0..DirEnd(c) : Ahead(c, n, e))
  BY <1>2 DEF WayInv, Walking
<1>5. ~Nameless(c)
  BY <1>3, <1>4 DEF Nameless
<1>6. PICK n \in 0..DirEnd(c), e \in 0..DirEnd(c) : Ahead(c, n, e)
  BY <1>4, <1>5
<1>7. Len(c.path) \in Nat /\ DirEnd(c) <= Len(c.path) /\ DirEnd(c) \in Int
  BY <1>1 DEF DirEnd
<1>8. n < e /\ e <= Len(c.path) /\ c.todo = SubSeq(c.path, n + 1, e) /\ Stands(c, n)
      /\ n \in Nat /\ e \in Nat
  BY <1>6, <1>7 DEF Ahead
<1>9. Head(c.todo) = c.path[n + 1]
  BY <1>1, <1>7, <1>8
<1>10. Names(Named(t), c.path, n + 1)
  BY <1>1, <1>2, <1>4, <1>8, <1>9, StandsNext
<1> QED
  BY <1>4, <1>6, <1>9, <1>10

\* Adding what is makeable adds a name.
LEMMA MakeKeepsTree ==
  ASSUME FilesInv, NEW t \in Openers, Makeable(t), comp_buf # LongName,
         dirs' \cup files' \subseteq dirs \cup files \cup {Named(t)}, <<>> \in dirs'
  PROVE  TreeInv'
<1>1. call[t].at \in Seq(Comps) /\ comp_buf \in Comps /\ Named(t) \in Seq(Comps)
  BY CallTypes
<1>2. comp_buf # NoName /\ call[t].at \in dirs /\ TreeInv
  BY DEF Makeable, FilesInv
<1>3. \A i \in 1..Len(Named(t)) : Named(t)[i] # NoName /\ Named(t)[i] # LongName
  <2> DEFINE at == call[t].at
  <2>1. \A i \in 1..Len(at) : at[i] # NoName /\ at[i] # LongName
    BY <1>2 DEF TreeInv
  <2>2. /\ Len(at) \in Nat /\ Len(Named(t)) = Len(at) + 1
        /\ Named(t)[Len(at) + 1] = comp_buf
        /\ \A i \in 1..Len(at) : Named(t)[i] = at[i]
    BY <1>1 DEF Named
  <2> HIDE DEF at
  <2> TAKE i \in 1..Len(Named(t))
  <2>3. i = Len(at) + 1 \/ i \in 1..Len(at)
    BY <2>2
  <2> QED
    BY <1>2, <2>1, <2>2, <2>3
<1> QED
  BY <1>1, <1>2, <1>3 DEF TreeInv

-----------------------------------------------------------------------------
\* A call begins at the base, with the components of its directory before it.
LEMMA BeginKeeps ==
  ASSUME FilesInv, NEW t \in Openers, NEW op \in Ops, NEW create \in BOOLEAN,
         NEW path \in OpenPaths, NEW opens \in BOOLEAN,
         OpenBegin(t, op, create, path, opens)
  PROVE  FilesInv'
<1> DEFINE todo == IF op = "dir" THEN strip_trailing_slashes(path)
                   ELSE IF Len(path) = 1 THEN <<>> ELSE split_path_last_comp(path)
           c == [op |-> op, create |-> create, path |-> path,
                 todo |-> todo, at |-> <<>>]
           where == IF todo = <<>> THEN "copyfile" ELSE "copydir"
<1>1. /\ open_pc[t] = "idle" /\ (op = "read" => ~create)
      /\ call' = [call EXCEPT ![t] = c] /\ troubled' = [troubled EXCEPT ![t] = ~opens]
      /\ UNCHANGED <<comp_buf, dirs, files>>
      /\ opens => /\ open_pc' = [open_pc EXCEPT ![t] = where]
                  /\ UNCHANGED <<open_ret, opened, comp_mtx>>
      /\ ~opens => ReturnWith(t, "FAILURE", {}, {}, <<>>)
  BY DEF OpenBegin, Goto, Fail
<1>2. /\ path \in Seq(Comps) /\ Len(path) \in Nat \ {0}
      /\ \E i \in 1..Len(path) : path[i] # NoName
  BY PathHasLast
<1>3. FilesTypeOK /\ BufferInv /\ TreeInv /\ CallInv(t)
  BY DEF FilesInv
<1>4. <<>> \in Seq(Comps) /\ <<NoName>> \in Seq(Comps)
  BY PathsOfComps
<1>5. c.op = op /\ c.path = path /\ c.at = <<>> /\ c.todo = todo
  OBVIOUS
<1>6. /\ todo \in Seq(Comps)
      /\ \/ todo = <<>> /\ op # "dir" /\ Len(path) = 1
         \/ todo # <<>> /\ Nameless(c)
         \/ todo # <<>> /\ \E n, e \in 0..DirEnd(c) : Ahead(c, n, e)
  <2>1. CASE op = "dir"
    <3>1. todo = strip_trailing_slashes(path) /\ DirEnd(c) = Len(path)
      BY <2>1 DEF DirEnd
    <3>2. PICK e \in 0..Len(path) :
            /\ strip_trailing_slashes(path) = SubSeq(path, 1, e)
            /\ e > 0 => path[e] # NoName
            /\ \A i \in (e + 1)..Len(path) : path[i] = NoName
      BY <1>2, StripCuts
    <3>3. e > 0
      BY <1>2, <3>2
    <3>4. todo \in Seq(Comps) /\ todo # <<>>
      BY <1>2, <3>1, <3>2, <3>3
    <3>5. Ahead(c, 0, e)
      BY <3>1, <3>2, <3>3, NamesBase DEF Ahead, Stands
    <3> QED
      BY <3>1, <3>4, <3>5
  <2>2. CASE op # "dir" /\ Len(path) = 1
    BY <1>4, <2>2
  <2>3. CASE op # "dir" /\ Len(path) # 1
    <3> DEFINE front == Front(path)
    <3>1. /\ front \in Seq(Comps) /\ Len(front) = Len(path) - 1 /\ Len(path) > 1
          /\ \A i \in 1..Len(front) : front[i] = path[i]
      <4> DEFINE m == Len(path) - 1
      <4>1. m \in Nat /\ m > 0 /\ m <= Len(path)
        <5>1. \A k \in Nat : k # 0 /\ k # 1 => k - 1 \in Nat /\ k - 1 > 0 /\ k - 1 <= k
          OBVIOUS
        <5>2. Len(path) \in Nat /\ Len(path) # 0 /\ Len(path) # 1
          BY <1>2, <2>3
        <5> QED
          BY <5>1, <5>2, Zenon
      <4>2. front = SubSeq(path, 1, m)
        BY DEF Front
      <4> HIDE DEF m
      <4>3. front \in Seq(Comps) /\ Len(front) = m
        BY <1>2, <4>1, <4>2
      <4>4. \A i \in 1..m : front[i] = path[i]
        BY <1>2, <4>1, <4>2
      <4> QED
        BY <4>1, <4>3, <4>4 DEF m
    <3>2. PICK e \in 0..Len(front) :
            /\ strip_trailing_slashes(front) = SubSeq(front, 1, e)
            /\ e > 0 => front[e] # NoName
            /\ \A i \in (e + 1)..Len(front) : front[i] = NoName
      BY <3>1, StripCuts
    <3>3. todo = IF strip_trailing_slashes(front) = <<>> THEN <<NoName>>
                 ELSE strip_trailing_slashes(front)
      BY <2>3 DEF split_path_last_comp
    <3> HIDE DEF c, todo
    <3>4. CASE strip_trailing_slashes(front) = <<>>
      <4>1. todo = <<NoName>> /\ <<NoName>> # <<>>
        BY <3>3, <3>4
      <4>2. Nameless(c)
        BY <1>5, <2>3, <3>1, <3>4, <4>1 DEF Nameless
      <4> QED
        BY <1>4, <4>1, <4>2
    <3>5. CASE strip_trailing_slashes(front) # <<>>
      <4>1. e > 0
        BY <3>1, <3>2, <3>5
      <4>2. /\ SubSeq(front, 1, e) = SubSeq(path, 1, e)
            /\ SubSeq(path, 1, e) \in Seq(Comps)
        BY <1>2, <3>1, <3>2
      <4>3. todo = SubSeq(path, 1, e) /\ DirEnd(c) = Len(front)
        BY <1>5, <2>3, <3>1, <3>2, <3>3, <3>5, <4>2 DEF DirEnd
      <4>4. Ahead(c, 0, e)
        <5>1. Stands(c, 0)
          BY <1>5, NamesBase DEF Stands
        <5>2. /\ e \in Nat /\ path[e] # NoName
              /\ \A i \in (e + 1)..Len(front) : path[i] = NoName
          BY <3>1, <3>2, <4>1
        <5> QED
          BY <1>5, <4>1, <4>3, <5>1, <5>2 DEF Ahead
      <4> QED
        BY <3>1, <3>2, <3>3, <3>5, <4>2, <4>3, <4>4, 0 \in 0..DirEnd(c)
    <3> QED
      BY <3>4, <3>5
  <2> QED
    BY <2>1, <2>2, <2>3
<1>7. c \in Calls /\ c.op = op /\ c.path = path /\ c.at = <<>> /\ c.create = create
  BY <1>2, <1>4, <1>6 DEF Calls
<1> HIDE DEF todo
<1>8. TreeInv'
  BY <1>1, <1>3 DEF TreeInv
<1>9. CASE ~opens
  <2>1. Excused(t)'
    BY <1>1, <1>3, <1>9 DEF Excused, FilesTypeOK
  <2>2. UNCHANGED <<dirs, files>> /\ "FAILURE" \in Errs /\ open_pc[t] # "done"
    BY <1>1 DEF Errs
  <2>3. ReturnWith(t, "FAILURE", {}, {}, <<>>) /\ (~opens) \in BOOLEAN
    BY <1>1, <1>9
  <2> HIDE DEF c
  <2> QED
    BY <1>1, <1>4, <1>7, <1>8, <2>1, <2>2, <2>3, ReturnKeeps
<1>10. CASE opens
  <2>1. /\ open_pc'[t] = where /\ call'[t] = c
        /\ open_ret'[t] = "none" /\ dirs' = dirs
    BY <1>1, <1>3, <1>10 DEF FilesTypeOK, CallInv, KindInv
  <2> HIDE DEF c
  <2>2. KindInv(t)'
    BY <1>1, <1>6, <1>7, <2>1 DEF KindInv, AtFile, Walking
  <2>3. WayInv(t)'
    <3>1. todo = <<>> => Stands(c, Len(path) - 1)
      <4>1. todo = <<>> => Len(path) - 1 = 0
        BY <1>6
      <4>2. Stands(c, 0)
        BY <1>7, NamesBase DEF Stands
      <4> QED
        BY <4>1, <4>2
    <3>2. CASE todo = <<>>
      BY <1>7, <2>1, <3>1, <3>2 DEF WayInv, AtFile, Walking
    <3>3. CASE todo # <<>>
      BY <1>6, <1>7, <2>1, <3>3 DEF WayInv, AtFile, Walking
    <3> QED
      BY <3>2, <3>3
  <2>4. MadeInv(t)'
    BY <1>3, <1>7, <2>1 DEF MadeInv, TreeInv
  <2>5. /\ where \in {"read"} \cup Walking \cup AtFile /\ where \notin Locked
        /\ open_pc[t] \notin Locked
    BY <1>1 DEF Walking, AtFile, Locked
  <2>6. /\ opened' = [opened EXCEPT ![t] = opened[t]] /\ opened[t] \in Seq(Comps)
        /\ comp_buf' \in Comps /\ open_ret' = open_ret /\ comp_mtx' = comp_mtx
        /\ open_pc' = [open_pc EXCEPT ![t] = where] /\ (~opens) \in BOOLEAN
        /\ UNCHANGED <<comp_buf, dirs, files>>
    BY <1>1, <1>3, <1>10 DEF FilesTypeOK
  <2> HIDE DEF where
  <2> QED
    BY <1>1, <1>7, <1>8, <2>2, <2>3, <2>4, <2>5, <2>6, GotoKeeps
<1> QED
  BY <1>9, <1>10

\* The root opens at once or not at all.
LEMMA RootKeeps ==
  ASSUME FilesInv, NEW t \in Openers, NEW op \in Ops, NEW opens \in BOOLEAN,
         NEW root, OpenRoot(t, op, root, opens)
  PROVE  FilesInv'
<1> DEFINE c == [NoOpen EXCEPT !.op = op]
<1>1. c \in Calls /\ ~c.create /\ c.path = <<>> /\ c.op = op
  <2>1. NoOpen \in Calls /\ ~NoOpen.create /\ NoOpen.path = <<>>
    <3>1. <<>> \in Seq(Comps) /\ "dir" \in Ops
      BY DEF Ops
    <3> QED
      BY <3>1 DEF NoOpen, Calls
  <2> QED
    BY <2>1 DEF Calls
<1>2. <<>> \in Seq(Comps) /\ Names(<<>>, <<>>, Len(<<>>))
  BY NamesBase
<1>3. /\ open_pc[t] # "done" /\ call' = [call EXCEPT ![t] = c]
      /\ troubled' = [troubled EXCEPT ![t] = ~opens]
      /\ UNCHANGED <<comp_buf, dirs, files>>
  BY DEF OpenRoot
<1>4. TreeInv'
  BY <1>3 DEF FilesInv, TreeInv
<1>5. \/ ReturnWith(t, "INVALID", {}, {}, <<>>)
      \/ ReturnWith(t, "OK", {}, {New(t)}, <<>>)
      \/ ReturnWith(t, "FAILURE", {}, {}, <<>>)
  BY DEF OpenRoot, Fail
<1> HIDE DEF c
<1>6. ASSUME NEW err \in Errs, NEW got, ReturnWith(t, err, {}, got, <<>>)
      PROVE  FilesInv'
  <2>1. Names(<<>>, c.path, Len(c.path))
    BY <1>1, <1>2
  <2>2. UNCHANGED <<dirs, files>> /\ comp_buf' = comp_buf /\ (~opens) \in BOOLEAN
    BY <1>3
  <2> QED
    BY <1>1, <1>2, <1>3, <1>4, <1>6, <2>1, <2>2, ReturnKeeps
<1>7. {"OK", "INVALID", "FAILURE"} \subseteq Errs
  BY DEF Errs
<1> QED
  BY <1>1, <1>5, <1>6, <1>7

\* The walk takes the lock.
LEMMA LockKeeps ==
  ASSUME FilesInv, NEW t \in Openers, DirLock(t)
  PROVE  FilesInv'
<1>1. /\ open_pc[t] = "lock" /\ comp_mtx = Nobody /\ comp_mtx' = t
      /\ open_pc' = [open_pc EXCEPT ![t] = "comp"]
      /\ UNCHANGED <<open_ret, opened, comp_buf, dirs, files, call, troubled>>
  BY DEF DirLock, Goto
<1>2. open_pc'[t] = "comp" /\ TreeInv /\ CallInv(t) /\ FilesTypeOK
  BY <1>1 DEF FilesInv, FilesTypeOK
<1>3. KindInv(t)' /\ TreeInv'
  BY <1>1, <1>2 DEF CallInv, KindInv, Walking, AtFile, TreeInv
<1>4. WayInv(t)'
  BY <1>1, <1>2 DEF CallInv, WayInv, Walking, AtFile, Nameless, Ahead, Stands, DirEnd
<1>5. MadeInv(t)'
  BY <1>1, <1>2 DEF CallInv, MadeInv, Walking, AtFile
<1>6. "comp" \in {"read"} \cup Walking \cup AtFile /\ "comp" \in Locked
  BY DEF Walking, AtFile, Locked
<1>7. comp_buf' \in Comps
  BY <1>1, <1>2 DEF FilesTypeOK
<1> QED
  BY <1>1, <1>3, <1>4, <1>5, <1>6, <1>7, CallTypes, GotoKeeps

\* A call fails for a reason that excuses it.
LEMMA FailKeeps ==
  ASSUME FilesInv, NEW t \in Openers, open_pc[t] # "done", NEW err \in Errs, err # "OK",
         NEW used, Fail(t, err, used),
         UNCHANGED <<comp_buf, dirs, files, call, troubled>>,
         call[t].create => Excused(t)
  PROVE  FilesInv'
<1>1. TreeInv' /\ (call[t].op = "read" => ~call[t].create) /\ <<>> \in Seq(Comps)
  BY DEF FilesInv, TreeInv, CallInv, KindInv
<1>2. call[t].create => Excused(t)'
  BY DEF Excused
<1>3. /\ call[t] \in Calls /\ troubled[t] \in BOOLEAN
      /\ call' = [call EXCEPT ![t] = call[t]]
      /\ troubled' = [troubled EXCEPT ![t] = troubled[t]]
  BY CallTypes
<1>4. UNCHANGED <<dirs, files>> /\ comp_buf' = comp_buf
  OBVIOUS
<1>5. ReturnWith(t, err, used, {}, <<>>)
  BY DEF Fail
<1> QED
  BY <1>1, <1>2, <1>3, <1>4, <1>5, ReturnKeeps

\* The components of a walk are components of its path.
LEMMA AheadParts ==
  ASSUME NEW c \in Calls, NEW n \in 0..DirEnd(c), NEW e \in 0..DirEnd(c), Ahead(c, n, e)
  PROVE  /\ n \in Nat /\ e \in Nat /\ n < e /\ e <= DirEnd(c)
         /\ DirEnd(c) <= Len(c.path)
         /\ Len(c.todo) = e - n /\ Head(c.todo) = c.path[n + 1]
         /\ Tail(c.todo) = SubSeq(c.path, n + 2, e)
         /\ c.path \in Seq(Comps) /\ n + 1 \in 1..Len(c.path)
<1>1. c.path \in Seq(Comps) /\ Len(c.path) \in Nat
  BY DEF Calls
<1>2. DirEnd(c) \in Int /\ DirEnd(c) <= Len(c.path)
  BY <1>1 DEF DirEnd
<1>3. n \in Nat /\ e \in Nat /\ n < e /\ e <= DirEnd(c) /\ e <= Len(c.path)
  BY <1>2 DEF Ahead
<1>4. c.todo = SubSeq(c.path, n + 1, e)
  BY DEF Ahead
<1>5. Len(c.todo) = e - n /\ Head(c.todo) = c.path[n + 1]
  BY <1>1, <1>3, <1>4
<1>6. Tail(c.todo) = SubSeq(c.path, n + 2, e)
  BY <1>1, <1>3, <1>4
<1>7. n + 1 \in 1..Len(c.path)
  BY <1>1, <1>3
<1> QED
  BY <1>1, <1>2, <1>3, <1>5, <1>6, <1>7

\* The next component is skipped, is too long, or is put into the buffer.
LEMMA CompKeeps ==
  ASSUME FilesInv, NEW t \in Openers, DirComp(t)
  PROVE  FilesInv'
<1> DEFINE c == call[t]
<1>1. /\ open_pc[t] = "comp" /\ UNCHANGED <<dirs, files, troubled>>
      /\ \/ /\ Head(c.todo) = NoName /\ Len(c.todo) > 1
            /\ call' = [call EXCEPT ![t].todo = Tail(c.todo)]
            /\ UNCHANGED <<comp_mtx, comp_buf, open_pc, open_ret, opened>>
         \/ /\ Head(c.todo) = LongName
            /\ Fail(t, IF Len(c.todo) > 1 THEN "RANGE" ELSE "NOMEM", {})
            /\ UNCHANGED <<comp_buf, call>>
         \/ /\ ~(Head(c.todo) = NoName /\ Len(c.todo) > 1) /\ Head(c.todo) # LongName
            /\ comp_buf' = Head(c.todo)
            /\ open_pc' = [open_pc EXCEPT ![t] = "open"]
            /\ UNCHANGED <<open_ret, opened, comp_mtx, call>>
  BY DEF DirComp, Goto
<1>2. FilesTypeOK /\ BufferInv /\ TreeInv /\ CallInv(t) /\ comp_mtx = t
  BY <1>1 DEF FilesInv, BufferInv, Locked
<1>3. /\ c \in Calls /\ comp_buf \in Comps /\ c.path \in OpenPaths
      /\ Nameless(c) \/ \E n, e \in 0..DirEnd(c) : Ahead(c, n, e)
  BY <1>1, <1>2, CallTypes DEF CallInv, WayInv, Walking
<1>4. TreeInv'
  BY <1>1, <1>2 DEF TreeInv
<1>5. {"comp", "open"} \subseteq ({"read"} \cup Walking \cup AtFile) \cap Locked
  BY DEF Walking, AtFile, Locked
<1>7. CASE /\ Head(c.todo) = NoName /\ Len(c.todo) > 1
           /\ call' = [call EXCEPT ![t].todo = Tail(c.todo)]
           /\ UNCHANGED <<comp_mtx, comp_buf, open_pc, open_ret, opened>>
  <2>1. PICK n \in 0..DirEnd(c), e \in 0..DirEnd(c) : Ahead(c, n, e)
    <3>1. Nameless(c) => c.todo = <<NoName>>
      BY DEF Nameless
    <3>2. Len(c.todo) > 1
      BY <1>7
    <3>3. ~Nameless(c)
      <4>1. ~(Len(<<NoName>>) > 1)
        OBVIOUS
      <4> QED
        BY <3>1, <3>2, <4>1, Zenon
    <3> QED
      BY <1>3, <3>3
  <2>2. /\ n \in Nat /\ e \in Nat /\ n < e /\ e <= DirEnd(c) /\ DirEnd(c) <= Len(c.path)
        /\ Len(c.todo) = e - n /\ Head(c.todo) = c.path[n + 1]
        /\ Tail(c.todo) = SubSeq(c.path, n + 2, e)
        /\ c.path \in Seq(Comps)
    BY <1>3, <2>1, AheadParts
  <2> DEFINE d == [c EXCEPT !.todo = Tail(c.todo)]
  <2>3. /\ call' = [call EXCEPT ![t] = d] /\ call'[t] = d
        /\ d \in Calls /\ d.op = c.op /\ d.create = c.create
        /\ d.path = c.path /\ d.at = c.at
        /\ d.todo = SubSeq(c.path, n + 2, e)
    <3>1. c.todo \in Seq(Comps) /\ c.todo # <<>> /\ Tail(c.todo) \in Seq(Comps)
      BY <1>3, <2>2 DEF Calls
    <3> QED
      BY <1>2, <1>3, <1>7, <2>2, <3>1 DEF Calls, FilesTypeOK
  <2> HIDE DEF d
  <2>4. /\ DirEnd(d) = DirEnd(c) /\ n + 1 \in 0..DirEnd(d)
        /\ e \in 0..DirEnd(d) /\ n + 1 < e
    BY <1>7, <2>2, <2>3 DEF DirEnd
  <2>5. Stands(d, n + 1)
    <3>1. c.path[n + 1] = NoName /\ Stands(c, n) /\ c.at \in Seq(Comps)
      BY <1>3, <1>7, <2>1, <2>2 DEF Ahead, Calls
    <3>2. \A k \in (n + 1)..(n + 1) : c.path[k] = NoName
      BY <2>2, <3>1
    <3> QED
      BY <2>2, <2>3, <3>1, <3>2, NamesSkip DEF Stands
  <2>6. Ahead(d, n + 1, e)
    <3>1. (n + 1) + 1 = n + 2
      BY <2>2
    <3> QED
      BY <2>1, <2>3, <2>4, <2>5, <3>1 DEF Ahead
  <2>7. KindInv(t)'
    BY <1>2, <1>7, <2>3 DEF CallInv, KindInv
  <2>8. WayInv(t)'
    BY <1>1, <1>3, <1>7, <2>3, <2>4, <2>6 DEF WayInv, Walking, AtFile
  <2>9. MadeInv(t)'
    BY <1>1, <1>2, <1>7, <2>3 DEF CallInv, MadeInv, Walking, AtFile
  <2>10. /\ open_pc' = [open_pc EXCEPT ![t] = "comp"] /\ comp_mtx' = t
         /\ comp_buf' \in Comps /\ UNCHANGED <<comp_buf, dirs, files>>
    BY <1>1, <1>2, <1>3, <1>7 DEF FilesTypeOK
  <2> QED
    <3>1. /\ troubled[t] \in BOOLEAN /\ troubled' = [troubled EXCEPT ![t] = troubled[t]]
          /\ open_ret' = open_ret
          /\ opened' = [opened EXCEPT ![t] = opened[t]] /\ opened[t] \in Seq(Comps)
      BY <1>1, <1>7, CallTypes
    <3>2. "comp" \in {"read"} \cup Walking \cup AtFile /\ "comp" \in Locked
      BY <1>5
    <3> QED
      BY <1>2, <1>4, <2>3, <2>7, <2>8, <2>9, <2>10, <3>1, <3>2, GotoKeeps
<1>8. CASE /\ Head(c.todo) = LongName
           /\ Fail(t, IF Len(c.todo) > 1 THEN "RANGE" ELSE "NOMEM", {})
           /\ UNCHANGED <<comp_buf, call>>
  <2>1. ~Nameless(c)
    BY <1>8, LongNameAssumption DEF Nameless
  <2>2. PICK n \in 0..DirEnd(c), e \in 0..DirEnd(c) : Ahead(c, n, e)
    BY <1>3, <2>1
  <2>3. Head(c.todo) = c.path[n + 1] /\ n + 1 \in 1..Len(c.path)
    BY <1>3, <2>2, AheadParts
  <2>4. LongName \in ToSet(c.path)
    BY <1>3, <1>8, <2>3, PathHasLast
  <2>5. Excused(t)
    BY <2>4 DEF Excused
  <2>6. \A b \in BOOLEAN : (IF b THEN "RANGE" ELSE "NOMEM") \in Errs \ {"OK"}
    BY DEF Errs
  <2> QED
    BY <1>1, <1>8, <2>5, <2>6, FailKeeps
<1>9. CASE /\ ~(Head(c.todo) = NoName /\ Len(c.todo) > 1) /\ Head(c.todo) # LongName
           /\ comp_buf' = Head(c.todo)
           /\ open_pc' = [open_pc EXCEPT ![t] = "open"]
           /\ UNCHANGED <<open_ret, opened, comp_mtx, call>>
  <2>1. open_pc'[t] = "open"
    BY <1>2, <1>9 DEF FilesTypeOK
  <2>2. Len(c.todo) \in Nat \ {0} /\ Head(c.todo) \in Comps
    <3>1. CASE Nameless(c)
      <4>1. c.todo = <<NoName>>
        BY <3>1 DEF Nameless
      <4> QED
        BY <4>1, PathsOfComps
    <3>2. CASE \E n, e \in 0..DirEnd(c) : Ahead(c, n, e)
      <4>1. PICK n \in 0..DirEnd(c), e \in 0..DirEnd(c) : Ahead(c, n, e)
        BY <3>2
      <4> HIDE DEF c
      <4>2. /\ n \in Nat /\ e \in Nat /\ n < e /\ Len(c.todo) = e - n
            /\ Head(c.todo) = c.path[n + 1] /\ c.path \in Seq(Comps)
            /\ n + 1 \in 1..Len(c.path)
        BY <1>3, <4>1, AheadParts
      <4> QED
        BY <4>2
    <3> QED
      BY <1>3, <3>1, <3>2
  <2>3. KindInv(t)'
    BY <1>1, <1>2, <1>9, <2>1 DEF CallInv, KindInv, Walking, AtFile
  <2>4. WayInv(t)'
    <3>1. comp_buf' = NoName => Len(c.todo) = 1
      <4>1. comp_buf' = NoName => ~(Len(c.todo) > 1)
        BY <1>9
      <4>2. Len(c.todo) \in Nat \ {0}
        BY <2>2
      <4>3. \A k \in Nat \ {0} : ~(k > 1) => k = 1
        OBVIOUS
      <4> QED
        BY <4>1, <4>2, <4>3
    <3> QED
      BY <1>3, <1>9, <2>1, <3>1 DEF WayInv, Walking, AtFile
  <2>5. MadeInv(t)'
    BY <1>1, <1>2, <1>9, <2>1 DEF CallInv, MadeInv, Walking, AtFile
  <2>6. open_pc[t] \in Locked /\ comp_buf' \in Comps /\ comp_mtx' = t
    BY <1>1, <1>2, <1>5, <1>9, <2>2
  <2> QED
    BY <1>1, <1>2, <1>4, <1>5, <1>9, <2>3, <2>4, <2>5, <2>6, CallTypes, GotoKeeps
<1> QED
  BY <1>1, <1>7, <1>8, <1>9

\* The directory is open: the walk goes on, has its result, or is at the file.
LEMMA OpenedKeeps ==
  ASSUME FilesInv, NEW t \in Openers, open_pc[t] \in {"open", "reopen"},
         Named(t) \in dirs,
         DirOpened(t), UNCHANGED <<comp_buf, dirs, files, troubled>>
  PROVE  FilesInv'
<1> DEFINE c == call[t]
<1>1. FilesTypeOK /\ BufferInv /\ TreeInv /\ CallInv(t) /\ comp_mtx = t
  BY DEF FilesInv, BufferInv, Locked
<1>2. /\ c \in Calls /\ comp_buf \in Comps /\ c.path \in OpenPaths /\ c.op \in Ops
      /\ c.path \in Seq(Comps) /\ Named(t) \in Seq(Comps) /\ c.todo \in Seq(Comps)
  BY <1>1, CallTypes DEF CallInv, WayInv, Walking
<1>3. PICK n \in 0..DirEnd(c), e \in 0..DirEnd(c) :
        Ahead(c, n, e) /\ Names(Named(t), c.path, n + 1)
  BY WalkFinds
<1>4. /\ n \in Nat /\ e \in Nat /\ n < e /\ e <= DirEnd(c) /\ DirEnd(c) <= Len(c.path)
      /\ Len(c.todo) = e - n /\ Tail(c.todo) = SubSeq(c.path, n + 2, e)
  BY <1>2, <1>3, AheadParts
<1>5. TreeInv'
  BY <1>1 DEF TreeInv
<1>6. {"open", "reopen", "comp"} \subseteq Locked /\ "file" \notin Locked
      /\ {"comp", "file"} \subseteq {"read"} \cup Walking \cup AtFile
  BY DEF Walking, AtFile, Locked
<1>7. /\ troubled[t] \in BOOLEAN /\ troubled' = [troubled EXCEPT ![t] = troubled[t]]
      /\ opened[t] \in Seq(Comps) /\ opened = [opened EXCEPT ![t] = opened[t]]
      /\ comp_buf' \in Comps
  BY <1>1, CallTypes DEF FilesTypeOK
<1>8. open_ret[t] = "none" /\ (c.op = "read" => ~c.create)
  BY <1>1 DEF CallInv, KindInv, Walking
<1>9. CASE Len(c.todo) > 1
  <2> DEFINE d == [c EXCEPT !.todo = Tail(c.todo), !.at = Named(t)]
  <2>1. /\ call' = [call EXCEPT ![t].todo = Tail(@), ![t].at = Named(t)]
        /\ open_pc' = [open_pc EXCEPT ![t] = "comp"]
        /\ UNCHANGED <<open_ret, opened, comp_mtx>>
    BY <1>9 DEF DirOpened, Goto
  <2>2. Tail(c.todo) \in Seq(Comps)
    BY <1>2, <1>4
  <2>3. /\ call' = [call EXCEPT ![t] = d] /\ call'[t] = d /\ open_pc'[t] = "comp"
        /\ d \in Calls /\ d.op = c.op /\ d.create = c.create /\ d.path = c.path
        /\ d.at = Named(t) /\ d.todo = SubSeq(c.path, n + 2, e)
    BY <1>1, <1>2, <1>4, <2>1, <2>2 DEF Calls, FilesTypeOK
  <2> HIDE DEF d
  <2>4. /\ DirEnd(d) = DirEnd(c) /\ n + 1 \in 0..DirEnd(d)
        /\ e \in 0..DirEnd(d) /\ n + 1 < e
        /\ (n + 1) + 1 = n + 2
    BY <1>4, <1>9, <2>3 DEF DirEnd
  <2>5. Ahead(d, n + 1, e)
    BY <1>3, <2>3, <2>4 DEF Ahead, Stands
  <2>6. KindInv(t)'
    BY <1>8, <2>1, <2>3 DEF KindInv, Walking, AtFile
  <2>7. WayInv(t)'
    BY <1>2, <2>3, <2>4, <2>5 DEF WayInv, Walking, AtFile
  <2>8. MadeInv(t)'
    BY <2>3 DEF MadeInv
  <2> QED
    BY <1>1, <1>5, <1>6, <1>7, <2>1, <2>3, <2>6, <2>7, <2>8, GotoKeeps
<1>10. CASE ~(Len(c.todo) > 1) /\ c.op = "dir"
  <2>1. ReturnWith(t, "OK", {local[t].cur}, {New(t)}, Named(t)) /\ UNCHANGED call
    BY <1>10 DEF DirOpened
  <2>2. DirEnd(c) = Len(c.path) /\ n + 1 = e
    BY <1>4, <1>10 DEF DirEnd
  <2>3. Names(Named(t), c.path, Len(c.path))
    <3>1. \A i \in (e + 1)..Len(c.path) : c.path[i] = NoName
      BY <1>3, <2>2 DEF Ahead
    <3>2. Names(Named(t), c.path, e) /\ e <= Len(c.path) /\ Len(c.path) \in Nat
      BY <1>2, <1>3, <1>4, <2>2
    <3> QED
      BY <1>2, <1>4, <3>1, <3>2, NamesSkip
  <2>4. call' = [call EXCEPT ![t] = c] /\ "OK" \in Errs /\ open_pc[t] # "done"
        /\ UNCHANGED <<dirs, files>> /\ comp_buf' = comp_buf
    BY <1>10, <2>1, CallTypes DEF Errs
  <2> QED
    BY <1>2, <1>5, <1>7, <1>8, <2>1, <2>3, <2>4, ReturnKeeps
<1>11. CASE ~(Len(c.todo) > 1) /\ c.op # "dir"
  <2> DEFINE d == [c EXCEPT !.todo = <<>>, !.at = Named(t)]
  <2>1. /\ call' = [call EXCEPT ![t].todo = <<>>, ![t].at = Named(t)]
        /\ comp_mtx' = Nobody
        /\ open_pc' = [open_pc EXCEPT ![t] = "file"]
        /\ UNCHANGED <<open_ret, opened>>
    BY <1>11 DEF DirOpened, Goto
  <2>2. <<>> \in Seq(Comps)
    OBVIOUS
  <2>3. /\ call' = [call EXCEPT ![t] = d] /\ call'[t] = d /\ open_pc'[t] = "file"
        /\ d \in Calls /\ d.op = c.op /\ d.create = c.create /\ d.path = c.path
        /\ d.at = Named(t)
    BY <1>1, <1>2, <2>1, <2>2 DEF Calls, FilesTypeOK
  <2> HIDE DEF d
  <2>4. DirEnd(c) = Len(c.path) - 1 /\ n + 1 = e
    BY <1>4, <1>11 DEF DirEnd
  <2>5. Stands(d, Len(c.path) - 1)
    <3>1. \A i \in (e + 1)..(Len(c.path) - 1) : c.path[i] = NoName
      BY <1>3, <2>4 DEF Ahead
    <3>2. Len(c.path) - 1 \in Nat /\ e <= Len(c.path) - 1
      BY <1>2, <1>4, <2>4
    <3>3. Names(Named(t), c.path, Len(c.path) - 1)
      BY <1>2, <1>3, <1>4, <2>4, <3>1, <3>2, NamesSkip
    <3> QED
      BY <2>3, <3>3 DEF Stands
  <2>6. KindInv(t)'
    BY <1>8, <1>11, <2>1, <2>3 DEF KindInv, Walking, AtFile
  <2>7. WayInv(t)'
    BY <1>2, <2>3, <2>5 DEF WayInv, Walking, AtFile
  <2>8. MadeInv(t)'
    BY <2>3 DEF MadeInv
  <2> QED
    <3>1. /\ open_pc[t] \in Locked /\ "file" \notin Locked
          /\ "file" \in {"read"} \cup Walking \cup AtFile
          /\ open_ret' = open_ret
          /\ opened' = [opened EXCEPT ![t] = opened[t]]
          /\ UNCHANGED <<comp_buf, dirs, files>>
      BY <1>6, <1>7, <2>1
    <3> QED
      BY <1>5, <1>7, <2>1, <2>3, <2>6, <2>7, <2>8, <3>1, GotoKeeps
<1> QED
  BY <1>9, <1>10, <1>11

\* A file where a directory has to be excuses the call that finds it.
LEMMA FileInTheWay ==
  ASSUME FilesInv, NEW t \in Openers, open_pc[t] \in {"open", "mkdir", "mkdirat", "fsync", "reopen"},
         Named(t) \in files, call[t].create
  PROVE  Excused(t)
<1> DEFINE c == call[t]
<1>1. c \in Calls /\ c.op \in Ops /\ c.path \in OpenPaths /\ c.op # "read"
  BY CallTypes DEF FilesInv, CallInv, WayInv, KindInv, Walking
<1>2. PICK n \in 0..DirEnd(c), e \in 0..DirEnd(c) :
        Ahead(c, n, e) /\ Names(Named(t), c.path, n + 1)
  BY WalkFinds
<1>3. /\ n \in Nat /\ e \in Nat /\ n < e /\ e <= DirEnd(c) /\ n + 1 \in 1..Len(c.path)
  BY <1>1, <1>2, AheadParts
<1>4. CASE c.op = "dir"
  BY <1>2, <1>3, <1>4 DEF Excused
<1>5. CASE c.op = "file" /\ Last(c.path) = NoName
  BY <1>5 DEF Excused
<1>6. CASE c.op = "file" /\ Last(c.path) # NoName
  <2>1. Len(c.path) \in Nat /\ c.path[Len(c.path)] # NoName
    BY <1>1, <1>6, PathHasLast
  <2>2. DirEnd(c) = Len(c.path) - 1
    BY <1>6 DEF DirEnd
  <2>3. Len(c.path) \in ((n + 1) + 1)..Len(c.path)
    BY <1>3, <2>1, <2>2
  <2> QED
    BY <1>2, <1>3, <2>1, <2>3 DEF Excused
<1> QED
  BY <1>1, <1>4, <1>5, <1>6 DEF Ops

\* The directory is opened, or is missing and will be made, or cannot be opened.
LEMMA OpenKeeps ==
  ASSUME FilesInv, NEW t \in Openers, DirOpen(t)
  PROVE  FilesInv'
<1>1. open_pc[t] = "open" /\ UNCHANGED <<comp_buf, dirs, files, troubled>>
  BY DEF DirOpen
<1>2. FilesTypeOK /\ BufferInv /\ TreeInv /\ CallInv(t) /\ comp_mtx = t
  BY <1>1 DEF FilesInv, BufferInv, Locked
<1>3. CASE Named(t) \in dirs
  BY <1>1, <1>3, OpenedKeeps DEF DirOpen
<1>4. CASE Named(t) \notin dirs /\ call[t].create /\ Named(t) \notin files
  <2>1. /\ open_pc' = [open_pc EXCEPT ![t] = "mkdir"]
        /\ UNCHANGED <<open_ret, opened, comp_mtx, call>>
    BY <1>4 DEF DirOpen, Goto
  <2>2. open_pc'[t] = "mkdir"
    BY <1>2, <2>1 DEF FilesTypeOK
  <2>3. KindInv(t)' /\ TreeInv'
    BY <1>1, <1>2, <2>1, <2>2 DEF CallInv, KindInv, TreeInv, Walking, AtFile
  <2>4. WayInv(t)'
    BY <1>1, <1>2, <2>1, <2>2 DEF CallInv, WayInv, Walking, AtFile
  <2>5. MadeInv(t)'
    BY <1>1, <1>2, <1>4, <2>1, <2>2 DEF CallInv, MadeInv, Walking, AtFile, Named
  <2>6. /\ "mkdir" \in {"read"} \cup Walking \cup AtFile
        /\ {"open", "mkdir"} \subseteq Locked
    BY DEF Walking, AtFile, Locked
  <2>7. comp_buf' \in Comps
    BY <1>1, <1>2 DEF FilesTypeOK
  <2> QED
    BY <1>1, <1>2, <2>1, <2>3, <2>4, <2>5, <2>6, <2>7, CallTypes, GotoKeeps
<1>5. CASE Named(t) \notin dirs /\ ~(call[t].create /\ Named(t) \notin files)
  <2>1. Fail(t, "FAILURE", {local[t].cur}) /\ UNCHANGED call
    BY <1>5 DEF DirOpen
  <2>2. call[t].create => Excused(t)
    BY <1>1, <1>5, FileInTheWay
  <2> QED
    BY <1>1, <2>1, <2>2, FailKeeps DEF Errs
<1> QED
  BY <1>3, <1>4, <1>5

\* A descriptor is copied, or the parent is synced.
LEMMA StepKeeps ==
  ASSUME FilesInv, NEW t \in Openers, NEW where,
         <<open_pc[t], where>> \in {<<"copydir", "lock">>, <<"copyfile", "file">>,
                                    <<"mkdir", "mkdirat">>, <<"fsync", "reopen">>},
         Goto(t, where), UNCHANGED <<comp_mtx, comp_buf, dirs, files, call, troubled>>
  PROVE  FilesInv'
<1>1. /\ open_pc' = [open_pc EXCEPT ![t] = where]
      /\ UNCHANGED <<open_ret, opened, comp_mtx, comp_buf, dirs, files, call, troubled>>
  BY DEF Goto
<1>2. FilesTypeOK /\ BufferInv /\ TreeInv /\ CallInv(t) /\ open_pc'[t] = where
  BY <1>1 DEF FilesInv, FilesTypeOK
<1>3. KindInv(t)' /\ TreeInv'
  BY <1>1, <1>2 DEF CallInv, KindInv, TreeInv, Walking, AtFile
<1>4. WayInv(t)'
  BY <1>1, <1>2 DEF CallInv, WayInv, Walking, AtFile
<1>5. MadeInv(t)'
  BY <1>1, <1>2 DEF CallInv, MadeInv, Walking, AtFile, Named
<1>6. /\ where \in {"read"} \cup Walking \cup AtFile
      /\ where \in Locked <=> open_pc[t] \in Locked
  BY DEF Walking, AtFile, Locked
<1>7. open_pc[t] \in Locked => comp_mtx = t
  BY <1>2 DEF BufferInv
<1>8. comp_buf' \in Comps
  BY <1>1, <1>2 DEF FilesTypeOK
<1> QED
  BY <1>1, <1>3, <1>4, <1>5, <1>6, <1>7, <1>8, CallTypes, GotoKeeps

LEMMA CopyKeeps ==
  ASSUME FilesInv, NEW t \in Openers, DirCopy(t) \/ MkdirCopy(t) \/ DirSync(t)
  PROVE  FilesInv'
<1>1. CASE DirCopy(t)
  BY <1>1, StepKeeps DEF DirCopy
<1>2. CASE MkdirCopy(t) \/ DirSync(t)
  BY <1>2, StepKeeps DEF MkdirCopy, DirSync
<1> QED
  BY <1>1, <1>2

\* A directory that is missing is made.
LEMMA MkdirKeeps ==
  ASSUME FilesInv, NEW t \in Openers, DirMkdir(t)
  PROVE  FilesInv'
<1> DEFINE c == call[t]
<1>1. open_pc[t] = "mkdirat" /\ UNCHANGED <<comp_buf, files, call, troubled>>
  BY DEF DirMkdir
<1>2. FilesTypeOK /\ BufferInv /\ TreeInv /\ CallInv(t) /\ comp_mtx = t
  BY <1>1 DEF FilesInv, BufferInv, Locked
<1>3. CASE Makeable(t)
  <2>1. /\ dirs' = dirs \cup {Named(t)} /\ open_pc' = [open_pc EXCEPT ![t] = "fsync"]
        /\ UNCHANGED <<open_ret, opened, comp_mtx>>
    BY <1>3 DEF DirMkdir, Goto
  <2>2. open_pc'[t] = "fsync"
    BY <1>2, <2>1 DEF FilesTypeOK
  <2>3. KindInv(t)'
    BY <1>1, <1>2, <2>1, <2>2 DEF CallInv, KindInv, Walking, AtFile
  <2>4. WayInv(t)'
    BY <1>1, <1>2, <2>1, <2>2 DEF CallInv, WayInv, Walking, AtFile
  <2>5. MadeInv(t)'
    BY <1>1, <1>2, <2>1, <2>2 DEF CallInv, MadeInv, Walking, AtFile, Named
  <2>6. TreeInv'
    <3>1. comp_buf # LongName /\ <<>> \in dirs
      BY <1>1, <1>2 DEF CallInv, WayInv, TreeInv
    <3> QED
      BY <1>1, <1>3, <2>1, <3>1, MakeKeepsTree
  <2>7. /\ "fsync" \in {"read"} \cup Walking \cup AtFile
        /\ {"fsync", "mkdirat"} \subseteq Locked
    BY DEF Walking, AtFile, Locked
  <2>8. comp_buf' \in Comps
        /\ dirs \subseteq dirs' /\ files \subseteq files'
    BY <1>1, <1>2, <2>1 DEF FilesTypeOK
  <2>9. /\ call[t] \in Calls /\ troubled[t] \in BOOLEAN /\ opened[t] \in Seq(Comps)
        /\ call' = [call EXCEPT ![t] = call[t]] /\ opened' = [opened EXCEPT ![t] = opened[t]]
        /\ troubled' = [troubled EXCEPT ![t] = troubled[t]] /\ open_ret' = open_ret
    BY <1>1, <2>1, CallTypes
  <2>10. "fsync" \in Locked /\ comp_mtx' = t /\ comp_mtx \in {t, Nobody}
         /\ open_pc[t] \in Locked
    BY <1>1, <1>2, <2>1, <2>7
  <2> QED
    BY <2>1, <2>3, <2>4, <2>5, <2>6, <2>7, <2>8, <2>9, <2>10, GotoKeeps
<1>4. CASE ~Makeable(t)
  <2>1. Fail(t, "FAILURE", {local[t].parent}) /\ UNCHANGED dirs
    BY <1>4 DEF DirMkdir
  <2>2. ASSUME c.create
        PROVE  Excused(t)
    <3>1. CASE troubled[t]
      BY <3>1 DEF Excused
    <3>2. CASE ~troubled[t]
      <4>1. comp_buf = NoName
        BY <1>1, <1>2, <1>4, <3>2 DEF CallInv, MadeInv, Makeable, Walking
      <4>2. Head(c.todo) = NoName /\ Len(c.todo) = 1
        BY <1>1, <1>2, <4>1 DEF CallInv, WayInv
      <4>3. ASSUME NEW n \in 0..DirEnd(c), NEW e \in 0..DirEnd(c), Ahead(c, n, e)
            PROVE  FALSE
        <5>1. /\ n \in Nat /\ e \in Nat /\ Len(c.todo) = e - n
              /\ Head(c.todo) = c.path[n + 1]
          BY <4>3, AheadParts, CallTypes
        <5>2. n + 1 = e /\ c.path[e] # NoName
          BY <4>2, <4>3, <5>1 DEF Ahead
        <5> QED
          BY <4>2, <5>1, <5>2
      <4>4. Nameless(c)
        BY <1>1, <1>2, <4>3 DEF CallInv, WayInv, Walking
      <4>5. c.op = "file"
        BY <1>2, <2>2, <4>4, CallTypes DEF CallInv, KindInv, Nameless, Ops
      <4> QED
        BY <4>4, <4>5 DEF Excused, Nameless
    <3> QED
      BY <3>1, <3>2
  <2> QED
    BY <1>1, <2>1, <2>2, FailKeeps DEF Errs
<1> QED
  BY <1>3, <1>4

\* A directory that was made is opened.
LEMMA ReopenKeeps ==
  ASSUME FilesInv, NEW t \in Openers, DirReopen(t)
  PROVE  FilesInv'
<1>1. open_pc[t] = "reopen" /\ UNCHANGED <<comp_buf, dirs, files, troubled>>
  BY DEF DirReopen
<1>2. CASE Named(t) \in dirs
  BY <1>1, <1>2, OpenedKeeps DEF DirReopen
<1>3. CASE Named(t) \notin dirs
  <2>1. Fail(t, "FAILURE", {local[t].cur}) /\ UNCHANGED call
    BY <1>3 DEF DirReopen
  <2>2. troubled[t]
    BY <1>1, <1>3 DEF FilesInv, CallInv, MadeInv
  <2>3. Excused(t)
    BY <2>2 DEF Excused
  <2> QED
    BY <1>1, <2>1, <2>3, FailKeeps DEF Errs
<1> QED
  BY <1>2, <1>3

\* The file name is put into the buffer.
LEMMA FileLockKeeps ==
  ASSUME FilesInv, NEW t \in Openers, FileLock(t)
  PROVE  FilesInv'
<1> DEFINE c == call[t]
<1>1. open_pc[t] = "file" /\ UNCHANGED <<dirs, files, call, troubled>>
  BY DEF FileLock
<1>2. FilesTypeOK /\ BufferInv /\ TreeInv /\ CallInv(t)
  BY DEF FilesInv
<1>3. c.path \in OpenPaths
  BY <1>1, <1>2 DEF CallInv, WayInv, AtFile
<1>4. /\ c.path \in Seq(Comps) /\ Len(c.path) \in Nat \ {0}
      /\ Last(c.path) = c.path[Len(c.path)]
      /\ \A i \in 1..Len(c.path) : c.path[i] \in ToSet(c.path)
  BY <1>3, PathHasLast
<1>5. CASE Last(c.path) = LongName
  <2>1. Fail(t, "NOMEM", {}) /\ UNCHANGED comp_buf
    BY <1>5 DEF FileLock
  <2>2. Len(c.path) \in 1..Len(c.path)
    BY <1>4
  <2>3. LongName \in ToSet(c.path)
    BY <1>4, <1>5, <2>2
  <2>4. Excused(t)
    BY <2>3 DEF Excused
  <2> QED
    BY <1>1, <2>1, <2>4, FailKeeps DEF Errs
<1>6. CASE Last(c.path) # LongName
  <2>1. /\ comp_mtx = Nobody /\ comp_mtx' = t /\ comp_buf' = Last(c.path)
        /\ open_pc' = [open_pc EXCEPT ![t] = "openfile"]
        /\ UNCHANGED <<open_ret, opened>>
    BY <1>6 DEF FileLock, Goto
  <2>2. open_pc'[t] = "openfile"
    BY <1>2, <2>1 DEF FilesTypeOK
  <2>3. KindInv(t)' /\ TreeInv'
    BY <1>1, <1>2, <2>1, <2>2 DEF CallInv, KindInv, TreeInv, Walking, AtFile
  <2>4. WayInv(t)'
    BY <1>1, <1>2, <1>6, <2>1, <2>2 DEF CallInv, WayInv, Walking, AtFile
  <2>5. MadeInv(t)'
    BY <1>1, <1>2, <2>1, <2>2 DEF CallInv, MadeInv, Walking, AtFile
  <2>6. "openfile" \in {"read"} \cup Walking \cup AtFile /\ "openfile" \in Locked
    BY DEF Walking, AtFile, Locked
  <2>7. comp_buf' \in Comps
    BY <1>2, <1>4, <2>1 DEF FilesTypeOK
  <2> QED
    BY <1>1, <2>1, <2>3, <2>4, <2>5, <2>6, <2>7, CallTypes, GotoKeeps
<1> QED
  BY <1>5, <1>6

\* The file is opened or created, or cannot be.
LEMMA FileOpenKeeps ==
  ASSUME FilesInv, NEW t \in Openers, FileOpen(t)
  PROVE  FilesInv'
<1> DEFINE c == call[t]
           exists == Named(t) \in files \/ (Named(t) \in dirs /\ ~c.create)
           creates == c.create /\ Makeable(t)
<1>1. /\ open_pc[t] = "openfile" /\ UNCHANGED <<comp_buf, dirs, call, troubled>>
      /\ files' = IF creates THEN files \cup {Named(t)} ELSE files
  BY DEF FileOpen
<1>2. FilesTypeOK /\ BufferInv /\ TreeInv /\ CallInv(t) /\ comp_mtx = t
  BY <1>1 DEF FilesInv, BufferInv, Locked
<1>3. /\ c.path \in OpenPaths /\ comp_buf = Last(c.path) /\ comp_buf # LongName
      /\ Stands(c, Len(c.path) - 1) /\ c.op # "dir" /\ (c.op = "read" => ~c.create)
      /\ open_ret[t] = "none"
  BY <1>1, <1>2 DEF CallInv, WayInv, KindInv, AtFile
<1>4. /\ c.path \in Seq(Comps) /\ Len(c.path) \in Nat \ {0}
      /\ Last(c.path) = c.path[Len(c.path)]
  BY <1>3, PathHasLast
<1>5. /\ c \in Calls /\ c.op \in {"file", "read"} /\ comp_buf \in Comps
      /\ c.at \in Seq(Comps) /\ Named(t) \in Seq(Comps)
      /\ Named(t) = Append(c.at, comp_buf)
      /\ call' = [call EXCEPT ![t] = c] /\ troubled[t] \in BOOLEAN
      /\ troubled' = [troubled EXCEPT ![t] = troubled[t]]
  BY <1>1, <1>3, CallTypes DEF Named, Ops
<1>6. ASSUME Named(t) \in dirs \cup files \/ Makeable(t)
      PROVE  Names(Named(t), c.path, Len(c.path))
  <2> DEFINE m == Len(c.path) - 1
  <2>1. m \in Nat /\ m + 1 = Len(c.path)
    BY <1>4
  <2>2. Stands(c, m) /\ comp_buf = c.path[m + 1]
    BY <1>3, <1>4, <2>1
  <2> HIDE DEF m
  <2>3. CASE Named(t) \in dirs \cup files
    <3>1. Names(Append(c.at, comp_buf), c.path, m + 1)
      BY <1>2, <1>5, <2>1, <2>2, <2>3, StandsNext
    <3> QED
      BY <1>5, <2>1, <3>1
  <2>4. CASE Makeable(t)
    <3>1. comp_buf # NoName /\ c.at \in dirs
      BY <2>4 DEF Makeable
    <3>2. ASSUME c.at = Removed
          PROVE  FALSE
      <4>1. Len(c.at) = 1 /\ c.at[1] = LongName
        BY <3>2 DEF Removed
      <4> QED
        BY <1>2, <3>1, <4>1 DEF TreeInv
    <3>3. Names(c.at, c.path, m)
      BY <2>2, <3>2 DEF Stands
    <3>4. Names(Append(c.at, c.path[m + 1]), c.path, m + 1)
      BY <1>4, <1>5, <2>1, <2>2, <3>1, <3>3, NamesNext
    <3> QED
      BY <1>5, <2>1, <2>2, <3>4
  <2> QED
    BY <1>6, <2>3, <2>4
<1>7. TreeInv' /\ files \subseteq files'
  <2>1. CASE creates
    BY <1>1, <1>2, <1>3, <2>1, MakeKeepsTree DEF TreeInv
  <2>2. CASE ~creates
    BY <1>1, <1>2, <2>2 DEF TreeInv
  <2> QED
    BY <2>1, <2>2
<1>8. /\ {"OK", "FAILURE"} \subseteq Errs
      /\ open_pc[t] # "done" /\ open_pc[t] \in Locked
      /\ "read" \in {"read"} \cup Walking \cup AtFile /\ "read" \notin Locked
  BY <1>1 DEF Errs, Locked
<1>9. CASE ~exists /\ ~creates
  <2>1. Fail(t, "FAILURE", {local[t].dir}) /\ files' = files
    BY <1>1, <1>9 DEF FileOpen
  <2>2. ASSUME c.create
        PROVE  Excused(t)
    <3>1. c.op = "file"
      BY <1>3, <1>5, <2>2
    <3>2. CASE comp_buf = NoName
      BY <1>3, <3>1, <3>2 DEF Excused
    <3>3. CASE c.at \notin dirs
      BY <1>1, <1>2, <3>3 DEF CallInv, MadeInv, AtFile, Excused
    <3>4. CASE Named(t) \in dirs
      BY <1>6, <3>1, <3>4 DEF Excused
    <3> QED
      BY <1>9, <2>2, <3>2, <3>3, <3>4 DEF Makeable
  <2> QED
    BY <1>1, <1>8, <2>1, <2>2, FailKeeps
<1>10. CASE (exists \/ creates) /\ c.op = "file"
  <2>1. ReturnWith(t, "OK", {local[t].dir}, {New(t)}, Named(t))
    BY <1>10 DEF FileOpen
  <2>2. Names(Named(t), c.path, Len(c.path))
    BY <1>6, <1>10
  <2>3. dirs \subseteq dirs' /\ comp_buf' = comp_buf /\ "OK" \in Errs
    BY <1>1, <1>8
  <2> HIDE DEF c
  <2> QED
    BY <1>3, <1>5, <1>7, <1>8, <2>1, <2>2, <2>3, ReturnKeeps
<1>11. CASE (exists \/ creates) /\ c.op # "file"
  <2>1. /\ comp_mtx' = Nobody
        /\ open_pc' = [open_pc EXCEPT ![t] = "read"]
        /\ opened' = [opened EXCEPT ![t] = Named(t)]
        /\ UNCHANGED open_ret
    BY <1>11 DEF FileOpen
  <2>3. /\ open_pc'[t] = "read" /\ opened'[t] = Named(t)
        /\ open_ret'[t] = "none" /\ call'[t] = c
    BY <1>1, <1>2, <1>3, <2>1 DEF FilesTypeOK
  <2>4. KindInv(t)' /\ MadeInv(t)'
    BY <1>3, <1>5, <1>11, <2>3 DEF KindInv, MadeInv, Walking, AtFile
  <2>5. WayInv(t)'
    BY <1>6, <1>11, <2>3 DEF WayInv, Walking, AtFile
  <2>6. comp_buf' \in Comps
    BY <1>1, <1>5
  <2> QED
    BY <1>1, <1>5, <1>7, <1>8, <2>1, <2>4, <2>5, <2>6, GotoKeeps
<1> QED
  BY <1>9, <1>10, <1>11

\* The file is read.
LEMMA ReadKeeps ==
  ASSUME FilesInv, NEW t \in Openers, NEW size, NEW left, FileRead(t, size, left)
  PROVE  FilesInv'
<1> DEFINE err == IF size > ContentMax THEN "NOMEM"
                  ELSE IF opened[t] \notin files THEN "FAILURE"
                  ELSE IF left < size THEN "NODATA" ELSE "OK"
<1>1. /\ open_pc[t] = "read" /\ UNCHANGED <<comp_buf, dirs, files, call, troubled>>
      /\ ReturnWith(t, err, {local[t].fd}, {}, opened[t])
  BY DEF FileRead
<1>2. err \in Errs
  BY DEF Errs
<1>3. /\ TreeInv' /\ call[t].op = "read" /\ ~call[t].create
      /\ Names(opened[t], call[t].path, Len(call[t].path))
  BY <1>1 DEF FilesInv, TreeInv, CallInv, KindInv, WayInv
<1>4. /\ call[t] \in Calls /\ troubled[t] \in BOOLEAN /\ opened[t] \in Seq(Comps)
      /\ call' = [call EXCEPT ![t] = call[t]]
      /\ troubled' = [troubled EXCEPT ![t] = troubled[t]]
  BY <1>1, CallTypes
<1> HIDE DEF err
<1> QED
  BY <1>1, <1>2, <1>3, <1>4, ReturnKeeps

\* A system call fails for its own reasons.
LEMMA SystemKeeps ==
  ASSUME FilesInv, NEW t \in Openers, SystemFails(t)
  PROVE  FilesInv'
<1>1. /\ ReturnWith(t, "FAILURE", {}, {}, <<>>)
      /\ UNCHANGED <<comp_buf, dirs, files, call>>
      /\ troubled' = [troubled EXCEPT ![t] = TRUE] /\ open_pc[t] # "done"
  BY DEF SystemFails, Fail
<1>2. FilesTypeOK /\ TreeInv /\ CallInv(t)
  BY DEF FilesInv
<1>3. Excused(t)'
  BY <1>1, <1>2 DEF Excused, FilesTypeOK
<1>4. TreeInv' /\ dirs \subseteq dirs' /\ files \subseteq files'
  BY <1>1, <1>2 DEF TreeInv
<1>5. call[t] \in Calls /\ call' = [call EXCEPT ![t] = call[t]] /\ <<>> \in Seq(Comps)
      /\ "FAILURE" \in Errs /\ (call[t].op = "read" => ~call[t].create)
  BY <1>1, <1>2, CallTypes DEF Errs, CallInv, KindInv
<1> QED
  BY <1>1, <1>3, <1>4, <1>5, ReturnKeeps

\* The caller is done.
LEMMA OpenReturnKeeps ==
  ASSUME FilesInv, NEW t \in Openers, OpenReturn(t)
  PROVE  FilesInv'
<1>1. /\ open_pc[t] = "done" /\ open_pc' = [open_pc EXCEPT ![t] = "idle"]
      /\ open_ret' = [open_ret EXCEPT ![t] = "none"]
      /\ opened' = [opened EXCEPT ![t] = <<>>] /\ call' = [call EXCEPT ![t] = NoOpen]
      /\ troubled' = [troubled EXCEPT ![t] = FALSE]
      /\ UNCHANGED <<comp_mtx, comp_buf, dirs, files>>
  BY DEF OpenReturn
<1>2. FilesTypeOK /\ BufferInv /\ TreeInv
  BY DEF FilesInv
<1>3. <<>> \in Seq(Comps) /\ "dir" \in Ops
  BY DEF Ops
<1>4. NoOpen \in Calls /\ NoOpen.op = "dir"
  BY <1>3 DEF NoOpen, Calls
<1>5. FilesTypeOK'
  BY <1>1, <1>2, <1>3, <1>4 DEF FilesTypeOK
<1>6. BufferInv' /\ TreeInv'
  BY <1>1, <1>2 DEF BufferInv, TreeInv, FilesTypeOK, Locked
<1>7. CallInv(t)'
  <2>1. /\ open_pc'[t] = "idle" /\ open_ret'[t] = "none"
        /\ call'[t] = NoOpen
    BY <1>1, <1>2 DEF FilesTypeOK
  <2> QED
    BY <1>4, <2>1 DEF CallInv, KindInv, WayInv, MadeInv, DoneInv, Walking, AtFile
<1>8. ASSUME NEW u \in Openers, u # t
      PROVE  CallInv(u)'
  <2>1. Unmoved(u)
    BY <1>1, <1>2, <1>8 DEF Unmoved, FilesTypeOK
  <2> QED
    BY <1>1, <2>1, OthersKeep
<1> QED
  BY <1>5, <1>6, <1>7, <1>8 DEF FilesInv

\* Another process makes or removes a directory: who is in a call may fail.
LEMMA OtherKeeps ==
  ASSUME FilesInv, NEW d \in Others, OtherProcess(d)
  PROVE  FilesInv'
<1>1. /\ troubled' = [t \in Openers |-> open_pc[t] # "idle"]
      /\ UNCHANGED <<comp_mtx, comp_buf, files, open_pc, open_ret, opened>>
      /\ dirs' = dirs \ {d} \/ dirs' = dirs \cup {d}
      /\ \/ call' = call
         \/ call' = [t \in Openers |-> IF call[t].at = d THEN [call[t] EXCEPT !.at = Removed]
                                                         ELSE call[t]]
  BY DEF OtherProcess
<1>2. FilesTypeOK /\ BufferInv /\ TreeInv
  BY DEF FilesInv
<1>3. /\ d \in Seq(Comps) /\ d # <<>>
      /\ \A i \in 1..Len(d) : d[i] # NoName /\ d[i] # LongName
  <2>1. d \in Seq(STRING) /\ d # <<>> /\ ToSet(d) \cap {NoName, LongName} = {}
    BY OthersAssumption
  <2>2. d \in Seq(Comps) /\ DOMAIN d = 1..Len(d)
    BY <2>1, PathsOfComps
  <2> QED
    BY <2>1, <2>2 DEF ToSet
<1>4. TreeInv'
  BY <1>1, <1>2, <1>3 DEF TreeInv
<1>5. Removed \in Seq(Comps)
  BY PathsOfComps DEF Removed
<1>6. ASSUME NEW t \in Openers
      PROVE  /\ call'[t] \in Calls /\ call'[t].op = call[t].op
             /\ call'[t].create = call[t].create /\ call'[t].path = call[t].path
             /\ call'[t].todo = call[t].todo
             /\ call'[t].at \in {call[t].at, Removed}
  <2>1. call'[t] = call[t] \/ call'[t] = [call[t] EXCEPT !.at = Removed]
    BY <1>1
  <2>2. call[t] \in Calls
    BY CallTypes
  <2> QED
    BY <1>5, <2>1, <2>2 DEF Calls
<1>7. FilesTypeOK'
  <2>1. call' \in [Openers -> Calls]
    BY <1>1, <1>2, <1>6 DEF FilesTypeOK
  <2>2. troubled' \in [Openers -> BOOLEAN]
    BY <1>1
  <2> QED
    BY <1>1, <1>2, <2>1, <2>2 DEF FilesTypeOK
<1>8. BufferInv'
  BY <1>1, <1>2 DEF BufferInv
<1>9. ASSUME NEW t \in Openers
      PROVE  CallInv(t)'
  <2>1. CallInv(t) /\ (open_pc[t] # "idle" => troubled'[t])
    BY <1>1 DEF FilesInv
  <2>2. KindInv(t)'
    BY <1>1, <1>6, <2>1 DEF CallInv, KindInv
  <2>3. \A n : Stands(call[t], n) => Stands(call'[t], n)
    BY <1>6 DEF Stands
  <2>4. DirEnd(call'[t]) = DirEnd(call[t])
    BY <1>6 DEF DirEnd
  <2>5. \A n, e : Ahead(call[t], n, e) => Ahead(call'[t], n, e)
    BY <1>6, <2>3, <2>4 DEF Ahead
  <2>6. Nameless(call[t]) => Nameless(call'[t])
    BY <1>6 DEF Nameless
  <2>7. WayInv(t)'
    BY <1>1, <1>6, <2>1, <2>3, <2>4, <2>5, <2>6 DEF CallInv, WayInv
  <2>8. MadeInv(t)'
    BY <1>1, <2>1 DEF CallInv, MadeInv, Walking, AtFile
  <2>9. DoneInv(t)'
    <3>1. open_pc[t] = "done" => Excused(t)'
      BY <2>1 DEF Excused
    <3> QED
      BY <1>1, <1>6, <2>1, <3>1 DEF CallInv, DoneInv
  <2> QED
    BY <2>2, <2>7, <2>8, <2>9 DEF CallInv
<1> QED
  BY <1>4, <1>7, <1>8, <1>9 DEF FilesInv

\* Nothing changes.
LEMMA FilesStutter ==
  ASSUME FilesInv, UNCHANGED fileVars
  PROVE  FilesInv'
<1>1. UNCHANGED <<comp_mtx, comp_buf, dirs, files, open_pc, call, open_ret, opened,
                  troubled>>
  BY DEF fileVars
<1>2. FilesTypeOK' /\ BufferInv' /\ TreeInv'
  BY <1>1 DEF FilesInv, FilesTypeOK, BufferInv, TreeInv
<1>3. ASSUME NEW u \in Openers
      PROVE  CallInv(u)'
  BY <1>1, OthersKeep DEF Unmoved
<1> QED
  BY <1>2, <1>3 DEF FilesInv

-----------------------------------------------------------------------------
\* The invariant of the calls that open files: who has the buffer, what each call
\* holds, where it stands on its path, and what exists there.
THEOREM FilesInvariance == FilesSpec => []FilesInv
<1>1. FilesInit => FilesInv
  <2> SUFFICES ASSUME FilesInit
               PROVE  FilesInv
    OBVIOUS
  <2>1. <<>> \in Seq(Comps) /\ "dir" \in Ops /\ NoName \in Comps
    BY PathsOfComps DEF Ops
  <2>2. NoOpen \in Calls /\ NoOpen.op = "dir"
    BY <2>1 DEF NoOpen, Calls
  <2>3. FilesTypeOK
    BY <2>1, <2>2 DEF FilesInit, FilesTypeOK
  <2>4. BufferInv
    BY NobodyAssumption DEF FilesInit, BufferInv, Locked
  <2>5. TreeInv
    BY <2>1 DEF FilesInit, TreeInv
  <2>6. ASSUME NEW t \in Openers
        PROVE  CallInv(t)
    BY <2>2 DEF FilesInit, CallInv, KindInv, WayInv, MadeInv, DoneInv, Walking, AtFile
  <2> QED
    BY <2>3, <2>4, <2>5, <2>6 DEF FilesInv
<1>2. FilesInv /\ [FilesNext]_fileVars => FilesInv'
  <2> SUFFICES ASSUME FilesInv, [FilesNext]_fileVars
               PROVE  FilesInv'
    OBVIOUS
  <2>1. ASSUME NEW t \in Openers,
               \/ DirCopy(t) \/ DirLock(t) \/ DirComp(t) \/ DirOpen(t)
               \/ MkdirCopy(t) \/ DirMkdir(t) \/ DirSync(t) \/ DirReopen(t)
               \/ FileLock(t) \/ FileOpen(t) \/ SystemFails(t) \/ OpenReturn(t)
        PROVE  FilesInv'
    BY <2>1, CopyKeeps, LockKeeps, CompKeeps, OpenKeeps, MkdirKeeps, ReopenKeeps, FileLockKeeps,
       FileOpenKeeps, SystemKeeps, OpenReturnKeeps
  <2> QED
    BY <2>1, BeginKeeps, RootKeeps, ReadKeeps, OtherKeeps, FilesStutter DEF FilesNext
<1> QED
  BY <1>1, <1>2, PTL DEF FilesSpec

\* A descriptor that is returned refers to the path that was asked for, although
\* all threads write the components of their paths to one buffer: for any number
\* of threads and any paths, whatever fails and whatever other processes do.
THEOREM NamedPathIsOpened == FilesSpec => []OpensNamedPath
<1>1. FilesInv => OpensNamedPath
  BY DEF FilesInv, CallInv, KindInv, DoneInv, OpensNamedPath
<1> QED
  BY <1>1, FilesInvariance, PTL

-----------------------------------------------------------------------------
\* The descriptors f that a call holds at pc, with the values l of its variables:
\* what the cleanups in scope close, each once, and after the return the result.
\* gg_dir_openat's cur_fd_cleanup is its cur_fd, and a new descriptor is new.
HoldsFds(pc, returns, l, f) ==
  /\ f = IF pc \in {"idle", "done"} THEN IF returns THEN {l.fd} ELSE {}
         ELSE {l[v] : v \in Cleanups(pc)}
  /\ \A v, w \in Cleanups(pc) : l[v] = l[w] => v = w
  /\ "cleanup" \in Cleanups(pc) => l.cleanup = l.cur
  /\ \A d \in f : d <= l.issued

DescTypeOK ==
  /\ fds \in [Openers -> SUBSET Nat]
  /\ local \in [Openers -> [Locals -> Nat]]
  /\ ebadf \in [Openers -> BOOLEAN]

DescInv ==
  /\ DescTypeOK
  /\ \A t \in Openers : HoldsFds(open_pc[t], Returns(t), local[t], fds[t]) /\ ~ebadf[t]

\* The parts of gg_dir_openat with cur_fd, and with gg_mkdirat's parent_fd too.
AtDir == {"lock", "comp", "open", "mkdir", "reopen"}
InMkdir == {"mkdirat", "fsync"}

\* What HoldsFds says at each part of a call.
LEMMA HoldsDone ==
  ASSUME NEW l \in [Locals -> Nat], NEW f, NEW returns \in BOOLEAN, NEW pc, pc \in {"idle", "done"}
  PROVE  HoldsFds(pc, returns, l, f) <=>
           f = (IF returns THEN {l.fd} ELSE {}) /\ \A d \in f : d <= l.issued
<1>1. Cleanups(pc) = {}
  BY DEF Cleanups
<1> QED
  BY <1>1 DEF HoldsFds

LEMMA HoldsBase ==
  ASSUME NEW l \in [Locals -> Nat], NEW f, NEW returns \in BOOLEAN, NEW pc, pc \in {"copydir", "copyfile"}
  PROVE  HoldsFds(pc, returns, l, f) <=>
           f = {l.base} /\ l.base <= l.issued
<1>1. Cleanups(pc) = {"base"} /\ pc \notin {"idle", "done"}
  BY DEF Cleanups
<1> QED
  BY <1>1 DEF HoldsFds

LEMMA HoldsDir ==
  ASSUME NEW l \in [Locals -> Nat], NEW f, NEW returns \in BOOLEAN, NEW pc, pc \in AtDir
  PROVE  HoldsFds(pc, returns, l, f) <=>
           /\ f = {l.base, l.cleanup} /\ l.base # l.cleanup /\ l.cleanup = l.cur
           /\ l.base <= l.issued /\ l.cleanup <= l.issued
<1>1. Cleanups(pc) = {"base", "cleanup"} /\ pc \notin {"idle", "done"}
  BY DEF Cleanups, AtDir
<1> QED
  BY <1>1 DEF HoldsFds

LEMMA HoldsMkdir ==
  ASSUME NEW l \in [Locals -> Nat], NEW f, NEW returns \in BOOLEAN, NEW pc, pc \in InMkdir
  PROVE  HoldsFds(pc, returns, l, f) <=>
           /\ f = {l.base, l.cleanup, l.parent} /\ l.base # l.cleanup
           /\ l.base # l.parent /\ l.cleanup # l.parent /\ l.cleanup = l.cur
           /\ l.base <= l.issued /\ l.cleanup <= l.issued /\ l.parent <= l.issued
<1>1. Cleanups(pc) = {"base", "cleanup", "parent"} /\ pc \notin {"idle", "done"}
  BY DEF Cleanups, InMkdir
<1> QED
  BY <1>1 DEF HoldsFds

LEMMA HoldsFile ==
  ASSUME NEW l \in [Locals -> Nat], NEW f, NEW returns \in BOOLEAN, NEW pc, pc \in {"file", "openfile"}
  PROVE  HoldsFds(pc, returns, l, f) <=>
           /\ f = {l.base, l.dir} /\ l.base # l.dir
           /\ l.base <= l.issued /\ l.dir <= l.issued
<1>1. Cleanups(pc) = {"base", "dir"} /\ pc \notin {"idle", "done"}
  BY DEF Cleanups
<1> QED
  BY <1>1 DEF HoldsFds

LEMMA HoldsRead ==
  ASSUME NEW l \in [Locals -> Nat], NEW f, NEW returns \in BOOLEAN, NEW pc, pc \in {"read"}
  PROVE  HoldsFds(pc, returns, l, f) <=>
           /\ f = {l.base, l.fd} /\ l.base # l.fd
           /\ l.base <= l.issued /\ l.fd <= l.issued
<1>1. Cleanups(pc) = {"base", "fd"} /\ pc \notin {"idle", "done"}
  BY DEF Cleanups
<1> QED
  BY <1>1 DEF HoldsFds

\* The variables of a call after Store.
Stored(t, vars) ==
  [v \in Locals |-> IF v \in vars \cup {"issued"} THEN New(t) ELSE local[t][v]]

\* A new descriptor is none of those that are held.
LEMMA NewIsNew ==
  ASSUME DescInv, NEW t \in Openers
  PROVE  /\ local[t] \in [Locals -> Nat] /\ New(t) \in Nat /\ New(t) = local[t].issued + 1
         /\ local[t].issued \in Nat
         /\ New(t) \notin fds[t] /\ ~ebadf[t] /\ fds[t] \in SUBSET Nat
         /\ HoldsFds(open_pc[t], Returns(t), local[t], fds[t])
<1>1. local[t] \in [Locals -> Nat] /\ fds[t] \in SUBSET Nat /\ "issued" \in Locals
  BY DEF DescInv, DescTypeOK, Locals
<1>2. /\ HoldsFds(open_pc[t], Returns(t), local[t], fds[t]) /\ ~ebadf[t]
      /\ \A d \in fds[t] : d <= local[t].issued
  BY DEF DescInv, HoldsFds
<1> QED
  BY <1>1, <1>2 DEF New

LEMMA StoredType ==
  ASSUME DescInv, NEW t \in Openers, NEW vars
  PROVE  Stored(t, vars) \in [Locals -> Nat]
  BY NewIsNew DEF Stored

\* A step of one call: it remains to say that it holds what it should after it.
LEMMA DescKeeps ==
  ASSUME DescInv, FilesTypeOK, NEW t \in Openers, NEW used \in SUBSET fds[t],
         NEW got \in {{}, {New(t)}}, NEW closed \in SUBSET fds[t],
         SystemCalls(t, used, got, closed),
         NEW l \in [Locals -> Nat], local' = [local EXCEPT ![t] = l],
         \A u \in Openers : u # t =>
           /\ open_pc'[u] = open_pc[u] /\ open_ret'[u] = open_ret[u]
           /\ call'[u].op = call[u].op,
         HoldsFds(open_pc'[t], Returns(t)', l, (fds[t] \cup got) \ closed)
  PROVE  DescInv'
<1>1. DescTypeOK /\ New(t) \in Nat /\ fds[t] \in SUBSET Nat /\ ~ebadf[t]
  BY NewIsNew DEF DescInv
<1>2. /\ fds' = [fds EXCEPT ![t] = (fds[t] \cup got) \ closed]
      /\ ebadf' = [ebadf EXCEPT ![t] = ebadf[t] \/ ~(used \cup closed \subseteq fds[t] \cup got)]
  BY DEF SystemCalls
<1>3. used \cup closed \subseteq fds[t] \cup got /\ (fds[t] \cup got) \ closed \in SUBSET Nat
  BY <1>1
<1>4. ebadf' = [ebadf EXCEPT ![t] = FALSE]
  BY <1>1, <1>2, <1>3
<1>5. DescTypeOK'
  BY <1>1, <1>2, <1>3, <1>4 DEF DescTypeOK
<1>6. HoldsFds(open_pc[t], Returns(t), local[t], fds[t])' /\ ~ebadf'[t]
  BY <1>1, <1>2, <1>4 DEF DescTypeOK
<1>7. ASSUME NEW u \in Openers, u # t
      PROVE  HoldsFds(open_pc[u], Returns(u), local[u], fds[u])' /\ ~ebadf'[u]
  <2>1. /\ local'[u] = local[u] /\ fds'[u] = fds[u] /\ ebadf'[u] = ebadf[u]
        /\ open_pc'[u] = open_pc[u] /\ Returns(u)' = Returns(u)
    BY <1>1, <1>2, <1>4, <1>7 DEF DescTypeOK, Returns
  <2>2. HoldsFds(open_pc[u], Returns(u), local[u], fds[u]) /\ ~ebadf[u]
    BY DEF DescInv
  <2> QED
    BY <2>1, <2>2
<1> QED
  BY <1>5, <1>6, <1>7 DEF DescInv


\* Every return closes what the call holds, and leaves the new descriptor if there
\* is one.
LEMMA ReturnCloses ==
  ASSUME DescInv, FilesTypeOK, NEW t \in Openers, open_pc[t] # "done", NEW err,
         NEW used \in SUBSET fds[t], NEW got \in {{}, {New(t)}}, NEW what,
         ReturnWith(t, err, used, got, what),
         \A u \in Openers : u # t => call'[u].op = call[u].op,
         got # {} <=> err = "OK" /\ call'[t].op # "read"
  PROVE  DescInv'
<1> DEFINE pc == open_pc[t]
           closed == {local[t][v] : v \in Cleanups(pc)}
           l == IF got = {} THEN local[t] ELSE Stored(t, {"fd"})
<1>1. /\ open_pc' = [open_pc EXCEPT ![t] = "done"]
      /\ open_ret' = [open_ret EXCEPT ![t] = err]
      /\ SystemCalls(t, used, got, closed)
      /\ local' = [local EXCEPT ![t] = l]
  <2>1. DescTypeOK
    BY DEF DescInv
  <2> QED
    BY <2>1 DEF ReturnWith, Store, Stored, DescTypeOK
<1>2. /\ local[t] \in [Locals -> Nat] /\ New(t) \in Nat /\ New(t) \notin fds[t]
      /\ HoldsFds(pc, Returns(t), local[t], fds[t])
  BY NewIsNew
<1>3. closed = fds[t]
  <2>1. CASE pc = "idle"
    <3>1. Cleanups(pc) = {} /\ ~Returns(t)
      BY <2>1 DEF Cleanups, Returns
    <3> QED
      BY <1>2, <2>1, <3>1 DEF HoldsFds
  <2>2. CASE pc # "idle"
    BY <1>2, <2>2 DEF HoldsFds
  <2> QED
    BY <2>1, <2>2
<1>4. (fds[t] \cup got) \ closed = got
  BY <1>2, <1>3
<1>5. l \in [Locals -> Nat]
  BY <1>2, StoredType
<1>6. /\ open_pc'[t] = "done" /\ open_ret'[t] = err
      /\ \A u \in Openers : u # t => open_pc'[u] = open_pc[u] /\ open_ret'[u] = open_ret[u]
  BY <1>1 DEF FilesTypeOK
<1>7. Returns(t)' = (got # {})
  BY <1>6 DEF Returns
<1>8. got = (IF got # {} THEN {l.fd} ELSE {}) /\ \A d \in got : d <= l.issued
  <2>1. CASE got = {}
    BY <2>1
  <2>2. CASE got # {}
    <3>1. "fd" \in Locals /\ "issued" \in Locals
      BY DEF Locals
    <3>2. l = Stored(t, {"fd"}) /\ got = {New(t)}
      BY <2>2
    <3>3. l.fd = New(t) /\ l.issued = New(t)
      BY <3>1, <3>2 DEF Stored
    <3> QED
      BY <1>2, <2>2, <3>2, <3>3
  <2> QED
    BY <2>1, <2>2
<1> HIDE DEF l, closed
<1>9. HoldsFds("done", got # {}, l, got)
  BY <1>5, <1>8, HoldsDone
<1>10. HoldsFds(open_pc'[t], Returns(t)', l, (fds[t] \cup got) \ closed)
  BY <1>4, <1>6, <1>7, <1>9
<1>11. closed \in SUBSET fds[t]
  BY <1>3
<1> QED
  BY <1>1, <1>5, <1>6, <1>10, <1>11, DescKeeps

LEMMA FailCloses ==
  ASSUME DescInv, FilesTypeOK, NEW t \in Openers, open_pc[t] # "done", NEW err,
         NEW used \in SUBSET fds[t], Fail(t, err, used), err # "OK",
         \A u \in Openers : u # t => call'[u].op = call[u].op
  PROVE  DescInv'
<1>1. ReturnWith(t, err, used, {}, <<>>)
  BY DEF Fail
<1>2. {} \in {{}, {New(t)}} /\ ({} # {} <=> err = "OK" /\ call'[t].op # "read")
  OBVIOUS
<1> QED
  BY <1>1, <1>2, ReturnCloses

\* A step that does not return and opens a descriptor.
LEMMA StoreKeeps ==
  ASSUME DescInv, FilesTypeOK, NEW t \in Openers, NEW used \in SUBSET fds[t],
         NEW closed \in SUBSET fds[t], NEW vars, NEW where, where \notin {"idle", "done"},
         SystemCalls(t, used, {New(t)}, closed), Store(t, vars),
         open_pc' = [open_pc EXCEPT ![t] = where], UNCHANGED open_ret,
         \A u \in Openers : u # t => call'[u].op = call[u].op,
         HoldsFds(where, FALSE, Stored(t, vars), (fds[t] \cup {New(t)}) \ closed)
  PROVE  DescInv'
<1>1. local' = [local EXCEPT ![t] = Stored(t, vars)]
  BY DEF DescInv, DescTypeOK, Store, Stored
<1>2. open_pc'[t] = where /\ Returns(t)' = FALSE
  BY DEF FilesTypeOK, Returns
<1>3. \A u \in Openers : u # t => open_pc'[u] = open_pc[u] /\ open_ret'[u] = open_ret[u]
  BY DEF FilesTypeOK
<1>4. Stored(t, vars) \in [Locals -> Nat] /\ {New(t)} \in {{}, {New(t)}}
  BY StoredType
<1>5. HoldsFds(open_pc'[t], Returns(t)', Stored(t, vars), (fds[t] \cup {New(t)}) \ closed)
  BY <1>2
<1> QED
  BY <1>1, <1>3, <1>4, <1>5, DescKeeps

\* A step that does not return and opens nothing.
LEMMA PassKeeps ==
  ASSUME DescInv, FilesTypeOK, NEW t \in Openers, NEW used \in SUBSET fds[t],
         NEW closed \in SUBSET fds[t], NEW where, where \notin {"idle", "done"},
         SystemCalls(t, used, {}, closed), UNCHANGED local,
         open_pc' = [open_pc EXCEPT ![t] = where], UNCHANGED open_ret,
         \A u \in Openers : u # t => call'[u].op = call[u].op,
         HoldsFds(where, FALSE, local[t], fds[t] \ closed)
  PROVE  DescInv'
<1>1. local' = [local EXCEPT ![t] = local[t]] /\ local[t] \in [Locals -> Nat]
  BY DEF DescInv, DescTypeOK
<1>2. open_pc'[t] = where /\ Returns(t)' = FALSE
  BY DEF FilesTypeOK, Returns
<1>3. \A u \in Openers : u # t => open_pc'[u] = open_pc[u] /\ open_ret'[u] = open_ret[u]
  BY DEF FilesTypeOK
<1>4. {} \in {{}, {New(t)}} /\ (fds[t] \cup {}) \ closed = fds[t] \ closed
  OBVIOUS
<1>5. HoldsFds(open_pc'[t], Returns(t)', local[t], (fds[t] \cup {}) \ closed)
  BY <1>2, <1>4
<1> QED
  BY <1>1, <1>3, <1>4, <1>5, DescKeeps

\* The values of Stored.
LEMMA StoredAt ==
  ASSUME NEW t \in Openers, NEW vars
  PROVE  /\ \A v \in Locals \ (vars \cup {"issued"}) : Stored(t, vars)[v] = local[t][v]
         /\ \A v \in Locals \cap vars : Stored(t, vars)[v] = New(t)
         /\ Stored(t, vars).issued = New(t)
         /\ Locals = {"base", "cur", "cleanup", "parent", "dir", "fd", "issued"}
  BY DEF Stored, Locals

\* The base is opened.
LEMMA BeginHolds ==
  ASSUME DescInv, FilesTypeOK, NEW t \in Openers, NEW op \in Ops, NEW create \in BOOLEAN,
         NEW path \in OpenPaths, NEW opens \in BOOLEAN,
         OpenBegin(t, op, create, path, opens)
  PROVE  DescInv'
<1>1. open_pc[t] = "idle" /\ \A u \in Openers : u # t => call'[u].op = call[u].op
  BY DEF OpenBegin, FilesTypeOK
<1>2. CASE ~opens
  <2>1. Fail(t, "FAILURE", {})
    BY <1>2 DEF OpenBegin
  <2> QED
    BY <1>1, <2>1, FailCloses
<1>3. CASE opens
  <2>1. PICK where \in {"copyfile", "copydir"} :
          /\ open_pc' = [open_pc EXCEPT ![t] = where] /\ UNCHANGED open_ret
          /\ SystemCalls(t, {}, {New(t)}, {}) /\ Store(t, {"base"})
    BY <1>3 DEF OpenBegin, Goto
  <2> DEFINE l == Stored(t, {"base"})
  <2>2. l \in [Locals -> Nat] /\ l.base = New(t) /\ l.issued = New(t) /\ New(t) \in Nat
    BY StoredType, StoredAt, NewIsNew
  <2>3. fds[t] = {}
    <3>1. ~Returns(t) /\ HoldsFds(open_pc[t], Returns(t), local[t], fds[t])
      BY <1>1, NewIsNew DEF Returns
    <3> QED
      BY <1>1, <3>1 DEF HoldsFds
  <2> HIDE DEF l
  <2>4. (fds[t] \cup {New(t)}) \ {} = {l.base} /\ l.base <= l.issued
    BY <2>2, <2>3
  <2>5. HoldsFds(where, FALSE, l, (fds[t] \cup {New(t)}) \ {})
    <3>1. CASE where = "copydir"
      BY <2>2, <2>4, <3>1, HoldsBase
    <3>2. CASE where = "copyfile"
      BY <2>2, <2>4, <3>2, HoldsBase
    <3> QED
      BY <3>1, <3>2
  <2> QED
    BY <1>1, <2>1, <2>5, StoreKeeps DEF l
<1> QED
  BY <1>2, <1>3

LEMMA RootHolds ==
  ASSUME DescInv, FilesTypeOK, NEW t \in Openers, NEW op \in Ops, NEW root,
         NEW opens \in BOOLEAN, OpenRoot(t, op, root, opens)
  PROVE  DescInv'
<1>1. open_pc[t] = "idle" /\ \A u \in Openers : u # t => call'[u].op = call[u].op
  BY DEF OpenRoot, FilesTypeOK
<1>2. CASE Fail(t, "INVALID", {}) \/ Fail(t, "FAILURE", {})
  BY <1>1, <1>2, FailCloses
<1>3. CASE op = "dir" /\ ReturnWith(t, "OK", {}, {New(t)}, <<>>)
  <2>1. call'[t].op = "dir"
    BY <1>3 DEF OpenRoot, FilesTypeOK, NoOpen
  <2> QED
    BY <1>1, <1>3, <2>1, ReturnCloses
<1> QED
  BY <1>2, <1>3 DEF OpenRoot

\* copy_dir_fd, of the base or of the parent.
LEMMA CopyHolds ==
  ASSUME DescInv, FilesTypeOK, NEW t \in Openers, DirCopy(t) \/ MkdirCopy(t)
  PROVE  DescInv'
<1> DEFINE l == local[t]
           f == fds[t]
           new == New(t)
<1>1. /\ l \in [Locals -> Nat] /\ new \in Nat /\ new = l.issued + 1 /\ l.issued \in Nat
      /\ HoldsFds(open_pc[t], Returns(t), l, f)
      /\ l.base \in Nat /\ l.cleanup \in Nat /\ l.cur \in Nat
  BY NewIsNew DEF Locals
<1>2. Returns(t) \in BOOLEAN /\ UNCHANGED call /\ {} \in SUBSET f
  BY DEF Returns, DirCopy, MkdirCopy
<1>3. CASE DirCopy(t) /\ open_pc[t] = "copydir"
  <2> DEFINE m == Stored(t, {"cur", "cleanup"})
  <2>1. /\ open_pc' = [open_pc EXCEPT ![t] = "lock"] /\ UNCHANGED open_ret
        /\ SystemCalls(t, {l.base}, {new}, {}) /\ Store(t, {"cur", "cleanup"})
    BY <1>3 DEF DirCopy, Goto
  <2>2. f = {l.base} /\ l.base <= l.issued
    BY <1>1, <1>2, <1>3, HoldsBase
  <2>3. /\ m \in [Locals -> Nat] /\ m.base = l.base /\ m.cur = new
        /\ m.cleanup = new /\ m.issued = new
    BY StoredType, StoredAt
  <2>4. "lock" \in AtDir
    BY DEF AtDir
  <2> HIDE DEF m
  <2>5. HoldsFds("lock", FALSE, m, (f \cup {new}) \ {})
    <3>1. /\ (f \cup {new}) \ {} = {m.base, m.cleanup}
          /\ m.base # m.cleanup /\ m.base <= m.issued /\ m.cleanup <= m.issued
      BY <1>1, <2>2, <2>3
    <3> QED
      BY <2>3, <2>4, <3>1, HoldsDir
  <2> QED
    BY <1>2, <2>1, <2>2, <2>5, StoreKeeps DEF m
<1>4. CASE DirCopy(t) /\ open_pc[t] = "copyfile"
  <2> DEFINE m == Stored(t, {"dir"})
  <2>1. /\ open_pc' = [open_pc EXCEPT ![t] = "file"] /\ UNCHANGED open_ret
        /\ SystemCalls(t, {l.base}, {new}, {}) /\ Store(t, {"dir"})
    BY <1>4 DEF DirCopy, Goto
  <2>2. f = {l.base} /\ l.base <= l.issued
    BY <1>1, <1>2, <1>4, HoldsBase
  <2>3. m \in [Locals -> Nat] /\ m.base = l.base /\ m.dir = new /\ m.issued = new
    BY StoredType, StoredAt
  <2> HIDE DEF m
  <2>5. HoldsFds("file", FALSE, m, (f \cup {new}) \ {})
    <3>1. /\ (f \cup {new}) \ {} = {m.base, m.dir}
          /\ m.base # m.dir /\ m.base <= m.issued /\ m.dir <= m.issued
      BY <1>1, <2>2, <2>3
    <3> QED
      BY <2>3, <3>1, HoldsFile
  <2> QED
    BY <1>2, <2>1, <2>2, <2>5, StoreKeeps DEF m
<1>5. CASE MkdirCopy(t)
  <2> DEFINE m == Stored(t, {"parent"})
  <2>1. /\ open_pc' = [open_pc EXCEPT ![t] = "mkdirat"] /\ UNCHANGED open_ret
        /\ SystemCalls(t, {l.cur}, {new}, {}) /\ Store(t, {"parent"})
        /\ open_pc[t] \in AtDir /\ "mkdirat" \in InMkdir
    BY <1>5 DEF MkdirCopy, Goto, AtDir, InMkdir
  <2>2. /\ f = {l.base, l.cleanup} /\ l.base # l.cleanup /\ l.cleanup = l.cur
        /\ l.base <= l.issued /\ l.cleanup <= l.issued
    BY <1>1, <1>2, <2>1, HoldsDir
  <2>3. /\ m \in [Locals -> Nat] /\ m.base = l.base /\ m.cur = l.cur
        /\ m.cleanup = l.cleanup /\ m.issued = new /\ m.parent = new
    BY StoredType, StoredAt
  <2> HIDE DEF m
  <2>5. HoldsFds("mkdirat", FALSE, m, (f \cup {new}) \ {})
    <3>1. /\ (f \cup {new}) \ {} = {m.base, m.cleanup, m.parent} /\ m.base # m.cleanup
          /\ m.base # m.parent /\ m.cleanup # m.parent /\ m.cleanup = m.cur
          /\ m.base <= m.issued /\ m.cleanup <= m.issued /\ m.parent <= m.issued
      BY <1>1, <2>2, <2>3
    <3> QED
      BY <2>1, <2>3, <3>1, HoldsMkdir
  <2> QED
    BY <1>2, <2>1, <2>2, <2>5, StoreKeeps DEF m
<1> QED
  BY <1>3, <1>4, <1>5 DEF DirCopy

\* Steps with no system call on a descriptor of the call, or with a mkdirat or an
\* fsync.
LEMMA WalkHolds ==
  ASSUME DescInv, FilesTypeOK, NEW t \in Openers, DirLock(t) \/ DirComp(t)
  PROVE  DescInv'
<1>1. HoldsFds(open_pc[t], Returns(t), local[t], fds[t]) /\ local[t] \in [Locals -> Nat]
  BY NewIsNew
<1>2. Returns(t) \in BOOLEAN /\ open_pc[t] \in AtDir /\ open_pc[t] # "done"
      /\ {"comp", "open"} \subseteq AtDir
  BY DEF Returns, DirLock, DirComp, AtDir
<1>3. HoldsFds("comp", FALSE, local[t], fds[t]) /\ HoldsFds("open", FALSE, local[t], fds[t])
  <2> DEFINE l == local[t]
  <2>1. /\ fds[t] = {l.base, l.cleanup} /\ l.base # l.cleanup /\ l.cleanup = l.cur
        /\ l.base <= l.issued /\ l.cleanup <= l.issued
    BY <1>1, <1>2, HoldsDir
  <2>2. HoldsFds("comp", FALSE, l, fds[t])
    BY <1>1, <1>2, <2>1, HoldsDir
  <2>3. HoldsFds("open", FALSE, l, fds[t])
    BY <1>1, <1>2, <2>1, HoldsDir
  <2> QED
    BY <2>2, <2>3
<1>4. \A u \in Openers : u # t => call'[u].op = call[u].op
  BY DEF DirLock, DirComp, FilesTypeOK
<1>5. ASSUME NEW where \in {"comp", "open"}, open_pc' = [open_pc EXCEPT ![t] = where],
             UNCHANGED open_ret, UNCHANGED descVars
      PROVE  DescInv'
  <2>1. SystemCalls(t, {}, {}, {}) /\ UNCHANGED local
    BY <1>5 DEF SystemCalls, descVars, DescInv, DescTypeOK
  <2>2. fds[t] \ {} = fds[t]
    OBVIOUS
  <2>3. HoldsFds(where, FALSE, local[t], fds[t] \ {})
    BY <1>3, <2>2
  <2> QED
    BY <1>4, <1>5, <2>1, <2>3, PassKeeps
<1>6. CASE DirLock(t)
  BY <1>5, <1>6 DEF DirLock, Goto
<1>7. CASE DirComp(t) /\ open_pc' = [open_pc EXCEPT ![t] = "open"] /\ UNCHANGED open_ret
                      /\ UNCHANGED descVars
  BY <1>5, <1>7
<1>8. CASE DirComp(t) /\ UNCHANGED <<open_pc, descVars, open_ret>>
  <2>1. open_pc' = [open_pc EXCEPT ![t] = "comp"]
    BY <1>8 DEF DirComp, FilesTypeOK
  <2> QED
    BY <1>5, <1>8, <2>1
<1>9. CASE Fail(t, "RANGE", {}) \/ Fail(t, "NOMEM", {})
  BY <1>2, <1>4, <1>9, FailCloses
<1> QED
  BY <1>6, <1>7, <1>8, <1>9 DEF DirComp, Goto

LEMMA MkdirHolds ==
  ASSUME DescInv, FilesTypeOK, NEW t \in Openers, DirMkdir(t) \/ DirSync(t)
  PROVE  DescInv'
<1> DEFINE l == local[t]
           f == fds[t]
<1>1. HoldsFds(open_pc[t], Returns(t), l, f) /\ l \in [Locals -> Nat]
  BY NewIsNew
<1>2. Returns(t) \in BOOLEAN /\ open_pc[t] \in InMkdir /\ open_pc[t] # "done"
      /\ "fsync" \in InMkdir /\ "reopen" \in AtDir /\ UNCHANGED call
  BY DEF Returns, DirMkdir, DirSync, AtDir, InMkdir
<1>3. /\ f = {l.base, l.cleanup, l.parent} /\ l.base # l.cleanup
      /\ l.base # l.parent /\ l.cleanup # l.parent /\ l.cleanup = l.cur
      /\ l.base <= l.issued /\ l.cleanup <= l.issued /\ l.parent <= l.issued
  BY <1>1, <1>2, HoldsMkdir
<1>4. {l.parent} \in SUBSET f /\ f \ {} = f /\ f \ {l.parent} = {l.base, l.cleanup}
  BY <1>3
<1>5. CASE DirMkdir(t) /\ Makeable(t)
  <2>1. /\ open_pc' = [open_pc EXCEPT ![t] = "fsync"] /\ UNCHANGED <<open_ret, local>>
        /\ SystemCalls(t, {l.parent}, {}, {})
    BY <1>5 DEF DirMkdir, Goto
  <2>2. HoldsFds("fsync", FALSE, l, f \ {})
    BY <1>1, <1>2, <1>3, <1>4, HoldsMkdir
  <2> QED
    BY <1>2, <1>4, <2>1, <2>2, PassKeeps
<1>6. CASE DirMkdir(t) /\ ~Makeable(t)
  <2>1. Fail(t, "FAILURE", {l.parent})
    BY <1>6 DEF DirMkdir
  <2> QED
    BY <1>2, <1>4, <2>1, FailCloses
<1>7. CASE DirSync(t)
  <2>1. /\ open_pc' = [open_pc EXCEPT ![t] = "reopen"] /\ UNCHANGED <<open_ret, local>>
        /\ SystemCalls(t, {l.parent}, {}, {l.parent})
    BY <1>7 DEF DirSync, Goto
  <2>2. HoldsFds("reopen", FALSE, l, f \ {l.parent})
    BY <1>1, <1>2, <1>3, <1>4, HoldsDir
  <2> QED
    BY <1>2, <1>4, <2>1, <2>2, PassKeeps
<1> QED
  BY <1>5, <1>6, <1>7

\* The swap of cur_fd for the directory below it, and the returns of gg_dir_openat.
LEMMA OpenedHolds ==
  ASSUME DescInv, FilesTypeOK, NEW t \in Openers, open_pc[t] \in {"open", "reopen"},
         DirOpened(t)
  PROVE  DescInv'
<1> DEFINE l == local[t]
           f == fds[t]
           new == New(t)
<1>1. /\ l \in [Locals -> Nat] /\ new \in Nat /\ new = l.issued + 1 /\ l.issued \in Nat
      /\ HoldsFds(open_pc[t], Returns(t), l, f)
      /\ l.base \in Nat /\ l.cleanup \in Nat /\ l.cur \in Nat
  BY NewIsNew DEF Locals
<1>2. Returns(t) \in BOOLEAN /\ open_pc[t] \in AtDir /\ "comp" \in AtDir
  BY DEF Returns, AtDir
<1>3. /\ f = {l.base, l.cleanup} /\ l.base # l.cleanup /\ l.cleanup = l.cur
      /\ l.base <= l.issued /\ l.cleanup <= l.issued
  BY <1>1, <1>2, HoldsDir
<1>4. {l.cur} \in SUBSET f /\ {l.cleanup} \in SUBSET f
  BY <1>3
<1>5. /\ \A u \in Openers : u # t => call'[u].op = call[u].op
      /\ call'[t].op = call[t].op
  BY DEF DirOpened, FilesTypeOK, Calls
<1>6. (f \cup {new}) \ {l.cleanup} = {l.base, new} /\ l.base # new /\ l.base <= new
  BY <1>1, <1>3
<1>7. CASE Len(call[t].todo) > 1
  <2> DEFINE m == Stored(t, {"cur", "cleanup"})
  <2>1. /\ open_pc' = [open_pc EXCEPT ![t] = "comp"] /\ UNCHANGED open_ret
        /\ SystemCalls(t, {l.cur}, {new}, {l.cur}) /\ Store(t, {"cur", "cleanup"})
    BY <1>7 DEF DirOpened, Goto, Swapped
  <2>2. /\ m \in [Locals -> Nat] /\ m.base = l.base /\ m.cur = new
        /\ m.cleanup = new /\ m.issued = new
    BY StoredType, StoredAt
  <2> HIDE DEF m
  <2>3. HoldsFds("comp", FALSE, m, (f \cup {new}) \ {l.cur})
    <3>1. /\ (f \cup {new}) \ {l.cur} = {m.base, m.cleanup}
          /\ m.base # m.cleanup /\ m.base <= m.issued /\ m.cleanup <= m.issued
      BY <1>1, <1>3, <1>6, <2>2
    <3> QED
      BY <1>2, <2>2, <3>1, HoldsDir
  <2> QED
    BY <1>4, <1>5, <2>1, <2>3, StoreKeeps DEF m
<1>8. CASE ~(Len(call[t].todo) > 1) /\ call[t].op = "dir"
  <2>1. ReturnWith(t, "OK", {l.cur}, {new}, Named(t))
    BY <1>8 DEF DirOpened
  <2>2. {new} \in {{}, {New(t)}} /\ {new} # {} /\ call'[t].op # "read"
    BY <1>5, <1>8
  <2> QED
    BY <1>4, <1>5, <2>1, <2>2, ReturnCloses
<1>9. CASE ~(Len(call[t].todo) > 1) /\ call[t].op # "dir"
  <2> DEFINE m == Stored(t, {"dir"})
  <2>1. /\ open_pc' = [open_pc EXCEPT ![t] = "file"] /\ UNCHANGED open_ret
        /\ SystemCalls(t, {l.cur}, {new}, {l.cleanup}) /\ Store(t, {"dir"})
    BY <1>9 DEF DirOpened, Goto
  <2>2. m \in [Locals -> Nat] /\ m.base = l.base /\ m.dir = new /\ m.issued = new
    BY StoredType, StoredAt
  <2> HIDE DEF m
  <2>3. HoldsFds("file", FALSE, m, (f \cup {new}) \ {l.cleanup})
    <3>1. /\ (f \cup {new}) \ {l.cleanup} = {m.base, m.dir}
          /\ m.base # m.dir /\ m.base <= m.issued /\ m.dir <= m.issued
      BY <1>1, <1>6, <2>2
    <3> QED
      BY <2>2, <3>1, HoldsFile
  <2> QED
    BY <1>4, <1>5, <2>1, <2>3, StoreKeeps DEF m
<1> QED
  BY <1>7, <1>8, <1>9

LEMMA OpenHolds ==
  ASSUME DescInv, FilesTypeOK, NEW t \in Openers, DirOpen(t) \/ DirReopen(t)
  PROVE  DescInv'
<1> DEFINE l == local[t]
           f == fds[t]
<1>1. HoldsFds(open_pc[t], Returns(t), l, f) /\ l \in [Locals -> Nat]
  BY NewIsNew
<1>2. /\ Returns(t) \in BOOLEAN /\ open_pc[t] \in AtDir /\ "mkdir" \in AtDir
      /\ open_pc[t] \in {"open", "reopen"} /\ open_pc[t] # "done"
  BY DEF Returns, DirOpen, DirReopen, AtDir
<1>3. /\ f = {l.base, l.cleanup} /\ l.base # l.cleanup /\ l.cleanup = l.cur
      /\ l.base <= l.issued /\ l.cleanup <= l.issued
  BY <1>1, <1>2, HoldsDir
<1>4. {l.cur} \in SUBSET f /\ f \ {} = f
  BY <1>3
<1>5. CASE DirOpened(t)
  BY <1>2, <1>5, OpenedHolds
<1>6. CASE /\ SystemCalls(t, {l.cur}, {}, {}) /\ UNCHANGED <<call, open_ret, local>>
           /\ open_pc' = [open_pc EXCEPT ![t] = "mkdir"]
  <2>1. HoldsFds("mkdir", FALSE, l, f \ {})
    BY <1>1, <1>2, <1>3, <1>4, HoldsDir
  <2> QED
    BY <1>4, <1>6, <2>1, PassKeeps
<1>7. CASE Fail(t, "FAILURE", {l.cur}) /\ UNCHANGED call
  BY <1>2, <1>4, <1>7, FailCloses
<1> QED
  BY <1>5, <1>6, <1>7 DEF DirOpen, DirReopen, Goto

\* The steps at the file.
LEMMA FileHolds ==
  ASSUME DescInv, FilesInv, NEW t \in Openers, FileLock(t) \/ FileOpen(t)
  PROVE  DescInv'
<1> DEFINE l == local[t]
           f == fds[t]
           new == New(t)
<1>1. /\ l \in [Locals -> Nat] /\ new \in Nat /\ new = l.issued + 1 /\ l.issued \in Nat
      /\ HoldsFds(open_pc[t], Returns(t), l, f) /\ l.base \in Nat /\ l.dir \in Nat
  BY NewIsNew DEF Locals
<1>2. /\ Returns(t) \in BOOLEAN /\ open_pc[t] \in {"file", "openfile"}
      /\ open_pc[t] # "done" /\ UNCHANGED call /\ FilesTypeOK
  BY DEF Returns, FileLock, FileOpen, FilesInv
<1>3. /\ f = {l.base, l.dir} /\ l.base # l.dir
      /\ l.base <= l.issued /\ l.dir <= l.issued
  BY <1>1, <1>2, HoldsFile
<1>4. {l.dir} \in SUBSET f /\ {} \in SUBSET f /\ f \ {} = f
  BY <1>3
<1>5. CASE Fail(t, "NOMEM", {}) \/ Fail(t, "FAILURE", {l.dir})
  BY <1>2, <1>4, <1>5, FailCloses
<1>6. CASE /\ UNCHANGED <<descVars, open_ret>>
           /\ open_pc' = [open_pc EXCEPT ![t] = "openfile"]
  <2>1. SystemCalls(t, {}, {}, {}) /\ UNCHANGED local
    BY <1>6 DEF SystemCalls, descVars, DescInv, DescTypeOK
  <2>2. HoldsFds("openfile", FALSE, l, f \ {})
    BY <1>1, <1>3, <1>4, HoldsFile
  <2> QED
    BY <1>2, <1>4, <1>6, <2>1, <2>2, PassKeeps
<1>7. CASE call[t].op = "file" /\ ReturnWith(t, "OK", {l.dir}, {new}, Named(t))
  <2>1. {new} \in {{}, {New(t)}} /\ {new} # {} /\ call'[t].op # "read"
    BY <1>2, <1>7
  <2> QED
    BY <1>2, <1>4, <1>7, <2>1, ReturnCloses
<1>8. CASE /\ SystemCalls(t, {l.dir}, {new}, {l.dir}) /\ Store(t, {"fd"})
           /\ open_pc' = [open_pc EXCEPT ![t] = "read"] /\ UNCHANGED open_ret
  <2> DEFINE m == Stored(t, {"fd"})
  <2>1. m \in [Locals -> Nat] /\ m.base = l.base /\ m.fd = new /\ m.issued = new
    BY StoredType, StoredAt
  <2> HIDE DEF m
  <2>2. HoldsFds("read", FALSE, m, (f \cup {new}) \ {l.dir})
    <3>1. /\ (f \cup {new}) \ {l.dir} = {m.base, m.fd}
          /\ m.base # m.fd /\ m.base <= m.issued /\ m.fd <= m.issued
      BY <1>1, <1>3, <2>1
    <3> QED
      BY <2>1, <3>1, HoldsRead
  <2> QED
    BY <1>2, <1>4, <1>8, <2>2, StoreKeeps DEF m
<1> QED
  BY <1>5, <1>6, <1>7, <1>8 DEF FileLock, FileOpen, Goto

LEMMA ReadHolds ==
  ASSUME DescInv, FilesInv, NEW t \in Openers, NEW size, NEW left, FileRead(t, size, left)
  PROVE  DescInv'
<1>1. /\ open_pc[t] = "read" /\ open_pc[t] # "done" /\ UNCHANGED call
      /\ call[t].op = "read" /\ FilesTypeOK /\ Returns(t) \in BOOLEAN
  BY DEF FileRead, FilesInv, CallInv, KindInv, Returns
<1>2. HoldsFds(open_pc[t], Returns(t), local[t], fds[t]) /\ local[t] \in [Locals -> Nat]
  BY NewIsNew
<1>3. fds[t] = {local[t].base, local[t].fd}
  BY <1>1, <1>2, HoldsRead
<1>4. {local[t].fd} \in SUBSET fds[t] /\ {} \in {{}, {New(t)}}
  BY <1>3
<1>5. PICK err : ReturnWith(t, err, {local[t].fd}, {}, opened[t])
  BY DEF FileRead
<1> QED
  BY <1>1, <1>4, <1>5, ReturnCloses

LEMMA SystemHolds ==
  ASSUME DescInv, FilesTypeOK, NEW t \in Openers, SystemFails(t)
  PROVE  DescInv'
  BY FailCloses DEF SystemFails

\* The caller closes the result.
LEMMA OpenReturnHolds ==
  ASSUME DescInv, FilesTypeOK, NEW t \in Openers, OpenReturn(t)
  PROVE  DescInv'
<1> DEFINE closed == IF Returns(t) THEN {local[t].fd} ELSE {}
           l == [v \in Locals |-> 0]
<1>1. /\ open_pc[t] = "done" /\ open_pc' = [open_pc EXCEPT ![t] = "idle"]
      /\ open_ret' = [open_ret EXCEPT ![t] = "none"]
      /\ SystemCalls(t, {}, {}, closed) /\ local' = [local EXCEPT ![t] = l]
      /\ call' = [call EXCEPT ![t] = NoOpen]
  BY DEF OpenReturn
<1>2. HoldsFds(open_pc[t], Returns(t), local[t], fds[t])
  BY NewIsNew
<1>3. closed = fds[t]
  BY <1>1, <1>2 DEF HoldsFds
<1>4. /\ open_pc'[t] = "idle" /\ Returns(t)' = FALSE
      /\ \A u \in Openers : u # t =>
           /\ open_pc'[u] = open_pc[u] /\ open_ret'[u] = open_ret[u]
           /\ call'[u].op = call[u].op
  BY <1>1 DEF FilesTypeOK, Returns
<1>5. l \in [Locals -> Nat] /\ {} \in {{}, {New(t)}} /\ {} \in SUBSET fds[t]
      /\ closed \in SUBSET fds[t] /\ (fds[t] \cup {}) \ closed = {}
  BY <1>3
<1> HIDE DEF l, closed
<1>6. HoldsFds("idle", FALSE, l, {})
  BY <1>5, HoldsDone
<1>7. HoldsFds(open_pc'[t], Returns(t)', l, (fds[t] \cup {}) \ closed)
  BY <1>4, <1>5, <1>6
<1> QED
  BY <1>1, <1>4, <1>5, <1>7, DescKeeps

\* Nobody opens or closes.
LEMMA DescStutter ==
  ASSUME DescInv, UNCHANGED <<descVars, open_pc, open_ret>>,
         \A t \in Openers : call'[t].op = call[t].op
  PROVE  DescInv'
<1>1. DescTypeOK'
  BY DEF DescInv, DescTypeOK, descVars
<1>2. ASSUME NEW t \in Openers
      PROVE  HoldsFds(open_pc[t], Returns(t), local[t], fds[t])' /\ ~ebadf'[t]
  <2>1. /\ local'[t] = local[t] /\ fds'[t] = fds[t] /\ ebadf'[t] = ebadf[t]
        /\ open_pc'[t] = open_pc[t] /\ Returns(t)' = Returns(t)
    BY DEF descVars, Returns
  <2>2. HoldsFds(open_pc[t], Returns(t), local[t], fds[t]) /\ ~ebadf[t]
    BY DEF DescInv
  <2> QED
    BY <2>1, <2>2
<1> QED
  BY <1>1, <1>2 DEF DescInv

\* No call uses a descriptor that it has closed, and one that has returned has
\* closed all that it opened but its result: for any number of threads and any
\* paths, whichever system call fails.
THEOREM DescriptorsAreClosed == FilesSpec => []NoDescriptorLeak
<1>1. FilesInit => DescInv
  <2> SUFFICES ASSUME FilesInit
               PROVE  DescInv
    OBVIOUS
  <2>1. DescTypeOK
    BY DEF FilesInit, DescTypeOK
  <2>2. ASSUME NEW t \in Openers
        PROVE  HoldsFds(open_pc[t], Returns(t), local[t], fds[t]) /\ ~ebadf[t]
    <3>1. open_pc[t] = "idle" /\ fds[t] = {} /\ Returns(t) = FALSE /\ ~ebadf[t]
      BY DEF FilesInit, Returns
    <3>2. local[t] \in [Locals -> Nat]
      BY <2>1 DEF DescTypeOK
    <3>3. HoldsFds("idle", FALSE, local[t], {})
      BY <3>2, HoldsDone
    <3> QED
      BY <3>1, <3>3
  <2> QED
    BY <2>1, <2>2 DEF DescInv
<1>2. FilesInv /\ DescInv /\ [FilesNext]_fileVars => DescInv'
  <2> SUFFICES ASSUME FilesInv, DescInv, [FilesNext]_fileVars
               PROVE  DescInv'
    OBVIOUS
  <2>1. FilesTypeOK
    BY DEF FilesInv
  <2>2. ASSUME NEW t \in Openers,
               \/ DirCopy(t) \/ DirLock(t) \/ DirComp(t) \/ DirOpen(t)
               \/ MkdirCopy(t) \/ DirMkdir(t) \/ DirSync(t) \/ DirReopen(t)
               \/ FileLock(t) \/ FileOpen(t) \/ SystemFails(t) \/ OpenReturn(t)
        PROVE  DescInv'
    BY <2>1, <2>2, CopyHolds, WalkHolds, OpenHolds, MkdirHolds, FileHolds, SystemHolds,
       OpenReturnHolds
  <2>3. ASSUME NEW d \in Others, OtherProcess(d)
        PROVE  DescInv'
    <3>1. \A t \in Openers : call'[t].op = call[t].op
      BY <2>1, <2>3 DEF OtherProcess, FilesTypeOK, Calls
    <3> QED
      BY <2>3, <3>1, DescStutter DEF OtherProcess
  <2>4. CASE UNCHANGED fileVars
    BY <2>4, DescStutter DEF fileVars
  <2> QED
    BY <2>1, <2>2, <2>3, <2>4, BeginHolds, RootHolds, ReadHolds DEF FilesNext
<1>3. DescInv => NoDescriptorLeak
  BY DEF DescInv, HoldsFds, NoDescriptorLeak
<1> QED
  BY <1>1, <1>2, <1>3, FilesInvariance, PTL DEF FilesSpec

\* Threads that create the same directories do not make each other fail.
THEOREM CreatesSucceed == FilesSpec => []CreateSucceeds
<1>1. FilesInv => CreateSucceeds
  BY DEF FilesInv, CallInv, KindInv, DoneInv, CreateSucceeds
<1> QED
  BY <1>1, FilesInvariance, PTL

-----------------------------------------------------------------------------
\* A loop that makes step g[<<what there is, k>>] in turn k.
LoopFrom(f, a, g, n) == f = [k \in 0..n |-> IF k = 0 THEN a ELSE g[<<f[k - 1], k>>]]

\* A loop is a function: one can always be extended by a turn.
LEMMA LoopExists ==
  ASSUME NEW S, NEW a \in S, NEW g \in [S \X Nat -> S], NEW n \in Nat
  PROVE  \E f \in [0..n -> S] : LoopFrom(f, a, g, n)
<1> DEFINE Bad == {m \in Nat : ~\E f \in [0..m -> S] : LoopFrom(f, a, g, m)}
<1> SUFFICES ASSUME Bad # {}
             PROVE  FALSE
  OBVIOUS
<1>1. PICK m \in Bad : \A i \in Bad : m <= i
  BY LeastNumber
<1>2. CASE m = 0
  <2> DEFINE f == [k \in 0..0 |-> a]
  <2>1. f \in [0..0 -> S] /\ LoopFrom(f, a, g, 0)
    BY DEF LoopFrom
  <2> QED
    BY <2>1, <1>2
<1>3. CASE m # 0
  <2>1. m - 1 \in Nat /\ ~(m <= m - 1)
    BY <1>3
  <2>2. PICK f \in [0..(m - 1) -> S] : LoopFrom(f, a, g, m - 1)
    BY <2>1, <1>1
  <2> DEFINE h == [k \in 0..m |-> IF k < m THEN f[k] ELSE g[<<f[m - 1], m>>]]
  <2>3. \A k \in 0..(m - 1) : f[k] = IF k = 0 THEN a ELSE g[<<f[k - 1], k>>]
    BY <2>2 DEF LoopFrom
  <2>4. ASSUME NEW k \in 0..m
        PROVE  h[k] = IF k = 0 THEN a ELSE g[<<h[k - 1], k>>]
    <3>1. CASE k < m
      <4>1. h[k] = f[k] /\ (k # 0 => h[k - 1] = f[k - 1]) /\ k \in 0..(m - 1)
        BY <2>1, <3>1
      <4> HIDE DEF h
      <4> QED
        BY <4>1, <2>3
    <3>2. CASE ~(k < m)
      <4>1. k = m /\ h[k] = g[<<f[m - 1], m>>] /\ h[k - 1] = f[m - 1] /\ k # 0
        BY <2>1, <3>2
      <4> HIDE DEF h
      <4> QED
        BY <4>1
    <3> QED
      BY <3>1, <3>2
  <2>5. h \in [0..m -> S]
    <3>1. f[m - 1] \in S
      BY <2>1
    <3>2. g[<<f[m - 1], m>>] \in S
      BY <3>1
    <3>3. \A k \in 0..m : k < m => f[k] \in S
      BY <2>1
    <3> QED
      BY <3>2, <3>3
  <2>6. LoopFrom(h, a, g, m)
    <3> DEFINE u == [k \in 0..m |-> IF k = 0 THEN a ELSE g[<<h[k - 1], k>>]]
    <3>1. \A k \in 0..m : h[k] = u[k]
      BY <2>4
    <3>2. DOMAIN h = 0..m /\ DOMAIN u = 0..m
      OBVIOUS
    <3>3. h = u
      <4>1. h = [k \in DOMAIN h |-> h[k]] /\ u = [k \in DOMAIN u |-> u[k]]
        OBVIOUS
      <4> HIDE DEF h, u
      <4> QED
        BY <3>1, <3>2, <4>1
    <3> QED
      BY <3>3 DEF LoopFrom
  <2> QED
    BY <2>5, <2>6
<1> QED
  BY <1>2, <1>3

-----------------------------------------------------------------------------
Octet == 0..255

\* The byte at an index, inside and outside.
LEMMA ByteAtType ==
  ASSUME NEW s \in Seq(Octet), NEW i \in Int
  PROVE  /\ ByteAt(s, i) \in -1..255
         /\ i \in 1..Len(s) => ByteAt(s, i) = s[i] /\ s[i] \in Octet
<1>1. DOMAIN s = 1..Len(s) /\ \A k \in 1..Len(s) : s[k] \in Octet
  OBVIOUS
<1>2. CASE i \in 1..Len(s)
  <2>1. s[i] \in Octet /\ ByteAt(s, i) = s[i]
    BY <1>1, <1>2 DEF ByteAt
  <2> QED
    BY <2>1 DEF Octet
<1>3. CASE i \notin 1..Len(s)
  <2>1. ByteAt(s, i) = -1
    BY <1>1, <1>3 DEF ByteAt
  <2> QED
    BY <2>1, <1>3
<1> QED
  BY <1>2, <1>3

\* Two sequences one behind the other.
LEMMA Joined ==
  ASSUME NEW a \in Seq(Octet), NEW b \in Seq(Octet)
  PROVE  /\ a \o b \in Seq(Octet)
         /\ Len(a \o b) = Len(a) + Len(b)
         /\ \A j \in 1..Len(a) : (a \o b)[j] = a[j]
         /\ \A j \in 1..Len(b) : (a \o b)[Len(a) + j] = b[j]
<1>1. a \o b \in Seq(Octet) /\ Len(a \o b) = Len(a) + Len(b)
  OBVIOUS
<1>2. Len(a) \in Nat /\ Len(b) \in Nat
  OBVIOUS
<1>3. \A j \in 1..(Len(a) + Len(b)) : (a \o b)[j] = IF j <= Len(a) THEN a[j] ELSE b[j - Len(a)]
  OBVIOUS
<1>4. \A j \in 1..Len(a) : (a \o b)[j] = a[j]
  BY <1>2, <1>3
<1>5. ASSUME NEW j \in 1..Len(b)
      PROVE  (a \o b)[Len(a) + j] = b[j]
  <2>1. Len(a) + j \in 1..(Len(a) + Len(b)) /\ ~(Len(a) + j <= Len(a)) /\ Len(a) + j - Len(a) = j
    BY <1>2
  <2> QED
    BY <2>1, <1>3
<1> QED
  BY <1>1, <1>4, <1>5

\* The same with the lengths and the bytes named.
AreJoined(a, m, b, n, c) ==
  /\ c \in Seq(Octet) /\ Len(c) = m + n
  /\ \A j \in 1..m : c[j] = a[j]
  /\ \A j \in 1..n : c[m + j] = b[j]

\* A sequence that joins two has the bytes of both.
LEMMA JoinedBytes ==
  ASSUME NEW a, NEW m, NEW b, NEW n, NEW c,
         a \in Seq(Octet), Len(a) = m, b \in Seq(Octet), Len(b) = n, c = a \o b
  PROVE  AreJoined(a, m, b, n, c)
  BY Joined, Zenon DEF AreJoined

\* What stands before the value of a header.
LEMMA HeadBytes ==
  ASSUME NEW name \in Seq(Octet), NEW n \in Octet, Len(name) = n, NEW type \in Octet,
         NEW head, head = <<n>> \o name \o <<type>>
  PROVE  /\ head \in Seq(Octet) /\ Len(head) = n + 2
         /\ head[1] = n /\ head[n + 2] = type
         /\ \A j \in 1..n : head[j + 1] = name[j]
<1> DEFINE one == <<n>>
           two == one \o name
           last == <<type>>
<1>1. /\ one \in Seq(Octet) /\ Len(one) = 1 /\ one[1] = n
      /\ last \in Seq(Octet) /\ Len(last) = 1 /\ last[1] = type
  OBVIOUS
<1>2. n \in Nat /\ 1 \in 1..1 /\ 1 \in Nat
  BY DEF Octet
<1>3. head = two \o last
  OBVIOUS
<1>10. two = one \o name
  OBVIOUS
<1> HIDE DEF one, last, two
<1>11. AreJoined(one, 1, name, n, two)
  BY <1>1, <1>10, JoinedBytes, Zenon
<1>4. /\ two \in Seq(Octet) /\ Len(two) = 1 + n
      /\ two[1] = n /\ \A j \in 1..n : two[1 + j] = name[j]
  BY <1>1, <1>2, <1>11 DEF AreJoined
<1>5. 1 + n \in Nat /\ 1 \in 1..(1 + n) /\ \A j \in 1..n : 1 + j \in 1..(1 + n)
  BY <1>2
<1>12. AreJoined(two, 1 + n, last, 1, head)
  BY <1>1, <1>3, <1>4, JoinedBytes, Zenon
<1>6. /\ head \in Seq(Octet) /\ Len(head) = (1 + n) + 1
      /\ \A j \in 1..(1 + n) : head[j] = two[j]
      /\ \A j \in 1..1 : head[(1 + n) + j] = last[j]
  BY <1>12 DEF AreJoined
<1>7. head[1] = n /\ \A j \in 1..n : head[1 + j] = name[j]
  BY <1>4, <1>5, <1>6
<1>8. head[(1 + n) + 1] = type
  BY <1>1, <1>2, <1>6
<1>9. (1 + n) + 1 = n + 2 /\ \A j \in 1..n : 1 + j = j + 1
  BY <1>2
<1> QED
  BY <1>6, <1>7, <1>8, <1>9

\* A header and its lengths.
LEMMA HeaderParts ==
  ASSUME NEW h \in Header
  PROVE  /\ h.name \in Seq(Octet) /\ h.value \in Seq(Octet)
         /\ Len(h.name) \in Octet /\ Len(h.value) \in Nat /\ h.type \in Octet
         /\ h.type = EVENTSTREAM_INT32 => Len(h.value) = IntBytes
         /\ h.type # EVENTSTREAM_INT32 => h.type = EVENTSTREAM_STRING /\ Len(h.value) < 65536
         /\ h = [name |-> h.name, type |-> h.type, value |-> h.value]
<1>1. /\ h \in [name : Seq(Octet), type : {EVENTSTREAM_INT32, EVENTSTREAM_STRING}, value : Seq(Octet)]
      /\ Len(h.name) < 256
      /\ IF h.type = EVENTSTREAM_INT32 THEN Len(h.value) = IntBytes ELSE Len(h.value) < 65536
  BY DEF Header, Octet
<1>2. /\ h.name \in Seq(Octet) /\ h.value \in Seq(Octet)
      /\ h.type \in {EVENTSTREAM_INT32, EVENTSTREAM_STRING}
      /\ h = [name |-> h.name, type |-> h.type, value |-> h.value]
  BY <1>1
<1>3. Len(h.name) \in Nat /\ Len(h.value) \in Nat
  BY <1>2
<1>4. Len(h.name) \in Octet
  <2>1. PICK n \in Nat : n = Len(h.name)
    BY <1>3
  <2>2. n < 256
    BY <1>1, <2>1
  <2>3. n \in Octet
    BY <2>2 DEF Octet
  <2> QED
    BY <2>1, <2>3
<1>5. h.type \in Octet
  BY <1>2 DEF Octet, EVENTSTREAM_INT32, EVENTSTREAM_STRING
<1> QED
  BY <1>1, <1>2, <1>3, <1>4, <1>5

\* The lengths of its name and of its value are numbers.
LEMMA HeaderLengths ==
  ASSUME NEW h \in Header
  PROVE  Len(h.name) \in Nat /\ Len(h.value) \in Nat
  BY HeaderParts DEF Octet

\* The bytes that header_encode writes, one by one: n for the name, v for the
\* value.
IsEncoding(h, e, n, v) ==
  /\ e \in Seq(Octet)
  /\ e[1] = n /\ e[n + 2] = h.type
  /\ \A j \in 1..n : e[j + 1] = h.name[j]
  /\ h.type = EVENTSTREAM_INT32 =>
       Len(e) = n + 2 + v /\ \A j \in 1..v : e[n + 2 + j] = h.value[j]
  /\ h.type # EVENTSTREAM_INT32 =>
       /\ Len(e) = n + 4 + v
       /\ e[n + 3] \in Octet /\ e[n + 4] \in Octet /\ e[n + 3] * 256 + e[n + 4] = v
       /\ \A j \in 1..v : e[n + 4 + j] = h.value[j]

\* header_encode writes that (src/src/eventstream/encode.c:24).
LEMMA EncodedHeader ==
  ASSUME NEW h \in Header
  PROVE  IsEncoding(h, header_encode(h), Len(h.name), Len(h.value))
<1> DEFINE e == header_encode(h)
           head == <<Len(h.name)>> \o h.name \o <<h.type>>
           len == <<Len(h.value) \div 256, Len(h.value) % 256>>
<1>1. PICK n \in Octet : n = Len(h.name)
  BY HeaderParts
<1>2. PICK v \in Nat : v = Len(h.value)
  BY HeaderParts
<1>3. n \in Nat
  BY DEF Octet
<1>4. /\ head \in Seq(Octet) /\ Len(head) = n + 2
      /\ head[1] = n /\ head[n + 2] = h.type
      /\ \A j \in 1..n : head[j + 1] = h.name[j]
  BY <1>1, HeaderParts, HeadBytes
<1>5. h.type = EVENTSTREAM_INT32 => e = head \o h.value
  BY DEF header_encode
<1>6. h.type # EVENTSTREAM_INT32 => e = head \o (len \o h.value)
  BY DEF header_encode
<1>7. h.type # EVENTSTREAM_INT32 =>
        /\ len \in Seq(Octet) /\ Len(len) = 2
        /\ len[1] \in Octet /\ len[2] \in Octet /\ len[1] * 256 + len[2] = v
  <2> SUFFICES ASSUME h.type # EVENTSTREAM_INT32
               PROVE  /\ len \in Seq(Octet) /\ Len(len) = 2
                      /\ len[1] \in Octet /\ len[2] \in Octet /\ len[1] * 256 + len[2] = v
    OBVIOUS
  <2>1. v < 65536
    BY <1>2, HeaderParts
  <2>2. v \div 256 \in Octet /\ v % 256 \in Octet /\ (v \div 256) * 256 + (v % 256) = v
    BY <2>1 DEF Octet
  <2> DEFINE a == v \div 256
             b == v % 256
  <2>3. len = <<a, b>>
    BY <1>2
  <2> HIDE DEF a, b, len
  <2>4. /\ len \in Seq(Octet) /\ Len(len) = 2 /\ len[1] = a /\ len[2] = b
        /\ a \in Octet /\ b \in Octet
    <3>1. a \in Octet /\ b \in Octet
      BY <2>2 DEF a, b
    <3> QED
      BY <2>3, <3>1
  <2>5. a * 256 + b = v
    BY <2>2 DEF a, b
  <2> QED
    BY <2>4, <2>5
<1> HIDE DEF head, e, len
<1>8. n + 2 \in Nat /\ 1 \in 1..(n + 2) /\ n + 2 \in 1..(n + 2)
      /\ \A j \in 1..n : j + 1 \in 1..(n + 2)
  BY <1>3
<1>9. h.value \in Seq(Octet)
  BY HeaderParts
<1>10. CASE h.type = EVENTSTREAM_INT32
  <2>1. /\ e \in Seq(Octet) /\ Len(e) = (n + 2) + v
        /\ \A j \in 1..(n + 2) : e[j] = head[j]
        /\ \A j \in 1..v : e[(n + 2) + j] = h.value[j]
    <3>1. AreJoined(head, n + 2, h.value, v, e)
      BY <1>2, <1>4, <1>5, <1>9, <1>10, JoinedBytes, Zenon
    <3> QED
      BY <3>1 DEF AreJoined
  <2>2. e[1] = n /\ e[n + 2] = h.type /\ \A j \in 1..n : e[j + 1] = h.name[j]
    BY <1>4, <1>8, <2>1
  <2>3. IsEncoding(h, e, n, v)
    BY <1>10, <2>1, <2>2 DEF IsEncoding
  <2> QED
    BY <2>3, <1>1, <1>2 DEF e
<1>11. CASE h.type # EVENTSTREAM_INT32
  <2> DEFINE tail == len \o h.value
  <2>1. /\ tail \in Seq(Octet) /\ Len(tail) = 2 + v
        /\ \A j \in 1..2 : tail[j] = len[j]
        /\ \A j \in 1..v : tail[2 + j] = h.value[j]
    <3>1. AreJoined(len, 2, h.value, v, tail)
      BY <1>2, <1>7, <1>9, <1>11, JoinedBytes, Zenon
    <3> QED
      BY <3>1 DEF AreJoined
  <2>2. e = head \o tail
    BY <1>6, <1>11
  <2> HIDE DEF tail
  <2>3. 2 + v \in Nat /\ 1 \in 1..2 /\ 2 \in 1..2 /\ 1 \in 1..(2 + v) /\ 2 \in 1..(2 + v)
    OBVIOUS
  <2>4. /\ e \in Seq(Octet) /\ Len(e) = (n + 2) + (2 + v)
        /\ \A j \in 1..(n + 2) : e[j] = head[j]
        /\ \A j \in 1..(2 + v) : e[(n + 2) + j] = tail[j]
    <3>1. AreJoined(head, n + 2, tail, 2 + v, e)
      BY <1>4, <2>1, <2>2, JoinedBytes, Zenon
    <3> QED
      BY <3>1 DEF AreJoined
  <2>5. e[1] = n /\ e[n + 2] = h.type /\ \A j \in 1..n : e[j + 1] = h.name[j]
    BY <1>4, <1>8, <2>4
  <2>6. e[(n + 2) + 1] = len[1] /\ e[(n + 2) + 2] = len[2]
    BY <2>1, <2>3, <2>4
  <2>7. (n + 2) + 1 = n + 3 /\ (n + 2) + 2 = n + 4 /\ (n + 2) + (2 + v) = n + 4 + v
    BY <1>3
  <2>8. ASSUME NEW j \in 1..v
        PROVE  e[n + 4 + j] = h.value[j]
    <3>1. 2 + j \in 1..(2 + v) /\ (n + 2) + (2 + j) = n + 4 + j
      BY <1>3
    <3> QED
      BY <2>1, <2>4, <3>1
  <2>9. /\ e[n + 3] \in Octet /\ e[n + 4] \in Octet /\ e[n + 3] * 256 + e[n + 4] = v
        /\ Len(e) = n + 4 + v
    BY <1>7, <1>11, <2>4, <2>6, <2>7
  <2>10. IsEncoding(h, e, n, v)
    BY <1>11, <2>4, <2>5, <2>8, <2>9, Zenon DEF IsEncoding
  <2> QED
    BY <2>10, <1>1, <1>2 DEF e
<1> QED
  BY <1>10, <1>11

-----------------------------------------------------------------------------
\* Header h, with a name of n bytes and a value of v, stands in s from i on.
Holds(s, i, h, n, v) ==
  /\ s[i] = n /\ s[i + 1 + n] = h.type
  /\ \A j \in 1..n : s[i + j] = h.name[j]
  /\ h.type = EVENTSTREAM_INT32 => \A j \in 1..v : s[i + 1 + n + j] = h.value[j]
  /\ h.type # EVENTSTREAM_INT32 =>
       /\ s[i + 2 + n] \in Octet /\ s[i + 3 + n] \in Octet
       /\ s[i + 2 + n] * 256 + s[i + 3 + n] = v
       /\ \A j \in 1..v : s[i + 3 + n + j] = h.value[j]

SizeOf(h, n, v) == IF h.type = EVENTSTREAM_INT32 THEN n + 2 + v ELSE n + 4 + v

\* Then these are the bytes that header_encode writes, and no others.
HoldsBytes(s, i, h, e, n, v) ==
  /\ Len(e) = SizeOf(h, n, v)
  /\ Holds(s, i, h, n, v) <=> \A j \in 1..Len(e) : s[i + j - 1] = e[j]

\* A header stands where its encoding does.
LEMMA HeldBytes ==
  ASSUME NEW s, NEW i \in Nat \ {0}, NEW h, NEW e, NEW n \in Nat, NEW v \in Nat,
         IsEncoding(h, e, n, v)
  PROVE  HoldsBytes(s, i, h, e, n, v)
<1>1. Len(e) = SizeOf(h, n, v)
  BY DEF IsEncoding, SizeOf
<1>2. ASSUME Holds(s, i, h, n, v), NEW j \in 1..Len(e)
      PROVE  s[i + j - 1] = e[j]
  <2>1. CASE j = 1
    BY <1>2, <2>1 DEF IsEncoding, Holds
  <2>2. CASE j \in 2..(n + 1)
    <3>1. j - 1 \in 1..n /\ (j - 1) + 1 = j /\ i + (j - 1) = i + j - 1
      BY <2>2
    <3>2. e[(j - 1) + 1] = h.name[j - 1] /\ s[i + (j - 1)] = h.name[j - 1]
      BY <1>2, <3>1 DEF IsEncoding, Holds
    <3> QED
      BY <3>1, <3>2
  <2>3. CASE j = n + 2
    <3>1. i + j - 1 = i + 1 + n
      BY <2>3
    <3> QED
      BY <1>2, <2>3, <3>1 DEF IsEncoding, Holds
  <2>4. CASE j > n + 2 /\ h.type = EVENTSTREAM_INT32
    <3>1. Len(e) = n + 2 + v
      BY <2>4 DEF IsEncoding
    <3>2. j - n - 2 \in 1..v /\ n + 2 + (j - n - 2) = j /\ i + 1 + n + (j - n - 2) = i + j - 1
      BY <2>4, <3>1
    <3>3. /\ e[n + 2 + (j - n - 2)] = h.value[j - n - 2]
          /\ s[i + 1 + n + (j - n - 2)] = h.value[j - n - 2]
      BY <1>2, <2>4, <3>2 DEF IsEncoding, Holds
    <3> QED
      BY <3>2, <3>3
  <2>5. CASE j > n + 2 /\ h.type # EVENTSTREAM_INT32
    <3>1. Len(e) = n + 4 + v
      BY <2>5 DEF IsEncoding
    <3>2. s[i + 2 + n] = e[n + 3] /\ s[i + 3 + n] = e[n + 4]
      <4>1. /\ e[n + 3] \in Octet /\ e[n + 4] \in Octet
            /\ s[i + 2 + n] \in Octet /\ s[i + 3 + n] \in Octet
            /\ e[n + 3] * 256 + e[n + 4] = v
            /\ s[i + 2 + n] * 256 + s[i + 3 + n] = v
        BY <1>2, <2>5 DEF IsEncoding, Holds
      <4>2. \A a, b, c, d \in Octet : a * 256 + b = c * 256 + d => a = c /\ b = d
        BY DEF Octet
      <4> QED
        BY <4>1, <4>2
    <3>3. CASE j = n + 3
      <4>1. i + j - 1 = i + 2 + n
        BY <3>3
      <4> QED
        BY <3>2, <3>3, <4>1
    <3>4. CASE j = n + 4
      <4>1. i + j - 1 = i + 3 + n
        BY <3>4
      <4> QED
        BY <3>2, <3>4, <4>1
    <3>5. CASE j > n + 4
      <4>1. j - n - 4 \in 1..v /\ n + 4 + (j - n - 4) = j /\ i + 3 + n + (j - n - 4) = i + j - 1
        BY <3>1, <3>5
      <4>2. /\ e[n + 4 + (j - n - 4)] = h.value[j - n - 4]
            /\ s[i + 3 + n + (j - n - 4)] = h.value[j - n - 4]
        BY <1>2, <2>5, <4>1 DEF IsEncoding, Holds
      <4> QED
        BY <4>1, <4>2
    <3> QED
      BY <2>5, <3>3, <3>4, <3>5
  <2> QED
    BY <2>1, <2>2, <2>3, <2>4, <2>5
<1>3. ASSUME \A j \in 1..Len(e) : s[i + j - 1] = e[j]
      PROVE  Holds(s, i, h, n, v)
  <2> DEFINE size == Len(e)
  <2>1. size \in Nat /\ size >= n + 2 + v
    BY <1>1 DEF SizeOf
  <2>2. \A j \in 1..size : s[i + j - 1] = e[j]
    BY <1>3
  <2> HIDE DEF size
  <2>3. s[i] = n
    <3>1. 1 \in 1..size /\ i + 1 - 1 = i
      BY <2>1
    <3> QED
      BY <2>2, <3>1 DEF IsEncoding
  <2>4. s[i + 1 + n] = h.type
    <3>1. n + 2 \in 1..size /\ i + (n + 2) - 1 = i + 1 + n
      BY <2>1
    <3> QED
      BY <2>2, <3>1 DEF IsEncoding
  <2>5. ASSUME NEW j \in 1..n
        PROVE  s[i + j] = h.name[j]
    <3>1. j + 1 \in 1..size /\ i + (j + 1) - 1 = i + j
      BY <2>1
    <3>2. e[j + 1] = h.name[j]
      BY DEF IsEncoding
    <3> QED
      BY <2>2, <3>1, <3>2
  <2>6. ASSUME h.type = EVENTSTREAM_INT32, NEW j \in 1..v
        PROVE  s[i + 1 + n + j] = h.value[j]
    <3>1. n + 2 + j \in 1..size /\ i + (n + 2 + j) - 1 = i + 1 + n + j
      BY <2>1
    <3>2. e[n + 2 + j] = h.value[j]
      BY <2>6 DEF IsEncoding
    <3> QED
      BY <2>2, <3>1, <3>2
  <2>7. ASSUME h.type # EVENTSTREAM_INT32
        PROVE  /\ s[i + 2 + n] \in Octet /\ s[i + 3 + n] \in Octet
               /\ s[i + 2 + n] * 256 + s[i + 3 + n] = v
               /\ \A j \in 1..v : s[i + 3 + n + j] = h.value[j]
    <3>1. size = n + 4 + v
      BY <2>7 DEF IsEncoding, size
    <3>2. /\ n + 3 \in 1..size /\ i + (n + 3) - 1 = i + 2 + n
          /\ n + 4 \in 1..size /\ i + (n + 4) - 1 = i + 3 + n
      BY <3>1
    <3>3. s[i + 2 + n] = e[n + 3] /\ s[i + 3 + n] = e[n + 4]
      BY <2>2, <3>2
    <3>4. ASSUME NEW j \in 1..v
          PROVE  s[i + 3 + n + j] = h.value[j]
      <4>1. n + 4 + j \in 1..size /\ i + (n + 4 + j) - 1 = i + 3 + n + j
        BY <3>1
      <4>2. e[n + 4 + j] = h.value[j]
        BY <2>7 DEF IsEncoding
      <4> QED
        BY <2>2, <4>1, <4>2
    <3> QED
      BY <2>7, <3>3, <3>4 DEF IsEncoding
  <2> QED
    BY <2>3, <2>4, <2>5, <2>6, <2>7, Zenon DEF Holds
<1> QED
  BY <1>1, <1>2, <1>3 DEF HoldsBytes

\* A function on 1..n is a sequence.
LEMMA SeqOfFunction ==
  ASSUME NEW S, NEW n \in Nat, NEW r \in [1..n -> S]
  PROVE  r \in Seq(S) /\ Len(r) = n
  OBVIOUS

\* What eventstream_header_next reads is what is there, inside the headers.
ReadAt(s, from, n) == [k \in 1..n |-> ByteAt(s, from + k - 1)]

IsPart(s, from, n, x) == x \in Seq(Octet) /\ Len(x) = n /\ \A k \in 1..n : s[from + k - 1] = x[k]

\* A part that fits is read as it is.
LEMMA ReadBytes ==
  ASSUME NEW s, NEW N, NEW from, NEW n, NEW x, s \in Seq(Octet), N = Len(s),
         from \in Nat \ {0}, n \in Nat, from + n - 1 <= N, IsPart(s, from, n, x)
  PROVE  ReadAt(s, from, n) = x
<1> DEFINE r == ReadAt(s, from, n)
<1>1. ASSUME NEW k \in 1..n
      PROVE  r[k] = s[from + k - 1] /\ r[k] \in Octet
  <2>1. Len(s) \in Nat
    OBVIOUS
  <2>2. from + k - 1 \in 1..Len(s) /\ from + k - 1 \in Int
    BY <2>1
  <2>3. ByteAt(s, from + k - 1) = s[from + k - 1] /\ s[from + k - 1] \in Octet
    BY <2>2, ByteAtType
  <2> QED
    BY <2>3 DEF ReadAt
<1>2. r \in [1..n -> Octet]
  BY <1>1 DEF ReadAt
<1> HIDE DEF r
<1>3. r \in Seq(Octet) /\ Len(r) = n
  BY <1>2, SeqOfFunction, Zenon
<1>4. x \in Seq(Octet) /\ Len(x) = n /\ \A k \in 1..n : r[k] = x[k]
  BY <1>1 DEF IsPart
<1>5. r = x
  BY <1>3, <1>4, SeqEqual, Zenon
<1> QED
  BY <1>5 DEF r

\* Header h stands in s, which has N bytes, from i on.
HeldIn(s, N, i, h, n, v) ==
  /\ s \in Seq(Octet) /\ N = Len(s)
  /\ h \in Header /\ n = Len(h.name) /\ v = Len(h.value)
  /\ Holds(s, i, h, n, v)

\* Both walks take a header that fits for what it is.
LEMMA HeldIsRead ==
  ASSUME NEW s, NEW N \in Nat, NEW i \in Nat \ {0}, NEW h, NEW n \in Nat, NEW v \in Nat,
         HeldIn(s, N, i, h, n, v), NEW end \in Nat, end = i + SizeOf(h, n, v), end <= N + 1
  PROVE  /\ take_header(s, i) = end
         /\ eventstream_header_next(s, i) = [h |-> h, next |-> end]
<1>1. PICK t \in Nat : t = i + 1 + n
  OBVIOUS
<1>2. /\ h.type = EVENTSTREAM_INT32 => end = t + 1 + v
      /\ h.type # EVENTSTREAM_INT32 => end = t + 3 + v
  BY <1>1 DEF SizeOf
<1>3. end >= t + 1 + v
  BY <1>2
<1>4. i \in 1..N /\ t \in 1..N /\ i + n <= N /\ ~(i > N) /\ ~(t > N) /\ ~(end > N + 1)
  BY <1>1, <1>3
<1>5. s \in Seq(Octet) /\ N = Len(s) /\ h \in Header
  BY DEF HeldIn
<1>6. s[i] = n /\ s[t] = h.type
  BY <1>1 DEF HeldIn, Holds
<1>7. ByteAt(s, i) = n /\ ByteAt(s, t) = h.type
  <2>1. i \in Int /\ t \in Int
    OBVIOUS
  <2> QED
    BY <1>4, <1>5, <1>6, <2>1, ByteAtType
<1>8. h.type \in {EVENTSTREAM_INT32, EVENTSTREAM_STRING}
  BY <1>5, HeaderParts
<1>9. ReadAt(s, i + 1, n) = h.name
  <2>1. i + 1 \in Nat \ {0} /\ i + 1 + n - 1 <= N
    BY <1>4
  <2>2. h.name \in Seq(Octet) /\ Len(h.name) = n
    BY HeaderParts DEF HeldIn
  <2>3. \A k \in 1..n : s[i + k] = h.name[k]
    BY DEF HeldIn, Holds
  <2>4. \A k \in 1..n : i + 1 + k - 1 = i + k
    OBVIOUS
  <2>5. IsPart(s, i + 1, n, h.name)
    BY <2>2, <2>3, <2>4 DEF IsPart
  <2> QED
    BY <1>5, <2>1, <2>5, ReadBytes, Zenon
<1>14. h.value \in Seq(Octet) /\ Len(h.value) = v
  BY HeaderParts DEF HeldIn
<1>10. h = [name |-> h.name, type |-> h.type, value |-> h.value]
  BY <1>5, HeaderParts
<1>11. EVENTSTREAM_INT32 # EVENTSTREAM_STRING
  BY DEF EVENTSTREAM_INT32, EVENTSTREAM_STRING
<1>12. CASE h.type = EVENTSTREAM_INT32
  <2>1. v = IntBytes
    BY <1>5, <1>12, HeaderParts DEF HeldIn
  <2>2. end = t + 1 + IntBytes
    BY <1>2, <1>12, <2>1
  <2>3. ReadAt(s, t + 1, IntBytes) = h.value
    <3>1. t + 1 \in Nat \ {0} /\ t + 1 + v - 1 <= N
      BY <1>2, <1>12
    <3>2. \A k \in 1..v : s[t + k] = h.value[k]
      BY <1>1, <1>12 DEF HeldIn, Holds
    <3>3. \A k \in 1..v : t + 1 + k - 1 = t + k
      OBVIOUS
    <3>4. IsPart(s, t + 1, v, h.value)
      BY <1>14, <3>2, <3>3 DEF IsPart
    <3>5. ReadAt(s, t + 1, v) = h.value
      BY <1>5, <3>1, <3>4, ReadBytes, Zenon
    <3> QED
      BY <2>1, <3>5
  <2>4. take_header(s, i) = end
    BY <1>1, <1>4, <1>5, <1>6, <1>7, <1>8, <1>11, <1>12, <2>2, Zenon DEF take_header
  <2>5. eventstream_header_next(s, i) =
          [h |-> [name |-> ReadAt(s, i + 1, n), type |-> EVENTSTREAM_INT32, value |-> ReadAt(s, t + 1, IntBytes)],
           next |-> t + 1 + IntBytes]
    BY <1>1, <1>7, <1>12, Zenon DEF eventstream_header_next, ReadAt
  <2> QED
    BY <1>9, <1>10, <1>12, <2>2, <2>3, <2>4, <2>5, Zenon
<1>13. CASE h.type # EVENTSTREAM_INT32
  <2>1. h.type = EVENTSTREAM_STRING /\ end = t + 3 + v
    BY <1>2, <1>8, <1>13
  <2>2. t + 1 \in 1..N /\ t + 2 \in 1..N /\ ~(t + 2 > N)
    BY <2>1
  <2>3. PICK a \in Octet, b \in Octet :
          /\ s[t + 1] = a /\ s[t + 2] = b /\ a * 256 + b = v
          /\ \A k \in 1..v : s[t + 2 + k] = h.value[k]
    <3>1. /\ i + 2 + n = t + 1 /\ i + 3 + n = t + 2
          /\ \A k \in 1..v : i + 3 + n + k = t + 2 + k
      BY <1>1
    <3>2. /\ s[i + 2 + n] \in Octet /\ s[i + 3 + n] \in Octet
          /\ s[i + 2 + n] * 256 + s[i + 3 + n] = v
          /\ \A k \in 1..v : s[i + 3 + n + k] = h.value[k]
      BY <1>13 DEF HeldIn, Holds
    <3> QED
      BY <3>1, <3>2
  <2>4. ByteAt(s, t + 1) = a /\ ByteAt(s, t + 2) = b
    <3>1. t + 1 \in Int /\ t + 2 \in Int
      OBVIOUS
    <3> QED
      BY <1>5, <2>2, <2>3, <3>1, ByteAtType
  <2>5. t + 3 + a * 256 + b = end
    <3>1. end = t + 3 + v /\ a * 256 + b = v
      BY <2>1, <2>3
    <3>2. a \in Int /\ b \in Int
      BY DEF Octet
    <3> QED
      BY <3>1, <3>2
  <2>6. ReadAt(s, t + 3, v) = h.value
    <3>1. t + 3 \in Nat \ {0} /\ t + 3 + v - 1 <= N
      BY <2>1
    <3>2. \A k \in 1..v : t + 3 + k - 1 = t + 2 + k
      OBVIOUS
    <3>3. IsPart(s, t + 3, v, h.value)
      BY <1>14, <2>3, <3>2 DEF IsPart
    <3> QED
      BY <1>5, <3>1, <3>3, ReadBytes, Zenon
  <2>7. take_header(s, i) = end
    BY <1>1, <1>4, <1>5, <1>6, <1>7, <1>8, <1>13, <2>2, <2>4, <2>5, Zenon DEF take_header
  <2>8. eventstream_header_next(s, i) =
          [h |-> [name |-> ReadAt(s, i + 1, n), type |-> h.type, value |-> ReadAt(s, t + 3, v)],
           next |-> t + 3 + v]
    BY <1>1, <1>7, <1>13, <2>3, <2>4, Zenon DEF eventstream_header_next, ReadAt
  <2> QED
    BY <1>9, <1>10, <2>1, <2>6, <2>7, <2>8, Zenon
<1> QED
  BY <1>12, <1>13

\* A part of the headers is a sequence of bytes.
CutOut(s, from, n, x) == x \in Seq(Octet) /\ Len(x) = n /\ \A k \in 1..n : x[k] = s[from + k]

\* Every part that fits can be cut out.
LEMMA PartOfBytes ==
  ASSUME NEW s, NEW N \in Nat, s \in Seq(Octet), N = Len(s), NEW from \in Nat, NEW n \in Nat,
         from + n <= N
  PROVE  \E x : CutOut(s, from, n, x)
<1> DEFINE x == [k \in 1..n |-> s[from + k]]
<1>1. \A k \in 1..n : from + k \in 1..N
  OBVIOUS
<1>2. \A j \in 1..N : s[j] \in Octet
  OBVIOUS
<1>3. x \in [1..n -> Octet]
  BY <1>1, <1>2
<1>4. \A k \in 1..n : x[k] = s[from + k]
  OBVIOUS
<1> HIDE DEF x
<1>5. x \in Seq(Octet) /\ Len(x) = n
  BY <1>3, SeqOfFunction, Zenon
<1>6. CutOut(s, from, n, x)
  BY <1>4, <1>5 DEF CutOut
<1> QED
  BY <1>6

\* What take_header accepts is a header.
LEMMA TakenIsHeld ==
  ASSUME NEW s, NEW N \in Nat, s \in Seq(Octet), N = Len(s), NEW i \in Nat \ {0}, i <= N,
         NEW end, end = take_header(s, i), end # 0
  PROVE  \E h \in Header, n \in Nat, v \in Nat :
           /\ HeldIn(s, N, i, h, n, v)
           /\ end \in Nat /\ end = i + SizeOf(h, n, v) /\ end <= N + 1
<1>1. IntBytes \in Nat
  BY HeaderBytesAssumption
<1>2. \A j \in 1..N : ByteAt(s, j) = s[j] /\ s[j] \in Octet
  BY ByteAtType
<1>3. PICK n \in Octet : s[i] = n /\ ByteAt(s, i) = n
  BY <1>2
<1>4. n \in Nat
  BY DEF Octet
<1>5. PICK t \in Nat : t = i + 1 + n
  BY <1>4
<1> DEFINE last == IF ByteAt(s, t) = EVENTSTREAM_INT32 THEN t + 1 + IntBytes
                   ELSE t + 3 + ByteAt(s, t + 1) * 256 + ByteAt(s, t + 2)
<1>7. take_header(s, i) =
        IF i > N \/ t > N \/ s[t] \notin {EVENTSTREAM_INT32, EVENTSTREAM_STRING} THEN 0
        ELSE IF s[t] = EVENTSTREAM_STRING /\ t + 2 > N THEN 0
        ELSE IF last > N + 1 THEN 0
        ELSE last
  BY <1>3, <1>5 DEF take_header
<1> HIDE DEF last
<1>8. /\ ~(t > N) /\ s[t] \in {EVENTSTREAM_INT32, EVENTSTREAM_STRING}
      /\ ~(s[t] = EVENTSTREAM_STRING /\ t + 2 > N) /\ ~(last > N + 1) /\ end = last
  BY <1>7
<1>9. t \in 1..N /\ i + n <= N
  BY <1>4, <1>5, <1>8
<1>10. PICK type \in Octet : s[t] = type /\ ByteAt(s, t) = type
  BY <1>2, <1>9
<1>11. PICK name : name \in Seq(Octet) /\ Len(name) = n /\ \A k \in 1..n : name[k] = s[i + k]
  <2>1. i \in Nat
    OBVIOUS
  <2>2. PICK x : CutOut(s, i, n, x)
    BY <1>4, <1>9, <2>1, PartOfBytes, Zenon
  <2> QED
    BY <2>2 DEF CutOut
<1>12. CASE type = EVENTSTREAM_INT32
  <2>1. end = t + 1 + IntBytes
    BY <1>8, <1>10, <1>12 DEF last
  <2>2. t + IntBytes <= N /\ end <= N + 1 /\ end \in Nat
    BY <1>1, <1>8, <2>1
  <2>3. PICK value : /\ value \in Seq(Octet) /\ Len(value) = IntBytes
                     /\ \A k \in 1..IntBytes : value[k] = s[t + k]
    <3>1. PICK x : CutOut(s, t, IntBytes, x)
      BY <1>1, <2>2, PartOfBytes, Zenon
    <3> QED
      BY <3>1 DEF CutOut
  <2>4. PICK h : h = [name |-> name, type |-> type, value |-> value]
    OBVIOUS
  <2>5. h.name = name /\ h.type = type /\ h.value = value
    BY <2>4
  <2>6. h \in Header
    <3>1. n < 256
      BY DEF Octet
    <3>2. h \in [name : Seq(Octet), type : {EVENTSTREAM_INT32, EVENTSTREAM_STRING}, value : Seq(Octet)]
      BY <1>8, <1>10, <1>11, <2>3, <2>4
    <3> QED
      BY <1>11, <1>12, <2>3, <2>5, <3>1, <3>2 DEF Header, Octet
  <2>7. Holds(s, i, h, n, IntBytes)
    <3>1. i + 1 + n = t
      BY <1>4, <1>5
    <3> QED
      BY <1>3, <1>10, <1>11, <1>12, <2>3, <2>5, <3>1, Zenon DEF Holds
  <2>8. HeldIn(s, N, i, h, n, IntBytes)
    BY <1>11, <2>3, <2>5, <2>6, <2>7 DEF HeldIn
  <2>9. end = i + SizeOf(h, n, IntBytes)
    <3>1. SizeOf(h, n, IntBytes) = n + 2 + IntBytes
      BY <1>12, <2>5 DEF SizeOf
    <3> QED
      BY <1>1, <1>4, <1>5, <2>1, <3>1
  <2> QED
    BY <1>1, <1>4, <2>2, <2>6, <2>8, <2>9, Zenon
<1>13. CASE type # EVENTSTREAM_INT32
  <2>1. type = EVENTSTREAM_STRING /\ t + 2 <= N
    BY <1>8, <1>10, <1>13
  <2>2. t + 1 \in 1..N /\ t + 2 \in 1..N
    BY <2>1
  <2>3. PICK a \in Octet, b \in Octet : /\ s[t + 1] = a /\ ByteAt(s, t + 1) = a
                                        /\ s[t + 2] = b /\ ByteAt(s, t + 2) = b
    BY <1>2, <2>2
  <2>4. end = t + 3 + a * 256 + b
    BY <1>8, <1>10, <1>13, <2>3 DEF last
  <2>5. PICK v \in Nat : v = a * 256 + b /\ v < 65536
    BY DEF Octet
  <2>6. end = t + 3 + v
    <3>1. a \in Nat /\ b \in Nat
      BY DEF Octet
    <3> QED
      BY <2>4, <2>5, <3>1
  <2>7. t + 2 + v <= N /\ end <= N + 1 /\ end \in Nat
    BY <1>8, <2>6
  <2>8. PICK value : /\ value \in Seq(Octet) /\ Len(value) = v
                     /\ \A k \in 1..v : value[k] = s[t + 2 + k]
    <3>1. t + 2 \in Nat
      OBVIOUS
    <3>2. PICK x : CutOut(s, t + 2, v, x)
      BY <2>7, <3>1, PartOfBytes, Zenon
    <3> QED
      BY <3>2 DEF CutOut
  <2>9. PICK h : h = [name |-> name, type |-> type, value |-> value]
    OBVIOUS
  <2>10. h.name = name /\ h.type = type /\ h.value = value
    BY <2>9
  <2>11. h \in Header
    <3>1. n < 256
      BY DEF Octet
    <3>2. h \in [name : Seq(Octet), type : {EVENTSTREAM_INT32, EVENTSTREAM_STRING}, value : Seq(Octet)]
      BY <1>8, <1>10, <1>11, <2>8, <2>9
    <3> QED
      BY <1>11, <1>13, <2>5, <2>8, <2>10, <3>1, <3>2 DEF Header, Octet
  <2>12. Holds(s, i, h, n, v)
    <3>1. i + 1 + n = t /\ i + 2 + n = t + 1 /\ i + 3 + n = t + 2
      BY <1>4, <1>5
    <3>2. s[i + 2 + n] * 256 + s[i + 3 + n] = v
      BY <2>3, <2>5, <3>1
    <3> QED
      BY <1>3, <1>10, <1>11, <1>13, <2>3, <2>8, <2>10, <3>1, <3>2, Zenon DEF Holds
  <2>13. HeldIn(s, N, i, h, n, v)
    BY <1>11, <2>8, <2>10, <2>11, <2>12 DEF HeldIn
  <2>14. end = i + SizeOf(h, n, v)
    <3>1. SizeOf(h, n, v) = n + 4 + v
      BY <1>13, <2>10 DEF SizeOf
    <3> QED
      BY <1>4, <1>5, <2>6, <3>1
  <2> QED
    BY <1>4, <2>7, <2>11, <2>13, <2>14, Zenon
<1> QED
  BY <1>12, <1>13
-----------------------------------------------------------------------------
\* Induction up to n, over the set of the numbers that have a property.
LEMMA UpTo ==
  ASSUME NEW n \in Nat, NEW P, 0 \in P, \A k \in 1..n : k - 1 \in P => k \in P
  PROVE  \A k \in 0..n : k \in P
<1> DEFINE Bad == {k \in 0..n : k \notin P}
<1> SUFFICES ASSUME Bad # {}
             PROVE  FALSE
  OBVIOUS
<1>1. Bad \subseteq Nat
  OBVIOUS
<1>2. PICK m \in Bad : \A i \in Bad : m <= i
  <2> HIDE DEF Bad
  <2> QED
    BY <1>1, LeastNumber
<1>3. m # 0 /\ m \in 0..n /\ m \notin P
  BY <1>2
<1>4. m \in 1..n /\ m - 1 \in 0..n /\ ~(m <= m - 1)
  BY <1>3
<1>5. m - 1 \in P
  BY <1>2, <1>4
<1> QED
  BY <1>3, <1>4, <1>5

\* Where take_header and eventstream_header_next may lead.
LEMMA WalkTypes ==
  ASSUME NEW s \in Seq(Octet), NEW i \in Int
  PROVE  take_header(s, i) \in Int /\ eventstream_header_next(s, i).next \in Int
<1>1. IntBytes \in Nat
  BY HeaderBytesAssumption
<1>2. PICK n \in Int : n = ByteAt(s, i)
  <2>1. ByteAt(s, i) \in -1..255
    BY ByteAtType
  <2> QED
    BY <2>1
<1>3. PICK t \in Int : t = i + 1 + n
  OBVIOUS
<1>4. PICK a \in Int, b \in Int : a = ByteAt(s, t + 1) /\ b = ByteAt(s, t + 2)
  <2>1. t + 1 \in Int /\ t + 2 \in Int
    OBVIOUS
  <2>2. ByteAt(s, t + 1) \in -1..255 /\ ByteAt(s, t + 2) \in -1..255
    BY <2>1, ByteAtType
  <2>3. \A x \in -1..255 : x \in Int
    OBVIOUS
  <2> QED
    BY <2>2, <2>3, Zenon
<1>5. t + 1 + IntBytes \in Int /\ t + 3 + a * 256 + b \in Int /\ t + 3 + (a * 256 + b) \in Int /\ 0 \in Int
  BY <1>1
<1>6. take_header(s, i) \in {0, t + 1 + IntBytes, t + 3 + a * 256 + b}
  BY <1>2, <1>3, <1>4 DEF take_header
<1>7. eventstream_header_next(s, i).next \in {t + 1 + IntBytes, t + 3 + (a * 256 + b)}
  BY <1>2, <1>3, <1>4 DEF eventstream_header_next
<1> QED
  BY <1>5, <1>6, <1>7

\* The loop of count_headers, turn by turn (src/src/eventstream/decode.c:125).
LEMMA CountTurnsStep ==
  ASSUME NEW s \in Seq(Octet), NEW N \in Nat, N = Len(s)
  PROVE  /\ CountTurns(s)[0] = [at |-> 1, n |-> 0]
         /\ \A k \in 1..N : CountTurns(s)[k] = CountTurn(s, CountTurns(s)[k - 1])
<1> DEFINE a == [at |-> 1, n |-> 0]
           S == [at : Int, n : Int]
           g == [p \in S \X Nat |-> CountTurn(s, p[1])]
           Are(f) == f = [k \in 0..N |-> IF k = 0 THEN a ELSE CountTurn(s, f[k - 1])]
           w == CountTurns(s)
<1>1. a \in S
  OBVIOUS
<1>2. ASSUME NEW x \in S
      PROVE  CountTurn(s, x) \in S
  <2>1. x.at \in Int /\ x.n \in Int
    OBVIOUS
  <2>2. take_header(s, x.at) \in Int /\ x.n + 1 \in Int
    BY <2>1, WalkTypes
  <2> QED
    BY <2>2 DEF CountTurn
<1>3. g \in [S \X Nat -> S]
  BY <1>2
<1>4. \A x \in S, k \in Nat : g[<<x, k>>] = CountTurn(s, x)
  OBVIOUS
<1>5. PICK f \in [0..N -> S] : LoopFrom(f, a, g, N)
  <2> HIDE DEF a, S, g
  <2> QED
    BY <1>1, <1>3, LoopExists
<1>6. Are(f)
  <2>1. \A k \in 0..N : k # 0 => f[k - 1] \in S /\ k \in Nat
    <3> HIDE DEF S
    <3> QED
      OBVIOUS
  <2>2. \A k \in 0..N : (IF k = 0 THEN a ELSE g[<<f[k - 1], k>>]) =
                         IF k = 0 THEN a ELSE CountTurn(s, f[k - 1])
    <3> HIDE DEF a, S, g
    <3> QED
      BY <1>4, <2>1
  <2>3. f = [k \in 0..N |-> IF k = 0 THEN a ELSE g[<<f[k - 1], k>>]]
    BY <1>5 DEF LoopFrom
  <2> HIDE DEF a, S, g
  <2> QED
    BY <2>2, <2>3, Zenon
<1>7. w = CHOOSE h : Are(h)
  BY Zenon DEF CountTurns
<1>8. Are(w)
  <2> HIDE DEF Are, w
  <2> QED
    BY <1>6, <1>7, Zenon
<1> HIDE DEF w, a
<1>9. \A k \in 0..N : w[k] = IF k = 0 THEN a ELSE CountTurn(s, w[k - 1])
  BY <1>8, Zenon
<1>10. w[0] = a /\ \A k \in 1..N : w[k] = CountTurn(s, w[k - 1])
  BY <1>9
<1> QED
  BY <1>10 DEF w, a

\* The iteration, header by header (src/src/eventstream/decode.c:217).
LEMMA PositionsStep ==
  ASSUME NEW s \in Seq(Octet), NEW n \in Nat
  PROVE  /\ Positions(s, n)[0] = 1
         /\ \A k \in 1..n : Positions(s, n)[k] =
                              eventstream_header_next(s, Positions(s, n)[k - 1]).next
<1> DEFINE g == [p \in Int \X Nat |-> eventstream_header_next(s, p[1]).next]
           Are(f) == f = [k \in 0..n |-> IF k = 0 THEN 1 ELSE eventstream_header_next(s, f[k - 1]).next]
           w == Positions(s, n)
<1>1. 1 \in Int
  OBVIOUS
<1>2. \A x \in Int : eventstream_header_next(s, x).next \in Int
  BY WalkTypes
<1>3. g \in [Int \X Nat -> Int]
  BY <1>2
<1>4. \A x \in Int, k \in Nat : g[<<x, k>>] = eventstream_header_next(s, x).next
  OBVIOUS
<1>5. PICK f \in [0..n -> Int] : LoopFrom(f, 1, g, n)
  <2> HIDE DEF g
  <2> QED
    BY <1>1, <1>3, LoopExists
<1>6. Are(f)
  <2>1. \A k \in 0..n : k # 0 => f[k - 1] \in Int /\ k \in Nat
    OBVIOUS
  <2>2. \A k \in 0..n : (IF k = 0 THEN 1 ELSE g[<<f[k - 1], k>>]) =
                         IF k = 0 THEN 1 ELSE eventstream_header_next(s, f[k - 1]).next
    <3> HIDE DEF g
    <3> QED
      BY <1>4, <2>1
  <2>3. f = [k \in 0..n |-> IF k = 0 THEN 1 ELSE g[<<f[k - 1], k>>]]
    BY <1>5 DEF LoopFrom
  <2> HIDE DEF g
  <2> QED
    BY <2>2, <2>3, Zenon
<1>7. w = CHOOSE h : Are(h)
  BY Zenon DEF Positions
<1>8. Are(w)
  <2> HIDE DEF Are, w
  <2> QED
    BY <1>6, <1>7, Zenon
<1> HIDE DEF w
<1>9. \A k \in 0..n : w[k] = IF k = 0 THEN 1 ELSE eventstream_header_next(s, w[k - 1]).next
  BY <1>8, Zenon
<1>10. w[0] = 1 /\ \A k \in 1..n : w[k] = eventstream_header_next(s, w[k - 1]).next
  BY <1>9
<1> QED
  BY <1>10 DEF w

\* What header_encode writes is bytes.
LEMMA EncodingType ==
  ASSUME NEW h \in Header
  PROVE  header_encode(h) \in Seq(Octet)
  BY EncodedHeader, Zenon DEF IsEncoding

\* The loop of eventstream_encode, header by header (src/src/eventstream/encode.c:96).
LEMMA EncodeTurnsStep ==
  ASSUME NEW hs \in Seq(Header), NEW n \in Nat, n = Len(hs)
  PROVE  /\ EncodeTurns(hs)[0] = <<>>
         /\ \A k \in 1..n : EncodeTurns(hs)[k] = EncodeTurns(hs)[k - 1] \o header_encode(hs[k])
         /\ \A k \in 0..n : EncodeTurns(hs)[k] \in Seq(Octet)
<1> DEFINE S == Seq(Octet)
           g == [p \in S \X Nat |-> IF p[2] \in 1..n THEN p[1] \o header_encode(hs[p[2]]) ELSE p[1]]
           Are(f) == f = [k \in 0..n |-> IF k = 0 THEN <<>> ELSE f[k - 1] \o header_encode(hs[k])]
           w == EncodeTurns(hs)
<1>1. <<>> \in S
  OBVIOUS
<1>2. \A k \in 1..n : header_encode(hs[k]) \in S
  <2>1. \A k \in 1..n : hs[k] \in Header
    OBVIOUS
  <2> QED
    BY <2>1, EncodingType, Zenon
<1>3. \A x \in S : \A k \in 1..n : x \o header_encode(hs[k]) \in S
  <2>1. \A x, y \in S : x \o y \in S
    OBVIOUS
  <2> HIDE DEF S
  <2> QED
    BY <1>2, <2>1
<1> HIDE DEF S
<1>4. g \in [S \X Nat -> S]
  BY <1>3
<1>5. ASSUME NEW x \in S, NEW k \in 1..n
      PROVE  g[<<x, k>>] = x \o header_encode(hs[k])
  <2>1. PICK q : q = <<x, k>>
    OBVIOUS
  <2>2. q \in S \X Nat /\ q[1] = x /\ q[2] = k
    BY <2>1
  <2>3. g[q] = x \o header_encode(hs[k])
    BY <2>2, Zenon
  <2> QED
    BY <2>1, <2>3
<1>6. PICK f \in [0..n -> S] : LoopFrom(f, <<>>, g, n)
  <2> HIDE DEF g
  <2> QED
    BY <1>1, <1>4, LoopExists
<1>7. Are(f)
  <2>1. \A k \in 0..n : k # 0 => f[k - 1] \in S /\ k \in 1..n
    OBVIOUS
  <2>2. \A k \in 0..n : (IF k = 0 THEN <<>> ELSE g[<<f[k - 1], k>>]) =
                         IF k = 0 THEN <<>> ELSE f[k - 1] \o header_encode(hs[k])
    <3> HIDE DEF g
    <3> QED
      BY <1>5, <2>1, Zenon
  <2>3. f = [k \in 0..n |-> IF k = 0 THEN <<>> ELSE g[<<f[k - 1], k>>]]
    BY <1>6 DEF LoopFrom
  <2> HIDE DEF g
  <2> QED
    BY <2>2, <2>3, Zenon
<1>8. w = CHOOSE h : Are(h)
  BY Zenon DEF EncodeTurns
<1>9. Are(w)
  <2> HIDE DEF Are, w
  <2> QED
    BY <1>7, <1>8, Zenon
<1> HIDE DEF w
<1>10. \A k \in 0..n : w[k] = IF k = 0 THEN <<>> ELSE w[k - 1] \o header_encode(hs[k])
  BY <1>9, Zenon
<1>11. w[0] = <<>> /\ \A k \in 1..n : k - 1 \in 0..n /\ w[k] = w[k - 1] \o header_encode(hs[k])
  <2>1. 0 \in 0..n /\ \A k \in 1..n : k \in 0..n /\ k # 0 /\ k - 1 \in 0..n
    OBVIOUS
  <2> QED
    BY <1>10, <2>1, Zenon
<1>12. \A k \in 0..n : w[k] \in S
  <2> DEFINE P == {k \in 0..n : w[k] \in S}
  <2>1. 0 \in P
    BY <1>1, <1>11
  <2>2. ASSUME NEW k \in 1..n, k - 1 \in P
        PROVE  k \in P
    <3>1. w[k] \in S
      BY <1>3, <1>11, <2>2, Zenon
    <3> QED
      BY <3>1
  <2>3. \A k \in 0..n : k \in P
    <3> HIDE DEF P
    <3> QED
      BY <2>1, <2>2, UpTo
  <2> QED
    BY <2>3
<1> QED
  BY <1>11, <1>12 DEF w, S
-----------------------------------------------------------------------------
\* Header h stands in s from i to where end begins.
HeaderFrom(s, N, i, h, end) ==
  \E n \in Nat, v \in Nat : /\ HeldIn(s, N, i, h, n, v)
                            /\ end \in Nat /\ end = i + SizeOf(h, n, v) /\ end <= N + 1

\* The walk and the iteration agree on where it ends.
LEMMA HeaderFromIsRead ==
  ASSUME NEW s, NEW N \in Nat, NEW i \in Nat \ {0}, NEW h, NEW end, HeaderFrom(s, N, i, h, end)
  PROVE  /\ take_header(s, i) = end
         /\ eventstream_header_next(s, i) = [h |-> h, next |-> end]
         /\ end \in Nat \ {0} /\ end > i /\ end <= N + 1 /\ i \in 1..N
<1>1. PICK n \in Nat, v \in Nat : /\ HeldIn(s, N, i, h, n, v)
                                  /\ end \in Nat /\ end = i + SizeOf(h, n, v) /\ end <= N + 1
  BY DEF HeaderFrom
<1>2. /\ take_header(s, i) = end
      /\ eventstream_header_next(s, i) = [h |-> h, next |-> end]
  <2>1. PICK e \in Nat : e = end
    BY <1>1
  <2>2. HeldIn(s, N, i, h, n, v) /\ e = i + SizeOf(h, n, v) /\ e <= N + 1
    BY <1>1, <2>1
  <2>3. take_header(s, i) = e /\ eventstream_header_next(s, i) = [h |-> h, next |-> e]
    BY <2>2, HeldIsRead
  <2> QED
    BY <2>1, <2>3
<1>3. SizeOf(h, n, v) \in Nat /\ SizeOf(h, n, v) >= 2
  BY DEF SizeOf
<1>4. end \in Nat \ {0} /\ end > i /\ end <= N + 1 /\ i \in 1..N
  BY <1>1, <1>3
<1> QED
  BY <1>2, <1>4

\* The headers hs stand in s one after the other, header k from p[k - 1] on,
\* and there is nothing else.
Laid(s, N, p, n, hs) ==
  /\ s \in Seq(Octet) /\ N = Len(s)
  /\ hs \in Seq(Header) /\ n = Len(hs)
  /\ p[0] = 1 /\ p[n] = N + 1
  /\ \A k \in 1..n : p[k - 1] \in Nat \ {0} /\ HeaderFrom(s, N, p[k - 1], hs[k], p[k])

\* What count_headers knows after k turns: it has walked over headers that
\* fit, and is at the next one, at the end or out.
Counted(s, N, w, k) ==
  \E i \in Int, m \in 0..k :
    /\ w[k] = [at |-> i, n |-> m]
    /\ i # 0 => i \in (m + 1)..(N + 1)
    /\ \A j \in 0..(m - 1) : w[j].at \in 1..N
    /\ \A j \in 1..m : w[j].at = take_header(s, w[j - 1].at)
    /\ w[m].at = i
    /\ m < k => i \in {0, N + 1}

\* Another turn keeps that.
LEMMA CountedNext ==
  ASSUME NEW s, NEW N \in Nat, s \in Seq(Octet), N = Len(s), NEW w, NEW k \in Nat \ {0},
         Counted(s, N, w, k - 1), w[k] = CountTurn(s, w[k - 1])
  PROVE  Counted(s, N, w, k)
<1>1. PICK i \in Int, m \in 0..(k - 1) :
        /\ w[k - 1] = [at |-> i, n |-> m]
        /\ i # 0 => i \in (m + 1)..(N + 1)
        /\ \A j \in 0..(m - 1) : w[j].at \in 1..N
        /\ \A j \in 1..m : w[j].at = take_header(s, w[j - 1].at)
        /\ w[m].at = i
        /\ m < k - 1 => i \in {0, N + 1}
  BY DEF Counted
<1>2. w[k - 1].at = i /\ w[k - 1].n = m
  BY <1>1
<1>3. w[k] = IF i \in {0, N + 1} THEN w[k - 1] ELSE [at |-> take_header(s, i), n |-> m + 1]
  BY <1>2 DEF CountTurn
<1>4. CASE i \in {0, N + 1}
  <2>1. w[k] = [at |-> i, n |-> m] /\ m \in 0..k
    BY <1>1, <1>3, <1>4
  <2> QED
    BY <1>1, <1>4, <2>1, Zenon DEF Counted
<1>5. CASE i \notin {0, N + 1}
  <2>1. m = k - 1 /\ i \in 1..N /\ i \in Nat \ {0} /\ i <= N /\ i > m
    <3>1. (i # 0 => i \in (m + 1)..(N + 1)) /\ (m < k - 1 => i \in {0, N + 1})
      BY <1>1
    <3>2. m \in Int /\ m >= 0 /\ m <= k - 1
      OBVIOUS
    <3>3. i \in (m + 1)..(N + 1) /\ ~(m < k - 1) /\ i # N + 1
      BY <1>5, <3>1
    <3> QED
      BY <3>2, <3>3
  <2>2. PICK end : end = take_header(s, i)
    OBVIOUS
  <2>3. w[k] = [at |-> end, n |-> k]
    BY <1>3, <1>5, <2>1, <2>2
  <2>4. w[k].at = end
    BY <2>3
  <2>5. end \in Int
    <3>1. i \in Int
      OBVIOUS
    <3> QED
      BY <2>2, <3>1, WalkTypes
  <2>6. end # 0 => end \in (k + 1)..(N + 1)
    <3> SUFFICES ASSUME end # 0
                 PROVE  end \in (k + 1)..(N + 1)
      OBVIOUS
    <3>1. PICK h \in Header, n \in Nat, v \in Nat :
            /\ HeldIn(s, N, i, h, n, v)
            /\ end \in Nat /\ end = i + SizeOf(h, n, v) /\ end <= N + 1
      BY <2>1, <2>2, TakenIsHeld, Zenon
    <3>2. SizeOf(h, n, v) \in Nat /\ SizeOf(h, n, v) >= 2
      BY DEF SizeOf
    <3> QED
      BY <2>1, <3>1, <3>2
  <2>7. \A j \in 0..(k - 1) : w[j].at \in 1..N
    <3>1. \A j \in 0..(k - 1) : j = k - 1 \/ j \in 0..(m - 1)
      BY <2>1
    <3> QED
      BY <1>1, <1>2, <2>1, <3>1, Zenon
  <2>8. \A j \in 1..k : w[j].at = take_header(s, w[j - 1].at)
    <3>1. \A j \in 1..k : j = k \/ j \in 1..m
      BY <2>1
    <3> QED
      BY <1>1, <1>2, <2>2, <2>4, <3>1, Zenon
  <2>9. k \in 0..k /\ ~(k < k)
    OBVIOUS
  <2> QED
    BY <2>3, <2>4, <2>5, <2>6, <2>7, <2>8, <2>9, Zenon DEF Counted
<1> QED
  BY <1>4, <1>5

\* Headers that count_headers accepts are headers one after the other.
LEMMA CountedAreLaid ==
  ASSUME NEW s, NEW N \in Nat, s \in Seq(Octet), N = Len(s), NEW n, n = count_headers(s), n >= 0
  PROVE  n \in Nat /\ \E p, hs : Laid(s, N, p, n, hs)
<1> DEFINE w == CountTurns(s)
<1>1. w[0] = [at |-> 1, n |-> 0] /\ \A k \in 1..N : w[k] = CountTurn(s, w[k - 1])
  BY CountTurnsStep
<1>2. n = IF w[N].at = 0 THEN -1 ELSE w[N].n
  BY DEF count_headers
<1> HIDE DEF w
<1>3. Counted(s, N, w, N)
  <2> DEFINE P == {k \in 0..N : Counted(s, N, w, k)}
  <2>1. 0 \in P
    <3>1. w[0].at = 1
      BY <1>1
    <3>2. /\ 1 \in Int /\ 0 \in 0..0 /\ 1 \in (0 + 1)..(N + 1) /\ ~(0 < 0) /\ 0 \in 0..N
          /\ \A j \in 0..(0 - 1) : w[j].at \in 1..N
          /\ \A j \in 1..0 : w[j].at = take_header(s, w[j - 1].at)
      OBVIOUS
    <3>3. Counted(s, N, w, 0)
      BY <1>1, <3>1, <3>2, Zenon DEF Counted
    <3> QED
      BY <3>2, <3>3
  <2>2. ASSUME NEW k \in 1..N, k - 1 \in P
        PROVE  k \in P
    <3>1. Counted(s, N, w, k - 1) /\ k \in Nat \ {0} /\ k \in 0..N
      BY <2>2
    <3>2. Counted(s, N, w, k)
      BY <1>1, <3>1, CountedNext, Zenon
    <3> QED
      BY <3>1, <3>2
  <2>3. \A k \in 0..N : k \in P
    <3> HIDE DEF P
    <3> QED
      BY <2>1, <2>2, UpTo
  <2>4. N \in 0..N
    OBVIOUS
  <2> QED
    BY <2>3, <2>4
<1>4. PICK i \in Int, m \in 0..N :
        /\ w[N] = [at |-> i, n |-> m]
        /\ i # 0 => i \in (m + 1)..(N + 1)
        /\ \A j \in 0..(m - 1) : w[j].at \in 1..N
        /\ \A j \in 1..m : w[j].at = take_header(s, w[j - 1].at)
        /\ w[m].at = i
        /\ m < N => i \in {0, N + 1}
  BY <1>3 DEF Counted
<1>5. n = m /\ i # 0
  <2>1. w[N].at = i /\ w[N].n = m
    BY <1>4
  <2> QED
    BY <1>2, <2>1
<1>6. i = N + 1
  BY <1>4, <1>5
<1>7. n \in Nat
  BY <1>5
<1> DEFINE p == [j \in 0..n |-> w[j].at]
           hs == [k \in 1..n |-> eventstream_header_next(s, p[k - 1]).h]
<1>8. /\ p[0] = 1 /\ p[n] = N + 1
      /\ \A k \in 1..n : p[k - 1] \in 1..N /\ p[k] = take_header(s, p[k - 1]) /\ p[k] # 0
  <2>1. \A j \in 0..n : p[j] = w[j].at
    OBVIOUS
  <2>2. w[0].at = 1 /\ w[n].at = N + 1
    BY <1>1, <1>4, <1>5, <1>6
  <2>3. 0 \in 0..n /\ n \in 0..n
    BY <1>7
  <2>4. ASSUME NEW k \in 1..n
        PROVE  /\ k - 1 \in 0..(m - 1) /\ k - 1 \in 0..n /\ k \in 1..m /\ k \in 0..n
               /\ k = n \/ k \in 0..(m - 1)
    BY <1>5, <1>7
  <2>5. \A k \in 1..n : w[k - 1].at \in 1..N /\ w[k].at = take_header(s, w[k - 1].at)
    BY <1>4, <2>4, Zenon
  <2>6. \A x \in 1..N : x # 0
    OBVIOUS
  <2>7. N + 1 # 0
    OBVIOUS
  <2>8. \A k \in 1..n : w[k].at # 0
    BY <1>4, <2>2, <2>4, <2>6, <2>7, Zenon
  <2> HIDE DEF p
  <2> QED
    BY <2>1, <2>2, <2>3, <2>4, <2>5, <2>8, Zenon
<1> HIDE DEF p
<1>9. ASSUME NEW k \in 1..n
      PROVE  p[k - 1] \in Nat \ {0} /\ hs[k] \in Header /\ HeaderFrom(s, N, p[k - 1], hs[k], p[k])
  <2>1. PICK b : b = p[k - 1]
    OBVIOUS
  <2>2. PICK e : e = p[k]
    OBVIOUS
  <2>3. b \in 1..N /\ e = take_header(s, b) /\ e # 0
    BY <1>8, <2>1, <2>2, Zenon
  <2>4. b \in Nat \ {0} /\ b <= N
    BY <2>3
  <2>5. PICK h \in Header : HeaderFrom(s, N, b, h, e)
    <3>1. PICK h \in Header, a \in Nat, v \in Nat :
            /\ HeldIn(s, N, b, h, a, v)
            /\ e \in Nat /\ e = b + SizeOf(h, a, v) /\ e <= N + 1
      BY <2>3, <2>4, TakenIsHeld, Zenon
    <3> QED
      BY <3>1, Zenon DEF HeaderFrom
  <2>6. eventstream_header_next(s, b) = [h |-> h, next |-> e]
    BY <2>4, <2>5, HeaderFromIsRead, Zenon
  <2>7. hs[k] = h
    BY <2>1, <2>6
  <2> HIDE DEF hs
  <2> QED
    BY <2>1, <2>2, <2>4, <2>5, <2>7
<1>10. hs \in Seq(Header) /\ Len(hs) = n
  <2>1. hs \in [1..n -> Header]
    BY <1>9
  <2> HIDE DEF hs
  <2> QED
    BY <1>7, <2>1, SeqOfFunction, Zenon
<1> HIDE DEF hs
<1>11. Laid(s, N, p, n, hs)
  BY <1>8, <1>9, <1>10, Zenon DEF Laid
<1> QED
  BY <1>7, <1>11
-----------------------------------------------------------------------------
\* Headers one after the other: header k is read as it is, and each begins
\* after the one before it.
ReadStep(s, N, b, h, e) ==
  /\ b \in 1..N
  /\ take_header(s, b) = e
  /\ eventstream_header_next(s, b) = [h |-> h, next |-> e]
  /\ e \in Nat /\ e > b /\ e <= N + 1

\* Each of the headers is read like that.
LEMMA LaidStep ==
  ASSUME NEW s, NEW N \in Nat, NEW p, NEW n \in Nat, NEW hs, Laid(s, N, p, n, hs)
  PROVE  \A k \in 1..n : ReadStep(s, N, p[k - 1], hs[k], p[k])
<1> SUFFICES ASSUME NEW k \in 1..n
             PROVE  ReadStep(s, N, p[k - 1], hs[k], p[k])
  OBVIOUS
<1>1. p[k - 1] \in Nat \ {0} /\ HeaderFrom(s, N, p[k - 1], hs[k], p[k])
  BY DEF Laid
<1>2. PICK b \in Nat \ {0} : b = p[k - 1]
  BY <1>1, Zenon
<1>3. PICK e : e = p[k]
  OBVIOUS
<1>4. HeaderFrom(s, N, b, hs[k], e)
  BY <1>1, <1>2, <1>3
<1>5. /\ take_header(s, b) = e
      /\ eventstream_header_next(s, b) = [h |-> hs[k], next |-> e]
      /\ e \in Nat \ {0} /\ e > b /\ e <= N + 1 /\ b \in 1..N
  BY <1>4, HeaderFromIsRead, Zenon
<1>6. e \in Nat
  BY <1>5
<1>7. ReadStep(s, N, b, hs[k], e)
  BY <1>5, <1>6, Zenon DEF ReadStep
<1> QED
  BY <1>2, <1>3, <1>7

\* A header takes at least one byte, so there are at most N.
LEMMA LaidPositions ==
  ASSUME NEW s, NEW N \in Nat, NEW p, NEW n \in Nat, NEW hs, Laid(s, N, p, n, hs)
  PROVE  n <= N /\ \A k \in 0..n : p[k] \in (k + 1)..(N + 1)
<1> DEFINE P == {k \in 0..n : p[k] \in (k + 1)..(N + 1)}
<1>1. 0 \in P
  <2>1. p[0] = 1
    BY DEF Laid
  <2> QED
    BY <2>1
<1>2. ASSUME NEW k \in 1..n, k - 1 \in P
      PROVE  k \in P
  <2>1. PICK a : a = p[k - 1]
    OBVIOUS
  <2>2. PICK b : b = p[k]
    OBVIOUS
  <2>3. b \in Nat /\ b > a /\ b <= N + 1
    BY <2>1, <2>2, LaidStep, Zenon DEF ReadStep
  <2>4. a \in ((k - 1) + 1)..(N + 1)
    BY <1>2, <2>1
  <2>5. b \in (k + 1)..(N + 1)
    BY <2>3, <2>4
  <2> QED
    BY <2>2, <2>5
<1>3. \A k \in 0..n : k \in P
  <2> HIDE DEF P
  <2> QED
    BY <1>1, <1>2, UpTo
<1>4. \A k \in 0..n : p[k] \in (k + 1)..(N + 1)
  BY <1>3
<1>5. p[n] = N + 1 /\ n \in 0..n
  BY DEF Laid
<1>6. N + 1 \in (n + 1)..(N + 1)
  BY <1>4, <1>5
<1> QED
  BY <1>4, <1>6

\* count_headers accepts them and counts them.
LEMMA LaidAreCounted ==
  ASSUME NEW s, NEW N \in Nat, NEW p, NEW n \in Nat, NEW hs, Laid(s, N, p, n, hs)
  PROVE  count_headers(s) = n
<1> DEFINE w == CountTurns(s)
<1>1. s \in Seq(Octet) /\ N = Len(s) /\ p[0] = 1 /\ p[n] = N + 1
  BY DEF Laid
<1>2. w[0] = [at |-> 1, n |-> 0] /\ \A k \in 1..N : w[k] = CountTurn(s, w[k - 1])
  BY <1>1, CountTurnsStep
<1>3. count_headers(s) = IF w[N].at = 0 THEN -1 ELSE w[N].n
  BY <1>1 DEF count_headers
<1> HIDE DEF w
<1>4. n <= N
  BY LaidPositions
<1>5. \A x : \A m : x \notin {0, N + 1} => CountTurn(s, [at |-> x, n |-> m]) = [at |-> take_header(s, x), n |-> m + 1]
  BY <1>1 DEF CountTurn
<1>6. \A m : CountTurn(s, [at |-> N + 1, n |-> m]) = [at |-> N + 1, n |-> m]
  BY <1>1 DEF CountTurn
<1> DEFINE P == {k \in 0..N : /\ k <= n => w[k] = [at |-> p[k], n |-> k]
                              /\ k > n => w[k] = [at |-> N + 1, n |-> n]}
<1>7. 0 \in P
  BY <1>1, <1>2
<1>8. ASSUME NEW k \in 1..N, k - 1 \in P
      PROVE  k \in P
  <2>1. CASE k <= n
    <3>1. k \in 1..n /\ k - 1 <= n /\ k - 1 + 1 = k /\ ~(k > n) /\ k \in 0..N
      BY <2>1
    <3>2. w[k - 1] = [at |-> p[k - 1], n |-> k - 1]
      BY <1>8, <3>1
    <3>3. p[k - 1] \in 1..N /\ take_header(s, p[k - 1]) = p[k]
      <4>1. ReadStep(s, N, p[k - 1], hs[k], p[k])
        BY <3>1, LaidStep, Zenon
      <4> QED
        BY <4>1 DEF ReadStep
    <3>4. \A x \in 1..N : x \notin {0, N + 1}
      OBVIOUS
    <3>5. w[k] = [at |-> p[k], n |-> k - 1 + 1]
      BY <1>2, <1>5, <3>2, <3>3, <3>4, Zenon
    <3>6. w[k] = [at |-> p[k], n |-> k]
      BY <3>1, <3>5
    <3> QED
      BY <3>1, <3>6
  <2>2. CASE k > n
    <3>1. k - 1 = n \/ k - 1 > n
      BY <2>2
    <3>2. w[k - 1] = [at |-> N + 1, n |-> n]
      BY <1>1, <1>8, <3>1
    <3>3. w[k] = [at |-> N + 1, n |-> n]
      BY <1>2, <1>6, <3>2, Zenon
    <3>4. ~(k <= n) /\ k \in 0..N
      BY <2>2
    <3> QED
      BY <3>3, <3>4
  <2> QED
    BY <2>1, <2>2
<1>9. \A k \in 0..N : k \in P
  <2> HIDE DEF P
  <2> QED
    BY <1>7, <1>8, UpTo
<1>10. w[N] = [at |-> N + 1, n |-> n]
  <2>1. N \in 0..N /\ (N > n \/ (N = n /\ N <= n))
    BY <1>4
  <2>2. /\ N <= n => w[N] = [at |-> p[N], n |-> N]
        /\ N > n => w[N] = [at |-> N + 1, n |-> n]
    BY <1>9, <2>1, Zenon
  <2> QED
    BY <1>1, <2>1, <2>2, Zenon
<1>11. w[N].at = N + 1 /\ w[N].n = n /\ N + 1 # 0
  BY <1>10
<1> QED
  BY <1>3, <1>11

\* The iteration reads them and ends where they end.
LEMMA LaidAreRead ==
  ASSUME NEW s, NEW N \in Nat, NEW p, NEW n \in Nat, NEW hs, Laid(s, N, p, n, hs)
  PROVE  Iterate(s, n).hs = hs /\ Iterate(s, n).end = N + 1
<1> DEFINE at == Positions(s, n)
           P == {k \in 0..n : at[k] = p[k]}
           read == [k \in 1..n |-> eventstream_header_next(s, at[k - 1]).h]
<1>1. s \in Seq(Octet) /\ p[0] = 1 /\ p[n] = N + 1 /\ hs \in Seq(Header) /\ n = Len(hs)
  BY DEF Laid
<1>2. at[0] = 1 /\ \A k \in 1..n : at[k] = eventstream_header_next(s, at[k - 1]).next
  BY <1>1, PositionsStep
<1>3. Iterate(s, n) = [hs |-> read, end |-> at[n]]
  BY Zenon DEF Iterate
<1> HIDE DEF at
<1>4. ASSUME NEW k \in 1..n
      PROVE  /\ eventstream_header_next(s, p[k - 1]).h = hs[k]
             /\ eventstream_header_next(s, p[k - 1]).next = p[k]
  <2>1. eventstream_header_next(s, p[k - 1]) = [h |-> hs[k], next |-> p[k]]
    <3>1. ReadStep(s, N, p[k - 1], hs[k], p[k])
      BY LaidStep, Zenon
    <3> QED
      BY <3>1 DEF ReadStep
  <2> QED
    BY <2>1
<1>5. 0 \in P
  BY <1>1, <1>2
<1>6. ASSUME NEW k \in 1..n, k - 1 \in P
      PROVE  k \in P
  BY <1>2, <1>4, <1>6
<1>7. \A k \in 0..n : k \in P
  <2> HIDE DEF P
  <2> QED
    BY <1>5, <1>6, UpTo
<1>8. \A k \in 1..n : k - 1 \in 0..n
  OBVIOUS
<1>9. \A k \in 1..n : eventstream_header_next(s, at[k - 1]).h = hs[k] /\ hs[k] \in Header
  <2>1. \A k \in 1..n : hs[k] \in Header
    BY <1>1
  <2> QED
    BY <1>4, <1>7, <1>8, <2>1
<1>10. read = hs
  <2>1. read \in [1..n -> Header] /\ \A k \in 1..n : read[k] = hs[k]
    BY <1>9
  <2> HIDE DEF read
  <2>2. read \in Seq(Header) /\ Len(read) = n
    BY <2>1, SeqOfFunction, Zenon
  <2> QED
    BY <1>1, <2>1, <2>2, SeqEqual, Zenon
<1>11. at[n] = N + 1
  BY <1>1, <1>7
<1> HIDE DEF read
<1> QED
  BY <1>3, <1>10, <1>11
-----------------------------------------------------------------------------
\* Headers one after the other are the bytes that eventstream_encode writes.
LEMMA LaidAreEncoded ==
  ASSUME NEW s, NEW N \in Nat, NEW p, NEW n \in Nat, NEW hs, Laid(s, N, p, n, hs)
  PROVE  EncodedHeaders(hs) = s
<1> DEFINE f == EncodeTurns(hs)
           Copies(x, m) == x \in Seq(Octet) /\ Len(x) = m /\ \A j \in 1..m : x[j] = s[j]
           P == {k \in 0..n : p[k] \in Nat \ {0} /\ Copies(f[k], p[k] - 1)}
<1>1. s \in Seq(Octet) /\ N = Len(s) /\ p[0] = 1 /\ p[n] = N + 1 /\ hs \in Seq(Header) /\ n = Len(hs)
  BY DEF Laid
<1>2. /\ f[0] = <<>>
      /\ \A k \in 1..n : f[k] = f[k - 1] \o header_encode(hs[k])
      /\ \A k \in 0..n : f[k] \in Seq(Octet)
  BY <1>1, EncodeTurnsStep
<1>3. EncodedHeaders(hs) = f[n]
  BY <1>1 DEF EncodedHeaders
<1> HIDE DEF f
<1>4. 0 \in P
  <2>1. <<>> \in Seq(Octet) /\ Len(<<>>) = 0 /\ 0 \in 0..n /\ 1 \in Nat \ {0} /\ 1 - 1 = 0
    OBVIOUS
  <2>2. \A j \in 1..0 : <<>>[j] = s[j]
    OBVIOUS
  <2> QED
    BY <1>1, <1>2, <2>1, <2>2
<1>5. ASSUME NEW k \in 1..n, k - 1 \in P
      PROVE  k \in P
  <2>1. PICK i : i = p[k - 1]
    OBVIOUS
  <2>2. PICK end : end = p[k]
    OBVIOUS
  <2>3. PICK x : x = f[k - 1]
    OBVIOUS
  <2>4. PICK h : h = hs[k]
    OBVIOUS
  <2>5. i \in Nat \ {0} /\ Copies(x, i - 1)
    BY <1>5, <2>1, <2>3
  <2>6. HeaderFrom(s, N, i, h, end)
    BY <2>1, <2>2, <2>4 DEF Laid
  <2>7. PICK m \in Nat, v \in Nat : /\ HeldIn(s, N, i, h, m, v)
                                    /\ end \in Nat /\ end = i + SizeOf(h, m, v) /\ end <= N + 1
    BY <2>6 DEF HeaderFrom
  <2>8. h \in Header /\ m = Len(h.name) /\ v = Len(h.value) /\ Holds(s, i, h, m, v)
    BY <2>7 DEF HeldIn
  <2>9. PICK e : e = header_encode(h)
    OBVIOUS
  <2>10. IsEncoding(h, e, m, v)
    BY <2>8, <2>9, EncodedHeader, Zenon
  <2>11. PICK z \in Nat : z = SizeOf(h, m, v)
    <3>1. SizeOf(h, m, v) \in Nat
      BY DEF SizeOf
    <3> QED
      BY <3>1
  <2>12. Len(e) = z /\ \A j \in 1..z : s[i + j - 1] = e[j]
    <3>1. /\ Len(e) = SizeOf(h, m, v)
          /\ Holds(s, i, h, m, v) <=> \A j \in 1..Len(e) : s[i + j - 1] = e[j]
      <4>1. HoldsBytes(s, i, h, e, m, v)
        BY <2>5, <2>10, HeldBytes, Zenon
      <4> QED
        BY <4>1 DEF HoldsBytes
    <3> QED
      BY <2>8, <2>11, <3>1
  <2>13. e \in Seq(Octet)
    BY <2>10 DEF IsEncoding
  <2>14. PICK y : y = f[k]
    OBVIOUS
  <2>15. y = x \o e
    BY <1>2, <2>3, <2>4, <2>9, <2>14, Zenon
  <2>16. AreJoined(x, i - 1, e, z, y)
    BY <2>5, <2>12, <2>13, <2>15, JoinedBytes, Zenon
  <2>17. Len(y) = (i - 1) + z /\ y \in Seq(Octet)
         /\ (\A j \in 1..(i - 1) : y[j] = x[j]) /\ \A j \in 1..z : y[(i - 1) + j] = e[j]
    BY <2>16 DEF AreJoined
  <2>18. end = i + z /\ end \in Nat \ {0} /\ end - 1 = (i - 1) + z
    BY <2>5, <2>7, <2>11
  <2>19. ASSUME NEW j \in 1..(end - 1)
         PROVE  y[j] = s[j]
    <3>1. CASE j \in 1..(i - 1)
      BY <2>5, <2>17, <3>1
    <3>2. CASE j \notin 1..(i - 1)
      <4>1. PICK l \in 1..z : j = (i - 1) + l /\ j = i + l - 1
        <5>1. j - i + 1 \in 1..z /\ j = (i - 1) + (j - i + 1) /\ j = i + (j - i + 1) - 1
          BY <2>5, <2>18, <3>2
        <5> QED
          BY <5>1
      <4>2. y[(i - 1) + l] = e[l] /\ s[i + l - 1] = e[l]
        BY <2>12, <2>17
      <4> QED
        BY <4>1, <4>2
    <3> QED
      BY <3>1, <3>2
  <2>20. Copies(y, end - 1)
    BY <2>17, <2>18, <2>19
  <2>21. k \in 0..n
    OBVIOUS
  <2> HIDE DEF Copies
  <2> QED
    BY <2>2, <2>14, <2>18, <2>20, <2>21
<1>6. \A k \in 0..n : k \in P
  <2> HIDE DEF P
  <2> QED
    BY <1>4, <1>5, UpTo
<1>7. Copies(f[n], N)
  <2>1. n \in 0..n /\ N + 1 - 1 = N
    OBVIOUS
  <2>2. Copies(f[n], p[n] - 1)
    <3> HIDE DEF Copies
    <3> QED
      BY <1>6, <2>1
  <2> HIDE DEF Copies
  <2> QED
    BY <1>1, <2>1, <2>2
<1>8. f[n] = s
  BY <1>1, <1>7, SeqEqual, Zenon
<1> QED
  BY <1>3, <1>8

\* What there is after a turn of eventstream_encode stays there.
LEMMA EncodedPrefix ==
  ASSUME NEW hs \in Seq(Header), NEW n \in Nat, n = Len(hs), NEW k \in 0..n, NEW m \in Nat,
         Len(EncodeTurns(hs)[k]) = m
  PROVE  /\ m <= Len(EncodeTurns(hs)[n])
         /\ \A j \in 1..m : EncodeTurns(hs)[n][j] = EncodeTurns(hs)[k][j]
<1> DEFINE f == EncodeTurns(hs)
           x == f[k]
           Begins(y) == y \in Seq(Octet) /\ m <= Len(y) /\ \A j \in 1..m : y[j] = x[j]
           P == {i \in 0..n : i >= k => Begins(f[i])}
<1>1. /\ \A i \in 1..n : f[i] = f[i - 1] \o header_encode(hs[i])
      /\ \A i \in 0..n : f[i] \in Seq(Octet)
  BY EncodeTurnsStep
<1>2. x \in Seq(Octet) /\ Len(x) = m
  BY <1>1
<1> HIDE DEF f
<1>3. Begins(f[k])
  BY <1>2
<1>4. ASSUME NEW y \in Seq(Octet), NEW e \in Seq(Octet), Begins(y)
      PROVE  Begins(y \o e)
  <2>1. PICK a \in Nat : a = Len(y)
    OBVIOUS
  <2>2. PICK b \in Nat : b = Len(e)
    OBVIOUS
  <2>3. PICK c : c = y \o e
    OBVIOUS
  <2>4. AreJoined(y, a, e, b, c)
    BY <2>1, <2>2, <2>3, JoinedBytes, Zenon
  <2>5. c \in Seq(Octet) /\ Len(c) = a + b /\ \A j \in 1..a : c[j] = y[j]
    BY <2>4 DEF AreJoined
  <2>6. m <= a /\ \A j \in 1..m : y[j] = x[j]
    BY <1>4, <2>1
  <2>7. m <= a + b /\ \A j \in 1..m : j \in 1..a
    BY <2>6
  <2>8. \A j \in 1..m : c[j] = x[j]
    <3> HIDE DEF x
    <3> QED
      BY <2>5, <2>6, <2>7, Zenon
  <2>9. Begins(c)
    BY <2>5, <2>7, <2>8
  <2> QED
    BY <2>3, <2>9
<1> HIDE DEF x, Begins
<1>5. 0 \in P
  <2>1. 0 \in 0..n /\ (0 >= k => k = 0)
    OBVIOUS
  <2> QED
    BY <1>3, <2>1
<1>6. ASSUME NEW i \in 1..n, i - 1 \in P
      PROVE  i \in P
  <2> SUFFICES ASSUME i >= k
               PROVE  Begins(f[i])
    OBVIOUS
  <2>1. CASE i = k
    BY <1>3, <2>1
  <2>2. CASE i # k
    <3>1. i - 1 >= k /\ i - 1 \in 0..n
      BY <2>2
    <3>2. Begins(f[i - 1]) /\ f[i - 1] \in Seq(Octet)
      BY <1>1, <1>6, <3>1
    <3>3. header_encode(hs[i]) \in Seq(Octet)
      <4>1. hs[i] \in Header
        OBVIOUS
      <4> QED
        BY <4>1, EncodingType, Zenon
    <3>4. Begins(f[i - 1] \o header_encode(hs[i]))
      BY <1>4, <3>2, <3>3, Zenon
    <3> QED
      BY <1>1, <3>4, Zenon
  <2> QED
    BY <2>1, <2>2
<1>7. \A i \in 0..n : i \in P
  <2> HIDE DEF P
  <2> QED
    BY <1>5, <1>6, UpTo
<1>8. n \in 0..n /\ n >= k
  OBVIOUS
<1>9. Begins(f[n])
  BY <1>7, <1>8
<1> QED
  BY <1>9 DEF Begins, x, f

\* The bytes that eventstream_encode writes are the headers, one after the other.
LEMMA EncodedAreLaid ==
  ASSUME NEW hs \in Seq(Header), NEW n \in Nat, n = Len(hs), NEW s, s = EncodedHeaders(hs)
  PROVE  /\ s \in Seq(Octet) /\ Len(s) \in Nat
         /\ \E p : Laid(s, Len(s), p, n, hs)
<1> DEFINE f == EncodeTurns(hs)
           p == [k \in 0..n |-> Len(f[k]) + 1]
<1>1. /\ f[0] = <<>>
      /\ \A k \in 1..n : f[k] = f[k - 1] \o header_encode(hs[k])
      /\ \A k \in 0..n : f[k] \in Seq(Octet)
  BY EncodeTurnsStep
<1>2. s = f[n]
  BY DEF EncodedHeaders
<1>3. \A k \in 0..n : Len(f[k]) \in Nat
  <2>1. \A x \in Seq(Octet) : Len(x) \in Nat
    OBVIOUS
  <2> HIDE DEF f
  <2> QED
    BY <1>1, <2>1, Zenon
<1>4. ASSUME NEW k \in 0..n
      PROVE  Len(f[k]) <= Len(s) /\ \A j \in 1..Len(f[k]) : s[j] = f[k][j]
  <2>1. PICK m \in Nat : Len(f[k]) = m
    BY <1>3
  <2>2. m <= Len(f[n]) /\ \A j \in 1..m : f[n][j] = f[k][j]
    BY <2>1, EncodedPrefix
  <2> HIDE DEF f
  <2> QED
    BY <1>2, <2>1, <2>2
<1> HIDE DEF f
<1>5. PICK N \in Nat : N = Len(s) /\ s \in Seq(Octet)
  <2>1. n \in 0..n
    OBVIOUS
  <2> QED
    BY <1>1, <1>2, <1>3, <2>1, Zenon
<1>6. p[0] = 1 /\ p[n] = N + 1 /\ \A k \in 0..n : p[k] = Len(f[k]) + 1
  <2>1. Len(<<>>) = 0 /\ 0 \in 0..n /\ n \in 0..n
    OBVIOUS
  <2> QED
    BY <1>1, <1>2, <1>5, <2>1
<1> HIDE DEF p
<1>7. ASSUME NEW k \in 1..n
      PROVE  p[k - 1] \in Nat \ {0} /\ HeaderFrom(s, N, p[k - 1], hs[k], p[k])
  <2>1. k - 1 \in 0..n /\ k \in 0..n
    OBVIOUS
  <2>2. PICK x : x = f[k - 1]
    OBVIOUS
  <2>3. PICK y : y = f[k]
    OBVIOUS
  <2>4. PICK h \in Header : h = hs[k]
    OBVIOUS
  <2>5. PICK e : e = header_encode(h)
    OBVIOUS
  <2>6. PICK m \in Nat : m = Len(h.name)
    BY HeaderLengths, Zenon
  <2>7. PICK v \in Nat : v = Len(h.value)
    BY HeaderLengths, Zenon
  <2>8. IsEncoding(h, e, m, v)
    BY <2>5, <2>6, <2>7, EncodedHeader, Zenon
  <2>9. PICK z \in Nat : z = SizeOf(h, m, v)
    <3>1. SizeOf(h, m, v) \in Nat
      BY DEF SizeOf
    <3> QED
      BY <3>1
  <2>10. PICK a \in Nat : a = Len(x) /\ p[k - 1] = a + 1
    BY <1>3, <1>6, <2>1, <2>2, Zenon
  <2>11. e \in Seq(Octet) /\ x \in Seq(Octet)
    BY <1>1, <2>1, <2>2, <2>8, Zenon DEF IsEncoding
  <2>12. a + 1 \in Nat \ {0}
    OBVIOUS
  <2>13. /\ Len(e) = z
         /\ Holds(s, a + 1, h, m, v) <=> \A j \in 1..z : s[a + 1 + j - 1] = e[j]
    <3>1. /\ Len(e) = SizeOf(h, m, v)
          /\ Holds(s, a + 1, h, m, v) <=> \A j \in 1..Len(e) : s[a + 1 + j - 1] = e[j]
      <4>1. HoldsBytes(s, a + 1, h, e, m, v)
        BY <2>8, <2>12, HeldBytes, Zenon
      <4> QED
        BY <4>1 DEF HoldsBytes
    <3> QED
      BY <2>9, <3>1
  <2>14. y = x \o e
    BY <1>1, <2>2, <2>3, <2>4, <2>5, Zenon
  <2>15. AreJoined(x, a, e, z, y)
    BY <2>10, <2>11, <2>13, <2>14, JoinedBytes, Zenon
  <2>16. Len(y) = a + z /\ \A j \in 1..z : y[a + j] = e[j]
    BY <2>15 DEF AreJoined
  <2>17. a + z <= N /\ \A j \in 1..(a + z) : s[j] = y[j]
    BY <1>4, <1>5, <2>1, <2>3, <2>16
  <2>18. ASSUME NEW j \in 1..z
         PROVE  s[a + 1 + j - 1] = e[j]
    <3>1. a + j \in 1..(a + z) /\ a + 1 + j - 1 = a + j
      OBVIOUS
    <3> QED
      BY <2>16, <2>17, <3>1
  <2>19. HeldIn(s, N, a + 1, h, m, v)
    BY <1>5, <2>6, <2>7, <2>13, <2>18, Zenon DEF HeldIn
  <2>20. PICK end \in Nat : end = a + z + 1
    OBVIOUS
  <2>21. end = p[k] /\ end = a + 1 + z /\ end <= N + 1
    BY <1>6, <2>1, <2>3, <2>16, <2>17, <2>20
  <2>22. HeaderFrom(s, N, a + 1, h, end)
    BY <2>9, <2>19, <2>21, Zenon DEF HeaderFrom
  <2> QED
    BY <2>4, <2>10, <2>12, <2>21, <2>22
<1>8. Laid(s, N, p, n, hs)
  BY <1>5, <1>6, <1>7, Zenon DEF Laid
<1> QED
  BY <1>5, <1>8
-----------------------------------------------------------------------------
\* A header whose name is among the three is the last one of that name.
LEMMA CommonValues ==
  ASSUME NEW hs \in Seq(Header), NEW n \in Nat, n = Len(hs),
         \A j, k \in DOMAIN hs : hs[j].name = hs[k].name => j = k,
         NEW c, c = eventstream_get_common_headers(hs), c.err = "OK", NEW k \in DOMAIN hs
  PROVE  /\ hs[k].name = <<1>> => hs[k].value = c.type
         /\ hs[k].name = <<2>> => hs[k].value = c.flags
         /\ hs[k].name = <<3>> => hs[k].value = c.id
<1> DEFINE named(x) == {j \in DOMAIN hs : hs[j].name = <<x>>}
           last(x) == CHOOSE j \in named(x) : \A i \in named(x) : i <= j
           value(x) == IF named(x) = {} THEN <<>> ELSE hs[last(x)].value
           bad == \E j \in DOMAIN hs : hs[j].name \in {<<1>>, <<2>>, <<3>>} /\ hs[j].type # EVENTSTREAM_INT32
<1>1. c = IF bad THEN [err |-> "INVALID"]
          ELSE [err |-> "OK", type |-> value(1), flags |-> value(2), id |-> value(3)]
  BY Zenon DEF eventstream_get_common_headers
<1>2. ASSUME NEW x, hs[k].name = <<x>>
      PROVE  value(x) = hs[k].value
  <2>1. named(x) = {k}
    BY <1>2, Zenon
  <2>2. k <= k
    <3>1. k \in 1..n
      OBVIOUS
    <3> QED
      BY <3>1
  <2>3. last(x) = k
    BY <2>1, <2>2, Zenon
  <2>4. named(x) # {}
    BY <2>1, Zenon
  <2> HIDE DEF last, named
  <2> QED
    BY <2>3, <2>4, Zenon
<1> HIDE DEF bad, value
<1>3. c = [err |-> "OK", type |-> value(1), flags |-> value(2), id |-> value(3)]
  <2>1. ~bad
    <3> SUFFICES ASSUME bad
                 PROVE  FALSE
      OBVIOUS
    <3>1. c = [err |-> "INVALID"]
      BY <1>1
    <3> QED
      BY <3>1
  <2> QED
    BY <1>1, <2>1, Zenon
<1>4. c.type = value(1) /\ c.flags = value(2) /\ c.id = value(3)
  BY <1>3
<1> QED
  BY <1>2, <1>4, Zenon

\* What EventHeaders has in hand: a list that is encoded, or what arrives.
HeadersInv ==
  /\ headers.bytes \in Seq(Octet)
  /\ headers.from = "encode" =>
       /\ headers.list \in HeaderLists
       /\ headers.bytes = EncodedHeaders(headers.list)

\* Such headers agree: bytes that are accepted are headers one after the
\* other, and so are the ones that are encoded.
LEMMA HeadersInvAgree ==
  ASSUME HeadersInv
  PROVE  HeadersAgree
<1> DEFINE s == headers.bytes
           n == count_headers(s)
           walk == Iterate(s, n)
           list == headers.list
           c == eventstream_get_common_headers(walk.hs)
           sent(x) == {list[k].value : k \in {k \in DOMAIN list : list[k].name = <<x>>}}
<1>1. s \in Seq(Octet) /\ Len(s) \in Nat
  BY DEF HeadersInv
<1>2. PICK N \in Nat : N = Len(s)
  BY <1>1
<1>3. ASSUME n >= 0
      PROVE  walk.end = N + 1 /\ EncodedHeaders(walk.hs) = s
  <2>1. n \in Nat /\ \E p, hs : Laid(s, N, p, n, hs)
    <3> HIDE DEF s, n
    <3> QED
      BY <1>1, <1>2, <1>3, CountedAreLaid DEF n
  <2>2. PICK p, hs : Laid(s, N, p, n, hs)
    BY <2>1
  <2> HIDE DEF s, n
  <2>3. walk.hs = hs /\ walk.end = N + 1
    BY <2>1, <2>2, LaidAreRead, Zenon
  <2>4. EncodedHeaders(hs) = s
    BY <2>1, <2>2, LaidAreEncoded, Zenon
  <2> QED
    BY <2>3, <2>4
<1>4. ASSUME headers.from = "encode"
      PROVE  /\ n = Len(list) /\ walk.hs = list
             /\ c.err = "OK" => /\ sent(1) \subseteq {c.type}
                                /\ sent(2) \subseteq {c.flags}
                                /\ sent(3) \subseteq {c.id}
  <2>1. list \in HeaderLists /\ s = EncodedHeaders(list)
    BY <1>4 DEF HeadersInv
  <2>2. list \in Seq(Header) /\ \A j, k \in DOMAIN list : list[j].name = list[k].name => j = k
    BY <2>1, HeaderListsAssumption
  <2>3. PICK m \in Nat : m = Len(list)
    BY <2>2
  <2> HIDE DEF s, list
  <2>4. PICK p : Laid(s, N, p, m, list)
    BY <1>2, <2>1, <2>2, <2>3, EncodedAreLaid
  <2>5. n = m
    BY <2>4, LaidAreCounted, Zenon
  <2> HIDE DEF n
  <2>6. walk.hs = list
    BY <2>4, <2>5, LaidAreRead, Zenon
  <2>7. ASSUME c.err = "OK"
        PROVE  sent(1) \subseteq {c.type} /\ sent(2) \subseteq {c.flags} /\ sent(3) \subseteq {c.id}
    <3>1. c = eventstream_get_common_headers(list)
      BY <2>6
    <3> HIDE DEF c
    <3>2. \A k \in DOMAIN list :
            /\ list[k].name = <<1>> => list[k].value = c.type
            /\ list[k].name = <<2>> => list[k].value = c.flags
            /\ list[k].name = <<3>> => list[k].value = c.id
      BY <2>2, <2>3, <2>7, <3>1, CommonValues, Zenon
    <3> QED
      BY <3>2, Zenon
  <2> QED
    BY <2>3, <2>5, <2>6, <2>7
<1> QED
  BY <1>2, <1>3, <1>4, Zenon DEF HeadersAgree

\* The headers of a packet are accepted only when the iteration over them
\* stays inside and yields exactly what was sent, for every list and for
\* every byte sequence (src/src/eventstream/decode.c:125, encode.c:24).
THEOREM HeadersDoAgree == HeadersSpec => []HeadersAgree
<1>1. HeadersInit => HeadersInv
  <2>1. <<>> \in Seq(Octet)
    OBVIOUS
  <2> QED
    BY <2>1 DEF HeadersInit, HeadersInv, NoHeaders
<1>2. HeadersInv /\ [HeadersNext]_headers => HeadersInv'
  <2> SUFFICES ASSUME HeadersInv, [HeadersNext]_headers
               PROVE  HeadersInv'
    OBVIOUS
  <2>1. ASSUME NEW hs \in HeaderLists, EncodeHeaders(hs)
        PROVE  HeadersInv'
    <3>1. hs \in Seq(Header)
      BY HeaderListsAssumption
    <3>2. PICK m \in Nat : m = Len(hs)
      BY <3>1
    <3>3. EncodedHeaders(hs) \in Seq(Octet)
      BY <3>1, <3>2, EncodedAreLaid, Zenon
    <3>4. headers'.bytes = EncodedHeaders(hs) /\ headers'.list = hs
      BY <2>1 DEF EncodeHeaders
    <3> QED
      BY <3>3, <3>4, Zenon DEF HeadersInv
  <2>2. ASSUME NEW bytes \in HeaderBytes, ReceiveHeaders(bytes)
        PROVE  HeadersInv'
    <3>1. bytes \in Seq(Octet)
      BY HeaderBytesAssumption DEF Octet
    <3>2. headers'.bytes = bytes /\ headers'.from = "peer"
      BY <2>2 DEF ReceiveHeaders
    <3>3. "peer" # "encode"
      OBVIOUS
    <3> QED
      BY <3>1, <3>2, <3>3, Zenon DEF HeadersInv
  <2>3. CASE HeadersDone
    <3>1. <<>> \in Seq(Octet)
      OBVIOUS
    <3>2. headers'.bytes = <<>> /\ headers'.from = "none"
      BY <2>3 DEF HeadersDone, NoHeaders
    <3>3. "none" # "encode"
      OBVIOUS
    <3> QED
      BY <3>1, <3>2, <3>3, Zenon DEF HeadersInv
  <2>4. CASE UNCHANGED headers
    BY <2>4 DEF HeadersInv
  <2> QED
    BY <2>1, <2>2, <2>3, <2>4, Zenon DEF HeadersNext
<1>3. HeadersInv => HeadersAgree
  BY HeadersInvAgree
<1> QED
  BY <1>1, <1>2, <1>3, PTL DEF HeadersSpec
=============================================================================
