--------------------------- MODULE HeapAllocator ---------------------------
(***************************************************************************)
(* The heap of one process (heap_allocator.py): a list of blocks that is   *)
(* searched first-fit, merged when a block is freed, and extended by pages *)
(* the memory manager grants or refuses (Paging models what that does to   *)
(* page tables and frames).                                                *)
(*                                                                         *)
(* A definition named X_Slip, just before X, is X with one plausible slip  *)
(* of the code; it is used by nothing and shows what X guards.             *)
(***************************************************************************)
EXTENDS Integers, Sequences, FiniteSets, SequencesExt

CONSTANTS
  HeapStart,    \* heap_start
  InitialSize,  \* heap_size when the process is loaded
  PageSize,
  Sizes,        \* the sizes the program asks for
  MaxEnd,       \* bound: how far the heap may grow
  None          \* Python's None

ASSUME HeapAssumption ==
  /\ HeapStart \in Nat
  /\ InitialSize \in Nat \ {0}
  /\ PageSize \in Nat \ {0}
  /\ Sizes \subseteq Nat \ {0}
  /\ MaxEnd \in Nat /\ HeapStart + InitialSize <= MaxEnd

VARIABLES
  blocks,   \* _blocks
  active,   \* _active_allocs, as pairs of an address and a size
  heapEnd,  \* heap_end
  result    \* what the last alloc returned

vars == <<blocks, active, heapEnd, result>>

Block == [start: Nat, size: Nat \ {0}, free: BOOLEAN]

TypeOK ==
  /\ blocks \in Seq(Block)
  /\ active \in SUBSET (Nat \X (Nat \ {0}))
  /\ heapEnd \in Nat
  /\ result \in Nat \cup {None}

Init ==
  /\ blocks = <<[start |-> HeapStart, size |-> InitialSize, free |-> TRUE]>>
  /\ active = {}
  /\ heapEnd = HeapStart + InitialSize
  /\ result = None

-----------------------------------------------------------------------------
Fitting_AnyBlock(bs, size) == {i \in DOMAIN bs : bs[i].size >= size}

Fitting_Larger(bs, size) == {i \in DOMAIN bs : bs[i].free /\ bs[i].size > size}

(* The free blocks that hold size bytes. *)
Fitting(bs, size) == {i \in DOMAIN bs : bs[i].free /\ bs[i].size >= size}

(* The first size bytes of block i, in use, and what is left behind them.  *)
Cut(bs, i, size) == [start |-> bs[i].start, size |-> size, free |-> FALSE]

Rest(bs, i, size) ==
  [start |-> bs[i].start + size, size |-> bs[i].size - size, free |-> TRUE]

Carved_EmptyRest(bs, i, size) ==
  InsertAt([bs EXCEPT ![i] = Cut(bs, i, size)], i + 1, Rest(bs, i, size))

(* _first_fit takes the first size bytes of block i. *)
Carved(bs, i, size) ==
  LET used == [bs EXCEPT ![i] = Cut(bs, i, size)]
  IN  IF bs[i].size > size THEN InsertAt(used, i + 1, Rest(bs, i, size)) ELSE used

(* _coalesce merges every run of free blocks. *)
Coalesce(bs) ==
  LET merged[n \in 0..Len(bs)] ==
        IF n = 0 THEN << >>
        ELSE LET done == merged[n - 1]
             IN  IF done # << >> /\ Last(done).free /\ bs[n].free
                 THEN [done EXCEPT ![Len(done)].size = @ + bs[n].size]
                 ELSE Append(done, bs[n])
  IN  merged[Len(bs)]

TrailingFree(bs) == IF bs # << >> /\ Last(bs).free THEN Last(bs).size ELSE 0

PagesNeeded_RoundedDown(bs, size) == (size - TrailingFree(bs)) \div PageSize

(* How many pages _grow_heap asks the memory manager for. *)
PagesNeeded(bs, size) == (size - TrailingFree(bs) + PageSize - 1) \div PageSize

(* The blocks once the heap grew at its end. *)
Extended(bs, growth) ==
  IF TrailingFree(bs) > 0 THEN [bs EXCEPT ![Len(bs)].size = @ + growth]
  ELSE Append(bs, [start |-> heapEnd, size |-> growth, free |-> TRUE])

(* _first_fit in the blocks bs; the caller gets the address. *)
Take(bs, size) ==
  LET i == Min(Fitting(bs, size))
  IN  /\ Fitting(bs, size) # {}
      /\ blocks' = Carved(bs, i, size)
      /\ active' = active \cup {<<bs[i].start, size>>}
      /\ result' = bs[i].start

(* alloc: first fit, or after merging the free blocks. *)
AllocFits(size) ==
  /\ IF Fitting(blocks, size) # {} THEN Take(blocks, size)
     ELSE Take(Coalesce(blocks), size)
  /\ UNCHANGED heapEnd

TooSmall(size) == Fitting(blocks, size) = {} /\ Fitting(Coalesce(blocks), size) = {}

(* alloc, when the memory manager grants the pages the heap grows by. *)
AllocGrows(size) ==
  LET merged == Coalesce(blocks)
      growth == PagesNeeded(merged, size) * PageSize
  IN  /\ TooSmall(size)
      /\ heapEnd + growth <= MaxEnd
      /\ heapEnd' = heapEnd + growth
      /\ Take(Coalesce(Extended(merged, growth)), size)

(* alloc, when it refuses them. *)
AllocFails(size) ==
  /\ TooSmall(size)
  /\ blocks' = Coalesce(blocks)
  /\ result' = None
  /\ UNCHANGED <<active, heapEnd>>

Marked(block) == [start |-> block.start, size |-> block.size, free |-> TRUE]

Freed_ByEnd(bs, a) ==
  [i \in DOMAIN bs |-> IF bs[i].start + bs[i].size = a THEN Marked(bs[i]) ELSE bs[i]]

(* The block at address a is marked free. *)
Freed(bs, a) == [i \in DOMAIN bs |-> IF bs[i].start = a THEN Marked(bs[i]) ELSE bs[i]]

(* free of an allocation; any other address is a ValueError that the CPU   *)
(* catches, and changes nothing.                                           *)
Free(x) ==
  /\ x \in active
  /\ blocks' = Coalesce(Freed(blocks, x[1]))
  /\ active' = active \ {x}
  /\ UNCHANGED <<heapEnd, result>>

Next ==
  \/ \E size \in Sizes : AllocFits(size)
  \/ \E size \in Sizes : AllocGrows(size)
  \/ \E size \in Sizes : AllocFails(size)
  \/ \E x \in active : Free(x)

Spec == Init /\ [][Next]_vars

-----------------------------------------------------------------------------
(***************************************************************************)
(* Properties                                                              *)
(***************************************************************************)

(* The blocks tile the heap, from its start to its end, without a gap or   *)
(* an overlap: no byte is lost by splitting, merging and growing.          *)
BlocksTileHeap ==
  /\ blocks # << >>
  /\ blocks[1].start = HeapStart
  /\ \A i \in 1..(Len(blocks) - 1) :
       blocks[i + 1].start = blocks[i].start + blocks[i].size
  /\ Last(blocks).start + Last(blocks).size = heapEnd

(* The table of active allocations is the used blocks of the list, the two *)
(* records free() consults.                                                *)
ActiveAreUsedBlocks ==
  active = {<<b.start, b.size>> : b \in {c \in ToSet(blocks) : ~c.free}}

(* Free space is never in two adjacent blocks (heap_allocator.py:43).      *)
NoAdjacentFree ==
  \A i \in 1..(Len(blocks) - 1) : ~(blocks[i].free /\ blocks[i + 1].free)

(* The two records of the heap, through every sequence of splits, merges    *)
(* and growths.                                                            *)
HeapConsistent == BlocksTileHeap /\ ActiveAreUsedBlocks /\ NoAdjacentFree

(* The bytes from a to b - 1 belong to no allocation. *)
Vacant(a, b) == \A x \in active : x[1] + x[2] <= a \/ b <= x[1]

(* alloc gives up only if no run of vacant bytes of the heap is as long as *)
(* was asked for, and gives the lowest address of those there are.         *)
FirstFitIsExact ==
  [][\A size \in Sizes :
       /\ AllocFails(size) =>
            \A a \in HeapStart..(heapEnd - size) : ~Vacant(a, a + size)
       /\ AllocFits(size) =>
            /\ Vacant(result', result' + size)
            /\ \A a \in HeapStart..(result' - 1) : ~Vacant(a, a + size)]_vars

(* When the memory manager grants the pages, the allocation succeeds: the  *)
(* pages asked for are enough, and not one too many.                       *)
GrowthSuffices ==
  \A size \in Sizes :
    LET merged == Coalesce(blocks)
        pages  == PagesNeeded(merged, size)
    IN  TooSmall(size) =>
          /\ Fitting(Coalesce(Extended(merged, pages * PageSize)), size) # {}
          /\ (pages - 1) * PageSize < size - TrailingFree(merged)

(* The allocator is a heap as HeapService promises it. *)
Service == INSTANCE HeapService WITH allocated <- active, limit <- heapEnd

ImplementsHeapService == Service!Spec

=============================================================================
