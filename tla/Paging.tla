------------------------------- MODULE Paging -------------------------------
(***************************************************************************)
(* The MidOS physical memory manager (physical_memory.py, PageInfo of      *)
(* page_info.py), with the steps of the loader (os_loader.py), the heap    *)
(* allocator (heap_allocator.py) and the run loop (midos.py) that use it.  *)
(* The content of a page is one abstract value, and a virtual address its  *)
(* page; a byte written to a page gives it any other content.              *)
(*                                                                         *)
(* A definition named X_Slip, just before X, is X with one plausible slip  *)
(* of the code; it is used by nothing and shows what X guards.             *)
(***************************************************************************)
EXTENDS PriorityQueue, SwapFile

CONSTANTS
  Pids,            \* the processes that may be loaded
  TotalPages,      \* total_size // page_size
  NumRegions,      \* NUM_SHARED_REGIONS
  PagesPerRegion,  \* ceil(SHARED_REGION_SIZE / page_size)
  Size,            \* [Pids -> Nat]: the pages the loader asks for; the last
                   \* one is the stack, and the heap ends where it begins
                   \* (true of pages up to HEAP_SIZE; main has 256 bytes)
  Image,           \* [Pids -> [code and global pages -> Data]]: what the
                   \* loader writes; it leaves heap and stack as they are
  Data,            \* what a page may hold
  Zero,            \* the page of zeros
  Growers,         \* the processes whose heap may outgrow its first pages
  MaxVPage,        \* bound, [Pids -> Nat]: the last page of a process
  MaxGrowth,       \* bound: the pages one heap growth asks for
  None             \* Python's None

(* The page table entry of a page that is in the swap file.                *)
Swapped == -1

(***************************************************************************)
(* The frames (__init__): the shared regions are at the end of memory and  *)
(* never evicted; a memory too small for all of them has fewer, or none.   *)
(***************************************************************************)
SharedTotal ==
  LET all == NumRegions * PagesPerRegion
  IN  IF all < TotalPages THEN all
      ELSE IF TotalPages > 4 THEN Min({all, TotalPages \div 2}) ELSE 0

FirstShared == TotalPages - SharedTotal

Frames == 0..(TotalPages - 1)
PrivateFrames == 0..(FirstShared - 1)
SharedFrames == FirstShared..(TotalPages - 1)

RegionStart_OneTooFar ==
  [r \in 1..NumRegions |-> FirstShared + r * PagesPerRegion]

RegionStart ==
  [r \in {n \in 1..NumRegions :
            SharedTotal > 0 /\ FirstShared + n * PagesPerRegion <= TotalPages}
     |-> FirstShared + (r - 1) * PagesPerRegion]

ASSUME SizesAssumption ==
  /\ TotalPages \in Nat /\ NumRegions \in Nat /\ PagesPerRegion \in Nat \ {0}
  /\ MaxVPage \in [Pids -> Nat] /\ MaxGrowth \in Nat
  /\ Size \in [Pids -> Nat]
  /\ \A p \in Pids : Size[p] \in 1..(MaxVPage[p] + 1)
  /\ Growers \subseteq Pids

ASSUME DataAssumption ==
  /\ Zero \in Data
  /\ None \notin Pids
  /\ \A p \in Pids : /\ DOMAIN Image[p] \subseteq 0..(Size[p] - 1)
                     /\ \A vp \in DOMAIN Image[p] : Image[p][vp] \in Data

VARIABLES
  proc,       \* "new", "live" (in _all_pcbs) or "gone" for each process
  table,      \* pcb.page_table
  working,    \* pcb.working_set_pages
  heapPage,   \* heap_end // page_size of the process's heap allocator
  info,       \* page_info of the private frames
  recent,     \* the private frames in order of last_access; those that were
              \* never accessed or have no owner, where it is not read, may
              \* be left out
  freePages,  \* free_pages
  memory,     \* memory
  swap        \* the swap file

processVars == <<proc, table, working, heapPage>>
vars == <<processVars, info, recent, freePages, memory, swap>>

PageInfo ==
  [valid: BOOLEAN, dirty: BOOLEAN, owner: Pids \cup {None}, vpage: Nat \cup {None}]

TypeOK ==
  /\ proc \in [Pids -> {"new", "live", "gone"}]
  /\ \A p \in Pids : /\ DOMAIN table[p] \subseteq 0..MaxVPage[p]
                     /\ \A vp \in DOMAIN table[p] :
                          table[p][vp] \in Frames \cup {Swapped}
  /\ working \in [Pids -> SUBSET PrivateFrames]
  /\ heapPage \in [Pids -> Nat]
  /\ info \in [PrivateFrames -> PageInfo]
  /\ recent \in Seq(PrivateFrames)
  /\ freePages \in Seq(PrivateFrames)
  /\ memory \in [Frames -> Data]
  /\ \A key \in DOMAIN swap.index : key \in Pids \X Nat
  /\ \A key \in DOMAIN swap.index : swap.index[key] \in DOMAIN swap.file
  /\ \A slot \in DOMAIN swap.file : swap.file[slot] \in Data
  /\ swap.nextSlot \in Nat /\ swap.freeSlots \in Seq(0..(swap.nextSlot - 1))

Holding(p, vp) == [valid |-> TRUE, dirty |-> FALSE, owner |-> p, vpage |-> vp]
Evicted == [valid |-> FALSE, dirty |-> FALSE, owner |-> None, vpage |-> None]
Unused == [valid |-> TRUE, dirty |-> FALSE, owner |-> None, vpage |-> None]

Init ==
  /\ proc = [p \in Pids |-> "new"]
  /\ table = [p \in Pids |-> << >>]
  /\ working = [p \in Pids |-> {}]
  /\ heapPage = [p \in Pids |-> 0]
  /\ info = [f \in PrivateFrames |-> Unused]
  /\ recent = << >>
  /\ freePages = [i \in 1..FirstShared |-> i - 1]
  /\ memory = [f \in Frames |-> Zero]
  /\ swap = EmptySwap

-----------------------------------------------------------------------------
(***************************************************************************)
(* Getting frames                                                          *)
(***************************************************************************)

Evictable_OnlyClean == {f \in PrivateFrames : info[f].owner # None /\ ~info[f].dirty}

(* The frames _find_lru_page chooses from. *)
Evictable == {f \in PrivateFrames : info[f].valid /\ info[f].owner # None}

Available_Newest == freePages \o Reverse(Only(recent, Evictable))

(* The frames successive calls of _get_free_frame return: the free ones,   *)
(* then the least recently used pages.                                     *)
Available == freePages \o Only(recent, Evictable)

(* The first n of them, which of those are evicted, and who stays free.    *)
Taken(n) == SubSeq(Available, 1, n)
Victims(n) == SubSeq(Available, Len(freePages) + 1, n)
StillFree(n) == SubSeq(freePages, n + 1, Len(freePages))

NeedsWriting_OnlyNew(s, f, key) == ~HasPage(s, key)

NeedsWriting(s, f, key) == info[f].dirty \/ ~HasPage(s, key)

(* The swap file after the page in frame f was evicted: a clean page that   *)
(* is there already is not written again.                                   *)
SwapOut(s, f) ==
  LET key == <<info[f].owner, info[f].vpage>>
  IN  IF NeedsWriting(s, f, key) THEN WritePage(s, key, memory[f]) ELSE s

EvictPage_KeepsMapping(m, f) ==
  LET p == info[f].owner
      vp == info[f].vpage
      mapped == vp \in DOMAIN m.table[p]
  IN  [swap |-> SwapOut(m.swap, f),
       table |-> m.table,
       working |-> IF mapped THEN [m.working EXCEPT ![p] = @ \ {f}]
                   ELSE m.working]

(* _evict_page: what it makes of the swap file, the page tables and the    *)
(* working sets that are in m.                                             *)
EvictPage(m, f) ==
  LET p == info[f].owner
      vp == info[f].vpage
      mapped == vp \in DOMAIN m.table[p]
  IN  [swap |-> SwapOut(m.swap, f),
       table |-> IF mapped THEN [m.table EXCEPT ![p][vp] = Swapped] ELSE m.table,
       working |-> IF mapped THEN [m.working EXCEPT ![p] = @ \ {f}]
                   ELSE m.working]

(* Evicting the frames of vs in turn.                                      *)
Evict(vs) ==
  LET after[n \in 0..Len(vs)] ==
        IF n = 0 THEN [swap |-> swap, table |-> table, working |-> working]
        ELSE EvictPage(after[n - 1], vs[n])
  IN  after[Len(vs)]

(* info once the frames of vs were evicted. *)
InfoWithout(vs) == [f \in PrivateFrames |-> IF f \in ToSet(vs) THEN Evicted ELSE info[f]]

AfterFailure_Forgotten == << >>

(* The free list after a failure: it was emptied, then extended by all that *)
(* was taken.                                                               *)
AfterFailure == Available

(* allocate_pages fails after it took every frame there is: they are all   *)
(* put on the free list, those that were evicted included.                 *)
AllocationFails(n) ==
  LET out == Evict(Only(recent, Evictable))
  IN  /\ n > Len(Available)
      /\ swap' = out.swap
      /\ table' = out.table
      /\ working' = out.working
      /\ info' = InfoWithout(Only(recent, Evictable))
      /\ freePages' = AfterFailure
      /\ UNCHANGED <<proc, heapPage, recent, memory>>

Touch(f) == IF f \in PrivateFrames THEN Append(Without(recent, {f}), f)
            ELSE recent

-----------------------------------------------------------------------------
(***************************************************************************)
(* Loading and ending a process                                            *)
(***************************************************************************)

(* OSLoader.load: the page tables, then the mappings in order of the       *)
(* virtual pages, then the content of code and globals.                    *)
Load(p) ==
  LET frames == Taken(Size[p])
      out    == Evict(Victims(Size[p]))
      page   == [f \in ToSet(frames) |-> (CHOOSE i \in DOMAIN frames : frames[i] = f) - 1]
  IN  /\ proc[p] = "new"
      /\ Size[p] <= Len(Available)
      /\ proc' = [proc EXCEPT ![p] = "live"]
      /\ table' = [out.table EXCEPT ![p] = [vp \in 0..(Size[p] - 1) |-> frames[vp + 1]]]
      /\ working' = [out.working EXCEPT ![p] = ToSet(frames)]
      /\ heapPage' = [heapPage EXCEPT ![p] = Size[p] - 1]
      /\ info' = [f \in PrivateFrames |->
                    IF f \in ToSet(frames) THEN Holding(p, page[f]) ELSE info[f]]
      /\ recent' = Without(recent, ToSet(frames)) \o frames
      /\ freePages' = StillFree(Size[p])
      /\ memory' = [f \in Frames |->
                      IF f \in ToSet(frames) /\ page[f] \in DOMAIN Image[p]
                      THEN Image[p][page[f]] ELSE memory[f]]
      /\ swap' = out.swap

LoadFails(p) ==
  /\ proc[p] = "new"
  /\ AllocationFails(Size[p])

(* The run loop ends a process that exits or fails with                    *)
(* free_pages_for_process; its frames are freed in the order of a set.     *)
Exit(p) ==
  /\ proc[p] = "live"
  /\ proc' = [proc EXCEPT ![p] = "gone"]
  /\ \E frames \in SetToSeqs(working[p] \ ToSet(freePages)) :
       freePages' = freePages \o frames
  /\ \E keys \in SetToSeqs(KeysOf(swap, p)) : swap' = RemoveAllFor(swap, p, keys)
  /\ info' = [f \in PrivateFrames |-> IF f \in working[p] THEN Unused ELSE info[f]]
  /\ table' = [table EXCEPT ![p] = << >>]
  /\ working' = [working EXCEPT ![p] = {}]
  /\ recent' = Without(recent, working[p])
  /\ UNCHANGED <<heapPage, memory>>

-----------------------------------------------------------------------------
(***************************************************************************)
(* Accessing memory                                                        *)
(***************************************************************************)

(* translate finds the page in a frame: a page table entry that is not the *)
(* sentinel and whose frame is valid (shared frames always are).           *)
Present(p, vp) ==
  /\ table[p][vp] # Swapped
  /\ table[p][vp] \in PrivateFrames => info[table[p][vp]].valid

Faults(p, vp) == proc[p] = "live" /\ vp \in DOMAIN table[p] /\ ~Present(p, vp)

(* What _swap_in_page puts into frame f. *)
SwappedIn(s, key, f) == IF HasPage(s, key) THEN ReadPage(s, key) ELSE Zero

(* handle_page_fault: the state once the page is in frame f. *)
FaultedIn(p, vp) ==
  LET f   == Available[1]
      out == Evict(Victims(1))
  IN  [frame     |-> f,
       table     |-> [out.table EXCEPT ![p][vp] = f],
       working   |-> [out.working EXCEPT ![p] = @ \cup {f}],
       info      |-> [info EXCEPT ![f] = Holding(p, vp)],
       freePages |-> StillFree(1),
       memory    |-> [memory EXCEPT ![f] = SwappedIn(out.swap, <<p, vp>>, f)],
       swap      |-> out.swap]

(* translate: the frame of a page and the state once it is there. *)
Translated(p, vp) ==
  IF Present(p, vp)
  THEN [frame |-> table[p][vp], table |-> table, working |-> working,
        info |-> info, freePages |-> freePages, memory |-> memory, swap |-> swap]
  ELSE FaultedIn(p, vp)

(* What read_byte and write_byte have in common; info and memory, which a  *)
(* write changes further, are left to them.  An address that is not mapped *)
(* and a fault that finds no frame raise MemoryError and change nothing.   *)
Access(p, vp, t) ==
  /\ proc[p] = "live"
  /\ Present(p, vp) \/ Available # << >>
  /\ table' = t.table
  /\ working' = t.working
  /\ recent' = Touch(t.frame)
  /\ freePages' = t.freePages
  /\ swap' = t.swap
  /\ UNCHANGED <<proc, heapPage>>

(* What read_byte returns: what is in the frame translate has found. *)
Returned(p, vp) == LET t == Translated(p, vp) IN t.memory[t.frame]

Read(p, vp) ==
  LET t == Translated(p, vp)
  IN  /\ Access(p, vp, t)
      /\ info' = t.info
      /\ memory' = t.memory

Dirtied_Never(i, f) == i

(* The frame f was written to (shared frames are never evicted). *)
Dirtied(i, f) == IF f \in PrivateFrames THEN [i EXCEPT ![f].dirty = TRUE] ELSE i

(* The frames _bounds_check_write lets p write to. *)
Writable(w, p) == w[p] \cup SharedFrames

(* write_byte marks the page dirty before it checks the frame's owner. *)
Write(p, vp, d) ==
  LET t == Translated(p, vp)
  IN  /\ Access(p, vp, t)
      /\ info' = Dirtied(t.info, t.frame)
      /\ memory' = IF t.frame \in Writable(t.working, p)
                   THEN [t.memory EXCEPT ![t.frame] = d] ELSE t.memory

-----------------------------------------------------------------------------
(***************************************************************************)
(* Adding pages to a process                                               *)
(***************************************************************************)

NextVPage(p) == IF DOMAIN table[p] = {} THEN 0 ELSE Max(DOMAIN table[p]) + 1

(* The pages behind those p has, as those of region r. *)
RegionPages(p, r) ==
  LET first == NextVPage(p)
  IN  [vp \in first..(first + PagesPerRegion - 1) |-> RegionStart[r] + (vp - first)]

(* map_shared_region_into_process, for a region there was room for. *)
MapShared(p, r) ==
  /\ proc[p] = "live"
  /\ DOMAIN RegionPages(p, r) \subseteq 0..MaxVPage[p]
  /\ table' = [table EXCEPT ![p] = Over(RegionPages(p, r), @)]
  /\ UNCHANGED <<proc, working, heapPage, info, recent, freePages, memory, swap>>

(* _grow_heap, when no free block and no tail of the heap is large enough: *)
(* n pages from the one that holds heap_end, whatever is mapped there, in  *)
(* frames that are not registered with the memory manager.                 *)
GrowHeap(p, n) ==
  LET first  == heapPage[p]
      last   == first + n - 1
      frames == Taken(n)
      out    == Evict(Victims(n))
  IN  /\ proc[p] = "live"
      /\ n <= Len(Available)
      /\ last <= MaxVPage[p]
      /\ table' = [out.table EXCEPT ![p] =
                     Over([vp \in first..last |-> frames[vp - first + 1]], @)]
      /\ working' = [out.working EXCEPT ![p] = @ \cup ToSet(frames)]
      /\ heapPage' = [heapPage EXCEPT ![p] = last + 1]
      /\ info' = InfoWithout(Victims(n))
      /\ freePages' = StillFree(n)
      /\ swap' = out.swap
      /\ UNCHANGED <<proc, recent, memory>>

GrowFails(p, n) ==
  /\ proc[p] = "live"
  /\ AllocationFails(n)

-----------------------------------------------------------------------------
Next ==
  \E p \in Pids :
    \/ Load(p)
    \/ LoadFails(p)
    \/ Exit(p)
    \/ \E vp \in DOMAIN table[p] : Read(p, vp)
    \/ \E vp \in DOMAIN table[p], d \in Data : Write(p, vp, d)
    \/ \E r \in DOMAIN RegionStart : MapShared(p, r)
    \/ p \in Growers /\ \E n \in 1..MaxGrowth : GrowHeap(p, n)
    \/ p \in Growers /\ \E n \in 1..MaxGrowth : GrowFails(p, n)

Spec == Init /\ [][Next]_vars

-----------------------------------------------------------------------------
(***************************************************************************)
(* Properties                                                              *)
(***************************************************************************)

(* No frame is lost or given out twice: every private frame is on the free *)
(* list, once, or in the working set of one process, through evictions,    *)
(* failed allocations, heap growth and exits.                              *)
FramesConserved ==
  /\ NoRepeat(freePages)
  /\ \A f \in PrivateFrames :
       LET holders == {p \in Pids : f \in working[p]}
       IN  IF f \in ToSet(freePages) THEN holders = {}
           ELSE \E p \in Pids : holders = {p}

(* The frame a process reads or writes through its page table is in its    *)
(* own working set, or a shared one: no process reaches another's memory,  *)
(* and write_byte never refuses a frame that it has marked dirty.          *)
MappedFramesAreOwn ==
  \A p \in Pids : \A vp \in DOMAIN table[p] :
    table[p][vp] \in Writable(working, p) \cup {Swapped}

(* The frame map and the page tables are inverse to each other: "the PMM's *)
(* frame map stays consistent" (test_module6.py:565).  A private frame in  *)
(* a page table is registered as holding just that page, so that it can be *)
(* evicted, and a registered frame is the one its page is mapped to.       *)
FrameMapConsistent ==
  /\ \A p \in Pids : \A vp \in DOMAIN table[p] :
       LET f == table[p][vp]
       IN  f \in PrivateFrames =>
             info[f].valid /\ info[f].owner = p /\ info[f].vpage = vp
  /\ \A f \in Evictable :
       /\ info[f].vpage \in DOMAIN table[info[f].owner]
       /\ table[info[f].owner][info[f].vpage] = f

(* A page that was swapped out can be swapped back in: it has a copy in    *)
(* the swap file, and is never replaced by zeros.                          *)
SwappedPagesHaveCopy ==
  \A p \in Pids : \A vp \in DOMAIN table[p] :
    table[p][vp] = Swapped => HasPage(swap, <<p, vp>>)

(* Evicting a clean page that was swapped before may skip the write: the   *)
(* copy in the swap file is still what the frame holds.                    *)
CleanCopiesAreCurrent ==
  \A f \in Evictable :
    LET key == <<info[f].owner, info[f].vpage>>
    IN  ~info[f].dirty /\ HasPage(swap, key) => ReadPage(swap, key) = memory[f]

(* Pages share no slot of the swap file, no slot in use is free, and every *)
(* slot of the file is one or the other: it never grows while a slot of it *)
(* is free.                                                                *)
SlotsConserved ==
  LET used == {swap.index[key] : key \in DOMAIN swap.index}
      free == ToSet(swap.freeSlots)
  IN  /\ \A k1, k2 \in DOMAIN swap.index :
           swap.index[k1] = swap.index[k2] => k1 = k2
      /\ NoRepeat(swap.freeSlots)
      /\ used \cap free = {}
      /\ used \cup free = 0..(swap.nextSlot - 1)

(* "When no free physical frames are available, the LRU page is evicted"   *)
(* (physical_memory.py:10): a page fault always finds a frame.             *)
FaultsResolve ==
  \A p \in Pids : \A vp \in DOMAIN table[p] :
    Faults(p, vp) => Available # << >>

(* The page used last is not the one a page fault evicts, unless there is  *)
(* no other: a program that works on two pages makes progress.             *)
LastUsedPageStays ==
  [][\A p \in Pids : \A vp \in DOMAIN table[p] \cap DOMAIN table'[p] :
       Faults(p, vp) /\ table'[p][vp] # table[p][vp] /\ Cardinality(Evictable) > 1
         => LET f == Last(Only(recent, Evictable)) IN info'[f] = info[f]]_vars

(* Heap growth appends pages "right after the current heap_end"            *)
(* (heap_allocator.py:218): no page the process has is taken away from it. *)
GrowthAppends ==
  [][\A p \in Pids : heapPage[p] # heapPage'[p] =>
       \A vp \in DOMAIN table[p] : table'[p][vp] \in {table[p][vp], Swapped}]_vars

(* The pages of each process that are not shared, and what they hold.      *)
OwnPages(p) ==
  {vp \in DOMAIN table[p] : table[p][vp] \in PrivateFrames \cup {Swapped}}

Content(p, vp) ==
  IF table[p][vp] = Swapped THEN SwappedIn(swap, <<p, vp>>, 0)
  ELSE memory[table[p][vp]]

(* What programs see of the memory: their own pages with what they hold,   *)
(* which of their pages are shared ones, and what those hold.              *)
Private == [p \in Pids |-> [vp \in OwnPages(p) |-> Content(p, vp)]]
Attached == [p \in Pids |-> [vp \in DOMAIN table[p] \ OwnPages(p) |-> table[p][vp]]]
Shared == [f \in SharedFrames |-> memory[f]]

Virtual == INSTANCE VirtualMemory
             WITH SharedPages <- SharedFrames,
                  private <- Private, attached <- Attached, shared <- Shared

(* Each operation of the memory manager is, for programs, the operation of *)
(* VirtualMemory with the same process, page and content: a read returns   *)
(* what was last stored in the page and, whatever it faults in and evicts, *)
(* changes no page of anybody; a write changes the page it is made to and  *)
(* no other; a failed load changes nothing.                                *)
ServesAsVirtual ==
  \A p \in Pids :
    /\ Load(p) => Virtual!Create(p)
    /\ LoadFails(p) => UNCHANGED Virtual!virtualVars
    /\ Exit(p) => Virtual!Destroy(p)
    /\ \A vp \in DOMAIN table[p] :
         /\ Read(p, vp) => Virtual!Fetch(p, vp, Returned(p, vp))
         /\ \A d \in Data : Write(p, vp, d) => Virtual!Store(p, vp, d)
    /\ \A r \in DOMAIN RegionStart :
         MapShared(p, r) => Virtual!Attach(p, RegionPages(p, r))

(* The memory manager's pages are the pages VirtualMemory promises, as     *)
(* long as no heap grows: they survive eviction and page faults, and are   *)
(* changed only by those who write to them.                                *)
ImplementsVirtualMemory == Virtual!Init /\ [][ServesAsVirtual]_vars

=============================================================================
