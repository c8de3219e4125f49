# A TLA+ model of the MidOS kernel

MidOS (`src/`) is a small simulated operating system in Python: a CPU that interprets programs
one instruction at a time, a priority scheduler with locks and events, and a demand-paged
physical memory with a swap file. This directory models the kernel in TLA+, checks the models
with TLC and proves theorems about them with TLAPS.

## 1. The system

| part | source | state it keeps | operations |
|---|---|---|---|
| run loop | `midos.py` (`MidOS.run`, `_handle_switch_out`, `_only_idle_remains`) | the PCB it is running, the reason the CPU asked for a switch | pick, switch in, step until a reason, switch out, tick the sleepers, stop test |
| scheduler | `scheduler.py` | ready queue (by priority), sleep queue, one wait queue per lock and per event, lock owners, event flags | add, pick, switch out/in, tick, acquire, release, forced release, signal, wait, terminate |
| process control block | `pcb.py` | state, priority and the priority a release restores, ticks, sleep counter, locks held, saved registers, page table | save/restore of the CPU state |
| CPU | `cpu.py`, `opcodes.py` | registers, flags, `ticks_remaining`, `switch_reason` | `step`: fetch, execute one opcode, advance IP, count the tick; words of memory (`read_int`, `write_int`) |
| physical memory | `physical_memory.py` | bytes, per-frame `PageInfo`, free list, frame map | allocate, evict, swap in, translate, read, write, free, map a shared region |
| swap | `page_info.py` (`SwapManager`) | index (pid, vpage) -> file offset, free offsets | write, read, has, remove all of a process |
| heap allocator | `heap_allocator.py` | block list, active allocations, heap pages | alloc (first fit, coalesce, grow), free |
| loader | `os_loader.py` | none | parse a program, lay out and map a process |
| entry point, statistics | `main.py`, the `print_*`/`dump_*` methods | none that matters | give the programs their priorities, load them, run |

Everything runs in one Python thread. What is concurrent is the *programs*: at every context
switch any ready process may come next, and what a process finds when it resumes (a lock that was
handed to it, an event whose signal was consumed, a page that was evicted) depends on what the
others did meanwhile. There is no real time (the clock counts instructions), no message loss, and
nothing is persistent: the swap file is truncated at start and removed at the end, so crash
recovery does not arise.

How the parts interact: `run` calls `pick_next`/`context_switch_in`, then `cpu.step` until
`switch_reason` is set. Inside `step` the CPU calls the scheduler (`acquire_lock`, `wait_event`,
which may call `context_switch_out` *before* the step returns), the physical memory (every fetch,
read and write goes through `translate`, which may evict a page of any process) and the heap
allocator (which may ask the physical memory for pages). `_handle_switch_out` then files the
process, or on exit and error passes its locks on and frees its pages.

What is hard in each part, and what makes it correct:

* **Scheduler.** A process is a member of exactly one of many queues, or of none, and nine
  operations move processes between them; one of them (`acquire_lock`) reorders a queue it does
  not otherwise touch. Correct: no process is lost or queued twice, the queue order is the order
  of priority at all times, the process that runs is one of the highest priority, every slice is
  a full quantum.
* **Locks and events.** An instruction that blocks does not advance IP and is executed *again*
  when the process resumes; whether that is right depends on what `release_lock` and
  `signal_event` left behind, and on every process that ran in between. Correct: the two ownership
  tables agree, a lock with waiters has an owner, a woken waiter owns the lock, a lent priority
  ends with the last lock, a signal and a waiter never coexist.
* **Run loop.** The order of switching out, ticking the sleepers and the stop test; the
  processes that die at a switch and those that are terminated by another. Correct: `run` returns
  when the user processes have terminated and not before.
* **Physical memory and swap.** A page fault of one process changes the page table, the working
  set and the swapped pages of another; a clean page is dropped without being written; a failed
  allocation gives back frames it has already evicted; frames and slots are reused by other
  processes. Correct: a page holds what was last written to it, frames and slots are conserved,
  the frame map and the page tables are inverse to each other, a fault finds a frame.
* **Heap allocator.** A long history of splits, merges and growths of a block list beside a
  second table of allocations. Correct: blocks tile the heap, the two tables agree, first fit is
  exact, growth asks for enough pages and no more.
* **Loader and CPU.** Two pieces of code that were written apart must agree on 53 opcodes: on the
  order and the sign of bytes, on which operands are registers, on where code, globals and stack
  begin. Correct: what the CPU executes is what the source says, and a program that names registers
  where the CPU takes them never indexes past them.
* **Context switch.** All processes share one list of registers and one pair of flags, and an
  instruction that blocks has been half executed. Correct: no process can tell that there are
  others.
* **The parts together.** The end of a process is a sequence of calls to the scheduler and to the
  memory manager; a fault of one process moves pages of others. Correct: no part keeps anything of
  a process that is gone for the other, and what the others stored stays.

`PROJECT.json` lists, under "hazards", the lines where each of these can go wrong, with the
properties that watch them.

## 2. The modules

| module | what it is |
|---|---|
| `PriorityQueue` | the pure functions on queues: `Enqueue` (`_enqueue_ready`), `ByPriority` (Python's stable sort by priority), `Without`, `Only`, `EnqueueAll`, `InOrder`, `NoRepeat` |
| `Scheduler` | scheduler, PCB, kernel instructions of the CPU and run loop, and their properties |
| `LockService` | what the locks promise, without queues, priorities and scheduling; `Scheduler!ImplementsLockService` is the refinement |
| `MCScheduler` | instances of `Scheduler`: the programs and priorities of each run |
| `SwapFile` | the swap file as a record and the records its operations give |
| `Paging` | the memory manager with the loader, the growth of heaps and the exit of processes |
| `VirtualMemory` | what programs are promised of each operation: pages that hold what was last stored in them; `Paging!ImplementsVirtualMemory` ties each operation of `Paging` to its own |
| `MCPaging` | instances of `Paging` |
| `InstructionSet` | the instructions and the words of memory, as functions of the state of one process |
| `Assembler` | the parser, the layout and the start of a process, as functions of its program |
| `Cpu` | processes that take turns on one CPU: context switches and `step` with its data |
| `OwnCpu` | what a context switch promises: each process has a CPU of its own; `Cpu!ImplementsOwnCpu` is the refinement |
| `MCCpu` | instances of `Cpu`: the programs |
| `Kernel` | `Scheduler` and `Paging` under one run loop |
| `MCKernel` | instances of `Kernel` |
| `HeapAllocator` | the block list of one heap |
| `HeapService` | what `alloc` and `free` promise: disjoint allocations within the heap; `HeapAllocator!ImplementsHeapService` is the refinement |
| `PriorityQueueProofs` | lemmas about `PriorityQueue`, and the induction they rest on |
| `SchedulerProofs` | types, the lock tables, signals and time slices of `Scheduler` |
| `SchedulerQueueProofs` | every process is in the queue its state names, termination is final, the loop stops with the users |
| `SchedulerLockProofs` | the theorems about lock waiters and priorities, and that the locks implement `LockService` |
| `PagingProofs` | the theorems about the memory manager, and that it implements `VirtualMemory` |
| `HeapProofs` | the theorems about the block list, and that it implements `HeapService` |
| `CpuProofs` | words, instructions and the loader's layout; what a process computes; that context switches implement `OwnCpu` |
| `KernelProofs` | that the kernel is a behaviour of `Scheduler` and one of `Paging`, what it inherits from them, and the theorems that need both |

A definition named `X_Slip`, written just before `X`, is `X` with one plausible slip of the code.
Nothing uses it; it is what a property must be able to tell from `X`, and PROJECT.json pairs
each property with one ("mutants").

### 2.1 Scheduler

*State.* `phase` is where `run()` is: about to pick (`"pick"`), stepping (`"run"`), returned
(`"stopped"`), or left by an exception that nothing catches (`"crashed"`). `running` is
`scheduler.current_pcb`, `switchReason` and `cpuTicks` are the CPU's, `state`, `priority`,
`original`, `ticks`, `sleepCounter` and `locksHeld` are the PCB fields, and `ready`,
`sleepQueue`, `lockWait`, `eventWait`, `terminated`, `lockOwner` and `signaled` the scheduler's.
`retry[p]` is the blocked instruction that the IP of `p` still points at, `None` if its next
instruction is a new one; it stands for all that the model keeps of IP.

*Actions.* One for each branch of an instruction that touches the kernel (`AcquireAvailable`,
`AcquireBusy`, `Release`, `ReleaseNotOwner`, `Signal`, `WaitSignaled`, `WaitBlock`, `Terminate`,
`TerminateNothing`, `SetPriority`, `Sleep`, `Leave`), `Compute` for every other one, `Crash` for
the exceptions the loop does not catch, `Dispatch` and `NothingReady` for the top of the loop, and
one action per way a slice ends (`SwitchOutQuantum`, `-Sleep`, `-Blocked`, `-Dead`). A switch-out
action contains what follows it in the loop (`tick_sleeping`, `_only_idle_remains`: the operator
`EndSlice`), because no step of a program can come between. `Program[p]` is the set of
instructions that `p` may execute; which comes next is free, so that a run covers every program
over that set. `SwitchOutDead` hands locks over in any order, the code iterating a set.

*Abstracted.* Registers and memory (`Compute`), pids (members of `Procs`), statistics and the
log. Sleep counters and ticks are integers; they stay small because a slice is at most a
quantum.

### 2.2 Paging

*State.* `proc` (not loaded, in `_all_pcbs`, ended), the page table, working set and heap end of
each process, `info` (`page_info` of the private frames), `recent` (the private frames by
`last_access`, least recent first: only the order is ever used), `freePages`, `memory` and `swap`.
The content of a page is one value of `Data`, and an address is its page.

*Actions.* `Load`/`LoadFails` (`OSLoader.load`), `Exit` (`free_pages_for_process`), `Read` and
`Write` (`read_byte`, `write_byte` with `translate`, `handle_page_fault`, `_swap_in_page`),
`MapShared`, `GrowHeap`/`GrowFails` (`_grow_heap`). The frames an operation gets are a prefix of
`Available`: the free list, then the registered pages, least recently used first, which is what
successive calls of `_get_free_frame` return. `Evict` applies `_evict_page` to the victims one
after the other, as the loop in `allocate_pages` does.

*Abstracted.* Python sets and dicts whose order the code does not fix are traversed in any order
(`SetToSeqs`). What a free slot of the swap file still holds is not kept: it is written before it
is read. TERMINATEPROCESS does not appear: it does not touch memory, and the pages of its target
stay where they are for ever, as those of a live process that takes no more steps.

The heap is the page before the last one, the stack the last one: so it is for pages of up to 512
bytes (`HEAP_SIZE`), `main()` has 256. `MapShared` is for a region there was room for; what asking
for another does is in `InstructionSet` (`NoRegion`).

*Refinement.* `Private` maps the manager's state to the pages a program sees (`Content` of its
`OwnPages`, whether the page is in a frame or in swap), `Attached` to the shared pages in its
table, `Shared` to what those hold. A state that may change in any of several ways would promise
little, so the refinement is of operations, with their arguments (`ServesAsVirtual`): a `Write` of
`p` to page `vp` with content `d` has to be `Store(p, vp, d)`, which changes that page and no
other; a `Read` has to be `Fetch(p, vp, Returned(p, vp))`, which changes no page of anybody and
gets what was last stored in `vp`, whatever it faults in and whatever it evicts. `Load` is
`Create`, `Exit` is `Destroy`, `MapShared` is `Attach` with the pages of the region, a load that
fails changes nothing.

### 2.3 HeapAllocator

*State.* `blocks` (`_blocks`), `active` (`_active_allocs`), `heapEnd`, and `result`, the last
value `alloc` returned. *Actions.* `AllocFits`, `AllocGrows` (the memory manager grants the pages),
`AllocFails` (it refuses), `Free`. The first fit, the carving of a block, `_coalesce` and
`_grow_heap`'s arithmetic are operators. An `alloc` of a size of at most 0 raises a `ValueError`
nobody catches (`Crash` in `Scheduler`); a `free` of a wrong address raises one the CPU catches
and leaves the heap as it was.

### 2.4 Instructions, assembler and CPU

*InstructionSet* is `CPU.step` as functions of a record (`reg`, `zero`, `sign`, `mem`): `Fetched`
decodes, `Fault` says how the instruction fails (`"error"` is a MemoryError or RuntimeError and
ends the process, `"raise"` any other exception, which ends the kernel) in the order the code looks
at registers, values and addresses, `Executed` is the state it leaves. A register is an integer
without width; a word of memory has `WordBytes` bytes of `Base` values, is stored by `WordByte`,
big end first, and read back as two's complement (`Signed`). That a Python list can be indexed from
its end is `Indexable`. What the kernel answers (an address, a character typed in) is a parameter.
`Refused` are the numbers it answers with an exception; `Regions` are the shared regions there was
room for, and MAPSHAREDMEM of another ends the kernel, with a ValueError if its number is not one
of 1 to 10 and with a KeyError (`physical_memory.py:344`) if it is.

*Assembler* is `OSLoader` as functions of a program, a sequence of lines, a line a mnemonic and its
operands, each a kind (register, `#` or `$`, `@`, bare number) and a number: `Variant`, `Assembles`
and `Assembled` are the parser, `CodeSize` to `StackTop` the layout, `StartMachine` the state a
process starts in.

*Cpu.* `cpu` is the CPU's context, `pcb` the saved ones, `memory` the virtual memory of each
process (what `VirtualMemory` promises, in bytes). `Execute` is an instruction that returns,
`Block` one that saves the context before IP has moved, `End` and `Crash` the two ways to fail;
`Dispatch`, `SwitchOut` move contexts. What `Scheduler` decides is free: who is picked, when the
quantum ends, whether an ACQUIRELOCK blocks. `Own` is the refinement: the machine of a process is
the CPU's context while it runs and its PCB's while it does not.

### 2.5 Kernel

`Scheduler` and `Paging` are instantiated with shared variables for the processes; an action of
`Kernel` is an action of one of them, or of both: `Boot` (`_load_idle`, then `load_program` in the
order of the command line), `PickNext`, `Access` (what an instruction does to memory before its
effect), `Instruction`, `MapShared` (a step of both), `SwitchOut`, `Dies` (`SwitchOutDead` of the
one with `Exit` of the other). `MainPriority` are the priorities `main()` gives. `started` and
`killed` are histories that properties need. Every process fits (`main()` returns when one does
not) and no heap grows.

## 3. What is checked

All bounds are in the .cfg files and the MC modules.

| run | instance | what it shows |
|---|---|---|
| `sched_all` | idle and two users (priorities 1, 2), two locks, one event; every instruction except that a user does not terminate itself; also unknown pids and lock numbers, sleeps of 0 and 2, priorities set to 0, 1, 2 and 4 (maximum 3) | all state invariants of the scheduler, and that termination is final |
| `sched_contend` | idle and three users (1, 2, 3), two locks, one event, terminations of idle and of waiters and holders; no SETPRIORITY | priority inheritance, queue order, the highest priority runs, and the locks implement `LockService` |
| `sched_live` | idle and three users of one priority, one lock, sleeps of 1 and 3 | liveness, see section 4 |
| `paging` | two private frames, a shared one; processes of 1, 2 and 3 pages, the second may attach the shared page, the last never fits; two page contents | slots, frame map, swap copies; eviction order; each operation is that of `VirtualMemory` with the same process, page and content |
| `paging_growth` | three private frames, one shared region of two (memory too small for the others); a process of two pages whose heap grows by one or two, one of one page, both of which may attach the region, one that never fits | that frames are conserved and no table reaches another's, also when heaps grow |
| `heap` | a heap of 4 bytes that may grow to 8 in pages of 2, allocations of 1, 2, 3 and 5 | the block list; `HeapService` is implemented |
| `cpu` | two processes; words of 2 bytes of 16 values, pages of 2 words; every instruction alone and after one that sets it up, 16 that a loader accepts and a CPU may not, room for one shared region, a call and return, a loop, a doubling, a program that overwrites its code, one that pushes without end; the other process compares and jumps | the CPU executes the source; registers exist; the stack is a stack; `OwnCpu` is implemented |
| `kernel` | the idle process and three users of one page each on two private frames, a shared region the first may attach; two priorities, quanta of 1; locks, sleeps, faults, exits, terminations of idle, of itself and of the first user | what scheduler and memory manager know of a process agrees; the others' pages stay; the first listed starts first |
| `dead_holder`, `self_terminate`, `lost_wakeup`, `heap_over_stack` | the smallest program that shows the disagreement | where the code departs from its own text (section 3.1) |

*Why the bounds are enough.* Scheduler: two users over two locks reach hand-over, deadlock,
forced release of several locks and re-execution of a blocked instruction; the third user is
needed for a boost in the middle of a non-empty ready queue and for a choice between two waiters.
A quantum of 2 (idle 1) separates a slice that ends by its quantum from one that an instruction
ends early, before or after the first tick. One event suffices because events share nothing.
Paging: with two frames for three pages nearly every access of a loaded process evicts, a frame
passes between processes in both directions, and a process that never fits makes a failing
allocation take all that there is. A region with two sharers is in `paging_growth`; what one of
them reads after the other wrote is not, that run having a single page content. Two page contents
are what the dirty bit needs: a copy either is or is not the current one. Heap: the four sizes
give a block that fits exactly, one that is split, one that fits only after merging and one that
needs growth, over a free tail of each length modulo the page size. Cpu: a word of two bytes of
sixteen values has a byte order, a sign, values that do not fit and numbers that read back
negative, and a stack of two words, its page, is overrun into the heap by the third push; one
process beside the other suffices because a context switch only ever concerns two. `MaxValue`
keeps registers finite and is beyond what a word holds. Kernel: four pages on two frames make
every dispatch a fault that evicts a page of somebody, and three users for two priorities have two
that share one.

*Deadlock.* The scheduler's models never stop (`Halted` stutters after the loop has ended). The
paging models may, when every process has ended or failed, and so may `Cpu`, when both have ended or
an exception has left the loop; these say `CHECK_DEADLOCK FALSE`. The heap cannot, and `Kernel`
halts as `Scheduler` does.

### 3.1 Where the code departs from its text

The first four are runs that TLC refutes, and entries of "findings"; the others follow from one
definition and need no run.

1. `dead_holder`: TERMINATEPROCESS does not call `force_release_all_locks`, whose docstring says
   it is called on terminate. The locks of the target stay owned by it, its waiters blocked.
2. `self_terminate`: a process may name itself. It runs to the end of its slice and is then made
   READY again, though it is already in `terminated_queue`.
3. `lost_wakeup`: a process woken by SIGNALEVENT executes WAITEVENT again. The wake-up consumed
   the signal, so it blocks again: a signal sent to a waiting process has no effect.
4. `heap_over_stack`: the first page a heap grows by takes the page table entry of the stack,
   which `load` put right after the heap.
5. `run` is to execute "until all non-idle processes have terminated" (`midos.py:78`), but the idle
   process can be terminated. With it gone, `run` returns as soon as no process is READY, whoever
   sleeps (`NothingReady`).
6. `tick_sleeping` is "called every clock tick" (`scheduler.py:135`), but `run` calls it once per
   slice (`EndSlice`).
7. SIGNALEVENT with an immediate operand does not assemble: `_resolve_variant` makes it
   `SIGNALEVENTI`, the opcode is `SIGNALEVENTII` (`WithI`, `Opcodes`). Written as `SIGNALEVENTII`
   it works.
8. SLEEP with an immediate operand sleeps for what the register of that number holds, or raises an
   IndexError (`Asked`, `First`): the loader has no immediate form of it. `SLEEP 0 #n` works.

These are about what the text says. Properties that the code does not have, and no text promises,
are stated with the exception instead: `NoLostProcess` says `In("RUNNING") \subseteq {running}`;
`OwnerInheritsPriority` is restricted to waiters that hold no lock (a boost is not passed on along
a chain) and checked without SETPRIORITY (which drops a loan); `FrameMapConsistent`, `FaultsResolve`
and `ImplementsVirtualMemory` are checked without heap growth. With growth the first two fail: the
frames of a grown heap are not registered in the frame map, so they can never be evicted, and
those that growth took by eviction keep `valid = FALSE`, so the first access faults again and
takes a second frame while the first stays with the process, unused. `FramesConserved` and
`MappedFramesAreOwn` survive growth. `OnlyTheKilledKeepMemory` excepts the targets of
TERMINATEPROCESS, whose frames and slots are never freed (`scheduler.py:305`); `RegistersExist` is
about programs that name registers where the CPU takes them (`WellWritten`), and excepts the values
that do not fit a word and the numbers the kernel refuses, each of which does end the kernel.

## 4. Fairness

`FairSpec` is `Spec` with `WF_vars(Next)`: the run loop is one thread that never waits, so it
always takes its next step. Nothing is assumed of which instruction a program executes. Under this
alone `ReadyRuns` (a READY process of equal priority gets the CPU) and `SleepersWake` hold; both
need the idle process, which keeps the loop turning when every user sleeps. `WaitersGetLock` has
its hypothesis in the property: programs that could release their lock again and again do so in
the end (`HoldersRelease`, strong fairness of the release instruction, since a program is
preempted between the chances it has). No fairness is stated for paging or heap, which have no
liveness property: each of their operations is one call that returns.

`ReadyRuns` is stated for equal priorities because a program of higher priority that never blocks
does starve the others; the code makes no promise against it.

## 5. What is proved

The theorems hold for all values of the constants that satisfy the assumptions the modules name;
TLC evaluates these in every run of the module that states them.

| part | what is arbitrary | assumptions |
|---|---|---|
| scheduler | processes, locks, events, load order, programs over the modelled instructions (self-termination and terminations of the idle process included), priorities, quanta | `ProcsAssumption` (`None` is no process; each process is loaded exactly once), `PriorityAssumption` and `QuantumAssumption` (integers, the maximum and the quanta positive), `ProgramAssumption` (operands of SLEEP and SETPRIORITY are integers), `LocksAssumption` (finitely many locks) |
| paging | memory and page sizes, regions, processes, images | `SizesAssumption`, `DataAssumption` |
| heap | where the heap starts, its first size, page size, sizes of requests | `HeapAssumption` (positive sizes; the first heap is below the bound `MaxEnd`) |
| CPU | programs, width of a byte and of a word, layout, shared regions, answers of the kernel | `WordAssumption`, `RegionsAssumption` (they are among 1 to 10), `OpcodesAssumption` (a word tells opcodes and registers apart and from negative numbers), `LayoutAssumption`, `ValuesAssumption` (programs are sequences of lines), `AddressAssumption` (every address of a process is a positive word), `AnswersAssumption` (answers are integers, 0 one of them: `alloc` may fail), `NoneAssumption` |
| kernel | programs, their order, priorities, memory | `LoadAssumption` (each file is loaded once and fits, as `main()` returns when one does not), `ComponentAssumption` (those of the two parts) |

Some theorems need more, as an explicit hypothesis. Those marked * assume `Growers = {}`, that no
heap outgrows its first pages (section 3.1 says what fails otherwise). The others are:

* (a) `NeverEndsItself`: no program names itself in TERMINATEPROCESS. The run `self_terminate`
  shows that the theorem is false without it.
* (b) `IdleKeepsRunning`: the idle program neither ends, fails, sleeps nor asks for a lock or an
  event, and nobody terminates it; and there is a user. The idle program of the repository only
  computes (`_write_default_idle`, `midos.py:152`). Without it `run` returns early (section 3.1, 5).
* (c) No process executes SETPRIORITY while it holds a lock: it would replace what is lent to it.
  In the first theorem this is a condition on the steps, in the second on the programs.
* (d) `IdleStays`: the idle program only computes, as in (b); it may be terminated.

| theorem | module | property |
|---|---|---|
| `TypeCorrect` | `SchedulerProofs` | `TypeOK` |
| `LockTablesAlwaysAgree` | `SchedulerProofs` | `LockTablesAgree` |
| `NoWaiterBesideASignal` | `SchedulerProofs` | `SignalOrWaiters` |
| `EverySliceIsFull` | `SchedulerProofs` | `SlicesAreFull` |
| `NoProcessIsLost` | `SchedulerQueueProofs` | `NoLostProcess` |
| `TheTerminatedStayTerminated` (a) | `SchedulerQueueProofs` | `TerminatedIsFinal` |
| `TheLoopStopsWithTheUsers` (b) | `SchedulerQueueProofs` | `StopsWhenUsersEnd` |
| `WaitersAlwaysHaveAnOwner` | `SchedulerLockProofs` | `WaitersHaveAnOwner` |
| `WokenWaitersOwnTheirLock` | `SchedulerLockProofs` | `WokenWaiterOwnsLock` |
| `LocksImplementTheService` | `SchedulerLockProofs` | `ImplementsLockService` |
| `ReadyStaysInOrder` | `SchedulerLockProofs` | `ReadyInOrder` |
| `TheHighestPriorityRuns` | `SchedulerLockProofs` | `HighestPriorityRuns` |
| `LoansEndWithTheLocks` | `SchedulerLockProofs` | `LentPriorityEnds` |
| `OwnersInheritPriority`, `OwnersInheritWithoutSetPriority` (c) | `SchedulerLockProofs` | `OwnerInheritsPriority` |
| `TypesHold` | `PagingProofs` | `Paging!TypeOK` |
| `FramesAreConserved` | `PagingProofs` | `FramesConserved` |
| `MappedFramesStayOwn` | `PagingProofs` | `MappedFramesAreOwn` |
| `SlotsAreConserved` | `PagingProofs` | `SlotsConserved` |
| `FrameMapStaysConsistent` * | `PagingProofs` | `FrameMapConsistent` |
| `CopiesStayCurrent` * | `PagingProofs` | `CleanCopiesAreCurrent` |
| `FaultsAlwaysResolve` * | `PagingProofs` | `FaultsResolve` |
| `TheLastUsedPageStays` * | `PagingProofs` | `LastUsedPageStays` |
| `PagingIsVirtualMemory` * | `PagingProofs` | `ImplementsVirtualMemory` |
| `HeapTypes` | `HeapProofs` | `HeapAllocator!TypeOK` |
| `HeapStaysConsistent` | `HeapProofs` | `HeapConsistent` |
| `GrowthIsExact` | `HeapProofs` | `GrowthSuffices` |
| `FirstFitHolds` | `HeapProofs` | `FirstFitIsExact` |
| `HeapImplementsService` | `HeapProofs` | `ImplementsHeapService` |
| `CpuTypes` | `CpuProofs` | `Cpu!TypeOK` |
| `TheCpuReadsTheSource` | `CpuProofs` | `CpuReadsTheSource` |
| `NamedRegistersExist` | `CpuProofs` | `RegistersExist` |
| `TheStackIsAStack` | `CpuProofs` | `StackIsAStack` |
| `SwitchesAreInvisible` | `CpuProofs` | `ImplementsOwnCpu` |
| `KernelSchedules` | `KernelProofs` | the kernel is a behaviour of `Scheduler` |
| `KernelManagesMemory` | `KernelProofs` | the kernel is a behaviour of `Paging` without growth |
| `TheKernelKeepsTheSchedule` | `KernelProofs` | the invariants of `Scheduler` hold in the kernel |
| `TheKernelKeepsItsPages` | `KernelProofs` | the invariants of `Paging` hold in the kernel |
| `TheKernelIsVirtualMemory` | `KernelProofs` | the kernel's memory operations are those of `VirtualMemory` |
| `TheGoneLeaveNothing` | `KernelProofs` | `GoneLeaveNothing` |
| `TheOthersKeepTheirPages` | `KernelProofs` | `OthersPagesStay` |
| `OnlyTheKilledKeepTheirs` (d) | `KernelProofs` | `OnlyTheKilledKeepMemory` |
| `TheFirstListedStartFirst` | `KernelProofs` | `FirstListedStartsFirst` |

*Queues.* `Enqueue`, `EnqueueAll`, `ByPriority` and `Without` are loops over a list, written as
recursive functions. What they return is proved in `PriorityQueueProofs` for queues of any
length: `LoopExists` shows that a loop over `1 .. n` has a result, `UpTo` is the induction over
its rounds, and the `...Properties` lemmas say which members the result has, that it repeats none
and that it is in order. All later proofs use these lemmas and never the loops.

*Inductive invariants of the scheduler.* Some properties are inductive beside `TypeOK` (`LockTablesAgree`,
`SignalOrWaiters`). The others need a strengthening:

* `SliceInv` adds to `SlicesAreFull` that nothing runs between two slices (`CpuEmpty`): without it
  a context switch could save the ticks of the wrong process.
* `QueueInv` is `NoLostProcess` per queue (`Filed`: a process is in a queue *iff* its state says
  so, once, and in one queue only) with what the CPU holds (`OnCpu`: in which phases `running` is
  a process, and that a running process is RUNNING or has terminated itself). `OnCpu` is needed
  because an instruction that blocks has left the CPU before its slice ends, and because every
  move out of the CPU relies on the running process being in no queue. Each queue operation has a
  lemma (`FileEnqueue`, `FileAppend`, `FileWithout`, `FileAll`, `AmongAppend`, `AmongShrink`); the
  end of a slice (`EndSliceFiles`) and the hand-over of several locks in any order
  (`OrderedHeirs`, `HandOverFiles`) are built from them.
* `WaitersHaveAnOwner` is inductive given `QueueInv`: the owner of a lock is none of its waiters
  because a process that asks for a lock is in no queue.
* `RetryInv` says of every process whose IP still points at an ACQUIRE that it waits for that lock
  or owns it, and that a process that has terminated itself has no instruction to execute again.
  The second part is needed because such a process may block once more.
* `ReadyInOrder` is inductive given `QueueInv`: the priorities that change are that of the
  running process, which is not in the queue, and that of a holder, which `Boosted` moves.
  `HighestPriorityRuns` is a property of one step from it.
* `LoanInv` extends `LentPriorityEnds` to a process that has terminated itself and still runs.
* `AliveOnCpu` says that whoever runs and never terminates itself is RUNNING: with (a) nobody on
  the CPU is TERMINATED, and no queue holds a terminated process (`QueueInv`), so that nothing
  makes one READY.
* `IdleRunsOn` says that the idle process is READY or RUNNING and leaves the CPU for nothing but its
  quantum. So the ready queue is never empty while a user is alive, and the stop test, made when a
  slice ends, is the only way out of the loop.
* `OwnerInheritsPriority` is inductive given `QueueInv`, `WaitersHaveAnOwner` and the lock tables.
  What it turns on is the hand-over: the new owner is the best of the waiters (`Heir`), and what
  remains of the queue waits for one at least as good; a release lowers the priority only of who
  holds no lock any more, and so owns none that anybody waits for.

*Refinement of the locks.* `LocksImplementTheService` maps the owner table to itself and each wait queue to the
set of its members. An ACQUIRE is `Take`, `Join` or a stutter; RELEASE, EXIT and errors are
`GiveUp` with the heirs that `Heir` chooses, for all locks of the process at once;
TERMINATEPROCESS is `Withdraw`; every other step stutters. It uses `WaitersHaveAnOwner` (a free
lock has no waiters), `QueueInv` (a process waits for one lock) and `LockTablesAgree` (an exit
gives up what is owned, and only that).

*Memory manager.* The invariant that holds whether heaps grow or not is `MemInv`:

* `Typed` and `TablesBounded`: the types, with `GoodSwap` (slots are disjoint, free or used, never
  both) in place of what `TypeOK` says of the swap file;
* `Registered` and `MappedOnce`: a frame that may be evicted holds a page of its owner, which has
  it in its working set, and no other page is mapped to it. Without them an eviction could leave a
  table entry that points at the frame's next owner;
* `RecentComplete`: every evictable frame has a place in the order of use, so that it can be found;
* `FramesConserved`, `MappedFramesAreOwn`, `SwappedPagesHaveCopy` (a page that is out has a copy)
  and `OnlyTheLive` (a process that is not live has no page, frame or slot).

What the loop over victims in `allocate_pages` leaves is the fold `Evict`, a recursive function; the
lemma `EvictRounds` is an induction over its rounds (`UpTo` of `PriorityQueueProofs`) and
`EvictProperties` says what the result has: which entries changed, which keys have a copy now,
which copies are new. The steps are proved by their shape, not one by one: `Taking` (frames for new
pages, after evictions: load, page fault, growth), `Touching` (an access without a fault),
`Attaching` (a shared region), a failed allocation (`FailingKeeps`) and `Exit`. A lemma per shape
says that it keeps `MemInv`, one per action that it has the shape.

Without growth the steps that take frames are `Filling`: each frame is registered with its page.
`Exact` then holds too: the frame map is exact, every frame in a working set is evictable, clean
copies are current, a live process has a page of its own. It gives the other three invariants; for
`FaultsResolve` a private frame is free, or in a working set and so evictable.

*Refinement of virtual memory.* `OthersSame(p, D)` is how a step looks to programs: of the pages of
`p`, those in `D` are its own now and may have changed, and no other page of anyone has. It is
proved of `Filling` from `PagesKept`, which says that evictions change where pages are and not
what they hold (a dirty or new page is written, a clean copy is current: this needs `Exact`). A
load is then `Create`, an exit `Destroy`, MAPSHAREDMEM `Attach`, and a failed load a stutter. A
write is `Store` and a read `Fetch` in two cases each: `PresentReadFetches` where the page is in a
frame, `FaultingReadFetches` where it comes back from swap, into a frame that another page may just
have left (`FaultMaps`: what comes back is what the page held before that page went out).

*Eviction order.* Without growth a page comes back from the swap file only by an access that
faults (`OnlyFaultsBringBack`: loads, failures, exits and regions leave a `Swapped` entry as it is),
a fault registers one frame, the head of `Available` (`FaultFillsTheFirst`), and the page used last
is its last member, which is another one as soon as two pages are evictable (`FirstIsNotLast`).

*Heap.* `HeapInv`: the blocks follow each other from the start of the heap to its end (`Tiles`),
the table of allocations is the set of used blocks, and no two free blocks are adjacent
(`Alternates`). `Coalesce` is a loop over the list; `CoalesceRounds` shows that it has a result and
what one round does, `CoalesceProperties` is the induction: the result tiles the same addresses,
has the same used blocks and alternates. Carving, freeing and growing have a lemma each
(`CarvedProperties`, `FreedProperties`, `ExtendedProperties`). `NothingBelowFits` and `FreeIsVacant`
relate blocks to bytes: in a tiling that alternates every vacant run of bytes lies in one free
block, which is why first fit over blocks is first fit over addresses, and why `Alternates` is
needed for it. `PagesCover` is the rounding up of `_grow_heap`. The refinement maps `active` to
itself: allocations are disjoint because blocks are.

*Words.* `WordByte` and `Word` are inverse up to the width: `BytesOfWords` and `ReadRounds` are
Horner's scheme, one byte per round, `WordOfBytes` says that a stored value reads back as `Signed`
of its remainder, `SignedFits` that this is the value itself where it fits. All of it is for any
base and any number of bytes.

*CPU.* `CpuInv` is three parts. `ContextsInPlace`: nobody owns the CPU between two slices, and CPU
and PCBs hold contexts. `SourceInv`: the programs are ones the loader accepts and do not change.
`TypeOK`: registers are integers, memory is bytes. What an instruction computes keeps the types
(`ExecutedTyped`, by groups of instructions), and so does what the loader writes (`StartTyped`).

* `SwitchesAreInvisible` leaves instructions unexpanded: all it needs is that they take a machine
  to a machine (`ExecutedIsMachine`). A switch moves a context and changes the machine of no
  process, an instruction that blocks has not changed it either, and one that returns changes that
  of its own process.
* `TheCpuReadsTheSource` is about one state: where the code is intact, the three words at IP are the
  three words the loader wrote (`WhereWordsAre`, `FetchedFromLine`), and an opcode is the place of
  its name in the enumeration.
* `NamedRegistersExist` needs `CrashInv`, that the loop has stopped for an exception of the process
  that has the CPU; of a line that names registers the checks for one that does not exist then fail
  (`WellWrittenNames`), since 1 to 14 read back as what they are. What is left is `Unfit` or
  `Refused`, the latter for any set of `Regions`.
* `TheStackIsAStack` is about one step. `OneDeeper` and `OneWordMore` say what the list of words is
  after one is stored below SP or SP has moved up by one; `ExecutedKeepsStack` that no other
  instruction, unless it is excepted in the property, changes a word between SP and the top. POPR
  into IP is a case of its own: what is popped is an address that IP is then advanced from.

*Kernel.* `KernelSchedules` and `KernelManagesMemory` map every action to a step or a stutter of
each part. The modules with the proofs are instantiated beside those parts (`SP`, `MP`), and
`SameScheduler` and `SameMemory` show that what they call alike is the same: so every invariant of
section 5 holds of the kernel, also the inductive ones (`Scheduled`, `Managed`). On top of these:

* `Lifecycle` relates what the two parts know of a process: after loading nobody is new, before it
  nobody is gone, who is gone from memory is gone from every queue and owns no lock, and who has
  terminated is gone or was terminated by another. `TheGoneLeaveNothing` follows from it with
  `OnlyTheLive` and `OwnersValid` of the memory manager.
* `TheOthersKeepTheirPages` is the refinement of `VirtualMemory` read for the others: a step of the
  memory manager for one process changes `Private` for that process alone.
* `IdleServes` is (b) for as long as nobody has terminated the idle process; with it, the loop ends
  when all users have terminated and `Lifecycle` says where their memory is.
* `Lined`: those that have not run are still in the ready queue, own nothing, and stand there in the
  order of the command line. `Fresh` and `InTurn` are the two halves, kept by every operation of
  the scheduler (last section of `SchedulerLockProofs`): a boost moves owners of locks only, and
  whoever is enqueued takes its place without changing that of the others.

## 6. Only model-checked

* The liveness properties `ReadyRuns`, `SleepersWake` and `WaitersGetLock` (temporal proof under
  fairness is out of the prover's reach), and that the models have no deadlock.
* The four disagreements of section 3.1: a run refutes each, no theorem is wanted.
* With growing heaps, `FrameMapConsistent`, `FaultsResolve` and the refinement are false;
  `CleanCopiesAreCurrent` and `LastUsedPageStays` are neither checked nor proved.

Every state invariant and every safety property over steps that a run checks and that holds is
stated by a theorem.

## 7. Not modelled

* **Text.** Splitting a line into words, comments, the digits of a number (`_parse`, `int()`); the
  log, `print_*`, `dump_*`, PRINTR and its like beyond the access to memory they make, the text of
  INPUT (any answer).
* **`main.py`'s arguments**: a wrong number of them, or a missing file, ends the program before there
  is a kernel.
* **`remove_page`** of the swap file, which the kernel never calls, and **`heap_pages`**, which
  only the statistics read.
* **Heap growth and shared regions in `Cpu` and `Kernel`.** `Cpu` has neither, `Kernel` has regions
  only; both are in `Paging`. Bytes and registers are in `Cpu`, the frames they live in are in
  `Paging`, and the bridge between the two is `VirtualMemory`: proved of `Paging`, assumed by `Cpu`.
* **A failing load in `Kernel`**: `main()` returns then; `Paging` has it.

## 8. Plan

Done: the scheduler and its locks, paging with `VirtualMemory`, the heap with `HeapService`,
instructions, assembler and CPU with `OwnCpu`, and the kernel that composes scheduler and paging;
a theorem for each of their safety properties, and what the kernel inherits.

Next, in this order:

1. *CPU over virtual memory.* `Cpu` gives each process the memory that `VirtualMemory` promises, in
   bytes, and `Paging` implements that in pages. A module that relates the two contents would make
   `OwnCpu` a promise of the two together.
2. *Growing heaps.* Which part of `Exact` survives growth: whether `CleanCopiesAreCurrent` does for
   the frames that are registered.
3. *Heap and paging.* `GrowHeap` takes any number of pages; with `HeapAllocator` beside it, it would
   be the number that `GrowthIsExact` is about.
