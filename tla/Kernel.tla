------------------------------- MODULE Kernel -------------------------------
(***************************************************************************)
(* The MidOS kernel as one system (midos.py, main.py): the scheduler of    *)
(* Scheduler and the memory manager of Paging, driven by one run loop.     *)
(* Only the process that has the CPU accesses memory, but a page it needs  *)
(* may be taken from any other; the end of a process passes its locks on   *)
(* in the one and frees its frames in the other, its termination by        *)
(* another does neither.                                                   *)
(*                                                                         *)
(* Heaps do not grow here, and every process fits in memory: main returns  *)
(* before run() when a load fails.                                         *)
(*                                                                         *)
(* A definition named X_Slip, just before X, is X with one plausible slip  *)
(* of the code; it is used by nothing and shows what X guards.             *)
(***************************************************************************)
EXTENDS Integers, Sequences, FiniteSetsExt, SequencesExt

CONSTANTS
  Idle,                                \* the process of idle.txt
  Files,                               \* the programs on the command line
  Locks, Events, MaxPriority, DefaultQuantum, IdleQuantum, Program,
  TotalPages, NumRegions, PagesPerRegion, Size, Image, Data, Zero, MaxVPage,
  None

VARIABLES
  phase, running, switchReason, cpuTicks, state, priority, original, ticks,
  sleepCounter, locksHeld, retry, ready, sleepQueue, lockWait, eventWait,
  terminated, lockOwner, signaled,     \* the variables of Scheduler
  proc, table, working, heapPage, info, recent, freePages, memory, swap,
                                       \* those of Paging
  stage,       \* "boot" until run() is called, then "run"
  started,     \* history: the processes that have had the CPU
  killed       \* history: the processes that TERMINATEPROCESS has named

LoadOrder == <<Idle>> \o Files

Procs == ToSet(LoadOrder)

Users == ToSet(Files)

Position(p) == CHOOSE i \in DOMAIN Files : Files[i] = p

MainPriority_Ascending ==
  [p \in Procs |-> IF p = Idle THEN 0 ELSE Min({MaxPriority, Position(p)})]

(* The priorities main() gives: descending in the order of the command     *)
(* line, 1 when they run out.                                              *)
MainPriority ==
  LET base == Min({MaxPriority, Len(Files) + 1})
  IN  [p \in Procs |-> IF p = Idle THEN 0 ELSE Max({1, base - (Position(p) - 1)})]

S == INSTANCE Scheduler WITH LoadPriority <- MainPriority

M == INSTANCE Paging WITH Pids <- Procs, Growers <- {}, MaxGrowth <- 0

ASSUME LoadAssumption ==
  /\ Files \in Seq(Users) /\ Idle \notin Users /\ None \notin Procs
  /\ \A i, j \in DOMAIN Files : Files[i] = Files[j] => i = j
  /\ MaxPriority \in Nat \ {0}
  /\ \A p \in Procs : Size[p] <= M!FirstShared

(* What the scheduler and the memory manager take for granted.             *)
ASSUME ComponentAssumption ==
  /\ S!QuantumAssumption /\ S!ProgramAssumption /\ S!LocksAssumption
  /\ M!SizesAssumption /\ M!DataAssumption

schedulerVars ==
  <<phase, running, switchReason, cpuTicks, state, priority, original, ticks,
    sleepCounter, locksHeld, retry, ready, sleepQueue, lockWait, eventWait,
    terminated, lockOwner, signaled>>
memoryVars ==
  <<proc, table, working, heapPage, info, recent, freePages, memory, swap>>
vars == <<schedulerVars, memoryVars, stage, started, killed>>

(* What Scheduler starts with is read by nobody until run() is called.     *)
Init ==
  /\ S!Init
  /\ M!Init
  /\ stage = "boot"
  /\ started = {} /\ killed = {}

-----------------------------------------------------------------------------
(* _load_idle, then load_program of each file.                             *)
Boot ==
  /\ stage = "boot"
  /\ \E n \in DOMAIN LoadOrder :
       /\ \A j \in 1..(n - 1) : proc[LoadOrder[j]] # "new"
       /\ M!Load(LoadOrder[n])
       /\ stage' = IF n = Len(LoadOrder) THEN "run" ELSE "boot"
  /\ UNCHANGED <<schedulerVars, started, killed>>

PickNext ==
  /\ stage = "run"
  /\ S!Dispatch \/ S!NothingReady
  /\ started' = started \cup ({running'} \ {None})
  /\ UNCHANGED <<memoryVars, stage, killed>>

(* Before the instruction has its effect, it is fetched, and reads and     *)
(* writes memory; each byte may fault.                                     *)
Access(p) ==
  /\ stage = "run"
  /\ phase = "run" /\ running = p /\ switchReason = "none"
  /\ \E vp \in DOMAIN table[p] :
       M!Read(p, vp) \/ \E d \in Data : M!Write(p, vp, d)
  /\ UNCHANGED <<schedulerVars, stage, started, killed>>

(* An instruction of the scheduler, or one without an effect on either.    *)
Instruction(p) ==
  /\ stage = "run"
  /\ S!Step(p)
  /\ killed' = killed \cup {q \in Procs : state[q] # "TERMINATED" /\ state'[q] = "TERMINATED"}
  /\ UNCHANGED <<memoryVars, stage, started>>

(* MAPSHAREDMEM. *)
MapShared(p) ==
  /\ stage = "run"
  /\ \E i \in Program[p] : S!Compute(p, i)
  /\ \E r \in DOMAIN M!RegionStart : M!MapShared(p, r)
  /\ UNCHANGED <<stage, started, killed>>

(* The ways a slice ends that leave memory alone. *)
SwitchOut ==
  /\ stage = "run"
  /\ \/ \E p \in Procs : S!SwitchOutQuantum(p) \/ S!SwitchOutSleep(p)
     \/ S!SwitchOutBlocked
  /\ UNCHANGED <<memoryVars, stage, started, killed>>

Dies_FreesFirst(p) ==
  /\ stage = "run" /\ running = p
  /\ switchReason \in {"exit", "error"}
  /\ M!Exit(p)
  /\ switchReason' = "quantum"
  /\ UNCHANGED <<phase, running, cpuTicks, state, priority, original, ticks,
                 sleepCounter, locksHeld, retry, ready, sleepQueue, lockWait,
                 eventWait, terminated, lockOwner, signaled>>
  /\ UNCHANGED <<stage, started, killed>>

(* EXIT or an error: force_release_all_locks, context_switch_out, then      *)
(* free_pages_for_process.                                                  *)
Dies(p) ==
  /\ stage = "run"
  /\ S!SwitchOutDead(p)
  /\ M!Exit(p)
  /\ UNCHANGED <<stage, started, killed>>

Halted ==
  /\ S!Halted
  /\ UNCHANGED <<memoryVars, stage, started, killed>>

Next ==
  \/ Boot \/ PickNext \/ SwitchOut \/ Halted
  \/ \E p \in Procs : Access(p) \/ Instruction(p) \/ MapShared(p) \/ Dies(p)

Spec == Init /\ [][Next]_vars

-----------------------------------------------------------------------------
(***************************************************************************)
(* Properties                                                              *)
(***************************************************************************)

(* A process whose frames were freed is gone everywhere: it has terminated, *)
(* no queue holds it, it neither runs nor owns a lock, and the memory       *)
(* manager keeps nothing of it.  What may still run has its memory.         *)
GoneLeaveNothing ==
  stage = "run" => \A p \in Procs : proc[p] = "live" \/
    /\ state[p] = "TERMINATED"
    /\ p \notin S!Queued /\ p # running
    /\ \A l \in Locks : lockOwner[l] # p
    /\ working[p] = {} /\ M!KeysOf(swap, p) = {}
    /\ \A f \in M!PrivateFrames : info[f].owner # p

(* When run() has ended the memory of every user is free again, frames and  *)
(* slots of the swap file, but for those that TERMINATEPROCESS has ended    *)
(* (scheduler.py:305 frees nothing).                                        *)
OnlyTheKilledKeepMemory ==
  phase = "stopped" /\ Idle \notin killed =>
    LET keep == {Idle} \cup killed
    IN  /\ \A f \in M!PrivateFrames :
             f \in ToSet(freePages) \/ \E p \in keep : f \in working[p]
        /\ \A key \in DOMAIN swap.index : key[1] \in keep

(* "Assign descending priorities so first-listed runs first" (main.py:31):  *)
(* no program starts before those listed before it have, unless they were   *)
(* terminated, also when there are more programs than priorities.           *)
FirstListedStartsFirst ==
  \A i, j \in DOMAIN Files :
    i < j /\ Files[j] \in started => Files[i] \in started \cup killed

(* The process that runs may take any frame, but the pages of the others    *)
(* stay what they were: those that wait, sleep, are preempted or were       *)
(* terminated find theirs as they left them, in a frame or in swap.         *)
OthersPagesStay ==
  [][stage = "run" => \A p \in Procs \ {running} :
       /\ M!OwnPages(p)' = M!OwnPages(p)
       /\ \A vp \in M!OwnPages(p) : M!Content(p, vp)' = M!Content(p, vp)]_vars

=============================================================================
