---------------------------- MODULE KernelProofs ----------------------------
(***************************************************************************)
(* What Kernel promises, for all programs, priorities and memories.        *)
(*                                                                         *)
(* The kernel is nothing but its two components put together: whatever it  *)
(* does is a behaviour of Scheduler and one of Paging.  So the invariants  *)
(* proved of either hold in the kernel.  From both follow the properties   *)
(* that need the two: a process that is gone leaves nothing behind, nobody *)
(* loses a page to another, only those that were terminated by others keep *)
(* their memory, and programs start in the order of the command line.      *)
(***************************************************************************)
EXTENDS Kernel, TLAPS

LEMMA InstructionsSchedule ==
  ASSUME NEW p \in Procs, S!Step(p)
  PROVE  S!Next
BY DEF S!Next

LEMMA SliceEndsSchedule ==
  ASSUME \/ \E p \in Procs : S!SwitchOutQuantum(p) \/ S!SwitchOutSleep(p)
         \/ \E p \in Procs : S!SwitchOutDead(p)
         \/ S!SwitchOutBlocked
  PROVE  S!Next
BY DEF S!Next, S!SwitchOut

LEMMA UntouchedScheduler ==
  ASSUME UNCHANGED schedulerVars
  PROVE  UNCHANGED S!vars
BY DEF schedulerVars, S!vars, S!loopVars, S!prioVars, S!sleepVars, S!lockVars, S!eventVars

LEMMA UntouchedMemory ==
  ASSUME UNCHANGED memoryVars
  PROVE  UNCHANGED M!vars
BY DEF memoryVars, M!vars, M!processVars

LEMMA StepSchedules ==
  ASSUME Next
  PROVE  [S!Next]_S!vars
<1>1. CASE Boot
  BY <1>1, UntouchedScheduler DEF Boot
<1>2. CASE PickNext
  BY <1>2 DEF PickNext, S!Next
<1>3. CASE SwitchOut
  BY <1>3, SliceEndsSchedule DEF SwitchOut
<1>4. CASE Halted
  BY <1>4 DEF Halted, S!Next
<1>5. ASSUME NEW p \in Procs, Access(p) PROVE [S!Next]_S!vars
  BY <1>5, UntouchedScheduler DEF Access
<1>6. ASSUME NEW p \in Procs, Instruction(p) PROVE [S!Next]_S!vars
  BY <1>6, InstructionsSchedule DEF Instruction
<1>7. ASSUME NEW p \in Procs, MapShared(p) PROVE [S!Next]_S!vars
  <2>1. S!Step(p)
    BY <1>7 DEF MapShared, S!Step
  <2>. QED
    BY <2>1, InstructionsSchedule
<1>8. ASSUME NEW p \in Procs, Dies(p) PROVE [S!Next]_S!vars
  BY <1>8, SliceEndsSchedule DEF Dies
<1>. QED
  BY <1>1, <1>2, <1>3, <1>4, <1>5, <1>6, <1>7, <1>8 DEF Next

LEMMA StepManagesMemory ==
  ASSUME Next
  PROVE  [M!Next]_M!vars
<1>1. CASE Boot
  <2>1. PICK n \in DOMAIN LoadOrder : M!Load(LoadOrder[n])
    BY <1>1 DEF Boot
  <2>2. LoadOrder[n] \in Procs
    BY DEF Procs, ToSet
  <2>. QED
    BY <2>1, <2>2 DEF M!Next
<1>2. CASE PickNext
  BY <1>2, UntouchedMemory DEF PickNext
<1>3. CASE SwitchOut
  BY <1>3, UntouchedMemory DEF SwitchOut
<1>4. CASE Halted
  BY <1>4, UntouchedMemory DEF Halted
<1>5. ASSUME NEW p \in Procs, Access(p) PROVE [M!Next]_M!vars
  BY <1>5 DEF Access, M!Next
<1>6. ASSUME NEW p \in Procs, Instruction(p) PROVE [M!Next]_M!vars
  BY <1>6, UntouchedMemory DEF Instruction
<1>7. ASSUME NEW p \in Procs, MapShared(p) PROVE [M!Next]_M!vars
  BY <1>7 DEF MapShared, M!Next
<1>8. ASSUME NEW p \in Procs, Dies(p) PROVE [M!Next]_M!vars
  BY <1>8 DEF Dies, M!Next
<1>. QED
  BY <1>1, <1>2, <1>3, <1>4, <1>5, <1>6, <1>7, <1>8 DEF Next

(* What the kernel does with processes, locks and events the scheduler     *)
(* does alone: loading, memory accesses and page faults come between its   *)
(* steps and change nothing of it, and the end of a process is one step of *)
(* both.                                                                   *)
THEOREM KernelSchedules == Spec => S!Spec
<1>1. Init => S!Init
  BY DEF Init
<1>2. [Next]_vars => [S!Next]_S!vars
  BY StepSchedules, UntouchedScheduler DEF vars
<1>. QED
  BY <1>1, <1>2, PTL DEF Spec, S!Spec

(* And what it does with memory the memory manager does alone, without the *)
(* growth of heaps, which Kernel leaves out.                               *)
THEOREM KernelManagesMemory == Spec => M!Spec
<1>1. Init => M!Init
  BY DEF Init
<1>2. [Next]_vars => [M!Next]_M!vars
  BY StepManagesMemory, UntouchedMemory DEF vars
<1>. QED
  BY <1>1, <1>2, PTL DEF Spec, M!Spec

-----------------------------------------------------------------------------
(***************************************************************************)
(* What is proved of the components                                        *)
(***************************************************************************)

SP == INSTANCE SchedulerLockProofs WITH LoadPriority <- MainPriority

MP == INSTANCE PagingProofs WITH Pids <- Procs, Growers <- {}, MaxGrowth <- 0

(* The modules with the proofs extend the modules of the components, so    *)
(* what S and SP, or M and MP, call alike is the same; the provers see it   *)
(* once it is expanded.                                                    *)
LEMMA SameQueues ==
  /\ \A q : S!ToSet(q) = SP!ToSet(q)
  /\ \A T : S!SetToSeqs(T) = SP!SetToSeqs(T)
  /\ \A q, T : S!Without(q, T) = SP!Without(q, T)
  /\ \A q, T : S!Only(q, T) = SP!Only(q, T)
  /\ \A q, p, prio : S!Enqueue(q, p, prio) = SP!Enqueue(q, p, prio)
  /\ \A q, ps, prio : S!EnqueueAll(q, ps, prio) = SP!EnqueueAll(q, ps, prio)
  /\ \A q, prio : S!ByPriority(q, prio) = SP!ByPriority(q, prio)
  /\ S!Queued = SP!Queued
BY DEF S!ToSet, SP!ToSet, S!SetToSeqs, SP!SetToSeqs, S!Cardinality, SP!Cardinality,
       S!IsFiniteSet, SP!IsFiniteSet, S!Without, SP!Without, S!Only, SP!Only,
       S!Enqueue, SP!Enqueue, S!EnqueueAll, SP!EnqueueAll, S!ByPriority, SP!ByPriority,
       S!InsertAt, SP!InsertAt, S!Min, SP!Min, S!Queued, SP!Queued

LEMMA SameHandOver ==
  /\ \A l, prio : S!Heir(l, prio) = SP!Heir(l, prio)
  /\ \A T, p, prio : S!HandOver(T, p, prio) <=> SP!HandOver(T, p, prio)
<1>1. \A l, prio : S!Heir(l, prio) = SP!Heir(l, prio)
  BY SameQueues DEF S!Heir, SP!Heir
<1>2. \A l, prio : /\ S!NewOwner(l, prio) = SP!NewOwner(l, prio)
                   /\ S!StillWaiting(l, prio) = SP!StillWaiting(l, prio)
  BY <1>1, SameQueues DEF S!NewOwner, SP!NewOwner, S!StillWaiting, SP!StillWaiting
<1>. QED
  BY <1>1, <1>2 DEF S!HandOver, SP!HandOver

LEMMA SameEndSlice ==
  \A rq, sq, st : S!EndSlice(rq, sq, st) <=> SP!EndSlice(rq, sq, st)
BY DEF S!EndSlice, SP!EndSlice, S!CountDown, SP!CountDown, S!ToSet, SP!ToSet, S!Without, SP!Without,
       S!EnqueueAll, SP!EnqueueAll, S!Enqueue, SP!Enqueue, S!Only, SP!Only, S!Queued, SP!Queued,
       S!InsertAt, SP!InsertAt, S!Min, SP!Min, S!prioVars, SP!prioVars

LEMMA SameSteps == \A p : S!Step(p) <=> SP!Step(p)
<1>1. \A p, i : S!Fetch(p, i) <=> SP!Fetch(p, i)
  BY DEF S!Fetch, SP!Fetch
<1>2. \A p, reason : S!Retire(p, reason) <=> SP!Retire(p, reason)
  BY DEF S!Retire, SP!Retire
<1>3. \A p, i, reason : S!Block(p, i, reason) <=> SP!Block(p, i, reason)
  BY DEF S!Block, SP!Block, S!SavedTicks, SP!SavedTicks
<1>4. \A p, i : /\ S!Compute(p, i) <=> SP!Compute(p, i)
                /\ S!SetPriority(p, i) <=> SP!SetPriority(p, i)
                /\ S!Sleep(p, i) <=> SP!Sleep(p, i)
                /\ S!Leave(p, i) <=> SP!Leave(p, i)
                /\ S!Crash(p, i) <=> SP!Crash(p, i)
  BY <1>1, <1>2 DEF
     S!Compute, SP!Compute, S!SetPriority, SP!SetPriority, S!Clamp, SP!Clamp, S!Sleep, SP!Sleep,
     S!Leave, SP!Leave, S!Crash, SP!Crash, S!prioVars, SP!prioVars, S!sleepVars, SP!sleepVars,
     S!lockVars, SP!lockVars, S!eventVars, SP!eventVars
<1>5. \A p, i : /\ S!AcquireAvailable(p, i) <=> SP!AcquireAvailable(p, i)
                /\ S!AcquireBusy(p, i) <=> SP!AcquireBusy(p, i)
  <2>1. \A rq, p, prio : S!Boosted(rq, p, prio) = SP!Boosted(rq, p, prio)
    BY SameQueues DEF S!Boosted, SP!Boosted
  <2>. QED
    BY <1>1, <1>2, <1>3, <2>1 DEF S!AcquireAvailable, SP!AcquireAvailable, S!AcquireBusy,
       SP!AcquireBusy, S!prioVars, SP!prioVars, S!sleepVars, SP!sleepVars, S!eventVars, SP!eventVars
<1>6. \A p, i : /\ S!Release(p, i) <=> SP!Release(p, i)
                /\ S!ReleaseNotOwner(p, i) <=> SP!ReleaseNotOwner(p, i)
  BY <1>1, <1>2, SameQueues, SameHandOver DEF
     S!Release, SP!Release, S!ReleaseNotOwner, SP!ReleaseNotOwner, S!Restores, SP!Restores,
     S!prioVars, SP!prioVars, S!sleepVars, SP!sleepVars, S!lockVars, SP!lockVars,
     S!eventVars, SP!eventVars
<1>7. \A p, i : /\ S!Signal(p, i) <=> SP!Signal(p, i)
                /\ S!WaitSignaled(p, i) <=> SP!WaitSignaled(p, i)
                /\ S!WaitBlock(p, i) <=> SP!WaitBlock(p, i)
  <2>1. \A p, i : S!Signal(p, i) <=> SP!Signal(p, i)
    BY <1>1, <1>2, <1>3, SameQueues DEF
       S!Signal, SP!Signal, S!prioVars, SP!prioVars, S!sleepVars, SP!sleepVars,
       S!lockVars, SP!lockVars
  <2>2. \A p, i : S!WaitSignaled(p, i) <=> SP!WaitSignaled(p, i)
    BY <1>1, <1>2, <1>3, SameQueues DEF
       S!WaitSignaled, SP!WaitSignaled, S!prioVars, SP!prioVars, S!sleepVars, SP!sleepVars,
       S!lockVars, SP!lockVars
  <2>3. \A p, i : S!WaitBlock(p, i) <=> SP!WaitBlock(p, i)
    BY <1>1, <1>2, <1>3, SameQueues DEF
       S!WaitBlock, SP!WaitBlock, S!prioVars, SP!prioVars, S!sleepVars, SP!sleepVars,
       S!lockVars, SP!lockVars
  <2>. QED  BY <2>1, <2>2, <2>3
<1>8. \A p, i : /\ S!Terminate(p, i) <=> SP!Terminate(p, i)
                /\ S!TerminateNothing(p, i) <=> SP!TerminateNothing(p, i)
  <2>1. \A p, i : S!Terminate(p, i) <=> SP!Terminate(p, i)
    BY <1>1, <1>2, SameQueues DEF
       S!Terminate, SP!Terminate, S!prioVars, SP!prioVars, S!sleepVars, SP!sleepVars,
       S!lockVars, SP!lockVars, S!eventVars, SP!eventVars
  <2>2. \A p, i : S!TerminateNothing(p, i) <=> SP!TerminateNothing(p, i)
    BY <1>1, <1>2, SameQueues DEF
       S!TerminateNothing, SP!TerminateNothing, S!prioVars, SP!prioVars, S!sleepVars, SP!sleepVars,
       S!lockVars, SP!lockVars, S!eventVars, SP!eventVars
  <2>. QED  BY <2>1, <2>2
<1>. QED
  BY <1>4, <1>5, <1>6, <1>7, <1>8 DEF S!Step, SP!Step

LEMMA SameScheduler ==
  /\ S!Init <=> SP!Init
  /\ S!Next <=> SP!Next
  /\ (S!Dispatch <=> SP!Dispatch) /\ (S!SwitchOut <=> SP!SwitchOut)
  /\ \A p : S!SwitchOutDead(p) <=> SP!SwitchOutDead(p)
<1>1. S!Init <=> SP!Init
  BY SameQueues DEF S!Init, SP!Init, S!Clamp, SP!Clamp, S!Quantum, SP!Quantum
<1>2. S!Dispatch <=> SP!Dispatch
  BY DEF S!Dispatch, SP!Dispatch, S!prioVars, SP!prioVars, S!sleepVars, SP!sleepVars,
         S!lockVars, SP!lockVars, S!eventVars, SP!eventVars
<1>3. S!NothingReady <=> SP!NothingReady
  BY DEF S!NothingReady, SP!NothingReady, S!prioVars, SP!prioVars, S!sleepVars, SP!sleepVars,
         S!lockVars, SP!lockVars, S!eventVars, SP!eventVars
<1>4. S!Halted <=> SP!Halted
  BY DEF S!Halted, SP!Halted, S!vars, SP!vars, S!loopVars, SP!loopVars, S!prioVars, SP!prioVars,
         S!sleepVars, SP!sleepVars, S!lockVars, SP!lockVars, S!eventVars, SP!eventVars
<1>5. \A p : /\ S!SwitchOutQuantum(p) <=> SP!SwitchOutQuantum(p)
             /\ S!SwitchOutSleep(p) <=> SP!SwitchOutSleep(p)
  BY SameQueues, SameEndSlice DEF S!SwitchOutQuantum, SP!SwitchOutQuantum, S!SwitchOutSleep,
     SP!SwitchOutSleep, S!Quantum, SP!Quantum, S!SavedTicks, SP!SavedTicks,
     S!lockVars, SP!lockVars, S!eventVars, SP!eventVars
<1>6. S!SwitchOutBlocked <=> SP!SwitchOutBlocked
  BY SameEndSlice DEF S!SwitchOutBlocked, SP!SwitchOutBlocked, S!lockVars, SP!lockVars,
     S!eventVars, SP!eventVars
<1>7. \A p : S!SwitchOutDead(p) <=> SP!SwitchOutDead(p)
  <2>. TAKE p
  <2>. DEFINE rest == /\ phase = "run" /\ running = p
                      /\ switchReason \in {"exit", "error"}
                      /\ ticks' = [ticks EXCEPT ![p] = cpuTicks]
                      /\ terminated' = terminated \cup {p}
                      /\ UNCHANGED <<signaled, eventWait>>
              passedOn == {l \in locksHeld[p] : lockWait[l] # << >>}
              heirsS(order) == [n \in DOMAIN order |-> S!Heir(order[n], priority)]
              heirsP(order) == [n \in DOMAIN order |-> SP!Heir(order[n], priority)]
              left(hs) == [q \in Procs |-> IF q = p THEN "TERMINATED"
                                            ELSE IF q \in hs THEN "READY" ELSE state[q]]
  <2>1. S!SwitchOutDead(p) <=>
          /\ rest /\ S!HandOver(locksHeld[p], p, priority)
          /\ \E order \in S!SetToSeqs(passedOn) :
               S!EndSlice(S!EnqueueAll(ready, heirsS(order), priority), sleepQueue,
                          left(S!ToSet(heirsS(order))))
    BY DEF S!SwitchOutDead, S!SavedTicks, S!eventVars
  <2>2. SP!SwitchOutDead(p) <=>
          /\ rest /\ SP!HandOver(locksHeld[p], p, priority)
          /\ \E order \in SP!SetToSeqs(passedOn) :
               SP!EndSlice(SP!EnqueueAll(ready, heirsP(order), priority), sleepQueue,
                           left(SP!ToSet(heirsP(order))))
    BY DEF SP!SwitchOutDead, SP!SavedTicks, SP!eventVars
  <2>3. \A order : heirsS(order) = heirsP(order)
    BY SameHandOver
  <2>. HIDE DEF rest, passedOn, heirsS, heirsP, left
  <2>. QED
    BY <2>1, <2>2, <2>3, SameQueues, SameHandOver, SameEndSlice
<1>. QED
  BY <1>1, <1>2, <1>3, <1>4, <1>5, <1>6, <1>7, SameSteps
     DEF S!Next, SP!Next, S!SwitchOut, SP!SwitchOut

LEMMA SameFrames ==
  /\ M!SharedTotal = MP!SharedTotal /\ M!FirstShared = MP!FirstShared
  /\ M!Frames = MP!Frames /\ M!PrivateFrames = MP!PrivateFrames
  /\ M!SharedFrames = MP!SharedFrames /\ M!RegionStart = MP!RegionStart
  /\ M!Swapped = MP!Swapped /\ M!Unused = MP!Unused /\ M!Evicted = MP!Evicted
  /\ \A p, vp : M!Holding(p, vp) = MP!Holding(p, vp)
BY DEF M!SharedTotal, MP!SharedTotal, M!FirstShared, MP!FirstShared, M!Frames, MP!Frames,
       M!PrivateFrames, MP!PrivateFrames, M!SharedFrames, MP!SharedFrames,
       M!RegionStart, MP!RegionStart, M!Min, MP!Min, M!Swapped, MP!Swapped,
       M!Unused, MP!Unused, M!Evicted, MP!Evicted, M!Holding, MP!Holding

LEMMA SameSequences ==
  /\ \A q, T : M!Without(q, T) = MP!Without(q, T)
  /\ \A q, T : M!Only(q, T) = MP!Only(q, T)
  /\ \A q : M!ToSet(q) = MP!ToSet(q) /\ M!Last(q) = MP!Last(q) /\ M!Front(q) = MP!Front(q)
  /\ \A T : M!SetToSeqs(T) = MP!SetToSeqs(T) /\ M!Max(T) = MP!Max(T)
  /\ \A f, g : M!Over(f, g) = MP!Over(f, g)
BY DEF M!Without, MP!Without, M!Only, MP!Only, M!ToSet, MP!ToSet, M!Last, MP!Last,
       M!Front, MP!Front, M!SetToSeqs, MP!SetToSeqs, M!Cardinality, MP!Cardinality, M!Max, MP!Max,
       M!IsFiniteSet, MP!IsFiniteSet, M!Over, MP!Over

LEMMA SameSwapFile ==
  /\ M!EmptySwap = MP!EmptySwap
  /\ \A s, key : M!HasPage(s, key) <=> MP!HasPage(s, key)
  /\ \A s, key : M!ReadPage(s, key) = MP!ReadPage(s, key)
  /\ \A s, key, d : M!WritePage(s, key, d) = MP!WritePage(s, key, d)
  /\ \A s, p : M!KeysOf(s, p) = MP!KeysOf(s, p)
  /\ \A s, p, keys : M!RemoveAllFor(s, p, keys) = MP!RemoveAllFor(s, p, keys)
BY DEF M!EmptySwap, MP!EmptySwap, M!HasPage, MP!HasPage, M!ReadPage, MP!ReadPage, M!WritePage, MP!WritePage,
   M!KeysOf, MP!KeysOf, M!RemoveAllFor, MP!RemoveAllFor, M!SlotFor, MP!SlotFor, M!ToSet, MP!ToSet,
   M!Last, MP!Last, M!Front, MP!Front, M!Over, MP!Over, M!Restrict, MP!Restrict

LEMMA SameEviction ==
  /\ M!Evictable = MP!Evictable /\ M!Available = MP!Available
  /\ \A n : M!Taken(n) = MP!Taken(n) /\ M!Victims(n) = MP!Victims(n) /\ M!StillFree(n) = MP!StillFree(n)
  /\ \A vs : M!Evict(vs) = MP!Evict(vs) /\ M!InfoWithout(vs) = MP!InfoWithout(vs)
<1>1. M!Evictable = MP!Evictable
  BY SameFrames DEF M!Evictable, MP!Evictable
<1>2. M!Available = MP!Available
  BY <1>1, SameSequences DEF M!Available, MP!Available
<1>3. \A n : M!Taken(n) = MP!Taken(n) /\ M!Victims(n) = MP!Victims(n) /\ M!StillFree(n) = MP!StillFree(n)
  BY <1>2 DEF M!Taken, MP!Taken, M!Victims, MP!Victims, M!StillFree, MP!StillFree
<1>4. \A m, f : M!EvictPage(m, f) = MP!EvictPage(m, f)
  <2>1. \A s, f : M!SwapOut(s, f) = MP!SwapOut(s, f)
    BY SameSwapFile DEF M!SwapOut, MP!SwapOut, M!NeedsWriting, MP!NeedsWriting
  <2>. QED  BY <2>1, SameFrames DEF M!EvictPage, MP!EvictPage
<1>5. \A vs : M!Evict(vs) = MP!Evict(vs)
  BY <1>4 DEF M!Evict, MP!Evict
<1>6. \A vs : M!InfoWithout(vs) = MP!InfoWithout(vs)
  BY SameFrames, SameSequences DEF M!InfoWithout, MP!InfoWithout
<1>. QED  BY <1>1, <1>2, <1>3, <1>5, <1>6

LEMMA SameAccesses ==
  \A p, vp : /\ M!Read(p, vp) <=> MP!Read(p, vp)
             /\ M!Returned(p, vp) = MP!Returned(p, vp)
             /\ \A d : M!Write(p, vp, d) <=> MP!Write(p, vp, d)
<1>1. \A p, vp : M!Present(p, vp) <=> MP!Present(p, vp)
  BY SameFrames DEF M!Present, MP!Present
<1>2. \A p, vp : M!Translated(p, vp) = MP!Translated(p, vp)
  <2>1. \A s, key, f : M!SwappedIn(s, key, f) = MP!SwappedIn(s, key, f)
    BY SameSwapFile DEF M!SwappedIn, MP!SwappedIn
  <2>2. \A p, vp : M!FaultedIn(p, vp) = MP!FaultedIn(p, vp)
    BY <2>1, SameFrames, SameEviction DEF M!FaultedIn, MP!FaultedIn
  <2>. QED  BY <1>1, <2>2 DEF M!Translated, MP!Translated
<1>3. \A p, vp, t : M!Access(p, vp, t) <=> MP!Access(p, vp, t)
  <2>1. \A f : M!Touch(f) = MP!Touch(f)
    BY SameFrames, SameSequences DEF M!Touch, MP!Touch
  <2>. QED  BY <1>1, <2>1, SameEviction DEF M!Access, MP!Access
<1>4. \A p, vp : M!Read(p, vp) <=> MP!Read(p, vp)
  BY <1>2, <1>3 DEF M!Read, MP!Read
<1>5. \A p, vp, d : M!Write(p, vp, d) <=> MP!Write(p, vp, d)
  <2>1. \A i, f : M!Dirtied(i, f) = MP!Dirtied(i, f)
    BY SameFrames DEF M!Dirtied, MP!Dirtied
  <2>2. \A w, p : M!Writable(w, p) = MP!Writable(w, p)
    BY SameFrames DEF M!Writable, MP!Writable
  <2>. QED  BY <1>2, <1>3, <2>1, <2>2 DEF M!Write, MP!Write
<1>6. \A p, vp : M!Returned(p, vp) = MP!Returned(p, vp)
  BY <1>2 DEF M!Returned, MP!Returned
<1>. QED  BY <1>4, <1>5, <1>6

LEMMA SameMemory ==
  /\ M!vars = MP!vars
  /\ M!Init <=> MP!Init
  /\ M!Next <=> MP!Next
  /\ \A p : /\ M!Load(p) <=> MP!Load(p)
            /\ M!LoadFails(p) <=> MP!LoadFails(p)
            /\ M!Exit(p) <=> MP!Exit(p)
            /\ M!OwnPages(p) = MP!OwnPages(p)
            /\ \A r : /\ M!MapShared(p, r) <=> MP!MapShared(p, r)
                      /\ M!RegionPages(p, r) = MP!RegionPages(p, r)
            /\ \A vp : M!Content(p, vp) = MP!Content(p, vp)
<1>1. M!vars = MP!vars
  BY DEF M!vars, MP!vars, M!processVars, MP!processVars
<1>2. M!Init <=> MP!Init
  BY SameFrames, SameSwapFile, SameSequences DEF M!Init, MP!Init
<1>3. \A p : M!Exit(p) <=> MP!Exit(p)
  BY SameFrames, SameSwapFile, SameSequences DEF M!Exit, MP!Exit
<1>4. \A p : M!OwnPages(p) = MP!OwnPages(p)
  BY SameFrames DEF M!OwnPages, MP!OwnPages
<1>5. \A p, r : /\ M!RegionPages(p, r) = MP!RegionPages(p, r)
                /\ M!MapShared(p, r) <=> MP!MapShared(p, r)
  <2>1. \A p : M!NextVPage(p) = MP!NextVPage(p)
    BY SameSequences DEF M!NextVPage, MP!NextVPage
  <2>2. \A p, r : M!RegionPages(p, r) = MP!RegionPages(p, r)
    BY <2>1, SameFrames DEF M!RegionPages, MP!RegionPages
  <2>. QED  BY <2>2, SameSequences DEF M!MapShared, MP!MapShared
<1>6. \A p, vp : M!Content(p, vp) = MP!Content(p, vp)
  BY SameFrames, SameSwapFile DEF M!Content, MP!Content, M!SwappedIn, MP!SwappedIn
<1>7. \A n : M!AllocationFails(n) <=> MP!AllocationFails(n)
  BY SameSequences, SameEviction DEF M!AllocationFails, MP!AllocationFails, M!AfterFailure, MP!AfterFailure
<1>8. \A p : M!Load(p) <=> MP!Load(p)
  <2>. TAKE p
  <2>. DEFINE n == Size[p]
              page(F, q) == [f \in F |-> (CHOOSE i \in DOMAIN q : q[i] = f) - 1]
              infoM(F, q) == [f \in M!PrivateFrames |->
                                IF f \in F THEN M!Holding(p, page(F, q)[f]) ELSE info[f]]
              infoMP(F, q) == [f \in MP!PrivateFrames |->
                                IF f \in F THEN MP!Holding(p, page(F, q)[f]) ELSE info[f]]
              filled(F, q, P) == [f \in P |-> IF f \in F /\ page(F, q)[f] \in DOMAIN Image[p]
                                               THEN Image[p][page(F, q)[f]] ELSE memory[f]]
              load(q, out, F, newInfo, others, free, content, avail) ==
                /\ proc[p] = "new" /\ n <= Len(avail)
                /\ proc' = [proc EXCEPT ![p] = "live"]
                /\ table' = [out.table EXCEPT ![p] = [vp \in 0..(n - 1) |-> q[vp + 1]]]
                /\ working' = [out.working EXCEPT ![p] = F]
                /\ heapPage' = [heapPage EXCEPT ![p] = n - 1]
                /\ info' = newInfo /\ recent' = others \o q /\ freePages' = free
                /\ memory' = content /\ swap' = out.swap
  <2>1. M!Load(p) <=> LET q == M!Taken(n)
                          F == M!ToSet(q)
                      IN  load(q, M!Evict(M!Victims(n)), F, infoM(F, q), M!Without(recent, F),
                               M!StillFree(n), filled(F, q, M!Frames), M!Available)
    BY DEF M!Load
  <2>2. MP!Load(p) <=> LET q == MP!Taken(n)
                           F == MP!ToSet(q)
                       IN  load(q, MP!Evict(MP!Victims(n)), F, infoMP(F, q), MP!Without(recent, F),
                                MP!StillFree(n), filled(F, q, MP!Frames), MP!Available)
    BY DEF MP!Load
  <2>3. \A F, q : infoM(F, q) = infoMP(F, q)
    BY SameFrames
  <2>. HIDE DEF load, infoM, infoMP, filled
  <2>. QED
    BY <2>1, <2>2, <2>3, SameFrames, SameSequences, SameEviction
<1>9. \A p : M!LoadFails(p) <=> MP!LoadFails(p)
  BY <1>7 DEF M!LoadFails, MP!LoadFails
<1>10. M!Next <=> MP!Next
  BY <1>3, <1>5, <1>8, <1>9, SameAccesses, SameFrames DEF M!Next, MP!Next
<1>. QED  BY <1>1, <1>2, <1>3, <1>4, <1>5, <1>6, <1>8, <1>9, <1>10

(* Which processes are loaded, and in what order. *)
LEMMA Loading ==
  /\ LoadOrder \in Seq(Procs) /\ Len(LoadOrder) = Len(Files) + 1
  /\ LoadOrder[1] = Idle /\ \A i \in DOMAIN Files : LoadOrder[i + 1] = Files[i]
  /\ \A i, j \in DOMAIN LoadOrder : LoadOrder[i] = LoadOrder[j] => i = j
  /\ \A p \in Procs : \E i \in DOMAIN LoadOrder : LoadOrder[i] = p
  /\ \A i \in DOMAIN Files : Files[i] \in Procs /\ Files[i] # Idle /\ Position(Files[i]) = i
  /\ \A p \in Procs : p = Idle \/ \E i \in DOMAIN Files : Files[i] = p
<1>1. Files \in Seq(Users) /\ DOMAIN Files = 1..Len(Files) /\ Len(Files) \in Nat
  BY LoadAssumption
<1>2. /\ Len(LoadOrder) = Len(Files) + 1 /\ DOMAIN LoadOrder = 1..(Len(Files) + 1)
      /\ LoadOrder[1] = Idle /\ \A i \in DOMAIN Files : LoadOrder[i + 1] = Files[i]
      /\ \A n \in 2..(Len(Files) + 1) : LoadOrder[n] = Files[n - 1]
  <2>1. <<Idle>> \in Seq({Idle} \cup Users) /\ Files \in Seq({Idle} \cup Users)
    BY <1>1
  <2>. QED  BY <1>1, <2>1 DEF LoadOrder
<1>3. \A n \in DOMAIN LoadOrder : LoadOrder[n] \in Procs
  BY DEF Procs, ToSet
<1>4. LoadOrder \in Seq(Procs)
  <2>1. <<Idle>> \in Seq({Idle} \cup Users) /\ Files \in Seq({Idle} \cup Users)
    BY <1>1
  <2>2. LoadOrder \in Seq({Idle} \cup Users)
    BY <2>1 DEF LoadOrder
  <2>. QED  BY <1>3, <2>2
<1>5. \A p \in Procs : \E i \in DOMAIN LoadOrder : LoadOrder[i] = p
  BY DEF Procs, ToSet
<1>6. \A i \in DOMAIN Files : Files[i] \in Procs /\ Files[i] # Idle
  <2>. SUFFICES ASSUME NEW i \in DOMAIN Files  PROVE Files[i] \in Procs /\ Files[i] # Idle
    OBVIOUS
  <2>1. i + 1 \in DOMAIN LoadOrder /\ LoadOrder[i + 1] = Files[i]
    BY <1>1, <1>2
  <2>2. Files[i] \in Users
    BY DEF Users, ToSet
  <2>. QED  BY <1>3, <2>1, <2>2, LoadAssumption
<1>7. \A i, j \in DOMAIN LoadOrder : LoadOrder[i] = LoadOrder[j] => i = j
  <2>. SUFFICES ASSUME NEW i \in DOMAIN LoadOrder, NEW j \in DOMAIN LoadOrder,
                       LoadOrder[i] = LoadOrder[j], i # j
                PROVE  FALSE
    OBVIOUS
  <2>1. /\ i \in 1..(Len(Files) + 1) /\ j \in 1..(Len(Files) + 1)
        /\ i # 1 => i - 1 \in DOMAIN Files /\ LoadOrder[i] = Files[i - 1]
        /\ j # 1 => j - 1 \in DOMAIN Files /\ LoadOrder[j] = Files[j - 1]
    BY <1>1, <1>2
  <2>2. i # 1 /\ j # 1
    BY <1>2, <1>6, <2>1
  <2>3. i - 1 = j - 1
    BY <2>1, <2>2, LoadAssumption
  <2>. QED  BY <2>1, <2>3
<1>8. \A i \in DOMAIN Files : Position(Files[i]) = i
  BY LoadAssumption DEF Position
<1>9. \A p \in Procs : p = Idle \/ \E i \in DOMAIN Files : Files[i] = p
  <2>. SUFFICES ASSUME NEW p \in Procs, p # Idle  PROVE \E i \in DOMAIN Files : Files[i] = p
    OBVIOUS
  <2>1. PICK n \in DOMAIN LoadOrder : LoadOrder[n] = p
    BY <1>5
  <2>2. n # 1 /\ n \in 1..(Len(Files) + 1)
    BY <1>2, <2>1
  <2>3. n - 1 \in DOMAIN Files /\ Files[n - 1] = p
    BY <1>1, <1>2, <2>1, <2>2
  <2>. QED  BY <2>3
<1>. QED
  BY <1>2, <1>4, <1>5, <1>6, <1>7, <1>8, <1>9

LEMMA MinMax ==
  ASSUME NEW a \in Int, NEW b \in Int
  PROVE  Min({a, b}) = (IF a <= b THEN a ELSE b) /\ Max({a, b}) = (IF a <= b THEN b ELSE a)
BY DEF Min, Max

(* The priorities main() gives are in range and descend in the order of    *)
(* the files.                                                              *)
LEMMA PrioritiesDescend ==
  /\ MainPriority \in [Procs -> 0..MaxPriority] /\ MainPriority[Idle] = 0
  /\ \A i \in DOMAIN Files : MainPriority[Files[i]] >= 1
  /\ \A i, j \in DOMAIN Files : i < j => MainPriority[Files[i]] >= MainPriority[Files[j]]
<1>. DEFINE base == Min({MaxPriority, Len(Files) + 1})
            given(i) == Max({1, base - (i - 1)})
<1>1. /\ Len(Files) \in Nat /\ DOMAIN Files = 1..Len(Files) /\ MaxPriority \in Nat \ {0}
      /\ Idle \in Procs
  <2>1. Idle \in Procs
    BY Loading
  <2>. QED  BY <2>1, LoadAssumption
<1>2. base \in 1..MaxPriority
  <2>1. Len(Files) + 1 \in Int /\ MaxPriority \in Int
    BY <1>1
  <2>. QED  BY <1>1, <2>1, MinMax
<1>. HIDE DEF base
<1>3. \A i \in DOMAIN Files :
        given(i) \in 1..MaxPriority
          /\ given(i) = (IF 1 <= base - (i - 1) THEN base - (i - 1) ELSE 1)
  <2>. SUFFICES ASSUME NEW i \in DOMAIN Files
                PROVE  given(i) \in 1..MaxPriority
                         /\ given(i) = (IF 1 <= base - (i - 1) THEN base - (i - 1) ELSE 1)
    OBVIOUS
  <2>1. base - (i - 1) \in Int /\ base - (i - 1) <= MaxPriority
    BY <1>1, <1>2
  <2>2. given(i) = (IF 1 <= base - (i - 1) THEN base - (i - 1) ELSE 1)
    <3>1. \A b \in Int : Max({1, b}) = IF 1 <= b THEN b ELSE 1
      BY MinMax
    <3>. QED  BY <2>1, <3>1
  <2>. HIDE DEF given
  <2>. QED  BY <1>1, <2>1, <2>2
<1>4. MainPriority = [p \in Procs |-> IF p = Idle THEN 0 ELSE given(Position(p))]
  BY DEF MainPriority, base
<1>. HIDE DEF given
<1>5. \A i \in DOMAIN Files : MainPriority[Files[i]] = given(i)
  BY <1>4, Loading
<1>6. \A i, j \in DOMAIN Files : i < j => given(i) >= given(j)
  BY <1>1, <1>2, <1>3
<1>7. \A p \in Procs : MainPriority[p] \in 0..MaxPriority
  <2>. SUFFICES ASSUME NEW p \in Procs  PROVE MainPriority[p] \in 0..MaxPriority
    OBVIOUS
  <2>1. CASE p = Idle
    BY <1>1, <1>4, <2>1
  <2>2. CASE \E i \in DOMAIN Files : Files[i] = p
    BY <1>1, <1>3, <1>5, <2>2
  <2>. QED  BY <2>1, <2>2, Loading
<1>8. \A i \in DOMAIN Files : given(i) \in Int /\ given(i) >= 1
  BY <1>3
<1>. QED
  BY <1>1, <1>4, <1>5, <1>6, <1>7, <1>8

(* The assumptions of the scheduler, the first two because of how main()   *)
(* loads the programs, and those of the memory manager.                    *)
LEMMA SchedulerAssumptions ==
  /\ SP!ProcsAssumption /\ SP!PriorityAssumption
  /\ SP!QuantumAssumption /\ SP!ProgramAssumption /\ SP!LocksAssumption
<1>1. SP!ProcsAssumption
  BY Loading, LoadAssumption DEF SP!ProcsAssumption
<1>2. SP!PriorityAssumption
  <2>1. MainPriority \in [Procs -> Int]
    BY PrioritiesDescend
  <2>. QED  BY <2>1, LoadAssumption DEF SP!PriorityAssumption
<1>3. SP!QuantumAssumption /\ SP!LocksAssumption
  BY ComponentAssumption DEF S!QuantumAssumption, SP!QuantumAssumption,
     S!LocksAssumption, SP!LocksAssumption, S!IsFiniteSet, SP!IsFiniteSet
<1>4. SP!ProgramAssumption
  BY ComponentAssumption DEF S!ProgramAssumption, SP!ProgramAssumption, S!Ops, SP!Ops
<1>. QED
  BY <1>1, <1>2, <1>3, <1>4

LEMMA MemoryAssumptions == MP!SizesAssumption /\ MP!DataAssumption
BY ComponentAssumption DEF M!SizesAssumption, MP!SizesAssumption, M!DataAssumption, MP!DataAssumption

Scheduled == SP!TypeOK /\ SP!QueueInv /\ SP!LockTablesAgree

Managed == MP!MemInv /\ MP!Exact /\ MP!OwnersValid

LEMMA UntouchedTwins ==
  /\ UNCHANGED S!vars <=> UNCHANGED SP!vars
  /\ UNCHANGED M!vars <=> UNCHANGED MP!vars
BY DEF S!vars, S!loopVars, S!prioVars, S!sleepVars, S!lockVars, S!eventVars, SP!vars, SP!loopVars,
       SP!prioVars, SP!sleepVars, SP!lockVars, SP!eventVars, M!vars, M!processVars, MP!vars, MP!processVars

LEMMA TheTwinsRun == Spec => SP!Spec /\ MP!Spec
<1>1. S!Init => SP!Init
  BY SameScheduler
<1>2. [S!Next]_S!vars => [SP!Next]_SP!vars
  BY SameScheduler, UntouchedTwins
<1>3. M!Init => MP!Init
  BY SameMemory
<1>4. [M!Next]_M!vars => [MP!Next]_MP!vars
  BY SameMemory, UntouchedTwins
<1>. QED
  BY <1>1, <1>2, <1>3, <1>4, KernelSchedules, KernelManagesMemory, PTL
     DEF S!Spec, SP!Spec, M!Spec, MP!Spec

LEMMA ComponentsHold == Spec => [](Scheduled /\ Managed)
<1>3. SP!Spec => []SP!TypeOK
  BY SchedulerAssumptions, SP!TypeCorrect
<1>4. SP!Spec => []SP!QueueInv
  BY SchedulerAssumptions, SP!QueuesStayFiled
<1>5. SP!Spec => []SP!LockTablesAgree
  BY SchedulerAssumptions, SP!LockTablesAlwaysAgree
<1>6. MP!Spec => [](MP!MemInv /\ MP!Exact)
  BY MemoryAssumptions, MP!RegistrationIsExact
<1>7. MP!Spec => []MP!OwnersValid
  BY MemoryAssumptions, MP!OwnersAreValid
<1>. QED
  BY <1>3, <1>4, <1>5, <1>6, <1>7, TheTwinsRun, PTL DEF Scheduled, Managed

-----------------------------------------------------------------------------
(***************************************************************************)
(* The life of a process                                                   *)
(***************************************************************************)

(* Before run() nothing has ended and after it everything is loaded; what  *)
(* has ended by itself is gone, and what has not was terminated.           *)
Lifecycle ==
  /\ stage \in {"boot", "run"}
  /\ stage = "run" => \A p \in Procs : proc[p] # "new"
  /\ stage = "boot" => \A p \in Procs : proc[p] # "gone"
  /\ \A p \in Procs : proc[p] = "gone" => SP!Gone(p)
  /\ \A p \in Procs : state[p] = "TERMINATED" => p \in killed \/ proc[p] = "gone"

LEMMA TypesOfBoth ==
  ASSUME Scheduled, Managed
  PROVE  /\ state \in [Procs -> S!States] /\ proc \in [Procs -> {"new", "live", "gone"}]
         /\ running \in Procs \cup {None}
BY DEF Scheduled, Managed, SP!TypeOK, MP!MemInv, MP!Typed, MP!TypeOK, S!States, SP!States

LEMMA OneStepOfTheScheduler ==
  ASSUME Scheduled, [Next]_vars
  PROVE  /\ [SP!Next]_SP!vars
         /\ \A p \in Procs : SP!Gone(p) => SP!Gone(p)'
<1>1. [SP!Next]_SP!vars
  BY StepSchedules, UntouchedScheduler, SameScheduler, UntouchedTwins DEF vars
<1>. QED
  BY <1>1, SchedulerAssumptions, SP!TheGoneStayGone DEF Scheduled

(* What the end of a slice leaves terminated was terminated before.        *)
LEMMA SlicesEndNobody ==
  ASSUME Scheduled, Managed, NEW rq, NEW sq, NEW st, S!EndSlice(rq, sq, st)
  PROVE  \A p \in Procs : state'[p] = "TERMINATED" => st[p] = "TERMINATED"
BY DEF S!EndSlice

LEMMA NextKeepsLifecycle ==
  ASSUME Scheduled, Managed, Lifecycle, [Next]_vars
  PROVE  Lifecycle'
<1>1. /\ state \in [Procs -> S!States] /\ proc \in [Procs -> {"new", "live", "gone"}]
  BY TypesOfBoth
<1>2. \A p \in Procs : SP!Gone(p) => SP!Gone(p)'
  BY OneStepOfTheScheduler
<1>3. ASSUME proc' = proc, stage' = stage, killed \subseteq killed',
             \A p \in Procs : state'[p] = "TERMINATED" => state[p] = "TERMINATED" \/ p \in killed'
      PROVE  Lifecycle'
  BY <1>2, <1>3 DEF Lifecycle
<1>4. CASE Boot
  <2>1. PICK n \in DOMAIN LoadOrder :
          /\ \A j \in 1..(n - 1) : proc[LoadOrder[j]] # "new"
          /\ proc' = [proc EXCEPT ![LoadOrder[n]] = "live"]
          /\ stage' = IF n = Len(LoadOrder) THEN "run" ELSE "boot"
    BY <1>4 DEF Boot, M!Load
  <2>2. stage = "boot" /\ UNCHANGED <<state, killed>>
    BY <1>4 DEF Boot, schedulerVars
  <2>3. \A p \in Procs : proc'[p] = (IF p = LoadOrder[n] THEN "live" ELSE proc[p])
    BY <1>1, <2>1
  <2>4. n = Len(LoadOrder) => \A p \in Procs : proc'[p] # "new"
    <3>. SUFFICES ASSUME n = Len(LoadOrder), NEW p \in Procs  PROVE proc'[p] # "new"
      OBVIOUS
    <3>1. PICK i \in DOMAIN LoadOrder : LoadOrder[i] = p
      BY Loading
    <3>2. DOMAIN LoadOrder = 1..Len(LoadOrder) /\ Len(LoadOrder) \in Nat
      BY Loading
    <3>3. i = n \/ i \in 1..(n - 1)
      BY <3>1, <3>2
    <3>. QED  BY <2>1, <2>3, <3>1, <3>3
  <2>. QED
    BY <1>2, <2>1, <2>2, <2>3, <2>4 DEF Lifecycle
<1>5. CASE PickNext
  <2>1. \A p \in Procs : state'[p] = "TERMINATED" => state[p] = "TERMINATED"
    BY <1>1, <1>5 DEF PickNext, S!Dispatch, S!NothingReady
  <2>. QED  BY <1>3, <1>5, <2>1 DEF PickNext, memoryVars
<1>6. CASE SwitchOut
  <2>. DEFINE NobodyEnds == \A p \in Procs : state'[p] = "TERMINATED" => state[p] = "TERMINATED"
  <2>1. NobodyEnds
    <3>1. ASSUME NEW q \in Procs, S!SwitchOutQuantum(q)  PROVE NobodyEnds
      <4>1. \A p \in Procs : state'[p] = "TERMINATED" => [state EXCEPT ![q] = "READY"][p] = "TERMINATED"
        BY <3>1, SlicesEndNobody DEF S!SwitchOutQuantum
      <4>. QED  BY <1>1, <4>1
    <3>2. ASSUME NEW q \in Procs, S!SwitchOutSleep(q)  PROVE NobodyEnds
      <4>1. \A p \in Procs : state'[p] = "TERMINATED" => [state EXCEPT ![q] = "SLEEPING"][p] = "TERMINATED"
        BY <3>2, SlicesEndNobody DEF S!SwitchOutSleep
      <4>. QED  BY <1>1, <4>1
    <3>3. ASSUME S!SwitchOutBlocked  PROVE NobodyEnds
      BY <3>3, SlicesEndNobody DEF S!SwitchOutBlocked
    <3>. QED  BY <1>6, <3>1, <3>2, <3>3 DEF SwitchOut
  <2>. QED  BY <1>3, <1>6, <2>1 DEF SwitchOut, memoryVars
<1>7. CASE Halted
  BY <1>3, <1>7 DEF Halted, S!Halted, S!vars, memoryVars
<1>8. ASSUME NEW p \in Procs, Access(p)  PROVE Lifecycle'
  <2>1. UNCHANGED <<proc, state, stage, killed>>
    BY <1>8 DEF Access, M!Read, M!Write, M!Access, schedulerVars
  <2>. QED  BY <1>3, <2>1
<1>9. ASSUME NEW p \in Procs, Instruction(p)  PROVE Lifecycle'
  BY <1>3, <1>9 DEF Instruction, memoryVars
<1>10. ASSUME NEW p \in Procs, MapShared(p)  PROVE Lifecycle'
  <2>1. UNCHANGED <<proc, state, stage, killed>>
    BY <1>10 DEF MapShared, M!MapShared, S!Compute
  <2>. QED  BY <1>3, <2>1
<1>11. ASSUME NEW p \in Procs, Dies(p)  PROVE Lifecycle'
  <2>1. /\ S!SwitchOutDead(p) /\ UNCHANGED <<stage, killed>> /\ stage = "run"
        /\ proc' = [proc EXCEPT ![p] = "gone"]
    BY <1>11 DEF Dies, M!Exit
  <2>2. SP!Gone(p)'
    BY <2>1, SameScheduler, SchedulerAssumptions, SP!TheEndedAreGone DEF Scheduled
  <2>3. \A q \in Procs : proc'[q] = (IF q = p THEN "gone" ELSE proc[q])
    BY <1>1, <2>1
  <2>4. \A q \in Procs : state'[q] = "TERMINATED" => q = p \/ state[q] = "TERMINATED"
    <3>1. PICK hs : S!EndSlice(S!EnqueueAll(ready, hs, priority), sleepQueue,
                      [q \in Procs |-> IF q = p THEN "TERMINATED"
                                       ELSE IF q \in S!ToSet(hs) THEN "READY" ELSE state[q]])
      BY <2>1 DEF S!SwitchOutDead
    <3>2. \A q \in Procs : state'[q] = "TERMINATED" =>
            [x \in Procs |-> IF x = p THEN "TERMINATED"
                             ELSE IF x \in S!ToSet(hs) THEN "READY" ELSE state[x]][q] = "TERMINATED"
      BY <3>1, SlicesEndNobody
    <3>. QED  BY <3>2
  <2>. QED
    BY <1>2, <2>1, <2>2, <2>3, <2>4 DEF Lifecycle
<1>12. CASE UNCHANGED vars
  BY <1>3, <1>12 DEF vars, schedulerVars, memoryVars
<1>. QED
  BY <1>4, <1>5, <1>6, <1>7, <1>8, <1>9, <1>10, <1>11, <1>12 DEF Next

LEMMA LifecycleHolds == Spec => [](Scheduled /\ Managed /\ Lifecycle)
<1>1. Init => Lifecycle
  BY DEF Init, S!Init, M!Init, Lifecycle
<1>2. Scheduled /\ Managed /\ Lifecycle /\ [Next]_vars => Lifecycle'
  BY NextKeepsLifecycle
<1>. QED
  BY <1>1, <1>2, ComponentsHold, PTL DEF Spec

(* A process that exits or faults leaves no trace in either component:     *)
(* nothing queues it, no lock names it as owner, no frame and no slot of   *)
(* the swap file is kept for it, whatever the other processes do.          *)
THEOREM TheGoneLeaveNothing == Spec => []GoneLeaveNothing
<1>1. Scheduled /\ Managed /\ Lifecycle => GoneLeaveNothing
  <2>. SUFFICES ASSUME Scheduled, Managed, Lifecycle, stage = "run",
                       NEW p \in Procs, proc[p] # "live"
                PROVE  /\ state[p] = "TERMINATED"
                       /\ p \notin S!Queued /\ p # running
                       /\ \A l \in Locks : lockOwner[l] # p
                       /\ working[p] = {} /\ M!KeysOf(swap, p) = {}
                       /\ \A f \in M!PrivateFrames : info[f].owner # p
    BY DEF GoneLeaveNothing
  <2>1. proc[p] = "gone"
    BY TypesOfBoth DEF Lifecycle
  <2>2. state[p] = "TERMINATED" /\ p # running /\ \A l \in Locks : lockOwner[l] # p
    BY <2>1 DEF Lifecycle, SP!Gone
  <2>3. p \notin S!Queued
    BY <2>2, SameQueues, SchedulerAssumptions, SP!TheTerminatedAreNotQueued DEF Scheduled
  <2>4. /\ working[p] = {} /\ M!KeysOf(swap, p) = {}
        /\ \A f \in M!PrivateFrames : info[f].owner # p
    BY SameFrames, SameSwapFile, MemoryAssumptions, MP!NothingOfTheGone DEF Managed
  <2>. QED  BY <2>2, <2>3, <2>4
<1>. QED
  BY <1>1, LifecycleHolds, PTL

LEMMA SamePagesAfter ==
  (\A p, vp : M!OwnPages(p) = MP!OwnPages(p) /\ M!Content(p, vp) = MP!Content(p, vp))'
<1>1. \A p, vp : M!OwnPages(p) = MP!OwnPages(p) /\ M!Content(p, vp) = MP!Content(p, vp)
  BY SameMemory
<1>. QED
  BY <1>1, PTL

(* Paging is invisible to those that do not run: whatever the running       *)
(* process reads, writes, maps or gives back, and whoever's frame it takes  *)
(* for it, the others keep their pages and what these hold.                *)
THEOREM TheOthersKeepTheirPages == Spec => OthersPagesStay
<1>. DEFINE Kept(q) == /\ M!OwnPages(q)' = M!OwnPages(q)
                       /\ \A vp \in M!OwnPages(q) : M!Content(q, vp)' = M!Content(q, vp)
            Shifted == \A q \in Procs \ {running} : Kept(q)
<1>1. ASSUME UNCHANGED memoryVars  PROVE \A q : Kept(q)
  BY <1>1 DEF memoryVars, M!OwnPages, M!Content, M!SwappedIn, M!HasPage, M!ReadPage
<1>2. ASSUME Managed, NEW p \in Procs, p = running,
             \/ M!Exit(p)
             \/ \E vp \in DOMAIN table[p] : M!Read(p, vp)
             \/ \E vp \in DOMAIN table[p], d \in Data : M!Write(p, vp, d)
             \/ \E r \in DOMAIN M!RegionStart : M!MapShared(p, r)
      PROVE  Shifted
  <2>1. \A q \in Procs \ {p} :
          /\ MP!OwnPages(q)' = MP!OwnPages(q)
          /\ \A vp \in MP!OwnPages(q) : MP!Content(q, vp)' = MP!Content(q, vp)
    <3>1. \/ MP!Exit(p)
          \/ \E vp \in DOMAIN table[p] : MP!Read(p, vp)
          \/ \E vp \in DOMAIN table[p], d \in Data : MP!Write(p, vp, d)
          \/ \E r \in DOMAIN MP!RegionStart : MP!MapShared(p, r)
      BY <1>2, SameMemory, SameAccesses, SameFrames
    <3>. QED  BY <1>2, <3>1, MemoryAssumptions, MP!OthersKeepTheirPages DEF Managed
  <2>2. \A q, vp : M!OwnPages(q) = MP!OwnPages(q) /\ M!Content(q, vp) = MP!Content(q, vp)
    BY SameMemory
  <2>. QED  BY <1>2, <2>1, <2>2, SamePagesAfter
<1>3. ASSUME Managed, [Next]_vars, stage = "run"
      PROVE  Shifted
  <2>1. ASSUME NEW p \in Procs, Access(p)  PROVE Shifted
    BY <1>2, <1>3, <2>1 DEF Access
  <2>2. ASSUME NEW p \in Procs, MapShared(p)  PROVE Shifted
    BY <1>2, <1>3, <2>2 DEF MapShared, S!Compute, S!Fetch
  <2>3. ASSUME NEW p \in Procs, Dies(p)  PROVE Shifted
    BY <1>2, <1>3, <2>3 DEF Dies, S!SwitchOutDead
  <2>4. CASE UNCHANGED memoryVars
    BY <1>1, <2>4
  <2>. HIDE DEF Shifted
  <2>. QED
    BY <1>3, <2>1, <2>2, <2>3, <2>4
       DEF Next, Boot, PickNext, SwitchOut, Halted, Instruction, vars
<1>4. Managed /\ [Next]_vars =>
        [stage = "run" => \A p \in Procs \ {running} :
           /\ M!OwnPages(p)' = M!OwnPages(p)
           /\ \A vp \in M!OwnPages(p) : M!Content(p, vp)' = M!Content(p, vp)]_vars
  BY <1>3
<1>5. Spec => []Managed
  BY ComponentsHold, PTL
<1>. HIDE DEF Shifted
<1>. QED
  BY <1>4, <1>5, PTL DEF Spec, OthersPagesStay

(* What the idle process does: it neither ends, sleeps nor waits. *)
IdleStays ==
  \A i \in Program[Idle] : i.op \notin {"exit", "fault", "sleep", "acquire", "wait"}

(* As long as nobody terminates the idle process it runs on, and the loop  *)
(* does not stop before the users have.                                    *)
IdleServes ==
  Idle \notin killed =>
    SP!IdleRunsOn /\ SP!RunsUntilUsersEnd /\ proc[Idle] # "gone"

LEMMA NextKeepsIdleServing ==
  ASSUME IdleStays, Scheduled, Scheduled', Managed, Lifecycle, Lifecycle', IdleServes, [Next]_vars
  PROVE  IdleServes'
<1>. SUFFICES ASSUME Idle \notin killed'
              PROVE  SP!IdleRunsOn' /\ SP!RunsUntilUsersEnd' /\ proc'[Idle] # "gone"
  BY DEF IdleServes
<1>1. Idle \notin killed
  BY DEF Next, Boot, PickNext, SwitchOut, Halted, Access, Instruction, MapShared, Dies, vars
<1>2. SP!IdleRunsOn /\ SP!RunsUntilUsersEnd /\ proc[Idle] # "gone"
  BY <1>1 DEF IdleServes
<1>3. Idle \in Procs /\ proc \in [Procs -> {"new", "live", "gone"}]
  BY Loading, TypesOfBoth
<1>4. proc'[Idle] # "gone"
  <2>1. ASSUME NEW p \in Procs, M!Load(p)  PROVE proc'[Idle] # "gone"
    BY <1>2, <1>3, <2>1 DEF M!Load
  <2>2. CASE Boot
    <3>1. PICK n \in DOMAIN LoadOrder : M!Load(LoadOrder[n])
      BY <2>2 DEF Boot
    <3>2. LoadOrder[n] \in Procs
      BY DEF Procs, ToSet
    <3>. QED  BY <2>1, <3>1, <3>2
  <2>3. ASSUME NEW p \in Procs, Access(p)  PROVE proc'[Idle] # "gone"
    BY <1>2, <2>3 DEF Access, M!Read, M!Write, M!Access
  <2>4. ASSUME NEW p \in Procs, MapShared(p)  PROVE proc'[Idle] # "gone"
    BY <1>2, <2>4 DEF MapShared, M!MapShared
  <2>5. ASSUME NEW p \in Procs, Dies(p)  PROVE proc'[Idle] # "gone"
    <3>1. p # Idle
      BY <1>2, <2>5 DEF Dies, S!SwitchOutDead, SP!IdleRunsOn
    <3>. QED  BY <1>2, <1>3, <2>5, <3>1 DEF Dies, M!Exit
  <2>6. CASE UNCHANGED memoryVars
    BY <1>2, <2>6 DEF memoryVars
  <2>. QED
    BY <2>2, <2>3, <2>4, <2>5, <2>6 DEF Next, PickNext, SwitchOut, Halted, Instruction, vars
<1>5. state'[Idle] # "TERMINATED"
  BY <1>3, <1>4 DEF Lifecycle
<1>6. SP!IdleNeverLeaves
  BY <1>3 DEF IdleStays, SP!IdleNeverLeaves
<1>. QED
  BY <1>2, <1>4, <1>5, <1>6, OneStepOfTheScheduler, SchedulerAssumptions, SP!NextKeepsIdle
     DEF Scheduled

(* When run() ends, only the idle process and those that were terminated   *)
(* by others still have memory: the frames and swap slots of the rest are  *)
(* free again.                                                             *)
THEOREM OnlyTheKilledKeepTheirs ==
  ASSUME IdleStays
  PROVE  Spec => []OnlyTheKilledKeepMemory
<1>1. Init => IdleServes
  <2>1. Idle \in Procs
    BY Loading
  <2>. QED
    BY <2>1 DEF Init, S!Init, M!Init, IdleServes, SP!IdleRunsOn, SP!RunsUntilUsersEnd
<1>2. /\ Scheduled /\ Managed /\ Lifecycle /\ (Scheduled /\ Managed /\ Lifecycle)'
      /\ IdleServes /\ [Next]_vars
      => IdleServes'
  BY NextKeepsIdleServing
<1>3. Scheduled /\ Managed /\ Lifecycle /\ IdleServes => OnlyTheKilledKeepMemory
  <2>. SUFFICES ASSUME Scheduled, Managed, Lifecycle, IdleServes,
                       phase = "stopped", Idle \notin killed
                PROVE  /\ \A f \in M!PrivateFrames :
                            f \in ToSet(freePages) \/ \E p \in {Idle} \cup killed : f \in working[p]
                       /\ \A key \in DOMAIN swap.index : key[1] \in {Idle} \cup killed
    BY DEF OnlyTheKilledKeepMemory
  <2>1. \A p \in Procs : p \in {Idle} \cup killed \/ proc[p] = "gone"
    BY DEF IdleServes, SP!RunsUntilUsersEnd, SP!Users, Lifecycle
  <2>2. \A p \in Procs : p \in {Idle} \cup killed
                             \/ (working[p] = {} /\ MP!KeysOf(swap, p) = {})
    BY <2>1, MemoryAssumptions, MP!NothingOfTheGone DEF Managed
  <2>3. ASSUME NEW f \in M!PrivateFrames, f \notin ToSet(freePages)
        PROVE  \E p \in {Idle} \cup killed : f \in working[p]
    <3>1. \E p \in Procs : f \in working[p]
      <4>1. f \in MP!PrivateFrames /\ f \notin MP!ToSet(freePages)
        BY <2>3, SameFrames DEF ToSet, MP!ToSet
      <4>2. PICK p \in Procs : {q \in Procs : f \in working[q]} = {p}
        BY <4>1 DEF Managed, MP!MemInv, MP!FramesConserved
      <4>. QED  BY <4>2
    <3>. QED  BY <2>2, <3>1
  <2>4. ASSUME NEW key \in DOMAIN swap.index
        PROVE  key[1] \in {Idle} \cup killed
    <3>1. key[1] \in Procs
      <4>1. swap \in MP!Swaps
        BY DEF Managed, MP!MemInv, MP!Typed, MP!GoodSwap
      <4>2. DOMAIN swap.index \subseteq MP!Keys
        BY <4>1, MemoryAssumptions, MP!SwapTypes
      <4>. QED  BY <2>4, <4>2 DEF MP!Keys
    <3>2. key \in MP!KeysOf(swap, key[1])
      BY <2>4 DEF MP!KeysOf
    <3>. QED  BY <2>2, <3>1, <3>2
  <2>. QED  BY <2>3, <2>4
<1>. QED
  BY <1>1, <1>2, <1>3, LifecycleHolds, PTL DEF Spec

-----------------------------------------------------------------------------
(***************************************************************************)
(* The order of the first starts                                           *)
(***************************************************************************)

Unstarted == Users \ (started \cup killed)

Place == [p \in Users |-> Position(p)]

(* The programs that have not started stand in the ready queue in the      *)
(* order of the command line; one that was terminated before it started    *)
(* is gone.                                                                *)
Lined ==
  /\ \A p \in Unstarted : SP!Fresh(p)
  /\ SP!InTurn(ready, Unstarted, Place)
  /\ \A p \in Users \cap killed : p \in started \/ SP!Gone(p)
  /\ FirstListedStartsFirst

LEMMA UsersAreListed ==
  /\ Users \subseteq Procs /\ Idle \notin Users
  /\ \A p \in Users : Place[p] \in DOMAIN Files /\ Files[Place[p]] = p
  /\ \A i \in DOMAIN Files : Files[i] \in Users /\ Place[Files[i]] = i
<1>1. \A i \in DOMAIN Files : Files[i] \in Users
  BY DEF Users, ToSet
<1>2. \A p \in Users : \E i \in DOMAIN Files : Files[i] = p
  BY DEF Users, ToSet
<1>3. \A i \in DOMAIN Files : Place[Files[i]] = i
  BY <1>1, Loading DEF Place
<1>. QED
  BY <1>1, <1>2, <1>3, Loading, LoadAssumption

LEMMA FewerInTurn ==
  ASSUME NEW q, NEW U, NEW V, NEW pos, V \subseteq U, SP!InTurn(q, U, pos)
  PROVE  SP!InTurn(q, V, pos)
BY DEF SP!InTurn

LEMMA InitLinesUp == Init => Lined
<1>. SUFFICES ASSUME Init  PROVE Lined
  OBVIOUS
<1>. DEFINE e == << >>
<1>1. /\ started = {} /\ killed = {} /\ running = None
      /\ lockOwner = [l \in Locks |-> None]
      /\ priority = [p \in Procs |-> IF p = Idle THEN 0 ELSE S!Clamp(MainPriority[p])]
      /\ ready = S!EnqueueAll(e, LoadOrder, priority)
  BY DEF Init, S!Init
<1>2. MaxPriority \in Nat \ {0} /\ None \notin Procs
  BY LoadAssumption
<1>3. priority \in [Procs -> Int] /\ \A i \in DOMAIN Files : priority[Files[i]] = MainPriority[Files[i]]
  <2>1. \A p \in Procs : S!Clamp(MainPriority[p]) \in Int
    BY <1>2, PrioritiesDescend DEF S!Clamp
  <2>2. \A i \in DOMAIN Files : S!Clamp(MainPriority[Files[i]]) = MainPriority[Files[i]]
    <3>1. \A i \in DOMAIN Files : /\ MainPriority[Files[i]] \in 0..MaxPriority
                                  /\ MainPriority[Files[i]] >= 1
      BY Loading, PrioritiesDescend
    <3>. QED  BY <1>2, <3>1 DEF S!Clamp
  <2>. QED  BY <1>1, <2>1, <2>2, Loading
<1>4. /\ e \in Seq(Procs) /\ SP!ToSet(e) = {} /\ SP!InTurn(e, Users, Place) /\ SP!InOrder(e, priority)
  BY DEF SP!ToSet, SP!InTurn, SP!InOrder
<1>. HIDE DEF e
<1>5. LoadOrder \in Seq(Procs) /\ DOMAIN LoadOrder = 1..(Len(Files) + 1)
      /\ Len(Files) \in Nat /\ DOMAIN Files = 1..Len(Files)
  BY Loading, LoadAssumption
<1>6. \A n \in DOMAIN LoadOrder : LoadOrder[n] \in Users =>
        n - 1 \in DOMAIN Files /\ Files[n - 1] = LoadOrder[n]
  <2>. SUFFICES ASSUME NEW n \in DOMAIN LoadOrder, LoadOrder[n] \in Users
                PROVE  n - 1 \in DOMAIN Files /\ Files[n - 1] = LoadOrder[n]
    OBVIOUS
  <2>1. n # 1
    BY Loading, UsersAreListed
  <2>2. n - 1 \in DOMAIN Files /\ (n - 1) + 1 = n
    BY <1>5, <2>1
  <2>3. \A i \in DOMAIN Files : LoadOrder[i + 1] = Files[i]
    BY Loading
  <2>. QED  BY <2>2, <2>3
<1>7. ASSUME NEW n \in DOMAIN LoadOrder, LoadOrder[n] \in Users,
             NEW m \in 1..(n - 1), LoadOrder[m] \in Users
      PROVE  priority[LoadOrder[m]] >= priority[LoadOrder[n]] /\ Place[LoadOrder[m]] < Place[LoadOrder[n]]
  <2>1. m \in DOMAIN LoadOrder /\ m - 1 < n - 1
    BY <1>5
  <2>2. /\ m - 1 \in DOMAIN Files /\ Files[m - 1] = LoadOrder[m]
        /\ n - 1 \in DOMAIN Files /\ Files[n - 1] = LoadOrder[n]
    BY <1>6, <1>7, <2>1
  <2>3. Place[LoadOrder[m]] = m - 1 /\ Place[LoadOrder[n]] = n - 1
    BY <2>2, UsersAreListed
  <2>4. MainPriority[Files[m - 1]] >= MainPriority[Files[n - 1]]
    BY <2>1, <2>2, PrioritiesDescend
  <2>. QED  BY <1>3, <2>1, <2>2, <2>3, <2>4
<1>8. /\ SP!InTurn(SP!EnqueueAll(e, LoadOrder, priority), Users, Place)
      /\ SP!ToSet(SP!EnqueueAll(e, LoadOrder, priority)) = SP!ToSet(e) \cup SP!ToSet(LoadOrder)
  <2>1. \A n \in DOMAIN LoadOrder : LoadOrder[n] \in Users =>
          \A s \in SP!ToSet(e) \cup {LoadOrder[m] : m \in 1..(n - 1)} :
            s \in Users => priority[s] >= priority[LoadOrder[n]] /\ Place[s] < Place[LoadOrder[n]]
    BY <1>4, <1>7
  <2>2. SP!InTurn(SP!EnqueueAll(e, LoadOrder, priority), Users, Place)
    BY <1>3, <1>4, <1>5, <2>1, SchedulerAssumptions, SP!EnqueueAllInTurn
  <2>3. e \in Seq(Procs) /\ LoadOrder \in Seq(Procs) /\ priority \in [Procs -> Int]
    BY <1>3, <1>4, <1>5
  <2>4. SP!ToSet(SP!EnqueueAll(e, LoadOrder, priority)) = SP!ToSet(e) \cup SP!ToSet(LoadOrder)
    BY <2>3, SchedulerAssumptions, SP!MembersEnqueueAll
  <2>. QED  BY <2>2, <2>4
<1>9. SP!InTurn(ready, Users, Place) /\ \A p \in Users : p \in SP!ToSet(ready)
  <2>1. \A p \in Users : p \in SP!ToSet(LoadOrder)
    BY Loading, UsersAreListed DEF SP!ToSet
  <2>. QED  BY <1>1, <1>8, <2>1, SameQueues
<1>10. \A p \in Users : SP!Fresh(p)
  <2>1. \A p \in Users : p # None
    BY <1>2, UsersAreListed
  <2>. QED  BY <1>1, <1>9, <2>1 DEF SP!Fresh
<1>11. Unstarted = Users
  BY <1>1 DEF Unstarted
<1>. QED
  BY <1>1, <1>9, <1>10, <1>11 DEF Lined, FirstListedStartsFirst

LEMMA NextKeepsTheLine ==
  ASSUME Scheduled, Scheduled', Lined, [Next]_vars
  PROVE  Lined'
<1>. DEFINE U == Unstarted
<1>1. /\ U \in SUBSET Procs /\ U \subseteq Users /\ \A q \in U : q \notin started /\ q \notin killed
      /\ \A q \in Users : q \in started \/ q \in killed \/ q \in U
  BY UsersAreListed DEF Unstarted
<1>2. /\ \A q \in U : SP!Fresh(q)
      /\ SP!InTurn(ready, U, Place)
  BY DEF Lined
<1>3. SP!TypeOK /\ SP!QueueInv /\ SP!LockTablesAgree /\ SP!QueueInv'
  BY DEF Scheduled
<1>4. \A q \in Procs : SP!Gone(q) => SP!Gone(q)'
  BY OneStepOfTheScheduler
<1>5. \A q \in U : state[q] = "READY"
  BY <1>1, <1>2, <1>3, SchedulerAssumptions, SP!FreshAre
<1>6. Unstarted' = Users \ (started' \cup killed')
  BY DEF Unstarted
<1>. HIDE DEF U
<1>7. ASSUME UNCHANGED <<started, killed>>, \A q \in U : SP!Fresh(q)',
             SP!InTurn(ready', U, Place)
      PROVE  Lined'
  <2>1. Unstarted' = U
    BY <1>7 DEF U, Unstarted
  <2>2. FirstListedStartsFirst'
    BY <1>7 DEF Lined, FirstListedStartsFirst
  <2>3. \A p \in Users \cap killed' : p \in started' \/ SP!Gone(p)'
    BY <1>4, <1>7, UsersAreListed DEF Lined
  <2>. QED  BY <1>7, <2>1, <2>2, <2>3 DEF Lined
<1>8. ASSUME UNCHANGED <<started, killed, ready, running, lockOwner>>  PROVE Lined'
  <2>1. \A q \in U : SP!Fresh(q)'
    BY <1>2, <1>8 DEF SP!Fresh
  <2>. QED  BY <1>2, <1>7, <1>8, <2>1
<1>9. CASE Boot \/ Halted \/ UNCHANGED vars \/ \E p \in Procs : Access(p)
  <2>1. UNCHANGED <<started, killed, ready, running, lockOwner>>
    BY <1>9 DEF Boot, Halted, S!Halted, S!vars, S!loopVars, S!lockVars, Access, vars, schedulerVars
  <2>. QED  BY <1>8, <2>1
<1>10. ASSUME NEW p \in Procs, MapShared(p)  PROVE Lined'
  <2>1. UNCHANGED <<started, killed, ready, running, lockOwner>>
    BY <1>10 DEF MapShared, S!Compute, S!Retire, S!lockVars
  <2>. QED  BY <1>8, <2>1
<1>11. CASE SwitchOut \/ \E p \in Procs : Dies(p)
  <2>1. SP!SwitchOut /\ UNCHANGED <<started, killed>>
    <3>1. S!SwitchOut /\ UNCHANGED <<started, killed>>
      BY <1>11 DEF SwitchOut, Dies, S!SwitchOut
    <3>. QED  BY <3>1, SameScheduler
  <2>2. SP!InTurn(ready', U, Place) /\ \A q \in U : SP!Fresh(q)'
    BY <1>1, <1>2, <1>3, <2>1, SchedulerAssumptions, SP!SliceEndsKeepTheTurn
  <2>. QED  BY <1>7, <2>1, <2>2
<1>12. ASSUME NEW p \in Procs, Instruction(p)  PROVE Lined'
  <2>1. /\ SP!Step(p) /\ started' = started
        /\ killed' = killed \cup {q \in Procs : state[q] # "TERMINATED" /\ state'[q] = "TERMINATED"}
    BY <1>12, SameSteps DEF Instruction
  <2>2. /\ SP!InTurn(ready', U, Place)
        /\ \A q \in U : /\ state'[q] # "TERMINATED" => SP!Fresh(q)'
                        /\ running' # q /\ \A l \in Locks : lockOwner'[l] # q
    BY <1>1, <1>2, <1>3, <2>1, SchedulerAssumptions, SP!StepsKeepTheTurn
  <2>3. Unstarted' \subseteq U
    BY <1>1, <1>6, <2>1
  <2>4. \A q \in Unstarted' : SP!Fresh(q)'
    <3>1. \A q \in Unstarted' : state'[q] # "TERMINATED"
      BY <1>1, <1>5, <1>6, <2>1, <2>3
    <3>. QED  BY <2>2, <2>3, <3>1
  <2>5. SP!InTurn(ready', Unstarted', Place)
    BY <2>2, <2>3, FewerInTurn
  <2>6. ASSUME NEW q \in Users, q \in killed', q \notin started'
        PROVE  SP!Gone(q)'
    <3>1. CASE q \in killed
      BY <1>4, <2>1, <2>6, <3>1, UsersAreListed DEF Lined
    <3>2. CASE q \notin killed
      <4>1. q \in U /\ state'[q] = "TERMINATED"
        BY <1>1, <2>1, <2>6, <3>2
      <4>. QED  BY <2>2, <4>1 DEF SP!Gone
    <3>. QED  BY <3>1, <3>2
  <2>7. FirstListedStartsFirst'
    BY <2>1 DEF Lined, FirstListedStartsFirst
  <2>. QED  BY <2>4, <2>5, <2>6, <2>7 DEF Lined
<1>13. CASE PickNext /\ S!NothingReady
  <2>1. /\ UNCHANGED <<ready, running, lockOwner, killed>> /\ phase = "pick"
        /\ started' = started \cup ({running'} \ {None})
    BY <1>13 DEF PickNext, S!NothingReady, S!lockVars
  <2>2. running = None
    BY <1>3, <2>1 DEF SP!QueueInv, SP!OnCpu
  <2>. QED  BY <1>8, <2>1, <2>2
<1>14. CASE PickNext /\ S!Dispatch
  <2>. DEFINE h == running'
  <2>1. SP!Dispatch /\ killed' = killed /\ started' = started \cup ({h} \ {None})
    BY <1>14, SameScheduler DEF PickNext
  <2>2. /\ h \in Procs /\ state[h] = "READY"
        /\ SP!InTurn(ready', U, Place) /\ \A q \in U : q # h => SP!Fresh(q)'
        /\ h \in U => \A q \in U : q = h \/ Place[h] < Place[q]
    BY <1>1, <1>2, <1>3, <2>1, SchedulerAssumptions, SP!DispatchInTurn
  <2>. HIDE DEF h
  <2>3. started' = started \cup {h}
    BY <2>1, <2>2, LoadAssumption
  <2>4. Unstarted' \subseteq U /\ h \notin Unstarted'
    BY <1>1, <1>6, <2>1, <2>3
  <2>5. \A q \in Unstarted' : SP!Fresh(q)'
    BY <2>2, <2>4
  <2>6. SP!InTurn(ready', Unstarted', Place)
    BY <2>2, <2>4, FewerInTurn
  <2>7. \A q \in Users \cap killed' : q \in started' \/ SP!Gone(q)'
    BY <1>4, <2>1, <2>3, UsersAreListed DEF Lined
  <2>8. ASSUME NEW i \in DOMAIN Files, NEW j \in DOMAIN Files, i < j, Files[j] \in started',
               Files[i] \notin started' \cup killed'
        PROVE  FALSE
    <3>1. Files[i] \in U /\ Files[i] # h /\ Files[i] \notin started \cup killed
      BY <1>1, <2>1, <2>3, <2>8, UsersAreListed
    <3>2. Files[j] \notin started
      BY <2>8, <3>1 DEF Lined, FirstListedStartsFirst
    <3>3. Files[j] = h
      BY <2>3, <2>8, <3>2
    <3>4. h \in Users /\ h \notin killed
      <4>1. h \in Users
        BY <3>3, UsersAreListed
      <4>2. h \in killed => SP!Gone(h)
        BY <3>2, <3>3, <4>1 DEF Lined
      <4>. QED  BY <2>2, <4>1, <4>2 DEF SP!Gone
    <3>5. h \in U
      BY <1>1, <3>2, <3>3, <3>4
    <3>6. Place[h] < Place[Files[i]]
      BY <2>2, <3>1, <3>5
    <3>7. j < i
      BY <3>3, <3>6, UsersAreListed
    <3>8. i \in Int /\ j \in Int
      BY LoadAssumption
    <3>. QED  BY <2>8, <3>7, <3>8
  <2>9. FirstListedStartsFirst'
    BY <2>8 DEF FirstListedStartsFirst
  <2>. QED  BY <2>5, <2>6, <2>7, <2>9 DEF Lined
<1>. QED
  BY <1>9, <1>10, <1>11, <1>12, <1>13, <1>14 DEF Next, PickNext

(* The descending priorities of main() make the programs start in the      *)
(* order of the command line, whatever those that run meanwhile do to      *)
(* each other's priorities, locks and lives, and also where there are more *)
(* programs than priorities, since _enqueue_ready keeps equals in order.   *)
THEOREM TheFirstListedStartFirst == Spec => []FirstListedStartsFirst
<1>1. Scheduled /\ Scheduled' /\ Lined /\ [Next]_vars => Lined'
  BY NextKeepsTheLine
<1>2. Lined => FirstListedStartsFirst
  BY DEF Lined
<1>. QED
  BY <1>1, <1>2, InitLinesUp, ComponentsHold, PTL DEF Spec

-----------------------------------------------------------------------------
(***************************************************************************)
(* The promises of the components, kept by the whole                       *)
(***************************************************************************)

(* What the scheduler promises of queues, locks and slices is true of the  *)
(* kernel, where loading, page faults and exits come between its steps.    *)
THEOREM TheKernelKeepsTheSchedule ==
  Spec => [](/\ S!NoLostProcess /\ S!ReadyInOrder /\ S!SlicesAreFull
             /\ S!LockTablesAgree /\ S!WaitersHaveAnOwner /\ S!WokenWaiterOwnsLock
             /\ S!LentPriorityEnds /\ S!SignalOrWaiters)
<1>1. SP!Spec => []SP!NoLostProcess /\ []SP!ReadyInOrder
  BY SchedulerAssumptions, SP!NoProcessIsLost, SP!ReadyStaysInOrder
<1>2. SP!Spec => []SP!SlicesAreFull /\ []SP!LockTablesAgree
  BY SchedulerAssumptions, SP!EverySliceIsFull, SP!LockTablesAlwaysAgree
<1>3. SP!Spec => []SP!WaitersHaveAnOwner /\ []SP!WokenWaiterOwnsLock
  BY SchedulerAssumptions, SP!WaitersAlwaysHaveAnOwner, SP!WokenWaitersOwnTheirLock
<1>4. SP!Spec => []SP!LentPriorityEnds /\ []SP!SignalOrWaiters
  BY SchedulerAssumptions, SP!LoansEndWithTheLocks, SP!NoWaiterBesideASignal
<1>5. /\ S!NoLostProcess <=> SP!NoLostProcess
      /\ S!ReadyInOrder <=> SP!ReadyInOrder
  BY DEF S!NoLostProcess, SP!NoLostProcess, S!ToSet, SP!ToSet, S!NoRepeat, SP!NoRepeat,
     S!ReadyInOrder, SP!ReadyInOrder, S!InOrder, SP!InOrder
<1>6. /\ S!SlicesAreFull <=> SP!SlicesAreFull
      /\ S!LockTablesAgree <=> SP!LockTablesAgree
      /\ S!WaitersHaveAnOwner <=> SP!WaitersHaveAnOwner
  BY SameQueues DEF S!SlicesAreFull, SP!SlicesAreFull, S!Quantum, SP!Quantum,
     S!LockTablesAgree, SP!LockTablesAgree, S!WaitersHaveAnOwner, SP!WaitersHaveAnOwner
<1>7. /\ S!WokenWaiterOwnsLock <=> SP!WokenWaiterOwnsLock
      /\ S!LentPriorityEnds <=> SP!LentPriorityEnds
      /\ S!SignalOrWaiters <=> SP!SignalOrWaiters
  BY DEF S!WokenWaiterOwnsLock, SP!WokenWaiterOwnsLock, S!LentPriorityEnds, SP!LentPriorityEnds,
     S!SignalOrWaiters, SP!SignalOrWaiters
<1>. QED
  BY <1>1, <1>2, <1>3, <1>4, <1>5, <1>6, <1>7, TheTwinsRun, PTL

(* Likewise of memory: no frame or slot is lost or shared, page tables and *)
(* frame map agree, no page is lost, and a fault always finds a frame.     *)
THEOREM TheKernelKeepsItsPages ==
  Spec => [](/\ M!FramesConserved /\ M!SlotsConserved
             /\ M!MappedFramesAreOwn /\ M!FrameMapConsistent
             /\ M!CleanCopiesAreCurrent /\ M!FaultsResolve)
<1>1. MP!Spec => []MP!FramesConserved /\ []MP!SlotsConserved
  BY MemoryAssumptions, MP!FramesAreConserved, MP!SlotsAreConserved
<1>2. MP!Spec => []MP!MappedFramesAreOwn /\ []MP!FrameMapConsistent
  BY MemoryAssumptions, MP!MappedFramesStayOwn, MP!FrameMapStaysConsistent
<1>3. MP!Spec => []MP!CleanCopiesAreCurrent /\ []MP!FaultsResolve
  BY MemoryAssumptions, MP!CopiesStayCurrent, MP!FaultsAlwaysResolve
<1>4. /\ M!FramesConserved <=> MP!FramesConserved
      /\ M!SlotsConserved <=> MP!SlotsConserved
  BY SameFrames, SameSequences DEF M!FramesConserved, MP!FramesConserved,
     M!NoRepeat, MP!NoRepeat, M!SlotsConserved, MP!SlotsConserved
<1>5. /\ M!MappedFramesAreOwn <=> MP!MappedFramesAreOwn
      /\ M!FrameMapConsistent <=> MP!FrameMapConsistent
  BY SameFrames, SameEviction DEF M!MappedFramesAreOwn, MP!MappedFramesAreOwn,
     M!Writable, MP!Writable, M!FrameMapConsistent, MP!FrameMapConsistent
<1>6. /\ M!CleanCopiesAreCurrent <=> MP!CleanCopiesAreCurrent
      /\ M!FaultsResolve <=> MP!FaultsResolve
  BY SameFrames, SameEviction, SameSwapFile
     DEF M!CleanCopiesAreCurrent, MP!CleanCopiesAreCurrent, M!FaultsResolve, MP!FaultsResolve,
         M!Faults, MP!Faults, M!Present, MP!Present
<1>. QED
  BY <1>1, <1>2, <1>3, <1>4, <1>5, <1>6, TheTwinsRun, PTL

LEMMA SameContents ==
  M!Private = MP!Private /\ M!Attached = MP!Attached /\ M!Shared = MP!Shared
BY SameMemory, SameFrames DEF M!Private, MP!Private, M!Attached, MP!Attached, M!Shared, MP!Shared

LEMMA SameContentsAfter ==
  (M!Private = MP!Private /\ M!Attached = MP!Attached /\ M!Shared = MP!Shared)'
BY SameContents, PTL

(* Each operation of the one memory's specification allows what the same   *)
(* operation of the other's does.                                          *)
LEMMA SamePromises ==
  \A p : /\ MP!Virtual!Create(p) => M!Virtual!Create(p)
         /\ MP!Virtual!Destroy(p) => M!Virtual!Destroy(p)
         /\ \A g : MP!Virtual!Attach(p, g) => M!Virtual!Attach(p, g)
         /\ \A vp, d : /\ MP!Virtual!Fetch(p, vp, d) => M!Virtual!Fetch(p, vp, d)
                       /\ MP!Virtual!Store(p, vp, d) => M!Virtual!Store(p, vp, d)
<1>1. M!Virtual!Nothing = MP!Virtual!Nothing /\ M!SharedFrames = MP!SharedFrames
  BY SameFrames DEF M!Virtual!Nothing, MP!Virtual!Nothing
<1>2. UNCHANGED MP!Virtual!virtualVars => UNCHANGED M!Virtual!virtualVars
  BY SameContents, SameContentsAfter DEF MP!Virtual!virtualVars, M!Virtual!virtualVars
<1>3. \A p : MP!Virtual!Create(p) => M!Virtual!Create(p)
  BY <1>1, SameContents, SameContentsAfter DEF MP!Virtual!Create, M!Virtual!Create
<1>4. \A p : MP!Virtual!Destroy(p) => M!Virtual!Destroy(p)
  BY <1>1, SameContents, SameContentsAfter DEF MP!Virtual!Destroy, M!Virtual!Destroy
<1>5. \A p, g : MP!Virtual!Attach(p, g) => M!Virtual!Attach(p, g)
  BY <1>1, SameContents, SameContentsAfter DEF MP!Virtual!Attach, M!Virtual!Attach
<1>6. \A p, vp, d : MP!Virtual!Fetch(p, vp, d) => M!Virtual!Fetch(p, vp, d)
  BY <1>2, SameContents DEF MP!Virtual!Fetch, M!Virtual!Fetch
<1>7. \A p, vp, d : MP!Virtual!Store(p, vp, d) => M!Virtual!Store(p, vp, d)
  BY SameContents, SameContentsAfter DEF MP!Virtual!Store, M!Virtual!Store
<1>. QED  BY <1>3, <1>4, <1>5, <1>6, <1>7

(* Programs see the memory that VirtualMemory promises: what a process     *)
(* reads in a page is what was last stored there, by itself or, in a       *)
(* shared one, by anyone, whoever had its frame in between; and a store is *)
(* to the page it names and to no other.  The kernel does nothing else to  *)
(* memory than the memory manager's operations (KernelManagesMemory).      *)
THEOREM TheKernelIsVirtualMemory == Spec => M!ImplementsVirtualMemory
<1>1. MP!Spec => MP!ImplementsVirtualMemory
  BY MemoryAssumptions, MP!PagingIsVirtualMemory
<1>2. MP!Virtual!Init => M!Virtual!Init
  BY SameContents, SameFrames DEF MP!Virtual!Init, M!Virtual!Init, MP!Virtual!Nothing, M!Virtual!Nothing
<1>3. MP!ServesAsVirtual => M!ServesAsVirtual
  <2>. SUFFICES ASSUME MP!ServesAsVirtual, NEW p \in Procs
                PROVE  /\ M!Load(p) => M!Virtual!Create(p)
                       /\ M!LoadFails(p) => UNCHANGED M!Virtual!virtualVars
                       /\ M!Exit(p) => M!Virtual!Destroy(p)
                       /\ \A vp \in DOMAIN table[p] :
                            /\ M!Read(p, vp) => M!Virtual!Fetch(p, vp, M!Returned(p, vp))
                            /\ \A d \in Data : M!Write(p, vp, d) => M!Virtual!Store(p, vp, d)
                       /\ \A r \in DOMAIN M!RegionStart :
                            M!MapShared(p, r) => M!Virtual!Attach(p, M!RegionPages(p, r))
    BY DEF M!ServesAsVirtual
  <2>1. /\ MP!Load(p) => MP!Virtual!Create(p)
        /\ MP!LoadFails(p) => UNCHANGED MP!Virtual!virtualVars
        /\ MP!Exit(p) => MP!Virtual!Destroy(p)
        /\ \A vp \in DOMAIN table[p] :
             /\ MP!Read(p, vp) => MP!Virtual!Fetch(p, vp, MP!Returned(p, vp))
             /\ \A d \in Data : MP!Write(p, vp, d) => MP!Virtual!Store(p, vp, d)
        /\ \A r \in DOMAIN MP!RegionStart :
             MP!MapShared(p, r) => MP!Virtual!Attach(p, MP!RegionPages(p, r))
    BY DEF MP!ServesAsVirtual
  <2>2. UNCHANGED MP!Virtual!virtualVars => UNCHANGED M!Virtual!virtualVars
    BY SameContents, SameContentsAfter DEF MP!Virtual!virtualVars, M!Virtual!virtualVars
  <2>3. /\ M!Load(p) => M!Virtual!Create(p)
        /\ M!LoadFails(p) => UNCHANGED M!Virtual!virtualVars
        /\ M!Exit(p) => M!Virtual!Destroy(p)
    BY <2>1, <2>2, SameMemory, SamePromises
  <2>4. ASSUME NEW vp \in DOMAIN table[p]
        PROVE  /\ M!Read(p, vp) => M!Virtual!Fetch(p, vp, M!Returned(p, vp))
               /\ \A d \in Data : M!Write(p, vp, d) => M!Virtual!Store(p, vp, d)
    BY <2>1, SameAccesses, SamePromises
  <2>5. ASSUME NEW r \in DOMAIN M!RegionStart
        PROVE  M!MapShared(p, r) => M!Virtual!Attach(p, M!RegionPages(p, r))
    BY <2>1, SameMemory, SameFrames, SamePromises
  <2>. QED  BY <2>3, <2>4, <2>5
<1>4. [MP!ServesAsVirtual]_MP!vars => [M!ServesAsVirtual]_M!vars
  BY <1>3, SameMemory DEF M!vars, MP!vars, M!processVars, MP!processVars
<1>. QED
  BY <1>1, <1>2, <1>4, TheTwinsRun, PTL
     DEF MP!ImplementsVirtualMemory, M!ImplementsVirtualMemory

=============================================================================
