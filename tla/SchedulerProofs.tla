--------------------------- MODULE SchedulerProofs ---------------------------
(***************************************************************************)
(* Theorems of Scheduler, for every number of processes, locks and events, *)
(* every priority and quantum, and every program.                          *)
(***************************************************************************)
EXTENDS Scheduler, PriorityQueueProofs, FiniteSetTheorems

Instr == UNION {Program[p] : p \in Procs}

-----------------------------------------------------------------------------
(***************************************************************************)
(* Types of the scheduler's helpers                                        *)
(***************************************************************************)

LEMMA ConstantTypes ==
  /\ None \notin Procs
  /\ MaxPriority \in Nat /\ 1 <= MaxPriority
  /\ LoadOrder \in Seq(Procs)
  /\ \A p \in Procs : LoadPriority[p] \in Int /\ Quantum(p) \in Int
  /\ \A n \in Int : Clamp(n) \in 0 .. MaxPriority
  /\ 0 \in 0 .. MaxPriority
BY ProcsAssumption, PriorityAssumption, QuantumAssumption DEF Quantum, Clamp

LEMMA PriorityIsInt ==
  ASSUME NEW prio \in [Procs -> 0 .. MaxPriority]
  PROVE  prio \in [Procs -> Int]
OBVIOUS

(* The waiter that is handed a lock is one of its waiters. *)
LEMMA HeirIsWaiter ==
  ASSUME TypeOK, NEW l \in Locks, NEW prio \in [Procs -> Int], lockWait[l] # << >>
  PROVE  /\ Heir(l, prio) \in Procs
         /\ StillWaiting(l, prio) \in Seq(Procs)
         /\ ToSet(lockWait[l]) = ToSet(StillWaiting(l, prio)) \cup {Heir(l, prio)}
<1>. DEFINE q == lockWait[l]
            s == ByPriority(q, prio)
<1>1. q \in Seq(Procs) /\ q # << >>
  BY DEF TypeOK
<1>2. Heir(l, prio) = Head(s) /\ StillWaiting(l, prio) = Tail(s)
  BY DEF Heir, StillWaiting
<1>. HIDE DEF q
<1>3. s \in Seq(Procs) /\ s # << >> /\ ToSet(s) = ToSet(q)
  BY <1>1, ByPriorityProperties
<1>. HIDE DEF s
<1>4. /\ Head(s) \in Procs /\ Tail(s) \in Seq(Procs)
      /\ ToSet(s) = ToSet(Tail(s)) \cup {Head(s)}
  BY <1>3, PopFront
<1>. QED
  BY <1>2, <1>3, <1>4 DEF q

LEMMA HandOverTypes ==
  ASSUME TypeOK, NEW prio \in [Procs -> Int], NEW S \in SUBSET Locks, NEW p \in Procs,
         HandOver(S, p, prio)
  PROVE  /\ lockOwner' \in [Locks -> Procs \cup {None}]
         /\ lockWait' \in [Locks -> Seq(Procs)]
         /\ locksHeld' \in [Procs -> SUBSET Locks]
<1>1. \A l \in Locks : lockOwner[l] \in Procs \cup {None} /\ lockWait[l] \in Seq(Procs)
  BY DEF TypeOK
<1>2. ASSUME NEW l \in Locks  PROVE NewOwner(l, prio) \in Procs \cup {None}
  BY HeirIsWaiter DEF NewOwner
<1>3. ASSUME NEW l \in Locks  PROVE StillWaiting(l, prio) \in Seq(Procs)
  <2>1. CASE lockWait[l] = << >>  BY <2>1 DEF StillWaiting
  <2>2. CASE lockWait[l] # << >>  BY <2>2, HeirIsWaiter
  <2>. QED  BY <2>1, <2>2
<1>4. lockOwner' \in [Locks -> Procs \cup {None}]
  BY <1>1, <1>2 DEF HandOver
<1>5. lockWait' \in [Locks -> Seq(Procs)]
  BY <1>1, <1>3 DEF HandOver
<1>6. locksHeld' \in [Procs -> SUBSET Locks]
  BY DEF HandOver, TypeOK
<1>. QED
  BY <1>4, <1>5, <1>6

LEMMA EndSliceTypes ==
  ASSUME TypeOK, NEW rq \in Seq(Procs), NEW sq \in Seq(Procs),
         NEW st \in [Procs -> States], EndSlice(rq, sq, st)
  PROVE  /\ phase' \in {"pick", "stopped"} /\ running' = None
         /\ switchReason' = "none" /\ cpuTicks' \in Int
         /\ priority' \in [Procs -> 0 .. MaxPriority]
         /\ original' \in [Procs -> 0 .. MaxPriority]
         /\ state' \in [Procs -> States]
         /\ sleepCounter' \in [Procs -> Int]
         /\ retry' \in [Procs -> Instr \cup {None}]
         /\ ready' \in Seq(Procs)
         /\ sleepQueue' \in Seq(Procs)
<1>. DEFINE woke == {p \in ToSet(sq) : CountDown(sq)[p] <= 0}
<1>1. priority \in [Procs -> Int]
  BY PriorityIsInt DEF TypeOK
<1>2. CountDown(sq) \in [Procs -> Int]
  BY DEF CountDown, TypeOK
<1>3. /\ sleepCounter' = CountDown(sq)
      /\ sleepQueue' = Without(sq, woke)
      /\ ready' = EnqueueAll(rq, Only(sq, woke), priority)
      /\ state' = [p \in Procs |-> IF p \in woke THEN "READY" ELSE st[p]]
      /\ running' = None /\ switchReason' = "none"
      /\ phase' \in {"pick", "stopped"}
      /\ UNCHANGED <<cpuTicks, prioVars, retry>>
  BY DEF EndSlice
<1>. HIDE DEF woke
<1>4. Without(sq, woke) \in Seq(Procs) /\ Only(sq, woke) \in Seq(Procs)
  BY <1>1, WithoutMembers, OnlyProperties
<1>5. EnqueueAll(rq, Only(sq, woke), priority) \in Seq(Procs)
  BY <1>1, <1>4, EnqueueAllProperties
<1>6. state' \in [Procs -> States]
  BY <1>3 DEF States
<1>. QED
  BY <1>2, <1>3, <1>4, <1>5, <1>6 DEF TypeOK, prioVars, Instr

-----------------------------------------------------------------------------
(***************************************************************************)
(* Type correctness                                                        *)
(***************************************************************************)

LEMMA RetireTypes ==
  ASSUME TypeOK, NEW p \in Procs, NEW reason \in {"none", "sleep"}, Retire(p, reason)
  PROVE  /\ retry' \in [Procs -> Instr \cup {None}]
         /\ ticks' \in [Procs -> Int]
         /\ switchReason' \in {"none", "quantum", "sleep"}
         /\ UNCHANGED <<phase, running, cpuTicks>>
BY DEF Retire, TypeOK, Instr

LEMMA BlockTypes ==
  ASSUME TypeOK, NEW p \in Procs, NEW i \in Program[p],
         NEW reason \in {"lock", "event"}, Block(p, i, reason)
  PROVE  /\ retry' \in [Procs -> Instr \cup {None}]
         /\ ticks' \in [Procs -> Int]
         /\ switchReason' = reason /\ running' = None
         /\ UNCHANGED <<phase, cpuTicks>>
<1>1. i \in Instr
  BY DEF Instr
<1>. QED
  BY <1>1 DEF Block, SavedTicks, TypeOK, Instr

LEMMA InitTypes == Init => TypeOK
<1>. SUFFICES ASSUME Init PROVE TypeOK
  OBVIOUS
<1>1. priority \in [Procs -> 0 .. MaxPriority]
  BY ConstantTypes DEF Init
<1>2. original \in [Procs -> 0 .. MaxPriority]
  BY <1>1 DEF Init
<1>3. ready \in Seq(Procs)
  <2>. DEFINE e == << >>
  <2>1. e \in Seq(Procs) /\ ready = EnqueueAll(e, LoadOrder, priority)
    BY DEF Init
  <2>. HIDE DEF e
  <2>. QED  BY <1>1, <2>1, ConstantTypes, PriorityIsInt, EnqueueAllProperties
<1>4. cpuTicks \in Int /\ ticks \in [Procs -> Int]
  BY QuantumAssumption DEF Init, Quantum
<1>. QED
  BY <1>1, <1>2, <1>3, <1>4 DEF Init, TypeOK, States

(* Every variable keeps the type TypeOK gives it, in every run of the kernel *)
(* (run, step and the scheduler's calls), whatever the programs execute.     *)
THEOREM TypeCorrect == Spec => []TypeOK
<1>1. Init => TypeOK
  BY InitTypes
<1>2. TypeOK /\ [Next]_vars => TypeOK'
  <2>. SUFFICES ASSUME TypeOK, [Next]_vars PROVE TypeOK'
    OBVIOUS
  <2>0. /\ priority \in [Procs -> Int]
        /\ None \notin Procs
        /\ \A n \in Int : Clamp(n) \in 0 .. MaxPriority
    <3>1. priority \in [Procs -> 0 .. MaxPriority]
      BY DEF TypeOK
    <3>2. priority \in [Procs -> Int]
      BY <3>1, PriorityIsInt
    <3>. QED  BY <3>2, ConstantTypes
  <2>1. CASE Dispatch
    <3>1. ready \in Seq(Procs) /\ ready # << >>
      BY <2>1 DEF Dispatch, TypeOK
    <3>2. Head(ready) \in Procs /\ Tail(ready) \in Seq(Procs)
      BY <3>1, <2>0, PopFront
    <3>. QED
      BY <2>1, <3>2 DEF Dispatch, TypeOK, States, prioVars, sleepVars, lockVars, eventVars
  <2>2. CASE NothingReady
    BY <2>2 DEF NothingReady, TypeOK, prioVars, sleepVars, lockVars, eventVars
  <2>3. ASSUME NEW p \in Procs, Step(p)  PROVE TypeOK'
    <3>0. PICK i \in Program[p] :
            \/ Compute(p, i) \/ SetPriority(p, i) \/ Sleep(p, i)
            \/ Leave(p, i) \/ Crash(p, i)
            \/ AcquireAvailable(p, i) \/ AcquireBusy(p, i)
            \/ Release(p, i) \/ ReleaseNotOwner(p, i)
            \/ Signal(p, i) \/ WaitSignaled(p, i) \/ WaitBlock(p, i)
            \/ Terminate(p, i) \/ TerminateNothing(p, i)
      BY <2>3 DEF Step
    <3>1. CASE Compute(p, i)
      <4>1. Retire(p, "none")
        BY <3>1 DEF Compute
      <4>. QED  BY <3>1, <4>1, RetireTypes
             DEF Compute, TypeOK, Instr, prioVars, sleepVars, lockVars, eventVars
    <3>2. CASE SetPriority(p, i)
      <4>1. Retire(p, "none") /\ i.arg \in Int
        BY <3>2, ProgramAssumption DEF SetPriority
      <4>2. priority' \in [Procs -> 0 .. MaxPriority] /\ original' \in [Procs -> 0 .. MaxPriority]
        BY <3>2, <4>1, <2>0 DEF SetPriority, TypeOK
      <4>. QED  BY <3>2, <4>1, <4>2, RetireTypes
             DEF SetPriority, TypeOK, Instr, sleepVars, lockVars, eventVars
    <3>3. CASE Sleep(p, i)
      <4>1. Retire(p, "sleep") /\ i.arg \in Int
        BY <3>3, ProgramAssumption DEF Sleep
      <4>2. sleepCounter' \in [Procs -> Int]
        BY <3>3, <4>1 DEF Sleep, TypeOK
      <4>. QED  BY <3>3, <4>1, <4>2, RetireTypes
             DEF Sleep, TypeOK, Instr, prioVars, lockVars, eventVars
    <3>4. CASE Leave(p, i)
      BY <3>4 DEF Leave, TypeOK, prioVars, sleepVars, lockVars, eventVars
    <3>5. CASE Crash(p, i)
      BY <3>5 DEF Crash, TypeOK, prioVars, sleepVars, lockVars, eventVars
    <3>6. CASE AcquireAvailable(p, i)
      <4>1. Retire(p, "none")
        BY <3>6 DEF AcquireAvailable
      <4>2. lockOwner' \in [Locks -> Procs \cup {None}] /\ locksHeld' \in [Procs -> SUBSET Locks]
        BY <3>6 DEF AcquireAvailable, TypeOK
      <4>. QED  BY <3>6, <4>1, <4>2, RetireTypes
             DEF AcquireAvailable, TypeOK, Instr, prioVars, sleepVars, eventVars
    <3>7. CASE AcquireBusy(p, i)
      <4>1. Block(p, i, "lock")
        BY <3>7 DEF AcquireBusy
      <4>. DEFINE holder == lockOwner[i.arg]
      <4>2. i.arg \in Locks /\ holder \in Procs
        BY <3>7 DEF AcquireBusy, TypeOK
      <4>3. priority' \in [Procs -> 0 .. MaxPriority]
        BY <3>7, <4>2 DEF AcquireBusy, TypeOK
      <4>4. ready' \in Seq(Procs)
        <5>1. ready \in Seq(Procs) /\ priority' \in [Procs -> Int]
          BY <4>3, PriorityIsInt DEF TypeOK
        <5>2. ready' = ready \/ ready' = Boosted(ready, holder, priority')
          BY <3>7 DEF AcquireBusy
        <5>. HIDE DEF holder
        <5>3. Without(ready, {holder}) \in Seq(Procs)
          BY <5>1, WithoutMembers
        <5>4. Enqueue(Without(ready, {holder}), holder, priority') \in Seq(Procs)
          BY <5>1, <5>3, <4>2, EnqueueProperties
        <5>. QED  BY <5>1, <5>2, <5>4 DEF Boosted
      <4>5. state' \in [Procs -> States]
        BY <3>7 DEF AcquireBusy, TypeOK, States
      <4>6. lockWait' \in [Locks -> Seq(Procs)]
        <5>1. Append(lockWait[i.arg], p) \in Seq(Procs)
          BY <4>2 DEF TypeOK
        <5>. QED  BY <3>7, <5>1 DEF AcquireBusy, TypeOK
      <4>. QED  BY <3>7, <4>1, <4>3, <4>4, <4>5, <4>6, BlockTypes
             DEF AcquireBusy, TypeOK, Instr, sleepVars, eventVars
    <3>8. CASE Release(p, i)
      <4>1. Retire(p, "none") /\ i.arg \in Locks /\ HandOver({i.arg}, p, priority')
        BY <3>8 DEF Release
      <4>2. priority' \in [Procs -> 0 .. MaxPriority]
        BY <3>8 DEF Release, TypeOK
      <4>3. priority' \in [Procs -> Int]
        BY <4>2, PriorityIsInt
      <4>4. /\ lockOwner' \in [Locks -> Procs \cup {None}]
            /\ lockWait' \in [Locks -> Seq(Procs)]
            /\ locksHeld' \in [Procs -> SUBSET Locks]
        BY <4>1, <4>3, HandOverTypes
      <4>5. state' \in [Procs -> States] /\ ready' \in Seq(Procs)
        <5>1. CASE lockWait[i.arg] = << >>
          BY <3>8, <5>1 DEF Release, TypeOK
        <5>2. CASE lockWait[i.arg] # << >>
          <6>. DEFINE heir == Heir(i.arg, priority')
          <6>1. heir \in Procs
            BY <4>1, <4>3, <5>2, HeirIsWaiter
          <6>2. state' = [state EXCEPT ![heir] = "READY"] /\ ready' = Enqueue(ready, heir, priority')
            BY <3>8, <5>2 DEF Release
          <6>. HIDE DEF heir
          <6>3. ready' \in Seq(Procs)
            BY <6>1, <6>2, <4>3, EnqueueProperties DEF TypeOK
          <6>. QED  BY <6>1, <6>2, <6>3 DEF TypeOK, States
        <5>. QED  BY <5>1, <5>2
      <4>. QED  BY <3>8, <4>1, <4>2, <4>4, <4>5, RetireTypes
             DEF Release, TypeOK, Instr, sleepVars, eventVars
    <3>9. CASE ReleaseNotOwner(p, i)
      <4>1. Retire(p, "none")
        BY <3>9 DEF ReleaseNotOwner
      <4>. QED  BY <3>9, <4>1, RetireTypes
             DEF ReleaseNotOwner, TypeOK, Instr, prioVars, sleepVars, lockVars, eventVars
    <3>10. CASE Signal(p, i)
      <4>1. Retire(p, "none") /\ i.arg \in Events /\ eventWait[i.arg] \in Seq(Procs)
        BY <3>10 DEF Signal, TypeOK
      <4>2. /\ signaled' \in [Events -> BOOLEAN] /\ eventWait' \in [Events -> Seq(Procs)]
            /\ state' \in [Procs -> States] /\ ready' \in Seq(Procs)
        <5>1. CASE eventWait[i.arg] = << >>
          BY <3>10, <5>1 DEF Signal, TypeOK
        <5>2. CASE eventWait[i.arg] # << >>
          <6>. DEFINE q == eventWait[i.arg]
                      sorted == ByPriority(q, priority)
          <6>1. sorted \in Seq(Procs) /\ sorted # << >>
            <7>. HIDE DEF q
            <7>. QED  BY <4>1, <5>2, <2>0, ByPriorityProperties DEF q
          <6>2. /\ eventWait' = [eventWait EXCEPT ![i.arg] = Tail(sorted)]
                /\ signaled' = [signaled EXCEPT ![i.arg] = FALSE]
                /\ state' = [state EXCEPT ![Head(sorted)] = "READY"]
                /\ ready' = Enqueue(ready, Head(sorted), priority)
            BY <3>10, <5>2 DEF Signal
          <6>. HIDE DEF sorted
          <6>3. Head(sorted) \in Procs /\ Tail(sorted) \in Seq(Procs)
            BY <6>1, <2>0, PopFront
          <6>4. ready' \in Seq(Procs)
            BY <6>2, <6>3, <2>0, EnqueueProperties DEF TypeOK
          <6>. QED  BY <6>2, <6>3, <6>4 DEF TypeOK, States
        <5>. QED  BY <5>1, <5>2
      <4>. QED  BY <3>10, <4>1, <4>2, RetireTypes
             DEF Signal, TypeOK, Instr, prioVars, sleepVars, lockVars
    <3>11. CASE WaitSignaled(p, i)
      <4>1. Retire(p, "none")
        BY <3>11 DEF WaitSignaled
      <4>2. signaled' \in [Events -> BOOLEAN]
        BY <3>11 DEF WaitSignaled, TypeOK
      <4>. QED  BY <3>11, <4>1, <4>2, RetireTypes
             DEF WaitSignaled, TypeOK, Instr, prioVars, sleepVars, lockVars
    <3>12. CASE WaitBlock(p, i)
      <4>1. Block(p, i, "event") /\ i.arg \in Events
        BY <3>12 DEF WaitBlock
      <4>2. eventWait' \in [Events -> Seq(Procs)]
        <5>1. Append(eventWait[i.arg], p) \in Seq(Procs)
          BY <4>1 DEF TypeOK
        <5>. QED  BY <3>12, <5>1 DEF WaitBlock, TypeOK
      <4>3. state' \in [Procs -> States]
        BY <3>12 DEF WaitBlock, TypeOK, States
      <4>. QED  BY <3>12, <4>1, <4>2, <4>3, BlockTypes
             DEF WaitBlock, TypeOK, Instr, prioVars, sleepVars, lockVars
    <3>13. CASE Terminate(p, i)
      <4>1. Retire(p, "none") /\ i.arg \in Procs
        BY <3>13 DEF Terminate
      <4>2. \A q \in Seq(Procs) : Without(q, {i.arg}) \in Seq(Procs)
        BY <2>0, WithoutMembers
      <4>3. /\ ready' \in Seq(Procs) /\ sleepQueue' \in Seq(Procs)
            /\ lockWait' \in [Locks -> Seq(Procs)] /\ eventWait' \in [Events -> Seq(Procs)]
        BY <3>13, <4>2 DEF Terminate, TypeOK
      <4>4. state' \in [Procs -> States] /\ terminated' \in SUBSET Procs
        BY <3>13, <4>1 DEF Terminate, TypeOK, States
      <4>. QED  BY <3>13, <4>1, <4>3, <4>4, RetireTypes
             DEF Terminate, TypeOK, Instr, prioVars
    <3>14. CASE TerminateNothing(p, i)
      <4>1. Retire(p, "none")
        BY <3>14 DEF TerminateNothing
      <4>. QED  BY <3>14, <4>1, RetireTypes
             DEF TerminateNothing, TypeOK, Instr, prioVars, sleepVars, lockVars, eventVars
    <3>. QED
      BY <3>0, <3>1, <3>2, <3>3, <3>4, <3>5, <3>6, <3>7, <3>8, <3>9, <3>10, <3>11,
         <3>12, <3>13, <3>14
  <2>4. ASSUME NEW p \in Procs, SwitchOutQuantum(p)  PROVE TypeOK'
    <3>1. /\ Enqueue(ready, p, priority) \in Seq(Procs) /\ sleepQueue \in Seq(Procs)
          /\ [state EXCEPT ![p] = "READY"] \in [Procs -> States]
          /\ EndSlice(Enqueue(ready, p, priority), sleepQueue, [state EXCEPT ![p] = "READY"])
      BY <2>0, <2>4, EnqueueProperties DEF SwitchOutQuantum, TypeOK, States
    <3>2. ticks' \in [Procs -> Int]
      BY <2>4, ConstantTypes DEF SwitchOutQuantum, TypeOK
    <3>. QED  BY <2>4, <3>1, <3>2, EndSliceTypes
           DEF SwitchOutQuantum, TypeOK, Instr, lockVars, eventVars
  <2>5. ASSUME NEW p \in Procs, SwitchOutSleep(p)  PROVE TypeOK'
    <3>1. /\ ready \in Seq(Procs) /\ Append(sleepQueue, p) \in Seq(Procs)
          /\ [state EXCEPT ![p] = "SLEEPING"] \in [Procs -> States]
          /\ EndSlice(ready, Append(sleepQueue, p), [state EXCEPT ![p] = "SLEEPING"])
      BY <2>5 DEF SwitchOutSleep, TypeOK, States
    <3>2. ticks' \in [Procs -> Int]
      BY <2>5 DEF SwitchOutSleep, SavedTicks, TypeOK
    <3>. QED  BY <2>5, <3>1, <3>2, EndSliceTypes
           DEF SwitchOutSleep, TypeOK, Instr, lockVars, eventVars
  <2>6. CASE SwitchOutBlocked
    <3>1. /\ ready \in Seq(Procs) /\ sleepQueue \in Seq(Procs)
          /\ state \in [Procs -> States] /\ EndSlice(ready, sleepQueue, state)
      BY <2>6 DEF SwitchOutBlocked, TypeOK
    <3>. QED  BY <2>6, <3>1, EndSliceTypes
           DEF SwitchOutBlocked, TypeOK, Instr, lockVars, eventVars
  <2>7. ASSUME NEW p \in Procs, SwitchOutDead(p)  PROVE TypeOK'
    <3>. DEFINE W == {l \in locksHeld[p] : lockWait[l] # << >>}
    <3>1. HandOver(locksHeld[p], p, priority) /\ locksHeld[p] \in SUBSET Locks
      BY <2>7 DEF SwitchOutDead, TypeOK
    <3>2. /\ lockOwner' \in [Locks -> Procs \cup {None}]
          /\ lockWait' \in [Locks -> Seq(Procs)]
          /\ locksHeld' \in [Procs -> SUBSET Locks]
      BY <3>1, <2>0, HandOverTypes
    <3>3. ticks' \in [Procs -> Int] /\ terminated' \in SUBSET Procs
      BY <2>7 DEF SwitchOutDead, SavedTicks, TypeOK
    <3>4. PICK order \in SetToSeqs(W) :
            LET heirs == [n \in DOMAIN order |-> Heir(order[n], priority)]
            IN  EndSlice(EnqueueAll(ready, heirs, priority), sleepQueue,
                         [q \in Procs |-> IF q = p THEN "TERMINATED"
                                          ELSE IF q \in ToSet(heirs) THEN "READY"
                                          ELSE state[q]])
      BY <2>7 DEF SwitchOutDead
    <3>. DEFINE heirs == [n \in DOMAIN order |-> Heir(order[n], priority)]
                st == [q \in Procs |-> IF q = p THEN "TERMINATED"
                                       ELSE IF q \in ToSet(heirs) THEN "READY"
                                       ELSE state[q]]
    <3>5. EndSlice(EnqueueAll(ready, heirs, priority), sleepQueue, st)
      BY <3>4
    <3>6. heirs \in Seq(Procs)
      <4>1. IsFiniteSet(W) /\ W \subseteq Locks
        BY <3>1, LocksAssumption, FS_Subset
      <4>2. Cardinality(W) \in Nat
        BY <4>1, FS_CardinalityType
      <4>3. order \in [1 .. Cardinality(W) -> W]
        BY DEF SetToSeqs
      <4>4. \A n \in 1 .. Cardinality(W) : Heir(order[n], priority) \in Procs
        BY <4>1, <4>3, <2>0, HeirIsWaiter
      <4>5. heirs \in [1 .. Cardinality(W) -> Procs]
        BY <4>3, <4>4
      <4>. HIDE DEF heirs, W
      <4>. QED  BY <4>2, <4>5
    <3>7. st \in [Procs -> States]
      BY DEF TypeOK, States
    <3>. HIDE DEF heirs, st
    <3>8. EnqueueAll(ready, heirs, priority) \in Seq(Procs) /\ sleepQueue \in Seq(Procs)
      BY <3>6, <2>0, EnqueueAllProperties DEF TypeOK
    <3>. QED  BY <2>7, <3>2, <3>3, <3>5, <3>7, <3>8, EndSliceTypes
           DEF SwitchOutDead, TypeOK, Instr, eventVars
  <2>8. CASE UNCHANGED vars
    BY <2>8 DEF vars, TypeOK, loopVars, prioVars, sleepVars, lockVars, eventVars
  <2>9. Halted => UNCHANGED vars
    BY DEF Halted
  <2>. QED
    BY <2>1, <2>2, <2>3, <2>4, <2>5, <2>6, <2>7, <2>8, <2>9 DEF Next, SwitchOut
<1>. QED
  BY <1>1, <1>2, PTL DEF Spec

-----------------------------------------------------------------------------
(***************************************************************************)
(* Locks                                                                   *)
(***************************************************************************)

(* Passing on locks that p owns keeps lock_owner and locks_held in step: each *)
(* of them leaves p's set and enters the set of its heir, and of nobody else. *)
LEMMA HandOverKeepsTables ==
  ASSUME TypeOK, LockTablesAgree, NEW prio \in [Procs -> Int], NEW p \in Procs,
         NEW S \in SUBSET Locks, \A l \in S : lockOwner[l] = p, HandOver(S, p, prio)
  PROVE  LockTablesAgree'
<1>1. SUFFICES ASSUME NEW l \in Locks, NEW q \in Procs
               PROVE  lockOwner'[l] = q <=> l \in locksHeld'[q]
  BY DEF LockTablesAgree
<1>2. None \notin Procs
  BY ProcsAssumption
<1>3. lockOwner[l] = q <=> l \in locksHeld[q]
  BY DEF LockTablesAgree
<1>4. /\ lockOwner'[l] = IF l \in S THEN NewOwner(l, prio) ELSE lockOwner[l]
      /\ locksHeld'[q] = (IF q = p THEN locksHeld[q] \ S ELSE locksHeld[q])
                           \cup {k \in S : lockWait[k] # << >> /\ Heir(k, prio) = q}
  BY DEF HandOver
<1>5. CASE l \notin S
  BY <1>3, <1>4, <1>5
<1>6. CASE l \in S
  <2>1. l \in locksHeld'[q] <=> lockWait[l] # << >> /\ Heir(l, prio) = q
    BY <1>3, <1>4, <1>6
  <2>2. NewOwner(l, prio) = q <=> lockWait[l] # << >> /\ Heir(l, prio) = q
    BY <1>2 DEF NewOwner
  <2>. QED  BY <1>4, <1>6, <2>1, <2>2
<1>. QED
  BY <1>5, <1>6

(* lock_owner and locks_held never disagree, through acquire_lock,           *)
(* release_lock and force_release_all_locks, for every set of programs.      *)
THEOREM LockTablesAlwaysAgree == Spec => []LockTablesAgree
<1>1. Init => LockTablesAgree
  BY ProcsAssumption DEF Init, LockTablesAgree
<1>2. TypeOK /\ LockTablesAgree /\ [Next]_vars => LockTablesAgree'
  <2>. SUFFICES ASSUME TypeOK, LockTablesAgree, [Next]_vars PROVE LockTablesAgree'
    OBVIOUS
  <2>0. priority \in [Procs -> Int]
    BY PriorityIsInt DEF TypeOK
  <2>1. ASSUME UNCHANGED <<lockOwner, locksHeld>>  PROVE LockTablesAgree'
    BY <2>1 DEF LockTablesAgree
  <2>2. ASSUME NEW p \in Procs, Step(p)  PROVE LockTablesAgree'
    <3>0. PICK i \in Program[p] :
            \/ Compute(p, i) \/ SetPriority(p, i) \/ Sleep(p, i)
            \/ Leave(p, i) \/ Crash(p, i)
            \/ AcquireAvailable(p, i) \/ AcquireBusy(p, i)
            \/ Release(p, i) \/ ReleaseNotOwner(p, i)
            \/ Signal(p, i) \/ WaitSignaled(p, i) \/ WaitBlock(p, i)
            \/ Terminate(p, i) \/ TerminateNothing(p, i)
      BY <2>2 DEF Step
    <3>1. CASE AcquireAvailable(p, i)
      <4>. DEFINE k == i.arg
      <4>1. /\ k \in Locks /\ None \notin Procs
            /\ lockOwner[k] \in {None, p}
            /\ lockOwner' = [lockOwner EXCEPT ![k] = p]
            /\ locksHeld' = IF lockOwner[k] = p THEN locksHeld
                            ELSE [locksHeld EXCEPT ![p] = @ \cup {k}]
        BY <3>1, ProcsAssumption DEF AcquireAvailable
      <4>. HIDE DEF k
      <4>2. SUFFICES ASSUME NEW l \in Locks, NEW q \in Procs
                     PROVE  lockOwner'[l] = q <=> l \in locksHeld'[q]
        BY DEF LockTablesAgree
      <4>3. \A r \in Procs : lockOwner[l] = r <=> l \in locksHeld[r]
        BY DEF LockTablesAgree
      <4>4. /\ lockOwner'[l] = IF l = k THEN p ELSE lockOwner[l]
            /\ l \in locksHeld'[q] <=> l \in locksHeld[q] \/ (l = k /\ q = p)
        BY <4>1, <4>3 DEF TypeOK
      <4>. QED  BY <4>1, <4>3, <4>4
    <3>2. CASE Release(p, i)
      <4>1. /\ {i.arg} \in SUBSET Locks /\ lockOwner[i.arg] = p
            /\ HandOver({i.arg}, p, priority')
        BY <3>2 DEF Release
      <4>2. priority' \in [Procs -> Int]
        BY <3>2, <2>0 DEF Release, TypeOK
      <4>. QED  BY <4>1, <4>2, HandOverKeepsTables
    <3>. QED
      BY <3>0, <3>1, <3>2, <2>1
         DEF Compute, SetPriority, Sleep, Leave, Crash, AcquireBusy, ReleaseNotOwner,
             Signal, WaitSignaled, WaitBlock, Terminate, TerminateNothing, lockVars
  <2>3. ASSUME NEW p \in Procs, SwitchOutDead(p)  PROVE LockTablesAgree'
    <3>1. HandOver(locksHeld[p], p, priority) /\ locksHeld[p] \in SUBSET Locks
      BY <2>3 DEF SwitchOutDead, TypeOK
    <3>2. \A l \in locksHeld[p] : lockOwner[l] = p
      BY <3>1 DEF LockTablesAgree
    <3>. QED  BY <3>1, <3>2, <2>0, HandOverKeepsTables
  <2>. QED
    BY <2>1, <2>2, <2>3
       DEF Next, SwitchOut, Dispatch, NothingReady, SwitchOutQuantum, SwitchOutSleep,
           SwitchOutBlocked, Halted, vars, lockVars
<1>. QED
  BY <1>1, <1>2, TypeCorrect, PTL DEF Spec

-----------------------------------------------------------------------------
(***************************************************************************)
(* Events and time slices                                                  *)
(***************************************************************************)

(* signal_event and wait_event never leave an event signaled while a process *)
(* waits for it, so no waiter sleeps through a signal that is still there.   *)
THEOREM NoWaiterBesideASignal == Spec => []SignalOrWaiters
<1>1. Init => SignalOrWaiters
  BY DEF Init, SignalOrWaiters
<1>2. TypeOK /\ SignalOrWaiters /\ [Next]_vars => SignalOrWaiters'
  <2>. SUFFICES ASSUME TypeOK, SignalOrWaiters, [Next]_vars PROVE SignalOrWaiters'
    OBVIOUS
  <2>1. ASSUME UNCHANGED <<signaled, eventWait>>  PROVE SignalOrWaiters'
    BY <2>1 DEF SignalOrWaiters
  <2>2. ASSUME NEW p \in Procs, Step(p)  PROVE SignalOrWaiters'
    <3>0. PICK i \in Program[p] :
            \/ Compute(p, i) \/ SetPriority(p, i) \/ Sleep(p, i)
            \/ Leave(p, i) \/ Crash(p, i)
            \/ AcquireAvailable(p, i) \/ AcquireBusy(p, i)
            \/ Release(p, i) \/ ReleaseNotOwner(p, i)
            \/ Signal(p, i) \/ WaitSignaled(p, i) \/ WaitBlock(p, i)
            \/ Terminate(p, i) \/ TerminateNothing(p, i)
      BY <2>2 DEF Step
    <3>1. CASE Signal(p, i)
      BY <3>1 DEF Signal, SignalOrWaiters, TypeOK
    <3>2. CASE WaitSignaled(p, i)
      BY <3>2 DEF WaitSignaled, SignalOrWaiters, TypeOK
    <3>3. CASE WaitBlock(p, i)
      BY <3>3 DEF WaitBlock, SignalOrWaiters, TypeOK
    <3>4. CASE Terminate(p, i)
      <4>1. ASSUME NEW e \in Events, eventWait[e] = << >>
            PROVE  Without(eventWait[e], {i.arg}) = << >>
        <5>. DEFINE q == eventWait[e]
                    T == {i.arg}
                    r == Without(q, T)
        <5>1. q \in Seq(Procs) /\ ToSet(q) = {} /\ priority \in [Procs -> Int]
          BY <4>1, PriorityIsInt DEF TypeOK, ToSet
        <5>. HIDE DEF q, T
        <5>2. r \in Seq(Procs) /\ ToSet(r) = ToSet(q) \ T
          BY <5>1, WithoutMembers
        <5>. HIDE DEF r
        <5>3. r = << >>
          BY <5>1, <5>2, NoMembers
        <5>. QED  BY <5>3 DEF r, q, T
      <4>. QED  BY <3>4, <4>1 DEF Terminate, SignalOrWaiters
    <3>. QED
      BY <3>0, <3>1, <3>2, <3>3, <3>4, <2>1
         DEF Compute, SetPriority, Sleep, Leave, Crash, AcquireAvailable, AcquireBusy,
             Release, ReleaseNotOwner, TerminateNothing, eventVars
  <2>. QED
    BY <2>1, <2>2
       DEF Next, SwitchOut, Dispatch, NothingReady, SwitchOutQuantum, SwitchOutSleep,
           SwitchOutBlocked, SwitchOutDead, Halted, vars, eventVars
<1>. QED
  BY <1>1, <1>2, TypeCorrect, PTL DEF Spec

(* Nobody is on the CPU between two slices, nor after acquire_lock or        *)
(* wait_event switched the caller out.                                       *)
CpuEmpty ==
  /\ phase = "pick" => running = None /\ switchReason = "none"
  /\ phase = "run" /\ switchReason \in {"lock", "event"} => running = None

SliceInv == CpuEmpty /\ SlicesAreFull

LEMMA RetireKeepsSlices ==
  ASSUME TypeOK, SliceInv, NEW p \in Procs, NEW reason \in {"none", "sleep"},
         phase = "run", running = p, Retire(p, reason)
  PROVE  SliceInv'
BY DEF SliceInv, CpuEmpty, SlicesAreFull, Retire

LEMMA BlockKeepsSlices ==
  ASSUME TypeOK, SliceInv, NEW p \in Procs, NEW i,
         NEW reason \in {"lock", "event"}, phase = "run", running = p, Block(p, i, reason)
  PROVE  SliceInv'
<1>1. /\ None \notin Procs /\ running' = None /\ phase' = "run"
      /\ ticks \in [Procs -> Int] /\ ticks' = [ticks EXCEPT ![p] = cpuTicks]
      /\ cpuTicks = Quantum(p)
      /\ \A q \in Procs : q # p => ticks[q] = Quantum(q)
  BY ProcsAssumption DEF SliceInv, SlicesAreFull, Block, SavedTicks, TypeOK
<1>2. \A q \in Procs : ticks'[q] = Quantum(q)
  BY <1>1
<1>. QED
  BY <1>1, <1>2 DEF SliceInv, CpuEmpty, SlicesAreFull

LEMMA EndSliceKeepsSlices ==
  ASSUME NEW rq, NEW sq, NEW st, EndSlice(rq, sq, st),
         \A p \in Procs : ticks'[p] = Quantum(p)
  PROVE  SliceInv'
BY ProcsAssumption DEF SliceInv, CpuEmpty, SlicesAreFull, EndSlice

(* context_switch_out saves the tick count of the last switch in, so a       *)
(* process that gives up the CPU early is given a full quantum next time.    *)
THEOREM EverySliceIsFull == Spec => []SlicesAreFull
<1>1. Init => SliceInv
  BY ProcsAssumption DEF Init, SliceInv, CpuEmpty, SlicesAreFull
<1>2. TypeOK /\ SliceInv /\ [Next]_vars => SliceInv'
  <2>. SUFFICES ASSUME TypeOK, SliceInv, [Next]_vars PROVE SliceInv'
    OBVIOUS
  <2>0. None \notin Procs
    BY ProcsAssumption
  <2>1. CASE Dispatch
    <3>1. ready \in Seq(Procs) /\ ready # << >> /\ priority \in [Procs -> Int]
      BY <2>1, PriorityIsInt DEF Dispatch, TypeOK
    <3>2. Head(ready) \in Procs
      BY <3>1, PopFront
    <3>. QED
      BY <2>0, <2>1, <3>2 DEF Dispatch, SliceInv, CpuEmpty, SlicesAreFull
  <2>2. CASE NothingReady
    BY <2>2 DEF NothingReady, SliceInv, CpuEmpty, SlicesAreFull
  <2>3. ASSUME NEW p \in Procs, Step(p)  PROVE SliceInv'
    <3>0. PICK i \in Program[p] :
            \/ Compute(p, i) \/ SetPriority(p, i) \/ Sleep(p, i)
            \/ Leave(p, i) \/ Crash(p, i)
            \/ AcquireAvailable(p, i) \/ AcquireBusy(p, i)
            \/ Release(p, i) \/ ReleaseNotOwner(p, i)
            \/ Signal(p, i) \/ WaitSignaled(p, i) \/ WaitBlock(p, i)
            \/ Terminate(p, i) \/ TerminateNothing(p, i)
      BY <2>3 DEF Step
    <3>1. phase = "run" /\ running = p /\ switchReason = "none"
      BY <3>0 DEF Fetch, Compute, SetPriority, Sleep, Leave, Crash, AcquireAvailable,
                  AcquireBusy, Release, ReleaseNotOwner, Signal, WaitSignaled, WaitBlock,
                  Terminate, TerminateNothing
    <3>2. CASE Leave(p, i)
      BY <3>1, <3>2 DEF Leave, SliceInv, CpuEmpty, SlicesAreFull
    <3>3. CASE Crash(p, i)
      BY <3>1, <3>3 DEF Crash, SliceInv, CpuEmpty, SlicesAreFull
    <3>4. CASE Block(p, i, "lock") \/ Block(p, i, "event")
      BY <3>1, <3>4, BlockKeepsSlices
    <3>5. CASE Retire(p, "none") \/ Retire(p, "sleep")
      BY <3>1, <3>5, RetireKeepsSlices
    <3>. QED
      BY <3>0, <3>2, <3>3, <3>4, <3>5
         DEF Compute, SetPriority, Sleep, AcquireAvailable, AcquireBusy, Release,
             ReleaseNotOwner, Signal, WaitSignaled, WaitBlock, Terminate, TerminateNothing
  <2>4. ASSUME NEW p \in Procs, SwitchOutQuantum(p)  PROVE SliceInv'
    <3>1. \A q \in Procs : ticks'[q] = Quantum(q)
      BY <2>4 DEF SwitchOutQuantum, SliceInv, SlicesAreFull, TypeOK
    <3>. QED  BY <2>4, <3>1, EndSliceKeepsSlices DEF SwitchOutQuantum
  <2>5. ASSUME NEW p \in Procs, SwitchOutSleep(p)  PROVE SliceInv'
    <3>1. \A q \in Procs : ticks'[q] = Quantum(q)
      BY <2>5 DEF SwitchOutSleep, SavedTicks, SliceInv, SlicesAreFull, TypeOK
    <3>. QED  BY <2>5, <3>1, EndSliceKeepsSlices DEF SwitchOutSleep
  <2>6. CASE SwitchOutBlocked
    <3>1. \A q \in Procs : ticks'[q] = Quantum(q)
      BY <2>0, <2>6 DEF SwitchOutBlocked, SliceInv, CpuEmpty, SlicesAreFull
    <3>. QED  BY <2>6, <3>1, EndSliceKeepsSlices DEF SwitchOutBlocked
  <2>7. ASSUME NEW p \in Procs, SwitchOutDead(p)  PROVE SliceInv'
    <3>1. \A q \in Procs : ticks'[q] = Quantum(q)
      BY <2>7 DEF SwitchOutDead, SavedTicks, SliceInv, SlicesAreFull, TypeOK
    <3>. QED  BY <2>7, <3>1, EndSliceKeepsSlices DEF SwitchOutDead
  <2>8. CASE UNCHANGED vars
    BY <2>8 DEF vars, loopVars, SliceInv, CpuEmpty, SlicesAreFull
  <2>. QED
    BY <2>1, <2>2, <2>3, <2>4, <2>5, <2>6, <2>7, <2>8 DEF Next, SwitchOut, Halted
<1>3. SliceInv => SlicesAreFull
  BY DEF SliceInv
<1>. QED
  BY <1>1, <1>2, <1>3, TypeCorrect, PTL DEF Spec

=============================================================================
