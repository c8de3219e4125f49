------------------------- MODULE SchedulerLockProofs -------------------------
(***************************************************************************)
(* Theorems of Scheduler about locks and priorities, which rest on every    *)
(* process being in the queue its state names: a lock that is waited for    *)
(* has an owner, a woken waiter owns its lock, and the locks implement      *)
(* LockService; the ready queue stays in order while the priorities of its  *)
(* members change, so that the head pick_next takes is a process of the     *)
(* highest priority; a lock's owner runs at no less than the priority of    *)
(* those who wait for it, and a lent priority ends.  The last section is    *)
(* about processes that have not run yet, for KernelProofs.                 *)
(***************************************************************************)
EXTENDS SchedulerQueueProofs

-----------------------------------------------------------------------------
(***************************************************************************)
(* Waiters and owners                                                      *)
(***************************************************************************)

LEMMA HandOverKeepsOwners ==
  ASSUME TypeOK, QueueInv, WaitersHaveAnOwner, NEW prio \in [Procs -> Int],
         NEW p \in Procs, NEW S \in SUBSET Locks, HandOver(S, p, prio)
  PROVE  WaitersHaveAnOwner'
<1>1. SUFFICES ASSUME NEW l \in Locks, lockWait'[l] # << >>
               PROVE  lockOwner'[l] # None /\ lockOwner'[l] \notin ToSet(lockWait'[l])
  BY DEF WaitersHaveAnOwner
<1>2. /\ lockOwner'[l] = IF l \in S THEN NewOwner(l, prio) ELSE lockOwner[l]
      /\ lockWait'[l] = IF l \in S THEN StillWaiting(l, prio) ELSE lockWait[l]
  BY DEF HandOver
<1>3. CASE l \notin S
  BY <1>1, <1>2, <1>3 DEF WaitersHaveAnOwner
<1>4. CASE l \in S
  <2>1. lockWait[l] # << >>
    BY <1>1, <1>2, <1>4 DEF StillWaiting
  <2>2. /\ Heir(l, prio) \in Procs
        /\ ToSet(StillWaiting(l, prio)) = ToSet(lockWait[l]) \ {Heir(l, prio)}
    BY <2>1, HeirLeaves DEF QueueInv, Filed
  <2>. QED  BY <1>2, <1>4, <2>1, <2>2, ProcsAssumption DEF NewOwner
<1>. QED
  BY <1>3, <1>4

(* A lock with waiters is owned, and not by one of them, through            *)
(* acquire_lock, release_lock, force_release_all_locks and                  *)
(* terminate_process: no waiter is left behind.                             *)
THEOREM WaitersAlwaysHaveAnOwner == Spec => []WaitersHaveAnOwner
<1>1. Init => WaitersHaveAnOwner
  BY DEF Init, WaitersHaveAnOwner
<1>2. TypeOK /\ QueueInv /\ WaitersHaveAnOwner /\ [Next]_vars => WaitersHaveAnOwner'
  <2>. SUFFICES ASSUME TypeOK, QueueInv, WaitersHaveAnOwner, [Next]_vars
                PROVE  WaitersHaveAnOwner'
    OBVIOUS
  <2>0. /\ priority \in [Procs -> Int]
        /\ lockWait \in [Locks -> Seq(Procs)]
        /\ lockOwner \in [Locks -> Procs \cup {None}]
    BY PriorityIsInt DEF TypeOK
  <2>1. ASSUME UNCHANGED <<lockOwner, lockWait>>  PROVE WaitersHaveAnOwner'
    BY <2>1 DEF WaitersHaveAnOwner
  <2>2. ASSUME NEW p \in Procs, Step(p)  PROVE WaitersHaveAnOwner'
    <3>0. PICK i \in Program[p] :
            \/ Compute(p, i) \/ SetPriority(p, i) \/ Sleep(p, i)
            \/ Leave(p, i) \/ Crash(p, i)
            \/ AcquireAvailable(p, i) \/ AcquireBusy(p, i)
            \/ Release(p, i) \/ ReleaseNotOwner(p, i)
            \/ Signal(p, i) \/ WaitSignaled(p, i) \/ WaitBlock(p, i)
            \/ Terminate(p, i) \/ TerminateNothing(p, i)
      BY <2>2 DEF Step
    <3>1. CASE AcquireAvailable(p, i)
      <4>. DEFINE k == i.arg
      <4>1. /\ k \in Locks /\ lockOwner[k] \in {None, p} /\ UNCHANGED lockWait
            /\ lockOwner' = [lockOwner EXCEPT ![k] = p]
        BY <3>1 DEF AcquireAvailable
      <4>. HIDE DEF k
      <4>2. \A l \in Locks : lockOwner'[l] = IF l = k THEN p ELSE lockOwner[l]
        BY <2>0, <4>1
      <4>. QED  BY <4>1, <4>2 DEF WaitersHaveAnOwner
    <3>2. CASE AcquireBusy(p, i)
      <4>. DEFINE k == i.arg
                  w == lockWait[k]
                  a == Append(w, p)
      <4>1. /\ k \in Locks /\ lockOwner[k] \notin {None, p} /\ UNCHANGED lockOwner
            /\ lockWait' = [lockWait EXCEPT ![k] = a]
        BY <3>2 DEF AcquireBusy
      <4>2. w \in Seq(Procs) /\ (w = << >> => ToSet(w) = {})
        BY <2>0, <4>1 DEF ToSet
      <4>3. lockOwner[k] \notin ToSet(w)
        BY <4>1, <4>2 DEF WaitersHaveAnOwner
      <4>. HIDE DEF k, w
      <4>4. ToSet(a) = ToSet(w) \cup {p}
        BY <4>2, AppendMember
      <4>. HIDE DEF a
      <4>5. \A l \in Locks : lockWait'[l] = IF l = k THEN a ELSE lockWait[l]
        BY <2>0, <4>1
      <4>. QED  BY <4>1, <4>3, <4>4, <4>5 DEF WaitersHaveAnOwner
    <3>3. CASE Release(p, i)
      <4>1. {i.arg} \in SUBSET Locks /\ HandOver({i.arg}, p, priority')
        BY <3>3 DEF Release
      <4>2. priority' \in [Procs -> Int]
        BY <2>0, <3>3 DEF Release, TypeOK
      <4>. QED  BY <4>1, <4>2, HandOverKeepsOwners
    <3>4. CASE Terminate(p, i)
      <4>. DEFINE T == {i.arg}
      <4>1. lockWait' = [l \in Locks |-> Without(lockWait[l], T)] /\ UNCHANGED lockOwner
        BY <3>4 DEF Terminate
      <4>. HIDE DEF T
      <4>2. ASSUME NEW l \in Locks, lockWait'[l] # << >>
            PROVE  lockOwner'[l] # None /\ lockOwner'[l] \notin ToSet(lockWait'[l])
        <5>1. lockWait[l] \in Seq(Procs) /\ lockWait'[l] = Without(lockWait[l], T)
          BY <2>0, <4>1
        <5>2. lockWait'[l] \in Seq(Procs) /\ ToSet(lockWait'[l]) = ToSet(lockWait[l]) \ T
          BY <5>1, WithoutMembers
        <5>3. ToSet(lockWait'[l]) # {}
          BY <4>2, <5>2, NoMembers
        <5>4. lockWait[l] # << >>
          <6>1. lockWait[l] = << >> => ToSet(lockWait[l]) = {}
            BY DEF ToSet
          <6>. QED  BY <5>2, <5>3, <6>1
        <5>. QED  BY <4>1, <5>2, <5>4 DEF WaitersHaveAnOwner
      <4>. QED  BY <4>2 DEF WaitersHaveAnOwner
    <3>. QED
      BY <3>0, <3>1, <3>2, <3>3, <3>4, <2>1
         DEF Compute, SetPriority, Sleep, Leave, Crash, ReleaseNotOwner,
             Signal, WaitSignaled, WaitBlock, TerminateNothing, lockVars
  <2>3. ASSUME NEW p \in Procs, SwitchOutDead(p)  PROVE WaitersHaveAnOwner'
    <3>1. HandOver(locksHeld[p], p, priority) /\ locksHeld[p] \in SUBSET Locks
      BY <2>3 DEF SwitchOutDead, TypeOK
    <3>. QED  BY <3>1, <2>0, HandOverKeepsOwners
  <2>. QED
    BY <2>1, <2>2, <2>3
       DEF Next, SwitchOut, Dispatch, NothingReady, SwitchOutQuantum, SwitchOutSleep,
           SwitchOutBlocked, Halted, vars, lockVars
<1>. QED
  BY <1>1, <1>2, TypeCorrect, QueuesStayFiled, PTL DEF Spec

-----------------------------------------------------------------------------
(***************************************************************************)
(* The retried ACQUIRE                                                     *)
(***************************************************************************)

(* Whoever is to execute an ACQUIRE again waits for its lock or owns it; a *)
(* process that terminated itself has nothing to execute again.            *)
RetryInv ==
  /\ \A p \in Procs :
       retry[p] # None /\ retry[p].op = "acquire" /\ state[p] # "TERMINATED" =>
         /\ retry[p].arg \in Locks
         /\ \/ p \in ToSet(lockWait[retry[p].arg])
            \/ lockOwner[retry[p].arg] = p
  /\ \A p \in Procs :
       state[p] = "TERMINATED" /\ p = running /\ switchReason \notin {"exit", "error"}
         => retry[p] = None

(* Passing on the locks of p keeps it, for everyone but p. *)
LEMMA HandOverKeepsRetries ==
  ASSUME TypeOK, QueueInv, RetryInv, NEW prio \in [Procs -> Int], NEW p \in Procs,
         NEW S \in SUBSET Locks, \A l \in S : lockOwner[l] = p, HandOver(S, p, prio),
         NEW r \in Procs, r # p,
         retry[r] # None, retry[r].op = "acquire", state[r] # "TERMINATED"
  PROVE  /\ retry[r].arg \in Locks
         /\ \/ r \in ToSet(lockWait'[retry[r].arg])
            \/ lockOwner'[retry[r].arg] = r
<1>. DEFINE l == retry[r].arg
<1>1. l \in Locks /\ (r \in ToSet(lockWait[l]) \/ lockOwner[l] = r)
  BY DEF RetryInv
<1>2. /\ lockOwner'[l] = IF l \in S THEN NewOwner(l, prio) ELSE lockOwner[l]
      /\ lockWait'[l] = IF l \in S THEN StillWaiting(l, prio) ELSE lockWait[l]
  BY <1>1 DEF HandOver
<1>. HIDE DEF l
<1>3. CASE l \in S
  <2>1. r \in ToSet(lockWait[l])
    BY <1>1, <1>3
  <2>2. lockWait[l] # << >>
    BY <2>1 DEF ToSet
  <2>3. ToSet(StillWaiting(l, prio)) = ToSet(lockWait[l]) \ {Heir(l, prio)}
    BY <1>1, <2>2, HeirLeaves DEF QueueInv, Filed
  <2>4. NewOwner(l, prio) = Heir(l, prio)
    BY <2>2 DEF NewOwner
  <2>. QED  BY <1>1, <1>2, <1>3, <2>1, <2>3, <2>4 DEF l
<1>4. CASE l \notin S
  BY <1>1, <1>2, <1>4 DEF l
<1>. QED
  BY <1>3, <1>4

LEMMA EndSliceRetries ==
  ASSUME NEW rq, NEW sq, NEW st, EndSlice(rq, sq, st), FiledIn(sq, st, "SLEEPING")
  PROVE  /\ running' = None /\ retry' = retry
         /\ \A r \in Procs : state'[r] # "TERMINATED" => st[r] # "TERMINATED"
BY DEF EndSlice, FiledIn

(* What a step may do to the waiters and owners that retries rely on. *)
LEMMA SameLocksSameRetries ==
  ASSUME RetryInv, UNCHANGED <<lockWait, lockOwner>>,
         \A r \in Procs :
           \/ retry'[r] = None
           \/ retry'[r] = retry[r] /\ (state'[r] # "TERMINATED" => state[r] # "TERMINATED"),
         \A r \in Procs :
           state'[r] = "TERMINATED" /\ r = running' /\ switchReason' \notin {"exit", "error"}
             => retry'[r] = None
  PROVE  RetryInv'
BY DEF RetryInv

LEMMA StepKeepsRetries ==
  ASSUME TypeOK, QueueInv, RetryInv, NEW p \in Procs, Step(p)
  PROVE  RetryInv'
<1>1. PICK i \in Program[p] :
        \/ Compute(p, i) \/ SetPriority(p, i) \/ Sleep(p, i)
        \/ Leave(p, i) \/ Crash(p, i)
        \/ AcquireAvailable(p, i) \/ AcquireBusy(p, i)
        \/ Release(p, i) \/ ReleaseNotOwner(p, i)
        \/ Signal(p, i) \/ WaitSignaled(p, i) \/ WaitBlock(p, i)
        \/ Terminate(p, i) \/ TerminateNothing(p, i)
  BY DEF Step
<1>2. phase = "run" /\ running = p /\ switchReason = "none"
  BY <1>1 DEF Fetch, Compute, SetPriority, Sleep, Leave, Crash, AcquireAvailable,
              AcquireBusy, Release, ReleaseNotOwner, Signal, WaitSignaled, WaitBlock,
              Terminate, TerminateNothing
<1>3. /\ priority \in [Procs -> Int] /\ state \in [Procs -> States]
      /\ lockWait \in [Locks -> Seq(Procs)] /\ eventWait \in [Events -> Seq(Procs)]
      /\ lockOwner \in [Locks -> Procs \cup {None}]
      /\ retry \in [Procs -> Instr \cup {None}]
      /\ None \notin Procs
  BY PriorityIsInt, ProcsAssumption DEF TypeOK, Instr
<1>4. ASSUME Retire(p, "none") \/ Retire(p, "sleep")
      PROVE  /\ running' = p /\ retry'[p] = None
             /\ \A r \in Procs : r # p => retry'[r] = retry[r]
  BY <1>2, <1>3, <1>4 DEF Retire
<1>5. ASSUME Retire(p, "none") \/ Retire(p, "sleep"), UNCHANGED <<lockWait, lockOwner>>,
             \A r \in Procs : r # p /\ state'[r] # "TERMINATED" => state[r] # "TERMINATED"
      PROVE  RetryInv'
  BY <1>4, <1>5, SameLocksSameRetries
<1>6. CASE Leave(p, i)
  <2>1. UNCHANGED <<lockWait, lockOwner, retry, state>> /\ switchReason' \in {"exit", "error"}
    BY <1>6 DEF Leave, lockVars
  <2>. QED  BY <2>1, SameLocksSameRetries
<1>7. CASE Crash(p, i)
  BY <1>7 DEF Crash, lockVars, RetryInv
<1>8. CASE AcquireAvailable(p, i)
  <2>. DEFINE k == i.arg
  <2>1. /\ k \in Locks /\ lockOwner[k] \in {None, p}
        /\ lockOwner' = [lockOwner EXCEPT ![k] = p]
        /\ UNCHANGED <<lockWait, state>> /\ Retire(p, "none")
    BY <1>8 DEF AcquireAvailable
  <2>. HIDE DEF k
  <2>2. \A l \in Locks : lockOwner'[l] = IF l = k THEN p ELSE lockOwner[l]
    BY <1>3, <2>1
  <2>3. ASSUME NEW r \in Procs, retry'[r] # None, retry'[r].op = "acquire",
               state'[r] # "TERMINATED"
        PROVE  /\ retry'[r].arg \in Locks
               /\ \/ r \in ToSet(lockWait'[retry'[r].arg])
                  \/ lockOwner'[retry'[r].arg] = r
    <3>1. r # p /\ retry'[r] = retry[r] /\ state[r] # "TERMINATED"
      BY <1>4, <2>1, <2>3
    <3>. DEFINE l == retry[r].arg
    <3>2. l \in Locks /\ (r \in ToSet(lockWait[l]) \/ lockOwner[l] = r)
      BY <2>3, <3>1 DEF RetryInv
    <3>. HIDE DEF l
    <3>3. r \in ToSet(lockWait'[l]) \/ lockOwner'[l] = r
      BY <1>3, <2>1, <2>2, <3>1, <3>2
    <3>. QED  BY <3>1, <3>2, <3>3 DEF l
  <2>4. \A r \in Procs : r = running' => retry'[r] = None
    BY <1>4, <2>1
  <2>. QED  BY <2>3, <2>4 DEF RetryInv
<1>9. CASE AcquireBusy(p, i)
  <2>. DEFINE k == i.arg
              a == Append(lockWait[k], p)
  <2>1. /\ k \in Locks /\ UNCHANGED lockOwner
        /\ lockWait' = [lockWait EXCEPT ![k] = a]
        /\ state' = [state EXCEPT ![p] = "WAITING_LOCK"]
        /\ running' = None /\ retry' = [retry EXCEPT ![p] = i]
    BY <1>9 DEF AcquireBusy, Block
  <2>2. ToSet(a) = ToSet(lockWait[k]) \cup {p}
    <3>1. lockWait[k] \in Seq(Procs)
      BY <1>3, <2>1
    <3>. HIDE DEF k
    <3>. QED  BY <3>1, AppendMember
  <2>. HIDE DEF a
  <2>3. \A l \in Locks : lockWait'[l] = IF l = k THEN a ELSE lockWait[l]
    BY <1>3, <2>1
  <2>4. \A r \in Procs : /\ retry'[r] = IF r = p THEN i ELSE retry[r]
                         /\ r # p => state'[r] = state[r]
    BY <1>3, <2>1
  <2>5. \A l \in Locks : \A r \in Procs : r \in ToSet(lockWait[l]) => r \in ToSet(lockWait'[l])
    BY <2>2, <2>3
  <2>6. p \in ToSet(lockWait'[k])
    BY <2>1, <2>2, <2>3
  <2>. QED  BY <1>3, <2>1, <2>4, <2>5, <2>6 DEF RetryInv
<1>10. CASE WaitBlock(p, i)
  <2>1. /\ UNCHANGED <<lockWait, lockOwner>> /\ i.op = "wait"
        /\ state' = [state EXCEPT ![p] = "WAITING_EVENT"]
        /\ running' = None /\ retry' = [retry EXCEPT ![p] = i]
    BY <1>10 DEF WaitBlock, Block, lockVars
  <2>2. \A r \in Procs : /\ retry'[r] = IF r = p THEN i ELSE retry[r]
                         /\ r # p => state'[r] = state[r]
    BY <1>3, <2>1
  <2>. QED  BY <1>3, <2>1, <2>2 DEF RetryInv
<1>11. CASE Release(p, i)
  <2>. DEFINE k == i.arg
              T == {k}
              h == Heir(k, priority')
  <2>1. /\ k \in Locks /\ T \in SUBSET Locks /\ \A l \in T : lockOwner[l] = p
        /\ HandOver(T, p, priority')
        /\ IF lockWait[k] = << >> THEN UNCHANGED state
           ELSE state' = [state EXCEPT ![h] = "READY"]
        /\ Retire(p, "none")
    BY <1>11 DEF Release
  <2>2. priority' \in [Procs -> Int]
    BY <1>3, <1>11 DEF Release, TypeOK
  <2>3. lockWait[k] # << >> => h \in Procs /\ state[h] = "WAITING_LOCK"
    BY <2>1, <2>2, HeirLeaves DEF QueueInv, Filed, FiledAmong
  <2>. HIDE DEF h, T, k
  <2>4. \A r \in Procs : state'[r] # "TERMINATED" => state[r] # "TERMINATED"
    BY <1>3, <2>1, <2>3
  <2>5. \A r \in Procs : r # p => retry'[r] = retry[r]
    BY <1>4, <2>1
  <2>6. ASSUME NEW r \in Procs, r # p, retry[r] # None, retry[r].op = "acquire",
               state[r] # "TERMINATED"
        PROVE  /\ retry[r].arg \in Locks
               /\ \/ r \in ToSet(lockWait'[retry[r].arg])
                  \/ lockOwner'[retry[r].arg] = r
    BY <2>1, <2>2, <2>6, HandOverKeepsRetries
  <2>. QED  BY <1>4, <2>1, <2>4, <2>5, <2>6 DEF RetryInv
<1>12. CASE Signal(p, i)
  <2>1. Retire(p, "none") /\ UNCHANGED <<lockWait, lockOwner>>
    BY <1>12 DEF Signal, lockVars
  <2>2. CASE eventWait[i.arg] = << >>
    BY <1>5, <1>12, <2>1, <2>2 DEF Signal
  <2>3. CASE eventWait[i.arg] # << >>
    <3>. DEFINE k == i.arg
                q == eventWait[k]
                h == Head(ByPriority(q, priority))
    <3>1. k \in Events /\ q # << >> /\ state' = [state EXCEPT ![h] = "READY"]
      BY <1>12, <2>3 DEF Signal
    <3>2. q \in Seq(Procs) /\ NoRepeat(q)
      BY <1>3, <3>1 DEF QueueInv, Filed, FiledAmong
    <3>. HIDE DEF k, q
    <3>3. h \in Procs /\ h \in ToSet(q)
      BY <1>3, <3>1, <3>2, BestLeaves
    <3>. HIDE DEF h
    <3>4. state[h] = "WAITING_EVENT"
      BY <3>1, <3>3 DEF q, QueueInv, Filed, FiledAmong
    <3>5. \A r \in Procs : state'[r] # "TERMINATED" => state[r] # "TERMINATED"
      BY <1>3, <3>1, <3>4
    <3>. QED  BY <1>5, <2>1, <3>5
  <2>. QED  BY <2>2, <2>3
<1>13. CASE Terminate(p, i)
  <2>. DEFINE x == i.arg
              T == {x}
  <2>1. /\ x \in Procs /\ UNCHANGED lockOwner
        /\ lockWait' = [l \in Locks |-> Without(lockWait[l], T)]
        /\ state' = [state EXCEPT ![x] = "TERMINATED"]
        /\ Retire(p, "none")
    BY <1>13 DEF Terminate
  <2>2. \A r \in Procs : state'[r] = IF r = x THEN "TERMINATED" ELSE state[r]
    BY <1>3, <2>1
  <2>. HIDE DEF T
  <2>3. \A l \in Locks : ToSet(lockWait'[l]) = ToSet(lockWait[l]) \ T
    BY <1>3, <2>1, WithoutMembers
  <2>4. \A l \in Locks : \A r \in Procs :
          r # x /\ r \in ToSet(lockWait[l]) => r \in ToSet(lockWait'[l])
    BY <2>3 DEF T
  <2>. HIDE DEF x
  <2>. QED  BY <1>3, <1>4, <2>1, <2>2, <2>4 DEF RetryInv
<1>. QED
  BY <1>1, <1>5, <1>6, <1>7, <1>8, <1>9, <1>10, <1>11, <1>12, <1>13
     DEF Compute, SetPriority, Sleep, ReleaseNotOwner, WaitSignaled, TerminateNothing, lockVars

(* An ACQUIRE that is executed again after its process was woken finds the  *)
(* lock its own (acquire_lock's re-entrant case), whoever ran in between.   *)
THEOREM WokenWaitersOwnTheirLock == Spec => []WokenWaiterOwnsLock
<1>1. Init => RetryInv
  BY DEF Init, RetryInv
<1>2. TypeOK /\ QueueInv /\ LockTablesAgree /\ RetryInv /\ [Next]_vars => RetryInv'
  <2>. SUFFICES ASSUME TypeOK, QueueInv, LockTablesAgree, RetryInv, [Next]_vars
                PROVE  RetryInv'
    OBVIOUS
  <2>0. /\ priority \in [Procs -> Int] /\ state \in [Procs -> States]
        /\ ready \in Seq(Procs) /\ sleepQueue \in Seq(Procs)
        /\ FiledIn(sleepQueue, state, "SLEEPING") /\ None \notin Procs
        /\ FiledAmong(lockWait, Locks, state, "WAITING_LOCK")
    BY PriorityIsInt, ProcsAssumption DEF TypeOK, QueueInv, Filed
  <2>1. CASE Dispatch
    <3>. DEFINE h == Head(ready)
    <3>1. /\ ready # << >> /\ running' = h
          /\ state' = [state EXCEPT ![h] = "RUNNING"]
          /\ UNCHANGED <<lockWait, lockOwner, retry>>
      BY <2>1 DEF Dispatch, lockVars
    <3>2. h \in Procs /\ h \in ToSet(ready)
      BY <2>0, <3>1, PopFront
    <3>. HIDE DEF h
    <3>3. state[h] = "READY"
      BY <3>2 DEF QueueInv, Filed, FiledIn
    <3>4. \A r \in Procs : state'[r] = IF r = h THEN "RUNNING" ELSE state[r]
      BY <2>0, <3>1
    <3>. QED  BY <3>1, <3>3, <3>4, SameLocksSameRetries
  <2>2. CASE NothingReady
    BY <2>2 DEF NothingReady, lockVars, RetryInv
  <2>3. ASSUME NEW p \in Procs, Step(p)  PROVE RetryInv'
    BY <2>3, StepKeepsRetries
  <2>4. ASSUME NEW p \in Procs, SwitchOutQuantum(p)  PROVE RetryInv'
    <3>. DEFINE st == [state EXCEPT ![p] = "READY"]
    <3>1. /\ phase = "run" /\ running = p /\ switchReason = "quantum"
          /\ UNCHANGED <<lockWait, lockOwner>>
          /\ EndSlice(Enqueue(ready, p, priority), sleepQueue, st)
      BY <2>4 DEF SwitchOutQuantum, lockVars
    <3>2. \A r \in Procs : st[r] = IF r = p THEN "READY" ELSE state[r]
      BY <2>0
    <3>. HIDE DEF st
    <3>3. FiledIn(sleepQueue, st, "SLEEPING")
      <4>1. state[p] # "SLEEPING"
        BY <3>1 DEF QueueInv, OnCpu
      <4>. QED  BY <2>0, <3>2, <4>1, FiledElsewhere
    <3>4. /\ running' = None /\ retry' = retry
          /\ \A r \in Procs : state'[r] # "TERMINATED" => st[r] # "TERMINATED"
      BY <3>1, <3>3, EndSliceRetries
    <3>5. state[p] = "TERMINATED" => retry[p] = None
      BY <3>1 DEF RetryInv
    <3>. QED  BY <2>0, <3>1, <3>2, <3>4, <3>5, SameLocksSameRetries
  <2>5. ASSUME NEW p \in Procs, SwitchOutSleep(p)  PROVE RetryInv'
    <3>. DEFINE st == [state EXCEPT ![p] = "SLEEPING"]
    <3>1. /\ phase = "run" /\ running = p /\ switchReason = "sleep"
          /\ UNCHANGED <<lockWait, lockOwner>>
          /\ EndSlice(ready, Append(sleepQueue, p), st)
      BY <2>5 DEF SwitchOutSleep, lockVars
    <3>2. \A r \in Procs : st[r] = IF r = p THEN "SLEEPING" ELSE state[r]
      BY <2>0
    <3>. HIDE DEF st
    <3>3. FiledIn(Append(sleepQueue, p), st, "SLEEPING")
      <4>1. state[p] # "SLEEPING"
        BY <3>1 DEF QueueInv, OnCpu
      <4>2. \A r \in Procs : st[r] = "SLEEPING" <=> state[r] = "SLEEPING" \/ r = p
        BY <3>2
      <4>. QED  BY <2>0, <4>1, <4>2, FileAppend
    <3>4. /\ running' = None /\ retry' = retry
          /\ \A r \in Procs : state'[r] # "TERMINATED" => st[r] # "TERMINATED"
      BY <3>1, <3>3, EndSliceRetries
    <3>5. state[p] = "TERMINATED" => retry[p] = None
      BY <3>1 DEF RetryInv
    <3>. QED  BY <2>0, <3>1, <3>2, <3>4, <3>5, SameLocksSameRetries
  <2>6. CASE SwitchOutBlocked
    <3>1. UNCHANGED <<lockWait, lockOwner>> /\ EndSlice(ready, sleepQueue, state)
      BY <2>6 DEF SwitchOutBlocked, lockVars
    <3>2. /\ running' = None /\ retry' = retry
          /\ \A r \in Procs : state'[r] # "TERMINATED" => state[r] # "TERMINATED"
      BY <2>0, <3>1, EndSliceRetries
    <3>. QED  BY <2>0, <3>1, <3>2, SameLocksSameRetries
  <2>7. ASSUME NEW p \in Procs, SwitchOutDead(p)  PROVE RetryInv'
    <3>1. /\ HandOver(locksHeld[p], p, priority) /\ locksHeld[p] \in SUBSET Locks
          /\ phase = "run" /\ running = p /\ switchReason \in {"exit", "error"}
      BY <2>7 DEF SwitchOutDead, TypeOK
    <3>2. \A l \in locksHeld[p] : lockOwner[l] = p
      BY <3>1 DEF LockTablesAgree
    <3>3. PICK order \in SetToSeqs({l \in locksHeld[p] : lockWait[l] # << >>}) :
            LET heirs == [n \in DOMAIN order |-> Heir(order[n], priority)]
            IN  EndSlice(EnqueueAll(ready, heirs, priority), sleepQueue,
                         [q \in Procs |-> IF q = p THEN "TERMINATED"
                                          ELSE IF q \in ToSet(heirs) THEN "READY"
                                          ELSE state[q]])
      BY <2>7 DEF SwitchOutDead
    <3>. DEFINE heirs == [n \in DOMAIN order |-> Heir(order[n], priority)]
                rq == EnqueueAll(ready, heirs, priority)
                st == [q \in Procs |-> IF q = p THEN "TERMINATED"
                                       ELSE IF q \in ToSet(heirs) THEN "READY"
                                       ELSE state[q]]
    <3>4. EndSlice(rq, sleepQueue, st)
      BY <3>3
    <3>5. ToSet(heirs) = Heirs(locksHeld[p], priority)
      BY <2>0, <3>1, OrderedHeirs
    <3>6. \A h \in ToSet(heirs) : state[h] = "WAITING_LOCK"
      <4>1. \A l \in locksHeld[p] : lockWait[l] # << >> => state[Heir(l, priority)] = "WAITING_LOCK"
        BY <2>0, <3>1, HeirLeaves DEF FiledAmong
      <4>. QED  BY <3>5, <4>1 DEF Heirs
    <3>. HIDE DEF heirs, rq
    <3>7. \A r \in Procs : st[r] = IF r = p THEN "TERMINATED"
                                   ELSE IF r \in ToSet(heirs) THEN "READY" ELSE state[r]
      OBVIOUS
    <3>. HIDE DEF st
    <3>8. FiledIn(sleepQueue, st, "SLEEPING")
      <4>1. state[p] # "SLEEPING"
        BY <3>1 DEF QueueInv, OnCpu
      <4>2. \A r \in Procs : st[r] = "SLEEPING" <=> state[r] = "SLEEPING"
        BY <3>6, <3>7, <4>1
      <4>. QED  BY <2>0, <4>2, FiledElsewhere
    <3>9. /\ running' = None /\ retry' = retry
          /\ \A r \in Procs : state'[r] # "TERMINATED" => st[r] # "TERMINATED"
      BY <3>4, <3>8, EndSliceRetries
    <3>10. \A r \in Procs : state'[r] # "TERMINATED" => r # p /\ state[r] # "TERMINATED"
      BY <3>6, <3>7, <3>9
    <3>11. ASSUME NEW r \in Procs, r # p, retry[r] # None, retry[r].op = "acquire",
                  state[r] # "TERMINATED"
           PROVE  /\ retry[r].arg \in Locks
                  /\ \/ r \in ToSet(lockWait'[retry[r].arg])
                     \/ lockOwner'[retry[r].arg] = r
      <4>. DEFINE S == locksHeld[p]
      <4>1. S \in SUBSET Locks /\ HandOver(S, p, priority) /\ \A l \in S : lockOwner[l] = p
        BY <3>1, <3>2
      <4>2. priority \in [Procs -> Int] /\ TypeOK /\ QueueInv /\ RetryInv
        BY <2>0
      <4>. HIDE DEF S
      <4>. QED  BY <3>11, <4>1, <4>2, HandOverKeepsRetries
    <3>. QED  BY <2>0, <3>9, <3>10, <3>11 DEF RetryInv
  <2>8. CASE UNCHANGED vars
    BY <2>8 DEF vars, loopVars, lockVars, RetryInv
  <2>. QED
    BY <2>1, <2>2, <2>3, <2>4, <2>5, <2>6, <2>7, <2>8 DEF Next, SwitchOut, Halted
<1>3. TypeOK /\ QueueInv /\ RetryInv => WokenWaiterOwnsLock
  <2>. SUFFICES ASSUME TypeOK, QueueInv, RetryInv, NEW p \in Procs, retry[p] # None,
                       state[p] \in {"READY", "RUNNING"}, retry[p].op = "acquire"
                PROVE  lockOwner[retry[p].arg] = p
    BY DEF WokenWaiterOwnsLock
  <2>1. \A l \in Locks : p \notin ToSet(lockWait[l])
    BY DEF QueueInv, Filed, FiledAmong
  <2>. QED  BY <2>1 DEF RetryInv
<1>. QED
  BY <1>1, <1>2, <1>3, TypeCorrect, QueuesStayFiled, LockTablesAlwaysAgree, PTL DEF Spec

-----------------------------------------------------------------------------
(***************************************************************************)
(* The locks implement LockService                                         *)
(***************************************************************************)

(* Who waits for each lock, whatever the order. *)
Waiting == [l \in Locks |-> ToSet(lockWait[l])]

(* Passing on the locks of S is the one step of LockService that gives them *)
(* up: each goes to the waiter release_lock chooses, or is free.            *)
LEMMA HandOverGivesUp ==
  ASSUME TypeOK, QueueInv, NEW prio \in [Procs -> Int], NEW p \in Procs,
         NEW S \in SUBSET Locks, \A l \in S : lockOwner[l] = p, HandOver(S, p, prio)
  PROVE  Service!Next
<1>. DEFINE heir == [l \in S |-> NewOwner(l, prio)]
<1>1. ASSUME NEW l \in S
      PROVE  /\ heir[l] \in Procs \cup {None}
             /\ IF ToSet(lockWait[l]) = {} THEN heir[l] = None
                ELSE heir[l] \in ToSet(lockWait[l])
             /\ ToSet(StillWaiting(l, prio)) = ToSet(lockWait[l]) \ {heir[l]}
  <2>1. heir[l] = NewOwner(l, prio) /\ l \in Locks
    OBVIOUS
  <2>2. lockWait[l] \in Seq(Procs)
    BY <2>1 DEF TypeOK
  <2>. HIDE DEF heir
  <2>3. CASE lockWait[l] = << >>
    <3>1. ToSet(lockWait[l]) = {} /\ ToSet(StillWaiting(l, prio)) = {}
      BY <2>3 DEF ToSet, StillWaiting
    <3>. QED  BY <2>1, <2>3, <3>1 DEF NewOwner
  <2>4. CASE lockWait[l] # << >>
    <3>1. heir[l] = Heir(l, prio)
      BY <2>1, <2>4 DEF NewOwner
    <3>2. /\ Heir(l, prio) \in Procs /\ Heir(l, prio) \in ToSet(lockWait[l])
          /\ ToSet(StillWaiting(l, prio)) = ToSet(lockWait[l]) \ {Heir(l, prio)}
      BY <2>1, <2>4, HeirLeaves DEF QueueInv, Filed
    <3>. QED  BY <3>1, <3>2
  <2>. QED  BY <2>3, <2>4
<1>2. \A l \in S : heir[l] = NewOwner(l, prio)
  OBVIOUS
<1>3. heir \in [S -> Procs \cup {None}]
  BY <1>1
<1>. HIDE DEF heir
<1>4. lockOwner' = [l \in Locks |-> IF l \in S THEN heir[l] ELSE lockOwner[l]]
  BY <1>2 DEF HandOver
<1>5. Waiting' = [l \in Locks |-> IF l \in S THEN Waiting[l] \ {heir[l]} ELSE Waiting[l]]
  <2>1. \A l \in Locks :
          ToSet(lockWait'[l]) = IF l \in S THEN ToSet(lockWait[l]) \ {heir[l]}
                                ELSE ToSet(lockWait[l])
    BY <1>1 DEF HandOver
  <2>. QED  BY <2>1 DEF Waiting
<1>6. \A l \in S : IF Waiting[l] = {} THEN heir[l] = None ELSE heir[l] \in Waiting[l]
  BY <1>1 DEF Waiting
<1>7. Service!GiveUp(p, S, heir)
  BY <1>4, <1>5, <1>6 DEF Service!GiveUp, Waiting
<1>. QED
  BY <1>3, <1>7 DEF Service!Next

(* Every instruction is a step of LockService or leaves it alone. *)
LEMMA StepServesLocks ==
  ASSUME TypeOK, QueueInv, WaitersHaveAnOwner, NEW p \in Procs, Step(p)
  PROVE  Service!Next \/ UNCHANGED <<lockOwner, Waiting>>
<1>1. PICK i \in Program[p] :
        \/ Compute(p, i) \/ SetPriority(p, i) \/ Sleep(p, i)
        \/ Leave(p, i) \/ Crash(p, i)
        \/ AcquireAvailable(p, i) \/ AcquireBusy(p, i)
        \/ Release(p, i) \/ ReleaseNotOwner(p, i)
        \/ Signal(p, i) \/ WaitSignaled(p, i) \/ WaitBlock(p, i)
        \/ Terminate(p, i) \/ TerminateNothing(p, i)
  BY DEF Step
<1>2. /\ lockWait \in [Locks -> Seq(Procs)]
      /\ lockOwner \in [Locks -> Procs \cup {None}]
  BY DEF TypeOK
<1>3. ASSUME UNCHANGED <<lockOwner, lockWait>>  PROVE UNCHANGED <<lockOwner, Waiting>>
  BY <1>3 DEF Waiting
<1>4. CASE AcquireAvailable(p, i)
  <2>. DEFINE k == i.arg
  <2>1. /\ k \in Locks /\ lockOwner[k] \in {None, p} /\ UNCHANGED lockWait
        /\ lockOwner' = [lockOwner EXCEPT ![k] = p]
    BY <1>4 DEF AcquireAvailable
  <2>. HIDE DEF k
  <2>2. CASE lockOwner[k] = p
    <3>1. lockOwner' = lockOwner
      BY <1>2, <2>1, <2>2
    <3>. QED  BY <1>3, <2>1, <3>1
  <2>3. CASE lockOwner[k] = None
    <3>1. lockWait[k] = << >>
      BY <2>1, <2>3 DEF WaitersHaveAnOwner
    <3>2. Waiting[k] = {} /\ Waiting' = Waiting
      BY <2>1, <3>1 DEF Waiting, ToSet
    <3>3. Service!Take(p, k)
      BY <2>1, <2>3, <3>2 DEF Service!Take, Waiting
    <3>. QED  BY <2>1, <3>3 DEF Service!Next
  <2>. QED  BY <2>1, <2>2, <2>3
<1>5. CASE AcquireBusy(p, i)
  <2>. DEFINE k == i.arg
              w == lockWait[k]
              a == Append(w, p)
  <2>1. /\ k \in Locks /\ lockOwner[k] \notin {None, p} /\ UNCHANGED lockOwner
        /\ lockWait' = [lockWait EXCEPT ![k] = a]
        /\ phase = "run" /\ running = p /\ switchReason = "none"
    BY <1>5 DEF AcquireBusy, Fetch
  <2>2. \A l \in Locks : p \notin Waiting[l]
    BY <2>1 DEF QueueInv, OnCpu, Filed, FiledAmong, Waiting
  <2>3. w \in Seq(Procs)
    BY <1>2, <2>1
  <2>. HIDE DEF w
  <2>4. ToSet(a) = ToSet(w) \cup {p}
    BY <2>3, AppendMember
  <2>. HIDE DEF a
  <2>5. \A l \in Locks : lockWait'[l] = IF l = k THEN a ELSE lockWait[l]
    BY <1>2, <2>1
  <2>. HIDE DEF k
  <2>6. Waiting' = [Waiting EXCEPT ![k] = @ \cup {p}]
    <3>1. \A l \in Locks : ToSet(lockWait'[l]) = IF l = k THEN ToSet(lockWait[k]) \cup {p}
                                                ELSE ToSet(lockWait[l])
      BY <2>4, <2>5 DEF w
    <3>2. Waiting' = [l \in Locks |-> IF l = k THEN Waiting[k] \cup {p} ELSE Waiting[l]]
      BY <2>1, <3>1 DEF Waiting
    <3>3. Waiting = [l \in Locks |-> Waiting[l]]
      BY DEF Waiting
    <3>. HIDE DEF w
    <3>. QED  BY <3>2, <3>3
  <2>7. Service!Join(p, k)
    BY <2>1, <2>2, <2>6 DEF Service!Join, Waiting
  <2>. QED  BY <2>1, <2>7 DEF Service!Next
<1>6. CASE Release(p, i)
  <2>. DEFINE T == {i.arg}
  <2>1. T \in SUBSET Locks /\ HandOver(T, p, priority') /\ \A l \in T : lockOwner[l] = p
    BY <1>6 DEF Release
  <2>2. priority' \in [Procs -> Int]
    BY <1>6, PriorityIsInt DEF Release, TypeOK
  <2>. HIDE DEF T
  <2>. QED  BY <2>1, <2>2, HandOverGivesUp
<1>7. CASE Terminate(p, i)
  <2>. DEFINE x == i.arg
              T == {x}
  <2>1. /\ x \in Procs /\ UNCHANGED lockOwner
        /\ lockWait' = [l \in Locks |-> Without(lockWait[l], T)]
    BY <1>7 DEF Terminate
  <2>. HIDE DEF x
  <2>2. \A l \in Locks : ToSet(lockWait'[l]) = ToSet(lockWait[l]) \ T
    <3>. HIDE DEF T
    <3>. QED  BY <1>2, <2>1, WithoutMembers
  <2>3. Waiting' = [l \in Locks |-> Waiting[l] \ {x}]
    BY <2>2 DEF Waiting
  <2>4. Service!Withdraw(x)
    BY <2>1, <2>3 DEF Service!Withdraw, Waiting
  <2>. QED  BY <2>1, <2>4 DEF Service!Next
<1>. QED
  BY <1>1, <1>3, <1>4, <1>5, <1>6, <1>7
     DEF Compute, SetPriority, Sleep, Leave, Crash, ReleaseNotOwner, Signal,
         WaitSignaled, WaitBlock, TerminateNothing, lockVars

(* lock_owner and the sets of waiters behave as LockService promises: a     *)
(* lock that is given up goes to one of its waiters, and is free only when  *)
(* nobody waits, through release_lock, force_release_all_locks and          *)
(* terminate_process.                                                       *)
THEOREM LocksImplementTheService == Spec => ImplementsLockService
<1>1. Init => Service!Init
  <2>. SUFFICES ASSUME Init  PROVE Service!Init
    OBVIOUS
  <2>1. Waiting = [l \in Locks |-> {}]
    BY DEF Init, Waiting, ToSet
  <2>. QED  BY <2>1 DEF Init, Service!Init, Waiting
<1>2. TypeOK /\ QueueInv /\ WaitersHaveAnOwner /\ LockTablesAgree /\ [Next]_vars
        => [Service!Next]_(Service!lockServiceVars)
  <2>. SUFFICES ASSUME TypeOK, QueueInv, WaitersHaveAnOwner, LockTablesAgree,
                       [Next]_vars
                PROVE  Service!Next \/ UNCHANGED <<lockOwner, Waiting>>
    BY DEF Service!lockServiceVars, Waiting
  <2>1. ASSUME NEW p \in Procs, SwitchOutDead(p)  PROVE Service!Next
    <3>. DEFINE S == locksHeld[p]
    <3>1. /\ S \in SUBSET Locks /\ HandOver(S, p, priority)
          /\ \A l \in S : lockOwner[l] = p
      BY <2>1 DEF SwitchOutDead, TypeOK, LockTablesAgree
    <3>2. priority \in [Procs -> Int]
      BY PriorityIsInt DEF TypeOK
    <3>. HIDE DEF S
    <3>. QED  BY <3>1, <3>2, HandOverGivesUp
  <2>2. ASSUME UNCHANGED <<lockOwner, lockWait>>
        PROVE  UNCHANGED <<lockOwner, Waiting>>
    BY <2>2 DEF Waiting
  <2>. QED
    BY <2>1, <2>2, StepServesLocks
       DEF Next, SwitchOut, Dispatch, NothingReady, SwitchOutQuantum, SwitchOutSleep,
           SwitchOutBlocked, Halted, vars, lockVars
<1>. QED
  BY <1>1, <1>2, TypeCorrect, QueuesStayFiled, LockTablesAlwaysAgree,
     WaitersAlwaysHaveAnOwner, PTL DEF Spec, ImplementsLockService, Service!Spec

-----------------------------------------------------------------------------
(***************************************************************************)
(* What keeps a queue in order                                             *)
(***************************************************************************)

(* Priorities of processes that are not in the queue do not matter. *)
LEMMA OrderElsewhere ==
  ASSUME NEW q \in Seq(Procs), NEW prio, NEW prio2, InOrder(q, prio),
         \A p \in ToSet(q) : prio2[p] = prio[p]
  PROVE  InOrder(q, prio2)
<1>1. \A i \in DOMAIN q : q[i] \in ToSet(q)
  BY DEF ToSet
<1>. QED
  BY <1>1 DEF InOrder

LEMMA OrderEnqueue ==
  ASSUME NEW q \in Seq(Procs), NEW p \in Procs, NEW prio \in [Procs -> Int],
         InOrder(q, prio)
  PROVE  InOrder(Enqueue(q, p, prio), prio)
BY EnqueueProperties

LEMMA MembersEnqueueAll ==
  \A q, ps \in Seq(Procs), prio \in [Procs -> Int] :
    ToSet(EnqueueAll(q, ps, prio)) = ToSet(q) \cup ToSet(ps)
BY EnqueueAllProperties

LEMMA OrderEnqueueAll ==
  ASSUME NEW q \in Seq(Procs), NEW ps \in Seq(Procs), NEW prio \in [Procs -> Int],
         InOrder(q, prio)
  PROVE  InOrder(EnqueueAll(q, ps, prio), prio)
BY EnqueueAllProperties

LEMMA OrderWithout ==
  ASSUME NEW q \in Seq(Procs), NEW Q, NEW prio \in [Procs -> Int], InOrder(q, prio)
  PROVE  InOrder(Without(q, Q), prio)
BY WithoutProperties

(* A holder whose priority is raised is moved to its new place: the rest of *)
(* the queue was in order before and still is.                              *)
LEMMA OrderBoosted ==
  ASSUME NEW q \in Seq(Procs), NEW h \in Procs, NEW prio \in [Procs -> Int],
         NEW prio2 \in [Procs -> Int], InOrder(q, prio),
         \A r \in Procs : r # h => prio2[r] = prio[r]
  PROVE  InOrder(Boosted(q, h, prio2), prio2)
<1>. DEFINE T == {h}
            w == Without(q, T)
<1>1. w \in Seq(Procs) /\ ToSet(w) = ToSet(q) \ T
  BY WithoutMembers
<1>2. InOrder(w, prio)
  BY OrderWithout
<1>3. \A r \in ToSet(w) : prio2[r] = prio[r]
  BY <1>1, MembersAreProcs
<1>4. Boosted(q, h, prio2) = IF h \in ToSet(q) THEN Enqueue(w, h, prio2) ELSE q
  BY DEF Boosted
<1>5. h \notin ToSet(q) => InOrder(q, prio2)
  BY MembersAreProcs, OrderElsewhere
<1>. HIDE DEF w
<1>6. InOrder(w, prio2)
  BY <1>1, <1>2, <1>3, OrderElsewhere
<1>7. InOrder(Enqueue(w, h, prio2), prio2)
  BY <1>1, <1>6, OrderEnqueue
<1>. QED
  BY <1>4, <1>5, <1>7

(* tick_sleeping enqueues whoever wakes, priorities being what they were. *)
LEMMA EndSliceInOrder ==
  ASSUME TypeOK, NEW rq \in Seq(Procs), NEW sq \in Seq(Procs), NEW st,
         InOrder(rq, priority), EndSlice(rq, sq, st)
  PROVE  ReadyInOrder'
<1>. DEFINE woke == {p \in ToSet(sq) : CountDown(sq)[p] <= 0}
            up   == Only(sq, woke)
<1>1. priority' = priority /\ ready' = EnqueueAll(rq, up, priority)
  BY DEF EndSlice, prioVars
<1>2. priority \in [Procs -> Int]
  BY PriorityIsInt DEF TypeOK
<1>. HIDE DEF woke
<1>3. up \in Seq(Procs)
  BY OnlyProperties
<1>. HIDE DEF up
<1>4. InOrder(ready', priority)
  BY <1>1, <1>2, <1>3, OrderEnqueueAll
<1>. QED
  BY <1>1, <1>4 DEF ReadyInOrder

-----------------------------------------------------------------------------
(***************************************************************************)
(* Every step keeps the ready queue in order                               *)
(***************************************************************************)

(* An instruction changes the priority of the running process, which is in *)
(* no queue, or lends one to a lock's holder, which is moved.              *)
LEMMA StepKeepsOrder ==
  ASSUME TypeOK, QueueInv, ReadyInOrder, NEW p \in Procs, Step(p)
  PROVE  ReadyInOrder'
<1>1. PICK i \in Program[p] :
        \/ Compute(p, i) \/ SetPriority(p, i) \/ Sleep(p, i)
        \/ Leave(p, i) \/ Crash(p, i)
        \/ AcquireAvailable(p, i) \/ AcquireBusy(p, i)
        \/ Release(p, i) \/ ReleaseNotOwner(p, i)
        \/ Signal(p, i) \/ WaitSignaled(p, i) \/ WaitBlock(p, i)
        \/ Terminate(p, i) \/ TerminateNothing(p, i)
  BY DEF Step
<1>2. phase = "run" /\ running = p /\ switchReason = "none"
  BY <1>1 DEF Fetch, Compute, SetPriority, Sleep, Leave, Crash, AcquireAvailable,
              AcquireBusy, Release, ReleaseNotOwner, Signal, WaitSignaled, WaitBlock,
              Terminate, TerminateNothing
<1>3. priority \in [Procs -> Int] /\ original \in [Procs -> Int] /\ ready \in Seq(Procs)
  BY PriorityIsInt DEF TypeOK
<1>4. p \notin ToSet(ready)
  BY <1>2 DEF QueueInv, OnCpu, Filed, FiledIn
<1>5. InOrder(ready, priority)
  BY DEF ReadyInOrder
<1>6. ASSUME UNCHANGED <<ready, priority>>  PROVE ReadyInOrder'
  BY <1>6 DEF ReadyInOrder
(* The running process's own priority changes. *)
<1>7. ASSUME NEW n \in Int, priority' = [priority EXCEPT ![p] = n]
      PROVE  priority' \in [Procs -> Int] /\ InOrder(ready, priority')
  <2>1. \A r \in ToSet(ready) : priority'[r] = priority[r]
    BY <1>3, <1>4, <1>7, MembersAreProcs
  <2>2. priority' \in [Procs -> Int]
    BY <1>3, <1>7
  <2>. QED  BY <1>3, <1>5, <2>1, <2>2, OrderElsewhere
<1>8. CASE SetPriority(p, i)
  <2>1. ready' = ready /\ priority' = [priority EXCEPT ![p] = Clamp(i.arg)]
    BY <1>8 DEF SetPriority
  <2>2. Clamp(i.arg) \in Int
    <3>1. i.op = "setpriority"
      BY <1>8 DEF SetPriority
    <3>2. i.arg \in Int
      BY <3>1, ProgramAssumption
    <3>. QED  BY <3>2, ConstantTypes DEF Clamp
  <2>. QED  BY <1>7, <2>1, <2>2 DEF ReadyInOrder
<1>9. CASE AcquireBusy(p, i)
  <2>. DEFINE h == lockOwner[i.arg]
  <2>1. /\ h \in Procs
        /\ \/ UNCHANGED <<ready, priority>>
           \/ /\ priority' = [priority EXCEPT ![h] = priority[p]]
              /\ ready' = Boosted(ready, h, priority')
    BY <1>9 DEF AcquireBusy, TypeOK
  <2>. HIDE DEF h
  <2>2. CASE priority' = [priority EXCEPT ![h] = priority[p]]
    <3>1. priority' \in [Procs -> Int]
      BY <1>3, <2>2
    <3>2. \A r \in Procs : r # h => priority'[r] = priority[r]
      BY <1>3, <2>2
    <3>3. InOrder(Boosted(ready, h, priority'), priority')
      BY <1>3, <1>5, <2>1, <3>1, <3>2, OrderBoosted
    <3>. QED  BY <1>6, <2>1, <3>3 DEF ReadyInOrder
  <2>. QED  BY <1>6, <2>1, <2>2
<1>10. CASE Release(p, i)
  <2>. DEFINE k == i.arg
              h == Heir(k, priority')
  <2>1. /\ k \in Locks
        /\ priority' = priority \/ priority' = [priority EXCEPT ![p] = original[p]]
        /\ IF lockWait[k] = << >> THEN UNCHANGED ready
           ELSE ready' = Enqueue(ready, h, priority')
    BY <1>10 DEF Release
  <2>2. priority' \in [Procs -> Int] /\ InOrder(ready, priority')
    <3>1. original[p] \in Int
      BY <1>3
    <3>. QED  BY <1>3, <1>5, <1>7, <2>1, <3>1
  <2>3. lockWait[k] # << >> => h \in Procs
    BY <2>1, <2>2, HeirIsWaiter
  <2>. HIDE DEF h, k
  <2>4. lockWait[k] # << >> => InOrder(Enqueue(ready, h, priority'), priority')
    BY <1>3, <2>2, <2>3, OrderEnqueue
  <2>. QED  BY <2>1, <2>2, <2>4 DEF ReadyInOrder
<1>11. CASE Signal(p, i) /\ eventWait[i.arg] # << >>
  <2>. DEFINE q == eventWait[i.arg]
              h == Head(ByPriority(q, priority))
  <2>1. priority' = priority /\ ready' = Enqueue(ready, h, priority)
    BY <1>11 DEF Signal, prioVars
  <2>2. q \in Seq(Procs) /\ NoRepeat(q) /\ q # << >>
    BY <1>11 DEF Signal, TypeOK, QueueInv, Filed, FiledAmong
  <2>. HIDE DEF q
  <2>3. h \in Procs
    BY <1>3, <2>2, BestLeaves
  <2>. HIDE DEF h
  <2>4. InOrder(ready', priority)
    BY <1>3, <1>5, <2>1, <2>3, OrderEnqueue
  <2>. QED  BY <2>1, <2>4 DEF ReadyInOrder
<1>12. CASE Terminate(p, i)
  <2>1. priority' = priority /\ ready' = Without(ready, {i.arg})
    BY <1>12 DEF Terminate, prioVars
  <2>2. InOrder(ready', priority)
    BY <1>3, <1>5, <2>1, OrderWithout
  <2>. QED  BY <2>1, <2>2 DEF ReadyInOrder
<1>. QED
  BY <1>1, <1>6, <1>8, <1>9, <1>10, <1>11, <1>12
     DEF Compute, Sleep, Leave, Crash, AcquireAvailable, ReleaseNotOwner, Signal,
         WaitSignaled, WaitBlock, TerminateNothing, prioVars

(* The ready queue is in order of priority, across boosts of its members,   *)
(* restored priorities and everyone who is put into it (_enqueue_ready).    *)
THEOREM ReadyStaysInOrder == Spec => []ReadyInOrder
<1>1. Init => ReadyInOrder
  <2>. SUFFICES ASSUME Init  PROVE ReadyInOrder
    OBVIOUS
  <2>. DEFINE e == << >>
  <2>1. e \in Seq(Procs) /\ InOrder(e, priority)
    BY DEF InOrder
  <2>2. priority \in [Procs -> Int] /\ LoadOrder \in Seq(Procs)
    BY InitTypes, PriorityIsInt, ConstantTypes DEF TypeOK
  <2>3. ready = EnqueueAll(e, LoadOrder, priority)
    BY DEF Init
  <2>. HIDE DEF e
  <2>. QED  BY <2>1, <2>2, <2>3, OrderEnqueueAll DEF ReadyInOrder
<1>2. TypeOK /\ QueueInv /\ ReadyInOrder /\ [Next]_vars => ReadyInOrder'
  <2>. SUFFICES ASSUME TypeOK, QueueInv, ReadyInOrder, [Next]_vars
                PROVE  ReadyInOrder'
    OBVIOUS
  <2>0. /\ priority \in [Procs -> Int] /\ ready \in Seq(Procs)
        /\ sleepQueue \in Seq(Procs) /\ InOrder(ready, priority)
    BY PriorityIsInt DEF TypeOK, ReadyInOrder
  <2>1. CASE Dispatch
    <3>1. priority' = priority /\ ready # << >> /\ ready' = Tail(ready)
      BY <2>1 DEF Dispatch, prioVars
    <3>2. InOrder(Tail(ready), priority)
      BY <2>0, <3>1, PopFront
    <3>. QED  BY <3>1, <3>2 DEF ReadyInOrder
  <2>2. ASSUME NEW p \in Procs, SwitchOutQuantum(p)  PROVE ReadyInOrder'
    <3>. DEFINE st == [state EXCEPT ![p] = "READY"]
                rq == Enqueue(ready, p, priority)
    <3>1. EndSlice(rq, sleepQueue, st)
      BY <2>2 DEF SwitchOutQuantum
    <3>2. rq \in Seq(Procs)
      BY <2>0, EnqueueProperties
    <3>3. InOrder(rq, priority)
      BY <2>0, OrderEnqueue
    <3>. HIDE DEF st, rq
    <3>. QED  BY <2>0, <3>1, <3>2, <3>3, EndSliceInOrder
  <2>3. ASSUME NEW p \in Procs, SwitchOutSleep(p)  PROVE ReadyInOrder'
    <3>. DEFINE st == [state EXCEPT ![p] = "SLEEPING"]
                sq == Append(sleepQueue, p)
    <3>1. EndSlice(ready, sq, st)
      BY <2>3 DEF SwitchOutSleep
    <3>2. sq \in Seq(Procs)
      BY <2>0
    <3>. HIDE DEF st, sq
    <3>. QED  BY <2>0, <3>1, <3>2, EndSliceInOrder
  <2>4. CASE SwitchOutBlocked
    <3>1. EndSlice(ready, sleepQueue, state)
      BY <2>4 DEF SwitchOutBlocked
    <3>. QED  BY <2>0, <3>1, EndSliceInOrder
  <2>5. ASSUME NEW p \in Procs, SwitchOutDead(p)  PROVE ReadyInOrder'
    <3>. DEFINE S == locksHeld[p]
    <3>1. PICK order \in SetToSeqs({l \in S : lockWait[l] # << >>}) :
            LET heirs == [n \in DOMAIN order |-> Heir(order[n], priority)]
            IN  EndSlice(EnqueueAll(ready, heirs, priority), sleepQueue,
                         [q \in Procs |-> IF q = p THEN "TERMINATED"
                                          ELSE IF q \in ToSet(heirs) THEN "READY"
                                          ELSE state[q]])
      BY <2>5 DEF SwitchOutDead
    <3>. DEFINE heirs == [n \in DOMAIN order |-> Heir(order[n], priority)]
                rq == EnqueueAll(ready, heirs, priority)
                st == [q \in Procs |-> IF q = p THEN "TERMINATED"
                                       ELSE IF q \in ToSet(heirs) THEN "READY"
                                       ELSE state[q]]
    <3>2. EndSlice(rq, sleepQueue, st)
      BY <3>1
    <3>3. S \in SUBSET Locks /\ FiledAmong(lockWait, Locks, state, "WAITING_LOCK")
      BY DEF TypeOK, QueueInv, Filed
    <3>. HIDE DEF S
    <3>4. heirs \in Seq(Procs)
      BY <2>0, <3>3, OrderedHeirs
    <3>. HIDE DEF heirs
    <3>5. rq \in Seq(Procs)
      BY <2>0, <3>4, EnqueueAllProperties
    <3>6. InOrder(rq, priority)
      BY <2>0, <3>4, OrderEnqueueAll
    <3>. HIDE DEF rq, st
    <3>. QED  BY <2>0, <3>2, <3>5, <3>6, EndSliceInOrder
  <2>6. ASSUME UNCHANGED <<ready, priority>>  PROVE ReadyInOrder'
    BY <2>6 DEF ReadyInOrder
  <2>. QED
    BY <2>1, <2>2, <2>3, <2>4, <2>5, <2>6, StepKeepsOrder
       DEF Next, SwitchOut, NothingReady, Halted, vars, prioVars
<1>. QED
  BY <1>1, <1>2, TypeCorrect, QueuesStayFiled, PTL DEF Spec

(* "Always runs the highest-priority READY process" (scheduler.py:5): the   *)
(* process pick_next takes has at least the priority of every READY one,    *)
(* lent and restored priorities included.                                   *)
THEOREM TheHighestPriorityRuns == Spec => HighestPriorityRuns
<1>1. TypeOK /\ QueueInv /\ ReadyInOrder /\ [Next]_vars =>
        (phase = "pick" /\ phase' = "run" =>
           \A q \in Procs : state[q] = "READY" => priority[q] <= priority[running'])
  <2>. SUFFICES ASSUME TypeOK, QueueInv, ReadyInOrder, [Next]_vars,
                       phase = "pick", phase' = "run",
                       NEW q \in Procs, state[q] = "READY"
                PROVE  priority[q] <= priority[running']
    OBVIOUS
  <2>1. Dispatch
    BY DEF Next, Step, SwitchOut, Halted, NothingReady, vars, loopVars, Fetch,
           Compute, SetPriority, Sleep, Leave, Crash, AcquireAvailable, AcquireBusy,
           Release, ReleaseNotOwner, Signal, WaitSignaled, WaitBlock, Terminate,
           TerminateNothing, SwitchOutQuantum, SwitchOutSleep, SwitchOutBlocked,
           SwitchOutDead
  <2>2. ready # << >> /\ running' = Head(ready)
    BY <2>1 DEF Dispatch
  <2>3. priority \in [Procs -> Int] /\ ready \in Seq(Procs) /\ InOrder(ready, priority)
    BY PriorityIsInt DEF TypeOK, ReadyInOrder
  <2>4. q \in ToSet(ready)
    BY DEF QueueInv, Filed, FiledIn
  <2>5. Head(ready) \in Procs /\ priority[Head(ready)] >= priority[q]
    BY <2>2, <2>3, <2>4, PopFront
  <2>. QED  BY <2>2, <2>3, <2>5
<1>. QED
  BY <1>1, TypeCorrect, QueuesStayFiled, ReadyStaysInOrder, PTL
     DEF Spec, HighestPriorityRuns

-----------------------------------------------------------------------------
(***************************************************************************)
(* Lent priorities                                                         *)
(***************************************************************************)

(* LentPriorityEnds, also for a running process that has terminated itself *)
(* and may come back by sleeping or blocking.                              *)
LoanInv ==
  \A p \in Procs :
    priority[p] # original[p] /\ (state[p] # "TERMINATED" \/ running = p) =>
      locksHeld[p] # {}

(* A step that keeps priorities, takes no lock and revives nobody.         *)
LEMMA LoansElsewhere ==
  ASSUME LoanInv, UNCHANGED prioVars,
         \A r \in Procs : locksHeld[r] \subseteq locksHeld'[r],
         \A r \in Procs : state'[r] # "TERMINATED" \/ running' = r =>
                            state[r] # "TERMINATED" \/ running = r
  PROVE  LoanInv'
BY DEF LoanInv, prioVars

LEMMA StepKeepsLoans ==
  ASSUME TypeOK, QueueInv, LockTablesAgree, LoanInv, NEW p \in Procs, Step(p)
  PROVE  LoanInv'
<1>1. PICK i \in Program[p] :
        \/ Compute(p, i) \/ SetPriority(p, i) \/ Sleep(p, i)
        \/ Leave(p, i) \/ Crash(p, i)
        \/ AcquireAvailable(p, i) \/ AcquireBusy(p, i)
        \/ Release(p, i) \/ ReleaseNotOwner(p, i)
        \/ Signal(p, i) \/ WaitSignaled(p, i) \/ WaitBlock(p, i)
        \/ Terminate(p, i) \/ TerminateNothing(p, i)
  BY DEF Step
<1>2. running = p
  BY <1>1 DEF Fetch, Compute, SetPriority, Sleep, Leave, Crash, AcquireAvailable,
              AcquireBusy, Release, ReleaseNotOwner, Signal, WaitSignaled, WaitBlock,
              Terminate, TerminateNothing
<1>3. /\ priority \in [Procs -> Int] /\ original \in [Procs -> Int]
      /\ state \in [Procs -> States] /\ locksHeld \in [Procs -> SUBSET Locks]
  BY PriorityIsInt DEF TypeOK
<1>4. ASSUME UNCHANGED <<prioVars, state, locksHeld, running>>  PROVE LoanInv'
  BY <1>4 DEF LoanInv, prioVars
<1>5. CASE SetPriority(p, i)
  <2>1. /\ priority' = [priority EXCEPT ![p] = Clamp(i.arg)]
        /\ original' = [original EXCEPT ![p] = Clamp(i.arg)]
        /\ UNCHANGED <<state, locksHeld, running>>
    BY <1>5 DEF SetPriority, Retire, lockVars
  <2>2. \A r \in Procs : priority'[r] # original'[r] => priority[r] # original[r]
    BY <1>3, <2>1
  <2>. QED  BY <2>1, <2>2 DEF LoanInv
<1>6. CASE AcquireAvailable(p, i)
  <2>1. /\ UNCHANGED prioVars /\ UNCHANGED <<state, running>>
        /\ \/ locksHeld' = locksHeld
           \/ locksHeld' = [locksHeld EXCEPT ![p] = @ \cup {i.arg}]
    BY <1>6 DEF AcquireAvailable, Retire
  <2>2. \A r \in Procs : locksHeld[r] \subseteq locksHeld'[r]
    BY <1>3, <2>1
  <2>. QED  BY <2>1, <2>2, LoansElsewhere
<1>7. CASE AcquireBusy(p, i)
  <2>. DEFINE k == i.arg
              h == lockOwner[k]
  <2>1. /\ k \in Locks /\ h \in Procs
        /\ priority' = priority \/ priority' = [priority EXCEPT ![h] = priority[p]]
        /\ state' = [state EXCEPT ![p] = "WAITING_LOCK"]
        /\ running' = None /\ UNCHANGED <<original, locksHeld>>
    BY <1>7 DEF AcquireBusy, Block, TypeOK
  <2>2. locksHeld[h] # {}
    BY <2>1 DEF LockTablesAgree
  <2>. HIDE DEF h, k
  <2>3. \A r \in Procs : /\ r # h => priority'[r] = priority[r]
                         /\ r # p => state'[r] = state[r]
    BY <1>3, <2>1
  <2>. QED  BY <1>2, <2>1, <2>2, <2>3, ProcsAssumption DEF LoanInv
<1>8. CASE Release(p, i)
  <2>. DEFINE k == i.arg
              h == Heir(k, priority')
  <2>1. /\ k \in Locks /\ lockOwner[k] = p
        /\ priority' = IF Restores(p, k) THEN [priority EXCEPT ![p] = original[p]]
                       ELSE priority
        /\ HandOver({k}, p, priority')
        /\ IF lockWait[k] = << >> THEN UNCHANGED state
           ELSE state' = [state EXCEPT ![h] = "READY"]
        /\ UNCHANGED <<original, running>>
    BY <1>8 DEF Release, Retire
  <2>2. priority' \in [Procs -> Int]
    BY <1>3, <1>8 DEF Release
  <2>3. lockWait[k] # << >> => h \in Procs /\ state[h] = "WAITING_LOCK"
    BY <2>1, <2>2, HeirLeaves DEF QueueInv, Filed, FiledAmong
  <2>4. /\ \A r \in Procs : r # p => locksHeld[r] \subseteq locksHeld'[r]
        /\ ~ Restores(p, k) => locksHeld'[p] # {}
    BY <1>3, <2>1 DEF HandOver, Restores
  <2>. HIDE DEF h, k
  <2>5. \A r \in Procs : state'[r] # "TERMINATED" => state[r] # "TERMINATED"
    BY <1>3, <2>1, <2>3
  <2>6. /\ \A r \in Procs : r # p => priority'[r] = priority[r]
        /\ Restores(p, k) => priority'[p] = original[p]
    BY <1>3, <2>1
  <2>. QED  BY <2>1, <2>4, <2>5, <2>6 DEF LoanInv
<1>9. CASE Signal(p, i) /\ eventWait[i.arg] # << >>
  <2>. DEFINE q == eventWait[i.arg]
              h == Head(ByPriority(q, priority))
  <2>1. /\ UNCHANGED prioVars /\ UNCHANGED <<locksHeld, running>>
        /\ state' = [state EXCEPT ![h] = "READY"] /\ i.arg \in Events
    BY <1>9 DEF Signal, Retire, lockVars
  <2>2. q \in Seq(Procs) /\ NoRepeat(q) /\ q # << >>
    BY <1>9, <2>1 DEF TypeOK, QueueInv, Filed, FiledAmong
  <2>3. \A r \in Procs : r \in ToSet(q) => state[r] = "WAITING_EVENT"
    BY <2>1 DEF QueueInv, Filed, FiledAmong
  <2>. HIDE DEF q
  <2>4. h \in Procs /\ state[h] = "WAITING_EVENT"
    BY <1>3, <2>2, <2>3, BestLeaves
  <2>. HIDE DEF h
  <2>5. \A r \in Procs : state'[r] # "TERMINATED" => state[r] # "TERMINATED"
    BY <1>3, <2>1, <2>4
  <2>. QED  BY <2>1, <2>5, LoansElsewhere
<1>10. CASE WaitBlock(p, i)
  <2>1. /\ UNCHANGED prioVars /\ UNCHANGED locksHeld /\ running' = None
        /\ state' = [state EXCEPT ![p] = "WAITING_EVENT"]
    BY <1>10 DEF WaitBlock, Block, lockVars
  <2>2. \A r \in Procs : r # p => state'[r] = state[r]
    BY <1>3, <2>1
  <2>. QED  BY <1>2, <2>1, <2>2, ProcsAssumption, LoansElsewhere
<1>11. CASE Terminate(p, i)
  <2>1. /\ UNCHANGED prioVars /\ UNCHANGED <<locksHeld, running>>
        /\ state' = [state EXCEPT ![i.arg] = "TERMINATED"]
    BY <1>11 DEF Terminate, Retire
  <2>2. \A r \in Procs : state'[r] # "TERMINATED" => state[r] # "TERMINATED"
    BY <1>3, <2>1
  <2>. QED  BY <2>1, <2>2, LoansElsewhere
<1>. QED
  BY <1>1, <1>4, <1>5, <1>6, <1>7, <1>8, <1>9, <1>10, <1>11
     DEF Compute, Sleep, Leave, Crash, ReleaseNotOwner, Signal, WaitSignaled,
         TerminateNothing, Retire, lockVars

(* A lent priority lasts only while a lock is held: release_lock gives the  *)
(* original one back with the last lock, and the boosts of acquire_lock go  *)
(* to owners only.                                                          *)
THEOREM LoansEndWithTheLocks == Spec => []LentPriorityEnds
<1>1. Init => LoanInv
  BY DEF Init, LoanInv
<1>2. TypeOK /\ QueueInv /\ LockTablesAgree /\ LoanInv /\ [Next]_vars => LoanInv'
  <2>. SUFFICES ASSUME TypeOK, QueueInv, LockTablesAgree, LoanInv, [Next]_vars
                PROVE  LoanInv'
    OBVIOUS
  <2>0. /\ state \in [Procs -> States] /\ ready \in Seq(Procs)
        /\ sleepQueue \in Seq(Procs) /\ priority \in [Procs -> Int]
        /\ FiledIn(ready, state, "READY") /\ FiledIn(sleepQueue, state, "SLEEPING")
        /\ None \notin Procs
    BY PriorityIsInt, ProcsAssumption DEF TypeOK, QueueInv, Filed
(* After a slice that ended with the states st. *)
  <2>1. ASSUME NEW rq, NEW sq, NEW st, EndSlice(rq, sq, st),
               FiledIn(sq, st, "SLEEPING"),
               \A r \in Procs : locksHeld[r] \subseteq locksHeld'[r],
               \A r \in Procs : st[r] # "TERMINATED" =>
                                  state[r] # "TERMINATED" \/ running = r
        PROVE  LoanInv'
    <3>1. /\ running' = None
          /\ \A r \in Procs : state'[r] # "TERMINATED" => st[r] # "TERMINATED"
      BY <2>1, EndSliceRetries
    <3>2. UNCHANGED prioVars
      BY <2>1 DEF EndSlice
    <3>. QED  BY <2>0, <2>1, <3>1, <3>2, LoansElsewhere
  <2>2. CASE Dispatch
    <3>. DEFINE h == Head(ready)
    <3>1. /\ ready # << >> /\ running' = h /\ UNCHANGED prioVars
          /\ state' = [state EXCEPT ![h] = "RUNNING"] /\ UNCHANGED locksHeld
      BY <2>2 DEF Dispatch, lockVars
    <3>2. h \in Procs /\ state[h] = "READY"
      BY <2>0, <3>1, PopFront DEF FiledIn
    <3>. HIDE DEF h
    <3>3. \A r \in Procs : state'[r] # "TERMINATED" \/ running' = r =>
                             state[r] # "TERMINATED"
      BY <2>0, <3>1, <3>2
    <3>. QED  BY <3>1, <3>3, LoansElsewhere
  <2>3. ASSUME NEW p \in Procs, SwitchOutQuantum(p)  PROVE LoanInv'
    <3>. DEFINE st == [state EXCEPT ![p] = "READY"]
    <3>1. /\ EndSlice(Enqueue(ready, p, priority), sleepQueue, st)
          /\ UNCHANGED locksHeld /\ running = p
          /\ phase = "run" /\ switchReason = "quantum"
      BY <2>3 DEF SwitchOutQuantum, lockVars
    <3>2. \A r \in Procs : st[r] = IF r = p THEN "READY" ELSE state[r]
      BY <2>0
    <3>. HIDE DEF st
    <3>3. state[p] # "SLEEPING"
      BY <3>1 DEF QueueInv, OnCpu
    <3>4. FiledIn(sleepQueue, st, "SLEEPING")
      BY <2>0, <3>2, <3>3, FiledElsewhere
    <3>. QED  BY <2>1, <3>1, <3>2, <3>4
  <2>4. ASSUME NEW p \in Procs, SwitchOutSleep(p)  PROVE LoanInv'
    <3>. DEFINE st == [state EXCEPT ![p] = "SLEEPING"]
    <3>1. /\ EndSlice(ready, Append(sleepQueue, p), st)
          /\ UNCHANGED locksHeld /\ running = p
          /\ phase = "run" /\ switchReason = "sleep"
      BY <2>4 DEF SwitchOutSleep, lockVars
    <3>2. \A r \in Procs : st[r] = IF r = p THEN "SLEEPING" ELSE state[r]
      BY <2>0
    <3>. HIDE DEF st
    <3>3. FiledIn(Append(sleepQueue, p), st, "SLEEPING")
      <4>1. state[p] # "SLEEPING"
        BY <3>1 DEF QueueInv, OnCpu
      <4>2. \A r \in Procs : st[r] = "SLEEPING" <=> state[r] = "SLEEPING" \/ r = p
        BY <3>2
      <4>. QED  BY <2>0, <4>1, <4>2, FileAppend
    <3>. QED  BY <2>1, <3>1, <3>2, <3>3
  <2>5. CASE SwitchOutBlocked
    <3>1. EndSlice(ready, sleepQueue, state) /\ UNCHANGED locksHeld
      BY <2>5 DEF SwitchOutBlocked, lockVars
    <3>. QED  BY <2>0, <2>1, <3>1
  <2>6. ASSUME NEW p \in Procs, SwitchOutDead(p)  PROVE LoanInv'
    <3>. DEFINE S == locksHeld[p]
    <3>1. /\ S \in SUBSET Locks /\ HandOver(S, p, priority) /\ running = p
          /\ phase = "run" /\ switchReason \in {"exit", "error"}
      BY <2>6 DEF SwitchOutDead, TypeOK
    <3>2. PICK order \in SetToSeqs({l \in S : lockWait[l] # << >>}) :
            LET heirs == [n \in DOMAIN order |-> Heir(order[n], priority)]
            IN  EndSlice(EnqueueAll(ready, heirs, priority), sleepQueue,
                         [q \in Procs |-> IF q = p THEN "TERMINATED"
                                          ELSE IF q \in ToSet(heirs) THEN "READY"
                                          ELSE state[q]])
      BY <2>6 DEF SwitchOutDead
    <3>. DEFINE heirs == [n \in DOMAIN order |-> Heir(order[n], priority)]
                rq == EnqueueAll(ready, heirs, priority)
                st == [q \in Procs |-> IF q = p THEN "TERMINATED"
                                       ELSE IF q \in ToSet(heirs) THEN "READY"
                                       ELSE state[q]]
    <3>3. EndSlice(rq, sleepQueue, st)
      BY <3>2
    <3>4. FiledAmong(lockWait, Locks, state, "WAITING_LOCK")
      BY DEF QueueInv, Filed
    <3>5. \A r \in Procs : r # p => locksHeld[r] \subseteq locksHeld'[r]
      BY <3>1 DEF HandOver
    <3>6. UNCHANGED prioVars
      BY <3>3 DEF EndSlice
    <3>. HIDE DEF S
    <3>7. ToSet(heirs) = Heirs(S, priority)
      BY <2>0, <3>1, <3>4, OrderedHeirs
    <3>8. \A h \in ToSet(heirs) : state[h] = "WAITING_LOCK"
      <4>1. \A l \in S : lockWait[l] # << >> => state[Heir(l, priority)] = "WAITING_LOCK"
        BY <2>0, <3>1, <3>4, HeirLeaves DEF FiledAmong
      <4>. QED  BY <3>7, <4>1 DEF Heirs
    <3>. HIDE DEF heirs, rq
    <3>9. \A r \in Procs : st[r] = IF r = p THEN "TERMINATED"
                                   ELSE IF r \in ToSet(heirs) THEN "READY" ELSE state[r]
      OBVIOUS
    <3>. HIDE DEF st
    <3>10. FiledIn(sleepQueue, st, "SLEEPING")
      <4>1. state[p] # "SLEEPING"
        BY <3>1 DEF QueueInv, OnCpu
      <4>2. \A r \in Procs : st[r] = "SLEEPING" <=> state[r] = "SLEEPING"
        BY <3>8, <3>9, <4>1
      <4>. QED  BY <2>0, <4>2, FiledElsewhere
    <3>11. /\ running' = None
           /\ \A r \in Procs : state'[r] # "TERMINATED" => st[r] # "TERMINATED"
      BY <3>3, <3>10, EndSliceRetries
    <3>12. \A r \in Procs : state'[r] # "TERMINATED" => r # p /\ state[r] # "TERMINATED"
      BY <3>8, <3>9, <3>11
    <3>. QED  BY <2>0, <3>5, <3>6, <3>11, <3>12 DEF LoanInv, prioVars
  <2>7. ASSUME UNCHANGED <<prioVars, state, locksHeld, running>>  PROVE LoanInv'
    BY <2>7 DEF LoanInv, prioVars
  <2>. QED
    BY <2>2, <2>3, <2>4, <2>5, <2>6, <2>7, StepKeepsLoans
       DEF Next, SwitchOut, NothingReady, Halted, vars, loopVars, lockVars
<1>3. LoanInv => LentPriorityEnds
  BY DEF LoanInv, LentPriorityEnds
<1>. QED
  BY <1>1, <1>2, <1>3, TypeCorrect, QueuesStayFiled, LockTablesAlwaysAgree, PTL
     DEF Spec

-----------------------------------------------------------------------------
(***************************************************************************)
(* Priority inheritance                                                    *)
(***************************************************************************)

(* The heir of a lock has the highest priority of its waiters. *)
LEMMA HeirIsBest ==
  ASSUME TypeOK, NEW l \in Locks, NEW prio \in [Procs -> Int], NEW q \in ToSet(lockWait[l])
  PROVE  prio[Heir(l, prio)] >= prio[q]
<1>. DEFINE w == lockWait[l]
            s == ByPriority(w, prio)
<1>1. w \in Seq(Procs) /\ w # << >> /\ q \in ToSet(w)
  BY DEF TypeOK, ToSet
<1>2. Heir(l, prio) = Head(s)
  BY DEF Heir
<1>. HIDE DEF w
<1>3. s \in Seq(Procs) /\ s # << >> /\ ToSet(s) = ToSet(w) /\ InOrder(s, prio)
  BY <1>1, ByPriorityProperties
<1>. HIDE DEF s
<1>4. prio[Head(s)] >= prio[q]
  BY <1>1, <1>3, PopFront
<1>. QED
  BY <1>2, <1>4

(* Who runs waits for no lock, and a lock that is waited for has an owner,  *)
(* which holds it.                                                          *)
LEMMA WaitersDoNotRun ==
  ASSUME TypeOK, QueueInv, NEW p \in Procs, running = p, phase = "run",
         switchReason \notin {"lock", "event"}
  PROVE  \A l \in Locks : \A q \in ToSet(lockWait[l]) : q \in Procs /\ q # p
<1>1. state[p] # "WAITING_LOCK"
  BY DEF QueueInv, OnCpu
<1>2. \A l \in Locks : \A q \in ToSet(lockWait[l]) : q \in Procs
  BY MembersAreProcs DEF TypeOK
<1>. QED
  BY <1>1, <1>2 DEF QueueInv, Filed, FiledAmong

LEMMA WaitedForIsHeld ==
  ASSUME TypeOK, LockTablesAgree, WaitersHaveAnOwner
  PROVE  \A l \in Locks : \A q \in ToSet(lockWait[l]) :
           lockOwner[l] \in Procs /\ l \in locksHeld[lockOwner[l]]
<1>1. \A l \in Locks : \A q \in ToSet(lockWait[l]) : lockWait[l] # << >>
  BY DEF ToSet
<1>. QED
  BY <1>1 DEF TypeOK, LockTablesAgree, WaitersHaveAnOwner

(* Giving up locks: the priority of p may fall, but then it owns no others. *)
LEMMA HandOverKeepsInheritance ==
  ASSUME TypeOK, QueueInv, OwnerInheritsPriority, LockTablesAgree, WaitersHaveAnOwner,
         priority' \in [Procs -> Int], NEW p \in Procs, NEW S \in SUBSET Locks,
         HandOver(S, p, priority'),
         \A l \in Locks : \A q \in ToSet(lockWait[l]) : q \in Procs /\ q # p,
         \A r \in Procs : r # p => priority'[r] = priority[r],
         \A l \in Locks \ S : lockOwner[l] = p => priority'[p] = priority[p]
  PROVE  OwnerInheritsPriority'
<1>. SUFFICES ASSUME NEW l \in Locks, NEW q \in ToSet(lockWait'[l]), locksHeld'[q] = {}
              PROVE  priority'[lockOwner'[l]] >= priority'[q]
  BY DEF OwnerInheritsPriority
<1>1. /\ lockOwner'[l] = IF l \in S THEN NewOwner(l, priority') ELSE lockOwner[l]
      /\ lockWait'[l] = IF l \in S THEN StillWaiting(l, priority') ELSE lockWait[l]
  BY DEF HandOver
<1>2. CASE l \in S
  <2>1. lockWait[l] # << >>
    BY <1>1, <1>2 DEF StillWaiting, ToSet
  <2>2. ToSet(lockWait[l]) = ToSet(StillWaiting(l, priority')) \cup {Heir(l, priority')}
    BY <2>1, HeirIsWaiter
  <2>3. q \in ToSet(lockWait[l])
    BY <1>1, <1>2, <2>2
  <2>4. lockOwner'[l] = Heir(l, priority')
    BY <1>1, <1>2, <2>1 DEF NewOwner
  <2>. QED  BY <2>3, <2>4, HeirIsBest
<1>3. CASE l \notin S
  <2>1. q \in ToSet(lockWait[l]) /\ q \in Procs /\ q # p /\ lockOwner'[l] = lockOwner[l]
    BY <1>1, <1>3
  <2>2. lockOwner[l] \in Procs
    BY <2>1, WaitedForIsHeld
  <2>3. locksHeld[q] = {}
    BY <2>1 DEF HandOver
  <2>4. priority[lockOwner[l]] >= priority[q]
    BY <2>1, <2>3 DEF OwnerInheritsPriority
  <2>5. priority'[lockOwner[l]] = priority[lockOwner[l]] /\ priority'[q] = priority[q]
    BY <1>3, <2>1, <2>2
  <2>. QED  BY <2>1, <2>4, <2>5
<1>. QED
  BY <1>2, <1>3

(* SETPRIORITY by a process that holds a lock replaces what was lent to it. *)
HoldersKeepTheirPriority ==
  \A p \in Procs : \A i \in Program[p] : SetPriority(p, i) => locksHeld[p] = {}

LEMMA StepKeepsInheritance ==
  ASSUME TypeOK, QueueInv, LockTablesAgree, WaitersHaveAnOwner, OwnerInheritsPriority,
         NEW p \in Procs, Step(p), HoldersKeepTheirPriority
  PROVE  OwnerInheritsPriority'
<1>1. PICK i \in Program[p] :
        \/ Compute(p, i) \/ SetPriority(p, i) \/ Sleep(p, i)
        \/ Leave(p, i) \/ Crash(p, i)
        \/ AcquireAvailable(p, i) \/ AcquireBusy(p, i)
        \/ Release(p, i) \/ ReleaseNotOwner(p, i)
        \/ Signal(p, i) \/ WaitSignaled(p, i) \/ WaitBlock(p, i)
        \/ Terminate(p, i) \/ TerminateNothing(p, i)
  BY DEF Step
<1>2. phase = "run" /\ running = p /\ switchReason = "none"
  BY <1>1 DEF Fetch, Compute, SetPriority, Sleep, Leave, Crash, AcquireAvailable,
              AcquireBusy, Release, ReleaseNotOwner, Signal, WaitSignaled, WaitBlock,
              Terminate, TerminateNothing
<1>3. /\ priority \in [Procs -> Int] /\ original \in [Procs -> Int]
      /\ locksHeld \in [Procs -> SUBSET Locks]
      /\ lockWait \in [Locks -> Seq(Procs)] /\ lockOwner \in [Locks -> Procs \cup {None}]
  BY PriorityIsInt DEF TypeOK
<1>4. \A l \in Locks : \A q \in ToSet(lockWait[l]) :
        /\ q \in Procs /\ q # p
        /\ lockOwner[l] \in Procs /\ l \in locksHeld[lockOwner[l]]
  BY <1>2, WaitersDoNotRun, WaitedForIsHeld
<1>5. ASSUME UNCHANGED <<priority, lockWait, lockOwner, locksHeld>>
      PROVE  OwnerInheritsPriority'
  BY <1>5 DEF OwnerInheritsPriority
<1>6. CASE SetPriority(p, i)
  <2>1. /\ UNCHANGED <<lockWait, lockOwner, locksHeld>> /\ locksHeld[p] = {}
        /\ priority' = [priority EXCEPT ![p] = Clamp(i.arg)]
    BY <1>6 DEF SetPriority, lockVars, HoldersKeepTheirPriority
  <2>2. \A r \in Procs : r # p => priority'[r] = priority[r]
    BY <1>3, <2>1
  <2>3. \A l \in Locks : \A q \in ToSet(lockWait[l]) :
          /\ priority'[q] = priority[q]
          /\ priority'[lockOwner[l]] = priority[lockOwner[l]]
    BY <1>4, <2>1, <2>2
  <2>. QED  BY <2>1, <2>3 DEF OwnerInheritsPriority
<1>7. CASE AcquireAvailable(p, i)
  <2>. DEFINE k == i.arg
  <2>1. /\ k \in Locks /\ lockOwner[k] \in {None, p}
        /\ lockOwner' = [lockOwner EXCEPT ![k] = p]
        /\ locksHeld' = locksHeld \/ locksHeld' = [locksHeld EXCEPT ![p] = @ \cup {k}]
        /\ UNCHANGED <<priority, lockWait>>
    BY <1>7 DEF AcquireAvailable, prioVars
  <2>. HIDE DEF k
  <2>2. \A l \in Locks : \A q \in ToSet(lockWait[l]) : lockOwner'[l] = lockOwner[l]
    BY <1>3, <1>4, <2>1, ProcsAssumption
  <2>3. \A r \in Procs : locksHeld'[r] = {} => locksHeld[r] = {}
    BY <1>3, <2>1
  <2>. QED  BY <1>4, <2>1, <2>2, <2>3 DEF OwnerInheritsPriority
<1>8. CASE AcquireBusy(p, i)
  <2>. DEFINE k == i.arg
              h == lockOwner[k]
              w == lockWait[k]
              a == Append(w, p)
  <2>1. /\ k \in Locks /\ h \in Procs /\ h # p
        /\ priority' = IF priority[h] < priority[p]
                       THEN [priority EXCEPT ![h] = priority[p]] ELSE priority
        /\ lockWait' = [lockWait EXCEPT ![k] = a]
        /\ UNCHANGED <<lockOwner, locksHeld>>
    BY <1>3, <1>8 DEF AcquireBusy
  <2>2. locksHeld[h] # {}
    BY <2>1 DEF LockTablesAgree
  <2>3. ToSet(a) = ToSet(w) \cup {p}
    <3>1. w \in Seq(Procs)
      BY <1>3, <2>1
    <3>. QED  BY <3>1, AppendMember
  <2>4. \A l \in Locks : lockOwner[l] = h \/ l # k
    OBVIOUS
  <2>5. \A l \in Locks : \A q \in ToSet(lockWait'[l]) :
          q \in ToSet(lockWait[l]) \/ (l = k /\ q = p)
    <3>. HIDE DEF a, k
    <3>1. \A l \in Locks : lockWait'[l] = IF l = k THEN a ELSE lockWait[l]
      BY <1>3, <2>1
    <3>. QED  BY <2>3, <3>1
  <2>. HIDE DEF a, w, h
  <2>6. /\ \A r \in Procs : r # h => priority'[r] = priority[r]
        /\ priority'[h] >= priority[h] /\ priority'[h] >= priority[p]
    BY <1>3, <2>1
  <2>. HIDE DEF k
  <2>7. ASSUME NEW l \in Locks, NEW q \in ToSet(lockWait'[l]), locksHeld'[q] = {}
        PROVE  priority'[lockOwner'[l]] >= priority'[q]
    <3>1. CASE q \in ToSet(lockWait[l])
      <4>1. q \in Procs /\ q # h /\ lockOwner[l] \in Procs
        BY <1>4, <2>1, <2>2, <2>7, <3>1
      <4>2. priority[lockOwner[l]] >= priority[q]
        BY <2>1, <2>7, <3>1 DEF OwnerInheritsPriority
      <4>3. /\ priority[q] \in Int /\ priority[lockOwner[l]] \in Int
            /\ priority'[lockOwner[l]] \in Int
        BY <1>3, <2>1, <4>1
      <4>4. priority'[lockOwner[l]] >= priority[lockOwner[l]]
        <5>1. CASE lockOwner[l] = h  BY <2>6, <5>1
        <5>2. CASE lockOwner[l] # h  BY <2>6, <4>1, <4>3, <5>2
        <5>. QED  BY <5>1, <5>2
      <4>. QED  BY <2>1, <2>6, <4>1, <4>2, <4>3, <4>4
    <3>2. CASE l = k /\ q = p
      BY <2>1, <2>4, <2>6, <3>2
    <3>. QED  BY <2>5, <2>7, <3>1, <3>2
  <2>. QED  BY <2>7 DEF OwnerInheritsPriority
<1>9. CASE Release(p, i)
  <2>. DEFINE k == i.arg
              S == {k}
  <2>1. /\ S \in SUBSET Locks /\ lockOwner[k] = p
        /\ priority' = IF Restores(p, k) THEN [priority EXCEPT ![p] = original[p]]
                       ELSE priority
        /\ HandOver(S, p, priority')
    BY <1>9 DEF Release
  <2>2. /\ priority' \in [Procs -> Int]
        /\ \A r \in Procs : r # p => priority'[r] = priority[r]
    BY <1>3, <2>1
  <2>3. \A l \in Locks \ S : lockOwner[l] = p => priority' = priority
    BY <2>1 DEF LockTablesAgree, Restores
  <2>. HIDE DEF S, k
  <2>. QED  BY <1>4, <2>1, <2>2, <2>3, HandOverKeepsInheritance
<1>10. CASE Terminate(p, i)
  <2>. DEFINE T == {i.arg}
  <2>1. /\ lockWait' = [l \in Locks |-> Without(lockWait[l], T)]
        /\ UNCHANGED <<priority, lockOwner, locksHeld>>
    BY <1>10 DEF Terminate, prioVars
  <2>. HIDE DEF T
  <2>2. \A l \in Locks : ToSet(lockWait'[l]) \subseteq ToSet(lockWait[l])
    <3>1. \A l \in Locks : ToSet(Without(lockWait[l], T)) = ToSet(lockWait[l]) \ T
      BY <1>3, WithoutMembers
    <3>. QED  BY <2>1, <3>1
  <2>. QED  BY <2>1, <2>2 DEF OwnerInheritsPriority
<1>. QED
  BY <1>1, <1>5, <1>6, <1>7, <1>8, <1>9, <1>10
     DEF Compute, Sleep, Leave, Crash, ReleaseNotOwner, Signal, WaitSignaled,
         WaitBlock, TerminateNothing, lockVars, prioVars

(* A lock's owner has at least the priority of each of its waiters that     *)
(* holds no lock, through acquisitions, loans, releases, hand-overs and     *)
(* forced releases: whoever is handed the lock is the best of them, and a   *)
(* priority comes back only with the last lock.  It holds of every run in   *)
(* which no process executes SETPRIORITY while it holds a lock.             *)
THEOREM OwnersInheritPriority ==
  Spec /\ [][HoldersKeepTheirPriority]_vars => []OwnerInheritsPriority
<1>1. Init => OwnerInheritsPriority
  BY DEF Init, OwnerInheritsPriority, ToSet
<1>2. TypeOK /\ QueueInv /\ LockTablesAgree /\ WaitersHaveAnOwner /\ OwnerInheritsPriority
        /\ [Next]_vars /\ [HoldersKeepTheirPriority]_vars => OwnerInheritsPriority'
  <2>. SUFFICES ASSUME TypeOK, QueueInv, LockTablesAgree, WaitersHaveAnOwner,
                       OwnerInheritsPriority, [Next]_vars, [HoldersKeepTheirPriority]_vars
                PROVE  OwnerInheritsPriority'
    OBVIOUS
  <2>1. ASSUME UNCHANGED <<priority, lockWait, lockOwner, locksHeld>>
        PROVE  OwnerInheritsPriority'
    BY <2>1 DEF OwnerInheritsPriority
  <2>2. CASE UNCHANGED vars
    BY <2>1, <2>2 DEF vars, prioVars, lockVars
  <2>3. ASSUME NEW p \in Procs, Step(p)  PROVE OwnerInheritsPriority'
    BY <2>2, <2>3, StepKeepsInheritance
  <2>4. ASSUME NEW p \in Procs, SwitchOutDead(p)  PROVE OwnerInheritsPriority'
    <3>. DEFINE S == locksHeld[p]
    <3>1. /\ HandOver(S, p, priority) /\ UNCHANGED priority
          /\ running = p /\ phase = "run" /\ switchReason \in {"exit", "error"}
      BY <2>4 DEF SwitchOutDead, EndSlice, prioVars
    <3>2. /\ S \in SUBSET Locks /\ priority' \in [Procs -> Int]
          /\ HandOver(S, p, priority')
      BY <3>1, PriorityIsInt DEF TypeOK
    <3>3. \A l \in Locks : \A q \in ToSet(lockWait[l]) : q \in Procs /\ q # p
      BY <3>1, WaitersDoNotRun
    <3>. HIDE DEF S
    <3>. QED  BY <3>1, <3>2, <3>3, HandOverKeepsInheritance
  <2>. QED
    BY <2>1, <2>2, <2>3, <2>4
       DEF Next, SwitchOut, Dispatch, NothingReady, SwitchOutQuantum, SwitchOutSleep,
           SwitchOutBlocked, Halted, EndSlice, prioVars, lockVars
<1>. QED
  BY <1>1, <1>2, TypeCorrect, QueuesStayFiled, LockTablesAlwaysAgree,
     WaitersAlwaysHaveAnOwner, PTL DEF Spec

(* In particular of every set of programs without SETPRIORITY.              *)
THEOREM OwnersInheritWithoutSetPriority ==
  ASSUME \A p \in Procs : \A i \in Program[p] : i.op # "setpriority"
  PROVE  Spec => []OwnerInheritsPriority
<1>1. HoldersKeepTheirPriority
  BY DEF HoldersKeepTheirPriority, SetPriority
<1>. QED
  BY <1>1, OwnersInheritPriority, PTL

-----------------------------------------------------------------------------
(***************************************************************************)
(* What is left of a process that ended                                    *)
(***************************************************************************)

Gone(p) ==
  state[p] = "TERMINATED" /\ running # p /\ \A l \in Locks : lockOwner[l] # p

LEMMA TheTerminatedAreNotQueued ==
  ASSUME TypeOK, QueueInv, NEW p \in Procs, state[p] = "TERMINATED"
  PROVE  p \notin Queued
BY DEF QueueInv, Filed, FiledIn, FiledAmong, Queued

LEMMA HandOverPassesBy ==
  ASSUME TypeOK, QueueInv, NEW S \in SUBSET Locks, NEW p, NEW prio \in [Procs -> Int],
         HandOver(S, p, prio), NEW q \in Procs, state[q] # "WAITING_LOCK",
         \A l \in Locks : lockOwner[l] = q => l \in S
  PROVE  \A l \in Locks : lockOwner'[l] # q
<1>. SUFFICES ASSUME NEW l \in Locks PROVE lockOwner'[l] # q
  OBVIOUS
<1>1. lockOwner'[l] = IF l \in S THEN NewOwner(l, prio) ELSE lockOwner[l]
  BY DEF HandOver
<1>2. lockWait[l] # << >> => Heir(l, prio) \in Procs /\ state[Heir(l, prio)] = "WAITING_LOCK"
  BY HeirLeaves DEF QueueInv, Filed, FiledAmong
<1>. QED
  BY <1>1, <1>2, ProcsAssumption DEF NewOwner

(* The end of a process takes it off the CPU, out of every queue and away  *)
(* from its locks.                                                         *)
LEMMA TheEndedAreGone ==
  ASSUME TypeOK, QueueInv, LockTablesAgree, NEW p \in Procs, SwitchOutDead(p)
  PROVE  Gone(p)'
<1>1. PICK order \in SetToSeqs({l \in locksHeld[p] : lockWait[l] # << >>}) :
        LET heirs == [n \in DOMAIN order |-> Heir(order[n], priority)]
        IN  EndSlice(EnqueueAll(ready, heirs, priority), sleepQueue,
                     [q \in Procs |-> IF q = p THEN "TERMINATED"
                                      ELSE IF q \in ToSet(heirs) THEN "READY"
                                      ELSE state[q]])
  BY DEF SwitchOutDead
<1>2. /\ phase = "run" /\ running = p /\ switchReason \in {"exit", "error"}
      /\ HandOver(locksHeld[p], p, priority)
  BY DEF SwitchOutDead
<1>3. state[p] \in {"RUNNING", "TERMINATED"} /\ p \notin ToSet(sleepQueue)
  BY <1>2 DEF QueueInv, OnCpu, Filed, FiledIn
<1>. DEFINE heirs == [n \in DOMAIN order |-> Heir(order[n], priority)]
            rq == EnqueueAll(ready, heirs, priority)
            st == [q \in Procs |-> IF q = p THEN "TERMINATED"
                                   ELSE IF q \in ToSet(heirs) THEN "READY"
                                   ELSE state[q]]
<1>4. EndSlice(rq, sleepQueue, st) /\ st[p] = "TERMINATED"
  BY <1>1
<1>. HIDE DEF heirs, rq, st
<1>5. state'[p] = "TERMINATED" /\ running' = None
  BY <1>3, <1>4 DEF EndSlice
<1>6. /\ locksHeld[p] \in SUBSET Locks
      /\ \A l \in Locks : lockOwner[l] = p => l \in locksHeld[p]
  BY DEF TypeOK, LockTablesAgree
<1>7. priority \in [Procs -> Int]
  BY PriorityIsInt DEF TypeOK
<1>8. \A l \in Locks : lockOwner'[l] # p
  BY <1>2, <1>3, <1>6, <1>7, HandOverPassesBy
<1>. QED
  BY <1>5, <1>8, ProcsAssumption DEF Gone

(* No step of the kernel brings any of it back. *)
LEMMA TheGoneStayGone ==
  ASSUME TypeOK, QueueInv, NEW g \in Procs, Gone(g), [Next]_vars
  PROVE  Gone(g)'
<1>1. state'[g] = "TERMINATED"
  BY TheDeadStayDead DEF Gone
<1>2. state[g] = "TERMINATED" /\ running # g /\ \A l \in Locks : lockOwner[l] # g
  BY DEF Gone
<1>3. ASSUME NEW S \in SUBSET Locks, NEW p, NEW prio \in [Procs -> Int], HandOver(S, p, prio)
      PROVE  \A l \in Locks : lockOwner'[l] # g
  BY <1>2, <1>3, HandOverPassesBy
<1>4. CASE Dispatch
  <2>1. ready # << >> /\ running' = Head(ready) /\ UNCHANGED lockOwner
    BY <1>4 DEF Dispatch, lockVars
  <2>2. Head(ready) \in ToSet(ready)
    BY <2>1, PopFront DEF TypeOK
  <2>3. g \notin ToSet(ready)
    BY <1>2 DEF QueueInv, Filed, FiledIn
  <2>. QED  BY <1>1, <1>2, <2>1, <2>2, <2>3 DEF Gone
<1>5. ASSUME NEW p \in Procs, Step(p)  PROVE Gone(g)'
  <2>0. PICK i \in Program[p] :
          \/ Compute(p, i) \/ SetPriority(p, i) \/ Sleep(p, i)
          \/ Leave(p, i) \/ Crash(p, i)
          \/ AcquireAvailable(p, i) \/ AcquireBusy(p, i)
          \/ Release(p, i) \/ ReleaseNotOwner(p, i)
          \/ Signal(p, i) \/ WaitSignaled(p, i) \/ WaitBlock(p, i)
          \/ Terminate(p, i) \/ TerminateNothing(p, i)
    BY <1>5 DEF Step
  <2>1. running = p
    BY <1>5, StepKeepsTheDead
  <2>2. running' \in {p, None}
    BY <2>0, <2>1 DEF Compute, SetPriority, Sleep, Leave, Crash, AcquireAvailable,
         AcquireBusy, Release, ReleaseNotOwner, Signal, WaitSignaled, WaitBlock,
         Terminate, TerminateNothing, Retire, Block
  <2>3. CASE AcquireAvailable(p, i)
    <3>1. lockOwner' = [lockOwner EXCEPT ![i.arg] = p] /\ lockOwner \in [Locks -> Procs \cup {None}]
      BY <2>3 DEF AcquireAvailable, TypeOK
    <3>. QED  BY <1>1, <1>2, <2>1, <2>2, <3>1, ProcsAssumption DEF Gone
  <2>4. CASE Release(p, i)
    <3>1. HandOver({i.arg}, p, priority') /\ {i.arg} \in SUBSET Locks
      BY <2>4 DEF Release
    <3>2. priority' \in [Procs -> Int]
      BY <2>4, PriorityIsInt DEF Release, TypeOK
    <3>3. \A l \in Locks : lockOwner'[l] # g
      BY <1>3, <3>1, <3>2
    <3>. QED  BY <1>1, <1>2, <2>1, <2>2, <3>3, ProcsAssumption DEF Gone
  <2>5. CASE ~ AcquireAvailable(p, i) /\ ~ Release(p, i)
    <3>1. UNCHANGED lockOwner
      BY <2>0, <2>5 DEF Compute, SetPriority, Sleep, Leave, Crash, AcquireBusy,
           ReleaseNotOwner, Signal, WaitSignaled, WaitBlock, Terminate,
           TerminateNothing, lockVars
    <3>. QED  BY <1>1, <1>2, <2>1, <2>2, <3>1, ProcsAssumption DEF Gone
  <2>. QED  BY <2>3, <2>4, <2>5
<1>6. ASSUME NEW p \in Procs, SwitchOutDead(p)  PROVE Gone(g)'
  <2>1. HandOver(locksHeld[p], p, priority) /\ locksHeld[p] \in SUBSET Locks /\ running' = None
    BY <1>6 DEF SwitchOutDead, EndSlice, TypeOK
  <2>2. priority \in [Procs -> Int]
    BY PriorityIsInt DEF TypeOK
  <2>3. \A l \in Locks : lockOwner'[l] # g
    BY <1>3, <2>1, <2>2
  <2>. QED  BY <1>1, <2>1, <2>3, ProcsAssumption DEF Gone
<1>7. ASSUME NEW p \in Procs, SwitchOutQuantum(p) \/ SwitchOutSleep(p)  PROVE Gone(g)'
  <2>1. running' = None /\ UNCHANGED lockOwner
    BY <1>7 DEF SwitchOutQuantum, SwitchOutSleep, EndSlice, lockVars
  <2>. QED  BY <1>1, <1>2, <2>1, ProcsAssumption DEF Gone
<1>8. CASE SwitchOutBlocked
  <2>1. running' = None /\ UNCHANGED lockOwner
    BY <1>8 DEF SwitchOutBlocked, EndSlice, lockVars
  <2>. QED  BY <1>1, <1>2, <2>1, ProcsAssumption DEF Gone
<1>9. CASE NothingReady \/ UNCHANGED vars
  <2>1. UNCHANGED <<running, lockOwner>>
    BY <1>9 DEF NothingReady, lockVars, vars, loopVars
  <2>. QED  BY <1>1, <1>2, <2>1 DEF Gone
<1>. QED
  BY <1>4, <1>5, <1>6, <1>7, <1>8, <1>9 DEF Next, SwitchOut, Halted

-----------------------------------------------------------------------------
(***************************************************************************)
(* The order in which processes get the CPU for the first time             *)
(***************************************************************************)

(* A process that has not run yet is ready and owns nothing, so that no    *)
(* other can change its place among its like.                              *)
Fresh(p) ==
  p \in ToSet(ready) /\ running # p /\ \A l \in Locks : lockOwner[l] # p

LEMMA EnqueueOthersInTurn ==
  ASSUME NEW q \in Seq(Procs), NEW p \in Procs, NEW prio \in [Procs -> Int],
         NEW U, NEW pos, InTurn(q, U, pos), p \notin U
  PROVE  InTurn(Enqueue(q, p, prio), U, pos)
BY EnqueueInTurn

LEMMA EnqueueAllOthersInTurn ==
  ASSUME NEW q \in Seq(Procs), NEW ps \in Seq(Procs), NEW prio \in [Procs -> Int],
         NEW U, NEW pos, InTurn(q, U, pos), \A p \in U : p \notin ToSet(ps)
  PROVE  InTurn(EnqueueAll(q, ps, prio), U, pos)
<1>1. ToSet(ps) \cap U = {}
  OBVIOUS
<1>2. \A n \in DOMAIN ps : ps[n] \notin U
  BY DEF ToSet
<1>. QED
  BY <1>1, <1>2, EnqueueAllInTurn

(* Waking the sleepers is none of their business. *)
LEMMA EndSliceInTurn ==
  ASSUME TypeOK, NEW rq \in Seq(Procs), NEW sq \in Seq(Procs), NEW st, EndSlice(rq, sq, st),
         NEW U \in SUBSET Procs, NEW pos, InTurn(rq, U, pos),
         \A q \in U : q \notin ToSet(sq) /\ st[q] = "READY"
  PROVE  /\ InTurn(ready', U, pos) /\ running' = None
         /\ \A q \in U : state'[q] = "READY"
<1>. DEFINE woke == {p \in ToSet(sq) : CountDown(sq)[p] <= 0}
            up   == Only(sq, woke)
<1>1. /\ ready' = EnqueueAll(rq, up, priority) /\ running' = None
      /\ \A q \in Procs : state'[q] = IF q \in woke THEN "READY" ELSE st[q]
  BY DEF EndSlice
<1>2. priority \in [Procs -> Int]
  BY PriorityIsInt DEF TypeOK
<1>3. \A q \in U : q \notin woke
  OBVIOUS
<1>. HIDE DEF woke
<1>4. up \in Seq(Procs) /\ \A q \in U : q \notin ToSet(up)
  BY OnlyProperties
<1>. HIDE DEF up
<1>5. InTurn(ready', U, pos)
  BY <1>1, <1>2, <1>4, EnqueueAllOthersInTurn
<1>. QED
  BY <1>1, <1>3, <1>5

LEMMA FreshAre ==
  ASSUME TypeOK, QueueInv, NEW q \in Procs, Fresh(q)
  PROVE  /\ state[q] = "READY" /\ running # q /\ q \notin ToSet(sleepQueue)
         /\ \A l \in Locks : lockOwner[l] # q
BY DEF Fresh, QueueInv, Filed, FiledIn

LEMMA StillFresh ==
  ASSUME QueueInv', NEW q \in Procs, state'[q] = "READY",
         running' # q, \A l \in Locks : lockOwner'[l] # q
  PROVE  Fresh(q)'
BY DEF Fresh, QueueInv, Filed, FiledIn

(* The instructions of others: one may terminate a fresh process, but none *)
(* moves it, makes it wait or gives it a lock.                             *)
LEMMA StepsKeepTheTurn ==
  ASSUME TypeOK, QueueInv, QueueInv', NEW p \in Procs, Step(p),
         NEW U \in SUBSET Procs, NEW pos, \A q \in U : Fresh(q), InTurn(ready, U, pos)
  PROVE  /\ InTurn(ready', U, pos) /\ running' \in {p, None}
         /\ \A q \in U : /\ state'[q] # "TERMINATED" => Fresh(q)'
                         /\ running' # q /\ \A l \in Locks : lockOwner'[l] # q
<1>0. PICK i \in Program[p] :
        \/ Compute(p, i) \/ SetPriority(p, i) \/ Sleep(p, i)
        \/ Leave(p, i) \/ Crash(p, i)
        \/ AcquireAvailable(p, i) \/ AcquireBusy(p, i)
        \/ Release(p, i) \/ ReleaseNotOwner(p, i)
        \/ Signal(p, i) \/ WaitSignaled(p, i) \/ WaitBlock(p, i)
        \/ Terminate(p, i) \/ TerminateNothing(p, i)
  BY DEF Step
<1>1. running = p
  BY StepKeepsTheDead
<1>2. running' \in {p, None}
  BY <1>0, <1>1 DEF Compute, SetPriority, Sleep, Leave, Crash, AcquireAvailable,
       AcquireBusy, Release, ReleaseNotOwner, Signal, WaitSignaled, WaitBlock,
       Terminate, TerminateNothing, Retire, Block
<1>3. /\ priority \in [Procs -> Int] /\ state \in [Procs -> States]
      /\ ready \in Seq(Procs) /\ eventWait \in [Events -> Seq(Procs)]
      /\ lockOwner \in [Locks -> Procs \cup {None}]
      /\ None \notin Procs
  BY PriorityIsInt, ProcsAssumption DEF TypeOK
<1>4. \A q \in U : /\ q \in Procs /\ state[q] = "READY" /\ q # p
                   /\ \A l \in Locks : lockOwner[l] # q
  BY <1>1, FreshAre
<1>5. p \notin U
  BY <1>4
<1>. DEFINE Kept == /\ InTurn(ready', U, pos)
                    /\ \A q \in U : state'[q] \in {"READY", "TERMINATED"}
                    /\ \A q \in U : \A l \in Locks : lockOwner'[l] # q
<1>6. Kept
  <2>1. CASE UNCHANGED <<ready, state, lockOwner>>
    BY <1>4, <2>1
  <2>2. CASE WaitBlock(p, i)
    <3>1. UNCHANGED <<ready, lockOwner>> /\ state' = [state EXCEPT ![p] = "WAITING_EVENT"]
      BY <2>2 DEF WaitBlock, lockVars
    <3>2. \A q \in U : state'[q] = state[q]
      BY <1>3, <1>4, <3>1
    <3>. QED  BY <1>4, <3>1, <3>2
  <2>3. CASE AcquireAvailable(p, i)
    <3>1. UNCHANGED <<ready, state>> /\ lockOwner' = [lockOwner EXCEPT ![i.arg] = p]
      BY <2>3 DEF AcquireAvailable
    <3>2. \A l \in Locks : lockOwner'[l] \in {p, lockOwner[l]}
      BY <1>3, <3>1
    <3>. QED  BY <1>4, <3>1, <3>2
  <2>4. CASE AcquireBusy(p, i)
    <3>. DEFINE h == lockOwner[i.arg]
                T == {h}
    <3>1. /\ h \in Procs /\ h \notin U /\ UNCHANGED lockOwner
          /\ \/ ready' = ready
             \/ /\ priority' = [priority EXCEPT ![h] = priority[p]]
                /\ ready' = Boosted(ready, h, priority')
          /\ state' = [state EXCEPT ![p] = "WAITING_LOCK"]
      BY <1>4, <2>4 DEF AcquireBusy, TypeOK
    <3>2. \A q \in U : state'[q] = state[q]
      BY <1>3, <1>4, <3>1
    <3>. HIDE DEF h, T
    <3>3. InTurn(Without(ready, T), U, pos) /\ Without(ready, T) \in Seq(Procs)
      BY <1>3, WithoutInTurn, WithoutMembers
    <3>4. ASSUME priority' = [priority EXCEPT ![h] = priority[p]]
          PROVE  InTurn(Boosted(ready, h, priority'), U, pos)
      <4>1. priority' \in [Procs -> Int]
        BY <1>3, <3>4
      <4>2. InTurn(Enqueue(Without(ready, T), h, priority'), U, pos)
        BY <3>1, <3>3, <4>1, EnqueueOthersInTurn
      <4>. QED  BY <4>2 DEF Boosted, T
    <3>. QED  BY <1>4, <3>1, <3>2, <3>4
  <2>5. CASE Release(p, i)
    <3>. DEFINE k == i.arg
                h == Heir(k, priority')
                T == {k}
    <3>1. /\ k \in Locks /\ T \in SUBSET Locks /\ lockOwner[k] = p
          /\ HandOver(T, p, priority')
          /\ IF lockWait[k] = << >> THEN UNCHANGED <<state, ready>>
             ELSE /\ state' = [state EXCEPT ![h] = "READY"]
                  /\ ready' = Enqueue(ready, h, priority')
      BY <2>5 DEF Release
    <3>2. priority' \in [Procs -> Int]
      BY <1>3, <2>5 DEF Release, TypeOK
    <3>3. lockWait[k] # << >> => h \in Procs /\ state[h] = "WAITING_LOCK"
      BY <3>1, <3>2, HeirLeaves DEF QueueInv, Filed, FiledAmong
    <3>. HIDE DEF h, T, k
    <3>4. \A q \in U : \A l \in Locks : lockOwner'[l] # q
      BY <1>4, <3>1, <3>2, HandOverPassesBy
    <3>5. lockWait[k] # << >> => h \in Procs /\ h \notin U
      BY <1>4, <3>3
    <3>6. lockWait[k] # << >> => InTurn(Enqueue(ready, h, priority'), U, pos)
      BY <1>3, <3>2, <3>5, EnqueueOthersInTurn
    <3>7. \A q \in U : state'[q] = "READY"
      BY <1>3, <1>4, <3>1
    <3>. QED  BY <3>1, <3>4, <3>6, <3>7
  <2>6. CASE Signal(p, i) /\ eventWait[i.arg] # << >>
    <3>. DEFINE w == eventWait[i.arg]
                h == Head(ByPriority(w, priority))
    <3>1. /\ ready' = Enqueue(ready, h, priority) /\ UNCHANGED lockOwner
          /\ state' = [state EXCEPT ![h] = "READY"] /\ i.arg \in Events
      BY <2>6 DEF Signal, lockVars
    <3>2. w \in Seq(Procs) /\ NoRepeat(w) /\ w # << >>
      BY <2>6, <3>1 DEF TypeOK, QueueInv, Filed, FiledAmong
    <3>3. \A q \in ToSet(w) : q \in Procs => state[q] = "WAITING_EVENT"
      BY <3>1 DEF QueueInv, Filed, FiledAmong
    <3>. HIDE DEF w
    <3>4. h \in Procs /\ h \in ToSet(w)
      BY <1>3, <3>2, BestLeaves
    <3>. HIDE DEF h
    <3>5. h \notin U
      BY <1>4, <3>3, <3>4
    <3>6. InTurn(ready', U, pos)
      BY <1>3, <3>1, <3>4, <3>5, EnqueueOthersInTurn
    <3>7. \A q \in U : state'[q] = "READY"
      BY <1>3, <1>4, <3>1
    <3>. QED  BY <1>4, <3>1, <3>6, <3>7
  <2>7. CASE Terminate(p, i)
    <3>. DEFINE T == {i.arg}
    <3>1. /\ ready' = Without(ready, T) /\ UNCHANGED lockOwner
          /\ state' = [state EXCEPT ![i.arg] = "TERMINATED"]
      BY <2>7 DEF Terminate
    <3>. HIDE DEF T
    <3>2. InTurn(ready', U, pos)
      BY <1>3, <3>1, WithoutInTurn
    <3>3. \A q \in U : state'[q] \in {"READY", "TERMINATED"}
      BY <1>3, <1>4, <3>1
    <3>. QED  BY <1>4, <3>1, <3>2, <3>3
  <2>. HIDE DEF Kept
  <2>. QED
    BY <1>0, <2>1, <2>2, <2>3, <2>4, <2>5, <2>6, <2>7
       DEF Compute, SetPriority, Sleep, Leave, Crash, ReleaseNotOwner, Signal,
           WaitSignaled, TerminateNothing, lockVars
<1>7. \A q \in U : running' # q
  BY <1>2, <1>3, <1>4
<1>. QED
  BY <1>2, <1>4, <1>6, <1>7, StillFresh

(* The end of a slice makes others ready, but none of them is fresh.       *)
LEMMA SliceEndsKeepTheTurn ==
  ASSUME TypeOK, QueueInv, QueueInv', LockTablesAgree, SwitchOut,
         NEW U \in SUBSET Procs, NEW pos, \A q \in U : Fresh(q), InTurn(ready, U, pos)
  PROVE  InTurn(ready', U, pos) /\ \A q \in U : Fresh(q)'
<1>1. /\ priority \in [Procs -> Int] /\ state \in [Procs -> States]
      /\ ready \in Seq(Procs) /\ sleepQueue \in Seq(Procs) /\ None \notin Procs
  BY PriorityIsInt, ProcsAssumption DEF TypeOK
<1>2. \A q \in U : /\ q \in Procs /\ state[q] = "READY" /\ running # q
                   /\ q \notin ToSet(sleepQueue) /\ \A l \in Locks : lockOwner[l] # q
  BY FreshAre
<1>3. ASSUME NEW rq \in Seq(Procs), NEW sq \in Seq(Procs), NEW st, EndSlice(rq, sq, st),
             InTurn(rq, U, pos), \A q \in U : q \notin ToSet(sq) /\ st[q] = "READY",
             \A q \in U : \A l \in Locks : lockOwner'[l] # q
      PROVE  InTurn(ready', U, pos) /\ \A q \in U : Fresh(q)'
  <2>1. /\ InTurn(ready', U, pos) /\ running' = None
        /\ \A q \in U : state'[q] = "READY"
    BY <1>3, EndSliceInTurn
  <2>. QED  BY <1>1, <1>2, <1>3, <2>1, StillFresh
<1>4. ASSUME NEW p \in Procs, SwitchOutQuantum(p)
      PROVE  InTurn(ready', U, pos) /\ \A q \in U : Fresh(q)'
  <2>. DEFINE rq == Enqueue(ready, p, priority)
              st == [state EXCEPT ![p] = "READY"]
  <2>1. EndSlice(rq, sleepQueue, st) /\ running = p /\ UNCHANGED lockOwner
    BY <1>4 DEF SwitchOutQuantum, lockVars
  <2>2. p \notin U
    BY <1>2, <2>1
  <2>3. rq \in Seq(Procs) /\ InTurn(rq, U, pos)
    BY <1>1, <2>2, EnqueueProperties, EnqueueOthersInTurn
  <2>4. \A q \in U : st[q] = "READY"
    BY <1>1, <1>2
  <2>. HIDE DEF rq, st
  <2>5. \A q \in U : q \notin ToSet(sleepQueue) /\ st[q] = "READY"
    BY <1>2, <2>4
  <2>6. \A q \in U : \A l \in Locks : lockOwner'[l] # q
    BY <1>2, <2>1
  <2>. QED  BY <1>1, <1>3, <2>1, <2>3, <2>5, <2>6
<1>5. ASSUME NEW p \in Procs, SwitchOutSleep(p)
      PROVE  InTurn(ready', U, pos) /\ \A q \in U : Fresh(q)'
  <2>. DEFINE sq == Append(sleepQueue, p)
              st == [state EXCEPT ![p] = "SLEEPING"]
  <2>1. EndSlice(ready, sq, st) /\ running = p /\ UNCHANGED lockOwner
    BY <1>5 DEF SwitchOutSleep, lockVars
  <2>2. sq \in Seq(Procs) /\ ToSet(sq) = ToSet(sleepQueue) \cup {p}
    BY <1>1, AppendMember
  <2>3. \A q \in U : st[q] = "READY"
    BY <1>1, <1>2, <2>1
  <2>. HIDE DEF sq, st
  <2>4. \A q \in U : q \notin ToSet(sq) /\ st[q] = "READY"
    BY <1>2, <2>1, <2>2, <2>3
  <2>5. \A q \in U : \A l \in Locks : lockOwner'[l] # q
    BY <1>2, <2>1
  <2>. QED  BY <1>1, <1>3, <2>1, <2>2, <2>4, <2>5
<1>6. ASSUME SwitchOutBlocked
      PROVE  InTurn(ready', U, pos) /\ \A q \in U : Fresh(q)'
  <2>1. EndSlice(ready, sleepQueue, state) /\ UNCHANGED lockOwner
    BY <1>6 DEF SwitchOutBlocked, lockVars
  <2>. QED  BY <1>1, <1>2, <1>3, <2>1
<1>7. ASSUME NEW p \in Procs, SwitchOutDead(p)
      PROVE  InTurn(ready', U, pos) /\ \A q \in U : Fresh(q)'
  <2>. DEFINE S == locksHeld[p]
  <2>1. /\ running = p /\ HandOver(S, p, priority) /\ S \in SUBSET Locks
        /\ \A l \in Locks : lockOwner[l] = p => l \in S
    BY <1>7 DEF SwitchOutDead, TypeOK, LockTablesAgree
  <2>2. PICK order \in SetToSeqs({l \in S : lockWait[l] # << >>}) :
          LET heirs == [n \in DOMAIN order |-> Heir(order[n], priority)]
          IN  EndSlice(EnqueueAll(ready, heirs, priority), sleepQueue,
                       [q \in Procs |-> IF q = p THEN "TERMINATED"
                                        ELSE IF q \in ToSet(heirs) THEN "READY"
                                        ELSE state[q]])
    BY <1>7 DEF SwitchOutDead
  <2>. DEFINE heirs == [n \in DOMAIN order |-> Heir(order[n], priority)]
              rq == EnqueueAll(ready, heirs, priority)
              st == [q \in Procs |-> IF q = p THEN "TERMINATED"
                                     ELSE IF q \in ToSet(heirs) THEN "READY"
                                     ELSE state[q]]
  <2>3. EndSlice(rq, sleepQueue, st)
    BY <2>2
  <2>4. FiledAmong(lockWait, Locks, state, "WAITING_LOCK")
    BY DEF QueueInv, Filed
  <2>5. heirs \in Seq(Procs) /\ ToSet(heirs) = Heirs(S, priority)
    BY <1>1, <2>1, <2>4, OrderedHeirs
  <2>6. \A h \in Heirs(S, priority) : state[h] = "WAITING_LOCK"
    <3>1. \A l \in S : lockWait[l] # << >> => state[Heir(l, priority)] = "WAITING_LOCK"
      BY <1>1, <2>1, <2>4, HeirLeaves DEF FiledAmong
    <3>. QED  BY <3>1 DEF Heirs
  <2>. HIDE DEF heirs, S
  <2>7. \A q \in U : q \notin ToSet(heirs)
    BY <1>2, <2>5, <2>6
  <2>8. \A q \in U : st[q] = "READY"
    BY <1>2, <2>1, <2>7
  <2>. HIDE DEF st
  <2>9. rq \in Seq(Procs) /\ InTurn(rq, U, pos)
    BY <1>1, <2>5, <2>7, EnqueueAllProperties, EnqueueAllOthersInTurn
  <2>. HIDE DEF rq
  <2>10. \A q \in U : \A l \in Locks : lockOwner'[l] # q
    BY <1>1, <1>2, <2>1, HandOverPassesBy
  <2>. QED  BY <1>1, <1>2, <1>3, <2>3, <2>8, <2>9, <2>10
<1>. QED
  BY <1>4, <1>5, <1>6, <1>7 DEF SwitchOut

(* pick_next takes the first of them. *)
LEMMA DispatchInTurn ==
  ASSUME TypeOK, QueueInv, QueueInv', Dispatch,
         NEW U \in SUBSET Procs, NEW pos, \A q \in U : Fresh(q), InTurn(ready, U, pos)
  PROVE  /\ running' \in Procs /\ state[running'] = "READY"
         /\ InTurn(ready', U, pos) /\ \A q \in U : q # running' => Fresh(q)'
         /\ running' \in U => \A q \in U : q = running' \/ pos[running'] < pos[q]
<1>1. ready \in Seq(Procs) /\ ready # << >> /\ state \in [Procs -> States]
  BY DEF TypeOK, Dispatch
<1>. DEFINE h == Head(ready)
<1>2. /\ running' = h /\ ready' = Tail(ready) /\ UNCHANGED lockOwner
      /\ state' = [state EXCEPT ![h] = "RUNNING"]
  BY DEF Dispatch, lockVars
<1>3. h \in Procs /\ h \in ToSet(ready)
  <2>1. priority \in [Procs -> Int]
    BY PriorityIsInt DEF TypeOK
  <2>. QED  BY <1>1, <2>1, PopFront
<1>4. /\ InTurn(ready', U, pos)
      /\ h \in U => \A q \in ToSet(ready) : q \in U => q = h \/ pos[h] < pos[q]
  BY <1>1, <1>2, FirstInTurn
<1>. HIDE DEF h
<1>5. state[h] = "READY"
  BY <1>3 DEF QueueInv, Filed, FiledIn
<1>6. \A q \in U : q \in Procs /\ state[q] = "READY" /\ \A l \in Locks : lockOwner[l] # q
  BY FreshAre
<1>7. \A q \in U : q # h => Fresh(q)'
  <2>1. \A q \in U : q # h => state'[q] = "READY"
    BY <1>1, <1>2, <1>6
  <2>. QED  BY <1>2, <1>6, <2>1, StillFresh
<1>. QED
  BY <1>2, <1>3, <1>4, <1>5, <1>7 DEF Fresh

=============================================================================
