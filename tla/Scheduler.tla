----------------------------- MODULE Scheduler -----------------------------
(***************************************************************************)
(* The MidOS kernel's scheduler: scheduler.py, the scheduling fields of    *)
(* pcb.py, the instructions of cpu.py that call the scheduler, and the     *)
(* run loop of midos.py.  One process runs at a time; what is concurrent   *)
(* is the programs, whose instructions may be interleaved at every context *)
(* switch.  Registers, memory and statistics are abstracted: a program is  *)
(* the set of scheduler-relevant instructions it may execute, chosen       *)
(* freely at each step, except that an instruction that blocked is         *)
(* executed again when the process resumes (its IP was not advanced).      *)
(*                                                                         *)
(* A definition named X_Slip, just before X, is X with one plausible       *)
(* slip of the code; it is used by nothing and shows what X guards.        *)
(***************************************************************************)
EXTENDS PriorityQueue

CONSTANTS
  Procs,           \* the processes that were loaded
  Idle,            \* the idle process; not in Procs if idle.txt failed to load
  Locks,           \* the valid lock numbers (1..NUM_LOCKS)
  Events,          \* the valid event numbers (1..NUM_EVENTS)
  LoadOrder,       \* the processes in the order of their add_process calls
  LoadPriority,    \* [Procs -> Int]: the priority load_program was given
  MaxPriority,     \* 32
  DefaultQuantum,  \* 10
  IdleQuantum,     \* 5
  Program,         \* [Procs -> SUBSET Instr]: what a process may execute
  None             \* Python's None

(***************************************************************************)
(* Instructions: op is the opcode up to its immediate/register form.       *)
(* "compute" is any opcode that only touches registers and memory, "fault" *)
(* one whose step raises MemoryError or RuntimeError, "raise" one that     *)
(* raises an exception the run loop does not catch.                        *)
(***************************************************************************)
Ops == {"compute", "fault", "raise", "exit", "sleep", "setpriority",
        "acquire", "release", "signal", "wait", "terminate"}

ASSUME ProcsAssumption ==
  /\ None \notin Procs
  /\ LoadOrder \in Seq(Procs)
  /\ \A p \in Procs : \E i \in DOMAIN LoadOrder : LoadOrder[i] = p
  /\ \A i, j \in DOMAIN LoadOrder : LoadOrder[i] = LoadOrder[j] => i = j

ASSUME PriorityAssumption ==
  /\ LoadPriority \in [Procs -> Int]
  /\ MaxPriority \in Nat \ {0}

ASSUME QuantumAssumption ==
  /\ DefaultQuantum \in Nat \ {0}
  /\ IdleQuantum \in Nat \ {0}

ASSUME ProgramAssumption ==
  \A p \in Procs : \A i \in Program[p] :
    /\ i.op \in Ops
    /\ i.op \in {"sleep", "setpriority"} => i.arg \in Int

ASSUME LocksAssumption == IsFiniteSet(Locks)

Users == Procs \ {Idle}

Quantum(p) == IF p = Idle THEN IdleQuantum ELSE DefaultQuantum

Clamp_NoMax(n) == IF n < 1 THEN 1 ELSE n

(* max(1, min(32, n)) of load_program and SETPRIORITY. *)
Clamp(n) == IF n < 1 THEN 1 ELSE IF n > MaxPriority THEN MaxPriority ELSE n

VARIABLES
  phase,        \* where the run loop is: "pick", "run", or "stopped" when it
                \* left run(), "crashed" when an exception escaped it
  running,      \* scheduler.current_pcb
  switchReason, \* cpu.switch_reason, "none" for Python's None
  cpuTicks,     \* cpu.ticks_remaining, only read by a context switch
  state,        \* pcb.state
  priority,     \* pcb.priority
  original,     \* pcb.original_priority
  ticks,        \* pcb.ticks_remaining
  sleepCounter, \* pcb.sleep_counter
  locksHeld,    \* pcb.locks_held
  retry,        \* the blocked instruction the process's IP still points at
  ready,        \* ready_queue
  sleepQueue,   \* sleep_queue
  lockWait,     \* lock_wait_queues
  eventWait,    \* event_wait_queues
  terminated,   \* the members of terminated_queue
  lockOwner,    \* lock_owner
  signaled      \* event_signaled

loopVars  == <<phase, running, switchReason, cpuTicks>>
prioVars  == <<priority, original>>
sleepVars == <<sleepQueue, sleepCounter>>
lockVars  == <<lockOwner, lockWait, locksHeld>>
eventVars == <<signaled, eventWait>>
vars == <<loopVars, prioVars, sleepVars, lockVars, eventVars,
          state, ticks, retry, ready, terminated>>

States == {"READY", "RUNNING", "SLEEPING", "WAITING_LOCK", "WAITING_EVENT",
           "TERMINATED"}

TypeOK ==
  /\ phase \in {"pick", "run", "stopped", "crashed"}
  /\ running \in Procs \cup {None}
  /\ switchReason \in {"none", "quantum", "sleep", "lock", "event", "exit",
                       "error"}
  /\ cpuTicks \in Int
  /\ state \in [Procs -> States]
  /\ priority \in [Procs -> 0..MaxPriority]
  /\ original \in [Procs -> 0..MaxPriority]
  /\ ticks \in [Procs -> Int]
  /\ sleepCounter \in [Procs -> Int]
  /\ locksHeld \in [Procs -> SUBSET Locks]
  /\ retry \in [Procs -> (UNION {Program[p] : p \in Procs}) \cup {None}]
  /\ ready \in Seq(Procs)
  /\ sleepQueue \in Seq(Procs)
  /\ lockWait \in [Locks -> Seq(Procs)]
  /\ eventWait \in [Events -> Seq(Procs)]
  /\ terminated \in SUBSET Procs
  /\ lockOwner \in [Locks -> Procs \cup {None}]
  /\ signaled \in [Events -> BOOLEAN]

-----------------------------------------------------------------------------
(***************************************************************************)
(* Queues                                                                  *)
(***************************************************************************)

Queued_NoWaiters == ToSet(ready) \cup ToSet(sleepQueue)

(* Every process that some queue holds. *)
Queued ==
  UNION ({ToSet(ready), ToSet(sleepQueue)}
           \cup {ToSet(lockWait[l]) : l \in Locks}
           \cup {ToSet(eventWait[e]) : e \in Events})

-----------------------------------------------------------------------------
(***************************************************************************)
(* Initial state: MidOS.__init__ loads the idle process, then main.py the  *)
(* users; add_process makes each of them READY.                            *)
(***************************************************************************)
Init ==
  /\ phase = "pick"
  /\ running = None
  /\ switchReason = "none"
  /\ cpuTicks = DefaultQuantum
  /\ state = [p \in Procs |-> "READY"]
  /\ priority = [p \in Procs |-> IF p = Idle THEN 0 ELSE Clamp(LoadPriority[p])]
  /\ original = priority
  /\ ticks = [p \in Procs |-> Quantum(p)]
  /\ sleepCounter = [p \in Procs |-> 0]
  /\ locksHeld = [p \in Procs |-> {}]
  /\ retry = [p \in Procs |-> None]
  /\ ready = EnqueueAll(<< >>, LoadOrder, priority)
  /\ sleepQueue = << >>
  /\ lockWait = [l \in Locks |-> << >>]
  /\ eventWait = [e \in Events |-> << >>]
  /\ terminated = {}
  /\ lockOwner = [l \in Locks |-> None]
  /\ signaled = [e \in Events |-> FALSE]

-----------------------------------------------------------------------------
(***************************************************************************)
(* Picking the next process                                                *)
(***************************************************************************)

(* pick_next and context_switch_in. *)
Dispatch ==
  /\ phase = "pick"
  /\ ready # << >>
  /\ running' = Head(ready)
  /\ ready' = Tail(ready)
  /\ state' = [state EXCEPT ![Head(ready)] = "RUNNING"]
  /\ cpuTicks' = ticks[Head(ready)]
  /\ phase' = "run"
  /\ UNCHANGED <<switchReason, prioVars, sleepVars, lockVars, eventVars,
                 ticks, retry, terminated>>

(* pick_next returns None: run() leaves its loop, whoever is still blocked. *)
NothingReady ==
  /\ phase = "pick"
  /\ ready = << >>
  /\ phase' = "stopped"
  /\ UNCHANGED <<running, switchReason, cpuTicks, prioVars, sleepVars, lockVars,
                 eventVars, state, ticks, retry, ready, terminated>>

-----------------------------------------------------------------------------
(***************************************************************************)
(* CPU.step: one instruction of the running process                        *)
(***************************************************************************)

(* The running process p fetches instruction i; the fetch itself may fault. *)
Fetch(p, i) ==
  /\ phase = "run"
  /\ switchReason = "none"
  /\ running = p
  /\ i.op = "fault" \/ retry[p] \in {None, i}

(* The end of step: advance IP, account one clock tick to the process, and  *)
(* ask for a switch when its quantum is used up.  reason is what the        *)
(* instruction itself left in switch_reason.                                *)
Retire(p, reason) ==
  /\ retry' = [retry EXCEPT ![p] = None]
  /\ ticks' = [ticks EXCEPT ![p] = @ - 1]
  /\ switchReason' = IF ticks[p] - 1 <= 0 /\ reason = "none"
                     THEN "quantum" ELSE reason
  /\ UNCHANGED <<phase, running, cpuTicks>>

SavedTicks_NotSaved(p) == ticks

(* save_cpu_state: the CPU's tick count overwrites the PCB's. *)
SavedTicks(p) == [ticks EXCEPT ![p] = cpuTicks]

(* context_switch_out called inside step for a process that blocks: IP is   *)
(* not advanced.                                                            *)
Block(p, i, reason) ==
  /\ retry' = [retry EXCEPT ![p] = i]
  /\ ticks' = SavedTicks(p)
  /\ switchReason' = reason
  /\ running' = None
  /\ UNCHANGED <<phase, cpuTicks>>

Compute(p, i) ==
  /\ Fetch(p, i)
  /\ i.op = "compute"
  /\ Retire(p, "none")
  /\ UNCHANGED <<prioVars, sleepVars, lockVars, eventVars, state, ready,
                 terminated>>

(* SETPRIORITY also replaces the priority that a lock release restores. *)
SetPriority(p, i) ==
  /\ Fetch(p, i)
  /\ i.op = "setpriority"
  /\ priority' = [priority EXCEPT ![p] = Clamp(i.arg)]
  /\ original' = [original EXCEPT ![p] = Clamp(i.arg)]
  /\ Retire(p, "none")
  /\ UNCHANGED <<sleepVars, lockVars, eventVars, state, ready, terminated>>

Sleep(p, i) ==
  /\ Fetch(p, i)
  /\ i.op = "sleep"
  /\ sleepCounter' = [sleepCounter EXCEPT ![p] = IF i.arg < 1 THEN 1 ELSE i.arg]
  /\ Retire(p, "sleep")
  /\ UNCHANGED <<prioVars, sleepQueue, lockVars, eventVars, state, ready,
                 terminated>>

(* EXIT, or a step that raises MemoryError or RuntimeError: the switch is   *)
(* requested before IP and ticks are touched.                               *)
Leave(p, i) ==
  /\ Fetch(p, i)
  /\ i.op \in {"exit", "fault"}
  /\ switchReason' = IF i.op = "exit" THEN "exit" ELSE "error"
  /\ UNCHANGED <<phase, running, cpuTicks, prioVars, sleepVars, lockVars,
                 eventVars, state, ticks, retry, ready, terminated>>

(* An exception the run loop does not catch ends it: the ValueError of a    *)
(* lock or event number out of range, or another one of a memory opcode.    *)
Crash(p, i) ==
  /\ Fetch(p, i)
  /\ \/ i.op = "raise"
     \/ i.op \in {"acquire", "release"} /\ i.arg \notin Locks
     \/ i.op \in {"signal", "wait"} /\ i.arg \notin Events
  /\ phase' = "crashed"
  /\ UNCHANGED <<running, switchReason, cpuTicks, prioVars, sleepVars, lockVars,
                 eventVars, state, ticks, retry, ready, terminated>>

-----------------------------------------------------------------------------
(***************************************************************************)
(* Locks                                                                   *)
(***************************************************************************)

(* acquire_lock of a free lock, or of one the process already holds (the    *)
(* case of a waiter that was handed the lock and executes ACQUIRE again).   *)
AcquireAvailable(p, i) ==
  /\ Fetch(p, i)
  /\ i.op = "acquire" /\ i.arg \in Locks
  /\ lockOwner[i.arg] \in {None, p}
  /\ lockOwner' = [lockOwner EXCEPT ![i.arg] = p]
  /\ locksHeld' = IF lockOwner[i.arg] = p THEN locksHeld
                  ELSE [locksHeld EXCEPT ![p] = @ \cup {i.arg}]
  /\ Retire(p, "none")
  /\ UNCHANGED <<lockWait, prioVars, sleepVars, eventVars, state, ready,
                 terminated>>

Boosted_NotMoved(rq, holder, prio) == rq

Boosted_StillThere(rq, holder, prio) ==
  IF holder \in ToSet(rq) THEN Enqueue(rq, holder, prio) ELSE rq

(* The ready queue after the holder's priority was raised to prio[holder].  *)
Boosted(rq, holder, prio) ==
  IF holder \in ToSet(rq) THEN Enqueue(Without(rq, {holder}), holder, prio)
  ELSE rq

(* acquire_lock of a lock held by another: lend the holder this priority if *)
(* it is higher, moving the holder up in the ready queue, and block.        *)
AcquireBusy(p, i) ==
  /\ Fetch(p, i)
  /\ i.op = "acquire" /\ i.arg \in Locks
  /\ lockOwner[i.arg] \notin {None, p}
  /\ LET holder == lockOwner[i.arg]
         lends  == priority[holder] < priority[p]
     IN  /\ priority' = IF lends THEN [priority EXCEPT ![holder] = priority[p]]
                        ELSE priority
         /\ ready' = IF lends THEN Boosted(ready, holder, priority') ELSE ready
  /\ state' = [state EXCEPT ![p] = "WAITING_LOCK"]
  /\ lockWait' = [lockWait EXCEPT ![i.arg] = Append(@, p)]
  /\ Block(p, i, "lock")
  /\ UNCHANGED <<original, lockOwner, locksHeld, sleepVars, eventVars,
                 terminated>>

(* The waiter that is handed lock l: the first of highest priority. *)
Heir(l, prio) == Head(ByPriority(lockWait[l], prio))

NewOwner_Unowned(l, prio) == None

(* The owner a lock has when it is given up, and who still waits for it.    *)
NewOwner(l, prio) == IF lockWait[l] = << >> THEN None ELSE Heir(l, prio)

StillWaiting_WithHeir(l, prio) == lockWait[l]

StillWaiting(l, prio) ==
  IF lockWait[l] = << >> THEN << >> ELSE Tail(ByPriority(lockWait[l], prio))

(* Process p gives up the locks of S. *)
HandOver(S, p, prio) ==
  /\ lockOwner' = [l \in Locks |-> IF l \in S THEN NewOwner(l, prio)
                                   ELSE lockOwner[l]]
  /\ lockWait' = [l \in Locks |-> IF l \in S THEN StillWaiting(l, prio)
                                  ELSE lockWait[l]]
  /\ locksHeld' =
       [q \in Procs |->
          (IF q = p THEN locksHeld[q] \ S ELSE locksHeld[q])
            \cup {l \in S : lockWait[l] # << >> /\ Heir(l, prio) = q}]

Restores_Never(p, l) == FALSE

Restores_Always(p, l) == TRUE

(* Releasing l ends the loan of a priority: no other lock is held.          *)
Restores(p, l) == locksHeld[p] \subseteq {l}

(* release_lock by the owner: its own priority comes back before the best   *)
(* waiter is chosen.                                                        *)
Release(p, i) ==
  /\ Fetch(p, i)
  /\ i.op = "release" /\ i.arg \in Locks
  /\ lockOwner[i.arg] = p
  /\ priority' = IF Restores(p, i.arg)
                 THEN [priority EXCEPT ![p] = original[p]] ELSE priority
  /\ HandOver({i.arg}, p, priority')
  /\ IF lockWait[i.arg] = << >>
     THEN UNCHANGED <<state, ready>>
     ELSE LET heir == Heir(i.arg, priority')
          IN  /\ state' = [state EXCEPT ![heir] = "READY"]
              /\ ready' = Enqueue(ready, heir, priority')
  /\ Retire(p, "none")
  /\ UNCHANGED <<original, sleepVars, eventVars, terminated>>

(* release_lock by anyone else is ignored. *)
ReleaseNotOwner(p, i) ==
  /\ Fetch(p, i)
  /\ i.op = "release" /\ i.arg \in Locks
  /\ lockOwner[i.arg] # p
  /\ Retire(p, "none")
  /\ UNCHANGED <<prioVars, sleepVars, lockVars, eventVars, state, ready,
                 terminated>>

-----------------------------------------------------------------------------
(***************************************************************************)
(* Events                                                                  *)
(***************************************************************************)

(* signal_event: wake the waiter of highest priority, or remember the signal *)
Signal(p, i) ==
  /\ Fetch(p, i)
  /\ i.op = "signal" /\ i.arg \in Events
  /\ IF eventWait[i.arg] = << >>
     THEN /\ signaled' = [signaled EXCEPT ![i.arg] = TRUE]
          /\ UNCHANGED <<eventWait, state, ready>>
     ELSE LET sorted == ByPriority(eventWait[i.arg], priority)
          IN  /\ eventWait' = [eventWait EXCEPT ![i.arg] = Tail(sorted)]
              /\ signaled' = [signaled EXCEPT ![i.arg] = FALSE]
              /\ state' = [state EXCEPT ![Head(sorted)] = "READY"]
              /\ ready' = Enqueue(ready, Head(sorted), priority)
  /\ Retire(p, "none")
  /\ UNCHANGED <<prioVars, sleepVars, lockVars, terminated>>

(* wait_event on a signaled event consumes the signal. *)
WaitSignaled(p, i) ==
  /\ Fetch(p, i)
  /\ i.op = "wait" /\ i.arg \in Events
  /\ signaled[i.arg]
  /\ signaled' = [signaled EXCEPT ![i.arg] = FALSE]
  /\ Retire(p, "none")
  /\ UNCHANGED <<eventWait, prioVars, sleepVars, lockVars, state, ready,
                 terminated>>

WaitBlock_Unchecked(p, i) ==
  /\ Fetch(p, i)
  /\ i.op = "wait" /\ i.arg \in Events
  /\ state' = [state EXCEPT ![p] = "WAITING_EVENT"]
  /\ eventWait' = [eventWait EXCEPT ![i.arg] = Append(@, p)]
  /\ Block(p, i, "event")
  /\ UNCHANGED <<signaled, prioVars, sleepVars, lockVars, ready, terminated>>

(* wait_event otherwise blocks. *)
WaitBlock(p, i) ==
  /\ Fetch(p, i)
  /\ i.op = "wait" /\ i.arg \in Events
  /\ ~ signaled[i.arg]
  /\ state' = [state EXCEPT ![p] = "WAITING_EVENT"]
  /\ eventWait' = [eventWait EXCEPT ![i.arg] = Append(@, p)]
  /\ Block(p, i, "event")
  /\ UNCHANGED <<signaled, prioVars, sleepVars, lockVars, ready, terminated>>

-----------------------------------------------------------------------------
(***************************************************************************)
(* TERMINATEPROCESS                                                        *)
(***************************************************************************)

(* terminate_process of a live process, possibly the caller itself: it      *)
(* leaves the queue it is in and keeps its locks.                           *)
Terminate(p, i) ==
  /\ Fetch(p, i)
  /\ i.op = "terminate"
  /\ i.arg \in Procs /\ state[i.arg] # "TERMINATED"
  /\ ready' = Without(ready, {i.arg})
  /\ sleepQueue' = Without(sleepQueue, {i.arg})
  /\ lockWait' = [l \in Locks |-> Without(lockWait[l], {i.arg})]
  /\ eventWait' = [e \in Events |-> Without(eventWait[e], {i.arg})]
  /\ state' = [state EXCEPT ![i.arg] = "TERMINATED"]
  /\ terminated' = terminated \cup {i.arg}
  /\ Retire(p, "none")
  /\ UNCHANGED <<prioVars, sleepCounter, lockOwner, locksHeld, signaled>>

(* terminate_process of an unknown pid or a terminated process. *)
TerminateNothing(p, i) ==
  /\ Fetch(p, i)
  /\ i.op = "terminate"
  /\ i.arg \in Procs => state[i.arg] = "TERMINATED"
  /\ Retire(p, "none")
  /\ UNCHANGED <<prioVars, sleepVars, lockVars, eventVars, state, ready,
                 terminated>>

-----------------------------------------------------------------------------
(***************************************************************************)
(* Switching out: _handle_switch_out, then tick_sleeping, then the check   *)
(* whether only the idle process remains, which no step of a program can   *)
(* come between.                                                           *)
(***************************************************************************)

CountDown_Never(sq) == sleepCounter

(* sleep_counter -= 1 for every sleeping process. *)
CountDown(sq) ==
  [p \in Procs |-> IF p \in ToSet(sq) THEN sleepCounter[p] - 1 ELSE sleepCounter[p]]

(* tick_sleeping and _only_idle_remains, given the ready queue rq, the     *)
(* sleep queue sq and the states st that _handle_switch_out left.           *)
EndSlice(rq, sq, st) ==
  LET woke == {p \in ToSet(sq) : CountDown(sq)[p] <= 0}
  IN  /\ sleepCounter' = CountDown(sq)
      /\ sleepQueue' = Without(sq, woke)
      /\ ready' = EnqueueAll(rq, Only(sq, woke), priority)
      /\ state' = [p \in Procs |-> IF p \in woke THEN "READY" ELSE st[p]]
      /\ running' = None
      /\ switchReason' = "none"
      /\ phase' = IF Queued' \subseteq {Idle} THEN "stopped" ELSE "pick"
      /\ UNCHANGED <<cpuTicks, prioVars, retry>>

SwitchOutQuantum(p) ==
  /\ phase = "run" /\ running = p
  /\ switchReason = "quantum"
  /\ ticks' = [ticks EXCEPT ![p] = Quantum(p)]
  /\ UNCHANGED <<lockVars, eventVars, terminated>>
  /\ EndSlice(Enqueue(ready, p, priority), sleepQueue,
              [state EXCEPT ![p] = "READY"])

SwitchOutSleep(p) ==
  /\ phase = "run" /\ running = p
  /\ switchReason = "sleep"
  /\ ticks' = SavedTicks(p)
  /\ UNCHANGED <<lockVars, eventVars, terminated>>
  /\ EndSlice(ready, Append(sleepQueue, p), [state EXCEPT ![p] = "SLEEPING"])

(* The process already left the CPU inside acquire_lock or wait_event. *)
SwitchOutBlocked ==
  /\ phase = "run"
  /\ switchReason \in {"lock", "event"}
  /\ UNCHANGED <<ticks, lockVars, eventVars, terminated>>
  /\ EndSlice(ready, sleepQueue, state)

(* EXIT or an error: force_release_all_locks passes the locks on, in the    *)
(* order in which the set locks_held is iterated, and the process ends.     *)
SwitchOutDead(p) ==
  /\ phase = "run" /\ running = p
  /\ switchReason \in {"exit", "error"}
  /\ ticks' = SavedTicks(p)
  /\ terminated' = terminated \cup {p}
  /\ HandOver(locksHeld[p], p, priority)
  /\ UNCHANGED eventVars
  /\ \E order \in SetToSeqs({l \in locksHeld[p] : lockWait[l] # << >>}) :
       LET heirs == [n \in DOMAIN order |-> Heir(order[n], priority)]
       IN  EndSlice(EnqueueAll(ready, heirs, priority), sleepQueue,
                    [q \in Procs |-> IF q = p THEN "TERMINATED"
                                     ELSE IF q \in ToSet(heirs) THEN "READY"
                                     ELSE state[q]])

(* run() has returned or been left by an exception. *)
Halted ==
  /\ phase \in {"stopped", "crashed"}
  /\ UNCHANGED vars

-----------------------------------------------------------------------------
(* An instruction of process p. *)
Step(p) ==
  \E i \in Program[p] :
    \/ Compute(p, i) \/ SetPriority(p, i) \/ Sleep(p, i)
    \/ Leave(p, i) \/ Crash(p, i)
    \/ AcquireAvailable(p, i) \/ AcquireBusy(p, i)
    \/ Release(p, i) \/ ReleaseNotOwner(p, i)
    \/ Signal(p, i) \/ WaitSignaled(p, i) \/ WaitBlock(p, i)
    \/ Terminate(p, i) \/ TerminateNothing(p, i)

SwitchOut ==
  \/ \E p \in Procs : SwitchOutQuantum(p) \/ SwitchOutSleep(p) \/ SwitchOutDead(p)
  \/ SwitchOutBlocked

Next ==
  \/ Dispatch
  \/ NothingReady
  \/ \E p \in Procs : Step(p)
  \/ SwitchOut
  \/ Halted

Spec == Init /\ [][Next]_vars

(* The run loop is one thread that nothing blocks: it always takes its next *)
(* step.  Which instruction a program executes next is not constrained.     *)
FairSpec == Spec /\ WF_vars(Next)

-----------------------------------------------------------------------------
(***************************************************************************)
(* Properties                                                              *)
(***************************************************************************)

(* No process is lost or queued twice: a process is in the queue its state  *)
(* names, exactly once, and in no other; terminated ones are in none.  It   *)
(* is what _enqueue_ready, context_switch_out, tick_sleeping and the        *)
(* removals of terminate_process keep together.                             *)
NoLostProcess ==
  LET In(s) == {p \in Procs : state[p] = s}
  IN  /\ ToSet(ready) = In("READY")
      /\ ToSet(sleepQueue) = In("SLEEPING")
      /\ UNION {ToSet(lockWait[l]) : l \in Locks} = In("WAITING_LOCK")
      /\ UNION {ToSet(eventWait[e]) : e \in Events} = In("WAITING_EVENT")
      /\ In("RUNNING") \subseteq {running}
      /\ NoRepeat(ready) /\ NoRepeat(sleepQueue)
      /\ \A l \in Locks : NoRepeat(lockWait[l])
      /\ \A e \in Events : NoRepeat(eventWait[e])
      /\ \A k, l \in Locks :
           k # l => ToSet(lockWait[k]) \cap ToSet(lockWait[l]) = {}
      /\ \A d, e \in Events :
           d # e => ToSet(eventWait[d]) \cap ToSet(eventWait[e]) = {}

(* The two records of lock ownership, lock_owner and each PCB's locks_held, *)
(* agree through acquisition, hand-over and forced release.                 *)
LockTablesAgree ==
  \A l \in Locks, p \in Procs : lockOwner[l] = p <=> l \in locksHeld[p]

(* A lock with waiters is owned, and not by one of its waiters: no waiter   *)
(* is left behind when a lock is released, forcibly released, or when a     *)
(* process is terminated.                                                   *)
WaitersHaveAnOwner ==
  \A l \in Locks : lockWait[l] # << >> =>
    /\ lockOwner[l] # None
    /\ lockOwner[l] \notin ToSet(lockWait[l])

(* Re-executing ACQUIRE after a wake-up cannot block a second time: whoever *)
(* was woken from the wait queue of a lock owns it (acquire_lock's          *)
(* re-entrant case), and nobody can take the lock in between.               *)
WokenWaiterOwnsLock ==
  \A p \in Procs :
    retry[p] # None /\ state[p] \in {"READY", "RUNNING"} =>
      (retry[p].op = "acquire" => lockOwner[retry[p].arg] = p)

(* A lent priority lasts only while a lock is held (release_lock restores). *)
LentPriorityEnds ==
  \A p \in Procs :
    state[p] # "TERMINATED" /\ priority[p] # original[p] => locksHeld[p] # {}

(* An event is never both signaled and waited for.                          *)
SignalOrWaiters ==
  \A e \in Events : signaled[e] => eventWait[e] = << >>

(* Every time slice starts with a full quantum, however the previous one    *)
(* ended: step counts ticks down in the PCB, context_switch_out overwrites  *)
(* them with the CPU's copy from the last switch in.                        *)
SlicesAreFull ==
  \A p \in Procs : IF p = running THEN cpuTicks = Quantum(p)
                                  ELSE ticks[p] = Quantum(p)

(* The ready queue is in order of priority, across boosts of its members.   *)
ReadyInOrder == InOrder(ready, priority)

(* "Always runs the highest-priority READY process" (scheduler.py:5).       *)
HighestPriorityRuns ==
  [][phase = "pick" /\ phase' = "run" =>
       \A q \in Procs : state[q] = "READY" => priority[q] <= priority[running']
    ]_vars

(* A lock's owner runs at no less than the priority of each of its waiters  *)
(* (the inversion mitigation of acquire_lock), for waiters that hold no     *)
(* lock themselves: a waiter that is boosted while it waits does not pass   *)
(* the boost on to the owner it waits for.                                  *)
OwnerInheritsPriority ==
  \A l \in Locks : \A p \in ToSet(lockWait[l]) :
    locksHeld[p] = {} => priority[lockOwner[l]] >= priority[p]

(* run() "keeps executing until all non-idle processes have terminated"     *)
(* (midos.py:78).                                                           *)
RunsUntilUsersEnd ==
  phase = "stopped" => \A p \in Users : state[p] = "TERMINATED"

(* run() ends exactly when every user process has terminated: not before,   *)
(* and the loop never starts another slice after it.                        *)
StopsWhenUsersEnd ==
  /\ RunsUntilUsersEnd
  /\ phase = "pick" => \E p \in Users : state[p] # "TERMINATED"

(* A terminated process is never scheduled again, whatever queue it was in. *)
TerminatedIsFinal ==
  [][\A p \in Procs : state[p] = "TERMINATED" => state'[p] = "TERMINATED"]_vars

(* A lock is never owned by a terminated process that will not run again:   *)
(* force_release_all_locks is "called on process exit/terminate"            *)
(* (scheduler.py:223).                                                      *)
DeadHoldNoLock ==
  \A l \in Locks : lockOwner[l] # None /\ lockOwner[l] # running
                     => state[lockOwner[l]] # "TERMINATED"

(* signal_event "wakes the highest-priority process waiting on it"          *)
(* (scheduler.py:243): a process woken from WAITEVENT goes on.              *)
WokenWaiterProceeds ==
  [][\A p \in Procs :
       state[p] = "RUNNING" /\ retry[p] # None => state'[p] # "WAITING_EVENT"
    ]_vars

(* Equal priorities are served in turn: a READY process gets the CPU.       *)
ReadyRuns == \A p \in Users : state[p] = "READY" ~> state[p] # "READY"

(* A sleeping process wakes up, the idle process keeping the loop turning.  *)
SleepersWake == \A p \in Users : state[p] = "SLEEPING" ~> state[p] # "SLEEPING"

(* A waiter gets its lock, if programs that can release theirs again and    *)
(* again eventually do.                                                     *)
HoldersRelease ==
  \A p \in Procs : SF_vars(\E i \in Program[p] : Release(p, i))

WaitersGetLock ==
  HoldersRelease =>
    \A p \in Users : state[p] = "WAITING_LOCK" ~> state[p] # "WAITING_LOCK"

(* The scheduler's locks are the locks LockService promises. *)
Service == INSTANCE LockService
             WITH owner <- lockOwner,
                  waiting <- [l \in Locks |-> ToSet(lockWait[l])]

ImplementsLockService == Service!Spec

=============================================================================
