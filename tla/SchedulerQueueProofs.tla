------------------------ MODULE SchedulerQueueProofs ------------------------
(***************************************************************************)
(* Theorems of Scheduler about its queues: every process is in the one its *)
(* state names, exactly once, and in no other; a process that terminated   *)
(* is in none again; and the loop stops when, and only when, all users     *)
(* have terminated.                                                        *)
(***************************************************************************)
EXTENDS SchedulerProofs

(* Queue q holds exactly the processes that are in state s, each once.     *)
FiledIn(q, st, s) ==
  /\ NoRepeat(q)
  /\ \A p \in Procs : p \in ToSet(q) <=> st[p] = s

(* So do the queues w[i], i \in I, together.                               *)
FiledAmong(w, I, st, s) ==
  /\ \A i \in I : NoRepeat(w[i])
  /\ \A p \in Procs : st[p] = s <=> \E i \in I : p \in ToSet(w[i])
  /\ \A i, j \in I : \A p \in Procs :
       p \in ToSet(w[i]) /\ p \in ToSet(w[j]) => i = j

(* All queues are as the states st say.                                    *)
Filed(rq, sq, lw, ew, st) ==
  /\ FiledIn(rq, st, "READY")
  /\ FiledIn(sq, st, "SLEEPING")
  /\ FiledAmong(lw, Locks, st, "WAITING_LOCK")
  /\ FiledAmong(ew, Events, st, "WAITING_EVENT")

(* What the CPU holds at each point of the run loop. *)
OnCpu ==
  /\ \A p \in Procs : state[p] = "RUNNING" => p = running
  /\ phase = "pick" => running = None /\ switchReason = "none"
  /\ phase = "run" /\ switchReason \in {"lock", "event"} => running = None
  /\ phase = "run" /\ switchReason \notin {"lock", "event"} =>
       running \in Procs /\ state[running] \in {"RUNNING", "TERMINATED"}

QueueInv == Filed(ready, sleepQueue, lockWait, eventWait, state) /\ OnCpu

-----------------------------------------------------------------------------
(***************************************************************************)
(* Moving processes between queues                                         *)
(***************************************************************************)

LEMMA MembersAreProcs ==
  ASSUME NEW q \in Seq(Procs)
  PROVE  \A p \in ToSet(q) : p \in Procs
BY LenProperties, ElementOfSeq DEF ToSet

LEMMA FiledElsewhere ==
  ASSUME NEW q, NEW st, NEW st2, NEW s, FiledIn(q, st, s),
         \A p \in Procs : st2[p] = s <=> st[p] = s
  PROVE  FiledIn(q, st2, s)
BY DEF FiledIn

LEMMA AmongElsewhere ==
  ASSUME NEW w, NEW I, NEW st, NEW st2, NEW s, FiledAmong(w, I, st, s),
         \A p \in Procs : st2[p] = s <=> st[p] = s
  PROVE  FiledAmong(w, I, st2, s)
BY DEF FiledAmong

LEMMA EnqueueMembers ==
  ASSUME NEW q \in Seq(Procs), NEW p \in Procs, NEW prio \in [Procs -> Int]
  PROVE  /\ ToSet(Enqueue(q, p, prio)) = ToSet(q) \cup {p}
         /\ NoRepeat(q) /\ p \notin ToSet(q) => NoRepeat(Enqueue(q, p, prio))
<1>1. ToSet(Enqueue(q, p, prio)) = ToSet(q) \cup {p}
  BY EnqueueProperties
<1>2. NoRepeat(q) /\ p \notin ToSet(q) => NoRepeat(Enqueue(q, p, prio))
  BY EnqueueProperties
<1>. QED
  BY <1>1, <1>2

(* p enters the ready queue. *)
LEMMA FileEnqueue ==
  ASSUME NEW q \in Seq(Procs), NEW p \in Procs, NEW prio \in [Procs -> Int],
         NEW st, NEW st2, NEW s, FiledIn(q, st, s), st[p] # s,
         \A r \in Procs : st2[r] = s <=> st[r] = s \/ r = p
  PROVE  FiledIn(Enqueue(q, p, prio), st2, s)
<1>1. /\ ToSet(Enqueue(q, p, prio)) = ToSet(q) \cup {p}
      /\ NoRepeat(q) /\ p \notin ToSet(q) => NoRepeat(Enqueue(q, p, prio))
  BY EnqueueMembers
<1>. QED
  BY <1>1 DEF FiledIn

(* p enters the sleep queue. *)
LEMMA FileAppend ==
  ASSUME NEW q \in Seq(Procs), NEW p \in Procs,
         NEW st, NEW st2, NEW s, FiledIn(q, st, s), st[p] # s,
         \A r \in Procs : st2[r] = s <=> st[r] = s \/ r = p
  PROVE  FiledIn(Append(q, p), st2, s)
<1>1. /\ ToSet(Append(q, p)) = ToSet(q) \cup {p}
      /\ NoRepeat(q) /\ p \notin ToSet(q) => NoRepeat(Append(q, p))
  BY AppendMember
<1>. QED
  BY <1>1 DEF FiledIn

LEMMA EnqueueAllMembers ==
  ASSUME NEW q \in Seq(Procs), NEW ps \in Seq(Procs), NEW prio \in [Procs -> Int],
         NoRepeat(ps), ToSet(q) \cap ToSet(ps) = {}
  PROVE  /\ ToSet(EnqueueAll(q, ps, prio)) = ToSet(q) \cup ToSet(ps)
         /\ NoRepeat(q) => NoRepeat(EnqueueAll(q, ps, prio))
<1>1. ToSet(EnqueueAll(q, ps, prio)) = ToSet(q) \cup ToSet(ps)
  BY EnqueueAllProperties
<1>2. NoRepeat(q) => NoRepeat(EnqueueAll(q, ps, prio))
  BY EnqueueAllProperties
<1>. QED
  BY <1>1, <1>2

(* Several processes enter the ready queue. *)
LEMMA FileAll ==
  ASSUME NEW q \in Seq(Procs), NEW ps \in Seq(Procs), NEW prio \in [Procs -> Int],
         NEW st, NEW st2, NEW s, FiledIn(q, st, s), NoRepeat(ps),
         \A r \in ToSet(ps) : st[r] # s,
         \A r \in Procs : st2[r] = s <=> st[r] = s \/ r \in ToSet(ps)
  PROVE  FiledIn(EnqueueAll(q, ps, prio), st2, s)
<1>1. ToSet(q) \cap ToSet(ps) = {}
  BY MembersAreProcs DEF FiledIn
<1>2. /\ ToSet(EnqueueAll(q, ps, prio)) = ToSet(q) \cup ToSet(ps)
      /\ NoRepeat(q) => NoRepeat(EnqueueAll(q, ps, prio))
  BY <1>1, EnqueueAllMembers
<1>. QED
  BY <1>1, <1>2 DEF FiledIn

(* The processes of Q leave a queue. *)
LEMMA FileWithout ==
  ASSUME NEW q \in Seq(Procs), NEW Q, NEW st, NEW st2, NEW s, FiledIn(q, st, s),
         \A r \in Procs : st2[r] = s <=> st[r] = s /\ r \notin Q
  PROVE  FiledIn(Without(q, Q), st2, s)
<1>1. /\ ToSet(Without(q, Q)) = ToSet(q) \ Q
      /\ NoRepeat(q) => NoRepeat(Without(q, Q))
  BY WithoutMembers
<1>. QED
  BY <1>1 DEF FiledIn

(* p enters one of several queues. *)
LEMMA AmongAppend ==
  ASSUME NEW I, NEW w \in [I -> Seq(Procs)], NEW k \in I, NEW p \in Procs,
         NEW st, NEW st2, NEW s, FiledAmong(w, I, st, s), st[p] # s,
         \A r \in Procs : st2[r] = s <=> st[r] = s \/ r = p
  PROVE  FiledAmong([w EXCEPT ![k] = Append(@, p)], I, st2, s)
<1>. DEFINE w2 == [w EXCEPT ![k] = Append(@, p)]
            a == Append(w[k], p)
<1>1. \A i \in I : w2[i] = IF i = k THEN a ELSE w[i]
  OBVIOUS
<1>2. /\ ToSet(a) = ToSet(w[k]) \cup {p}
      /\ NoRepeat(w[k]) /\ p \notin ToSet(w[k]) => NoRepeat(a)
  BY AppendMember
<1>3. \A i \in I : p \notin ToSet(w[i])
  BY DEF FiledAmong
<1>. HIDE DEF w2, a
<1>4. \A i \in I : NoRepeat(w2[i])
  BY <1>1, <1>2, <1>3 DEF FiledAmong
<1>5. \A i \in I : \A r \in Procs :
        r \in ToSet(w2[i]) <=> r \in ToSet(w[i]) \/ (i = k /\ r = p)
  BY <1>1, <1>2
<1>6. \A r \in Procs : st2[r] = s <=> \E i \in I : r \in ToSet(w2[i])
  BY <1>5 DEF FiledAmong
<1>7. \A i, j \in I : \A r \in Procs :
        r \in ToSet(w2[i]) /\ r \in ToSet(w2[j]) => i = j
  BY <1>3, <1>5 DEF FiledAmong
<1>8. FiledAmong(w2, I, st2, s)
  BY <1>4, <1>6, <1>7 DEF FiledAmong
<1>. QED
  BY <1>8 DEF w2

(* Processes leave several queues: exactly those that leave state s. *)
LEMMA AmongShrink ==
  ASSUME NEW I, NEW w, NEW w2, NEW st, NEW st2, NEW s, FiledAmong(w, I, st, s),
         \A i \in I : NoRepeat(w2[i]),
         \A i \in I : \A r \in Procs :
           r \in ToSet(w2[i]) <=> r \in ToSet(w[i]) /\ st2[r] = s,
         \A r \in Procs : st2[r] = s => st[r] = s
  PROVE  FiledAmong(w2, I, st2, s)
<1>1. \A r \in Procs : st2[r] = s <=> \E i \in I : r \in ToSet(w2[i])
  BY DEF FiledAmong
<1>2. \A i, j \in I : \A r \in Procs :
        r \in ToSet(w2[i]) /\ r \in ToSet(w2[j]) => i = j
  BY DEF FiledAmong
<1>. QED
  BY <1>1, <1>2 DEF FiledAmong

(* What a queue of waiters becomes when its best member is taken out. *)
LEMMA BestLeaves ==
  ASSUME NEW q \in Seq(Procs), q # << >>, NoRepeat(q), NEW prio \in [Procs -> Int]
  PROVE  /\ Head(ByPriority(q, prio)) \in Procs
         /\ Head(ByPriority(q, prio)) \in ToSet(q)
         /\ Tail(ByPriority(q, prio)) \in Seq(Procs)
         /\ NoRepeat(Tail(ByPriority(q, prio)))
         /\ ToSet(Tail(ByPriority(q, prio))) = ToSet(q) \ {Head(ByPriority(q, prio))}
<1>. DEFINE s == ByPriority(q, prio)
<1>1. s \in Seq(Procs) /\ s # << >> /\ ToSet(s) = ToSet(q) /\ NoRepeat(s)
  BY ByPriorityProperties
<1>. HIDE DEF s
<1>2. /\ Head(s) \in Procs /\ Head(s) \in ToSet(s) /\ Tail(s) \in Seq(Procs)
      /\ ToSet(s) = ToSet(Tail(s)) \cup {Head(s)}
      /\ NoRepeat(Tail(s)) /\ Head(s) \notin ToSet(Tail(s))
  BY <1>1, PopFront
<1>. QED
  BY <1>1, <1>2 DEF s

-----------------------------------------------------------------------------
(***************************************************************************)
(* No process is lost                                                      *)
(***************************************************************************)

(* The initial ready queue holds every process once.                       *)
LEMMA InitFiled == Init => QueueInv
<1>. SUFFICES ASSUME Init PROVE QueueInv
  OBVIOUS
<1>. DEFINE e == << >>
<1>1. /\ priority \in [Procs -> Int] /\ LoadOrder \in Seq(Procs)
      /\ e \in Seq(Procs) /\ ToSet(e) = {} /\ NoRepeat(e)
  BY InitTypes, PriorityIsInt, ConstantTypes DEF TypeOK, ToSet, NoRepeat
<1>2. NoRepeat(LoadOrder) /\ \A p \in Procs : p \in ToSet(LoadOrder)
  BY ProcsAssumption DEF NoRepeat, ToSet
<1>3. /\ \A p \in Procs : state[p] = "READY"
      /\ ready = EnqueueAll(e, LoadOrder, priority)
      /\ sleepQueue = e
      /\ \A l \in Locks : lockWait[l] = e
      /\ \A ev \in Events : eventWait[ev] = e
  BY DEF Init
<1>. HIDE DEF e
<1>4. FiledIn(ready, state, "READY")
  <2>. DEFINE none == [p \in Procs |-> "RUNNING"]
  <2>1. FiledIn(e, none, "READY") /\ \A p \in Procs : none[p] # "READY"
    BY <1>1 DEF FiledIn
  <2>. HIDE DEF none
  <2>. QED  BY <1>1, <1>2, <1>3, <2>1, FileAll, MembersAreProcs
<1>5. FiledIn(sleepQueue, state, "SLEEPING")
  BY <1>1, <1>3 DEF FiledIn
<1>6. FiledAmong(lockWait, Locks, state, "WAITING_LOCK")
  BY <1>1, <1>3 DEF FiledAmong
<1>7. FiledAmong(eventWait, Events, state, "WAITING_EVENT")
  BY <1>1, <1>3 DEF FiledAmong
<1>8. OnCpu
  BY <1>3 DEF Init, OnCpu
<1>. QED
  BY <1>4, <1>5, <1>6, <1>7, <1>8 DEF QueueInv, Filed

(* tick_sleeping files the processes it wakes, and leaves the CPU empty.   *)
LEMMA EndSliceFiles ==
  ASSUME TypeOK, NEW rq \in Seq(Procs), NEW sq \in Seq(Procs), NEW st,
         Filed(rq, sq, lockWait', eventWait', st),
         \A p \in Procs : st[p] # "RUNNING",
         EndSlice(rq, sq, st)
  PROVE  QueueInv'
<1>. DEFINE woke == {p \in ToSet(sq) : CountDown(sq)[p] <= 0}
            up   == Only(sq, woke)
<1>1. priority \in [Procs -> Int]
  BY PriorityIsInt DEF TypeOK
<1>2. /\ sleepQueue' = Without(sq, woke)
      /\ ready' = EnqueueAll(rq, up, priority)
      /\ state' = [p \in Procs |-> IF p \in woke THEN "READY" ELSE st[p]]
      /\ running' = None /\ switchReason' = "none"
      /\ phase' \in {"pick", "stopped"}
  BY DEF EndSlice
<1>3. woke \subseteq ToSet(sq)
  OBVIOUS
<1>. HIDE DEF woke
<1>4. /\ \A p \in Procs : p \in ToSet(sq) <=> st[p] = "SLEEPING"
      /\ NoRepeat(sq)
  BY DEF Filed, FiledIn
<1>5. \A p \in Procs : p \in woke => st[p] = "SLEEPING"
  BY <1>3, <1>4
<1>6. up \in Seq(Procs) /\ ToSet(up) = ToSet(sq) \cap woke /\ NoRepeat(up)
  BY <1>4, OnlyProperties
<1>. HIDE DEF up
<1>7. ToSet(up) = woke /\ \A p \in ToSet(up) : p \in Procs
  BY <1>3, <1>6, MembersAreProcs
<1>8. FiledIn(ready', state', "READY")
  <2>1. \A r \in Procs : state'[r] = "READY" <=> st[r] = "READY" \/ r \in ToSet(up)
    BY <1>2, <1>7
  <2>2. \A r \in ToSet(up) : st[r] # "READY"
    BY <1>5, <1>7
  <2>. QED  BY <1>1, <1>2, <1>6, <2>1, <2>2, FileAll DEF Filed
<1>9. FiledIn(sleepQueue', state', "SLEEPING")
  <2>1. \A r \in Procs : state'[r] = "SLEEPING" <=> st[r] = "SLEEPING" /\ r \notin woke
    BY <1>2
  <2>. QED  BY <1>2, <2>1, FileWithout DEF Filed
<1>10. FiledAmong(lockWait', Locks, state', "WAITING_LOCK")
  <2>1. \A r \in Procs : state'[r] = "WAITING_LOCK" <=> st[r] = "WAITING_LOCK"
    BY <1>2, <1>5
  <2>. QED  BY <2>1, AmongElsewhere DEF Filed
<1>11. FiledAmong(eventWait', Events, state', "WAITING_EVENT")
  <2>1. \A r \in Procs : state'[r] = "WAITING_EVENT" <=> st[r] = "WAITING_EVENT"
    BY <1>2, <1>5
  <2>. QED  BY <2>1, AmongElsewhere DEF Filed
<1>12. OnCpu'
  BY <1>2 DEF OnCpu
<1>. QED
  BY <1>8, <1>9, <1>10, <1>11, <1>12 DEF QueueInv, Filed

(* Locks passed on: their heirs, one from each queue, leave the queues.    *)
Heirs(S, prio) == {Heir(l, prio) : l \in {k \in S : lockWait[k] # << >>}}

LEMMA HeirLeaves ==
  ASSUME TypeOK, FiledAmong(lockWait, Locks, state, "WAITING_LOCK"),
         NEW l \in Locks, NEW prio \in [Procs -> Int], lockWait[l] # << >>
  PROVE  /\ Heir(l, prio) \in Procs
         /\ Heir(l, prio) \in ToSet(lockWait[l])
         /\ NoRepeat(StillWaiting(l, prio))
         /\ ToSet(StillWaiting(l, prio)) = ToSet(lockWait[l]) \ {Heir(l, prio)}
<1>. DEFINE q == lockWait[l]
<1>1. q \in Seq(Procs) /\ q # << >> /\ NoRepeat(q)
  BY DEF TypeOK, FiledAmong
<1>2. Heir(l, prio) = Head(ByPriority(q, prio)) /\ StillWaiting(l, prio) = Tail(ByPriority(q, prio))
  BY DEF Heir, StillWaiting
<1>. HIDE DEF q
<1>3. /\ Head(ByPriority(q, prio)) \in Procs
      /\ Head(ByPriority(q, prio)) \in ToSet(q)
      /\ NoRepeat(Tail(ByPriority(q, prio)))
      /\ ToSet(Tail(ByPriority(q, prio))) = ToSet(q) \ {Head(ByPriority(q, prio))}
  BY <1>1, BestLeaves
<1>. QED
  BY <1>2, <1>3 DEF q

LEMMA HandOverFiles ==
  ASSUME TypeOK, FiledAmong(lockWait, Locks, state, "WAITING_LOCK"),
         NEW prio \in [Procs -> Int], NEW p \in Procs, NEW S \in SUBSET Locks,
         HandOver(S, p, prio), NEW st2,
         \A r \in Procs : st2[r] = "WAITING_LOCK"
                            <=> state[r] = "WAITING_LOCK" /\ r \notin Heirs(S, prio)
  PROVE  FiledAmong(lockWait', Locks, st2, "WAITING_LOCK")
<1>1. \A l \in Locks :
        lockWait'[l] = IF l \in S THEN StillWaiting(l, prio) ELSE lockWait[l]
  BY DEF HandOver
<1>2. \A h \in Heirs(S, prio) : \E k \in S : lockWait[k] # << >> /\ h = Heir(k, prio)
  BY DEF Heirs
<1>3. \A k \in S : lockWait[k] # << >> => Heir(k, prio) \in Heirs(S, prio)
  BY DEF Heirs
<1>4. \A l \in Locks : lockWait[l] # << >> =>
        /\ Heir(l, prio) \in Procs /\ Heir(l, prio) \in ToSet(lockWait[l])
        /\ NoRepeat(StillWaiting(l, prio))
        /\ ToSet(StillWaiting(l, prio)) = ToSet(lockWait[l]) \ {Heir(l, prio)}
  BY HeirLeaves
<1>5. \A l \in Locks : lockWait[l] = << >> => StillWaiting(l, prio) = lockWait[l]
  BY DEF StillWaiting
<1>6. /\ \A l \in Locks : NoRepeat(lockWait[l])
      /\ \A l \in Locks : \A r \in Procs : r \in ToSet(lockWait[l]) => state[r] = "WAITING_LOCK"
      /\ \A k, l \in Locks : \A r \in Procs :
           r \in ToSet(lockWait[k]) /\ r \in ToSet(lockWait[l]) => k = l
  BY DEF FiledAmong
<1>7. ASSUME NEW l \in Locks
      PROVE  /\ NoRepeat(lockWait'[l])
             /\ \A r \in Procs : r \in ToSet(lockWait'[l])
                                   <=> r \in ToSet(lockWait[l]) /\ st2[r] = "WAITING_LOCK"
  <2>1. CASE l \in S /\ lockWait[l] # << >>
    <3>1. \A r \in Procs : r \in ToSet(lockWait[l]) =>
            (r \in Heirs(S, prio) <=> r = Heir(l, prio))
      BY <1>2, <1>3, <1>4, <1>6, <2>1
    <3>2. /\ NoRepeat(lockWait'[l])
          /\ ToSet(lockWait'[l]) = ToSet(lockWait[l]) \ {Heir(l, prio)}
      BY <1>1, <1>4, <2>1
    <3>. QED  BY <1>6, <3>1, <3>2
  <2>2. CASE ~(l \in S /\ lockWait[l] # << >>)
    <3>1. lockWait'[l] = lockWait[l]
      BY <1>1, <1>5, <2>2
    <3>2. \A r \in Procs : r \in ToSet(lockWait[l]) => r \notin Heirs(S, prio)
      BY <1>2, <1>4, <1>6, <2>2
    <3>. QED  BY <1>6, <3>1, <3>2
  <2>. QED  BY <2>1, <2>2
<1>8. \A r \in Procs : st2[r] = "WAITING_LOCK" => state[r] = "WAITING_LOCK"
  OBVIOUS
<1>. QED
  BY <1>7, <1>8, AmongShrink

(* The CPU after an instruction that goes on, and after one that blocks.   *)
LEMMA RetireOnCpu ==
  ASSUME OnCpu, NEW p \in Procs, phase = "run", running = p, switchReason = "none",
         NEW reason \in {"none", "sleep"}, Retire(p, reason),
         state'[p] \in {"RUNNING", "TERMINATED"},
         \A r \in Procs : r # p => state'[r] # "RUNNING"
  PROVE  OnCpu'
BY DEF OnCpu, Retire

LEMMA BlockOnCpu ==
  ASSUME NEW p \in Procs, phase = "run", running = p, NEW i,
         NEW reason \in {"lock", "event"}, Block(p, i, reason),
         \A r \in Procs : state'[r] # "RUNNING"
  PROVE  OnCpu'
BY DEF OnCpu, Block

(* Instructions that touch no queue. *)
LEMMA SameQueues ==
  ASSUME QueueInv, UNCHANGED <<ready, sleepQueue, lockWait, eventWait, state>>,
         OnCpu'
  PROVE  QueueInv'
BY DEF QueueInv, Filed, FiledIn, FiledAmong

(* A lent priority moves its borrower within the ready queue. *)
LEMMA BoostFiles ==
  ASSUME NEW q \in Seq(Procs), NEW h \in Procs, NEW prio \in [Procs -> Int],
         NEW st, NEW s, FiledIn(q, st, s)
  PROVE  /\ Boosted(q, h, prio) \in Seq(Procs)
         /\ FiledIn(Boosted(q, h, prio), st, s)
<1>. DEFINE T == {h}
            r == Without(q, T)
<1>1. r \in Seq(Procs) /\ ToSet(r) = ToSet(q) \ T /\ NoRepeat(r)
  BY WithoutMembers DEF FiledIn
<1>2. h \notin ToSet(r) /\ \A x \in Procs : x \in ToSet(q) <=> x \in ToSet(r) \/ (x = h /\ h \in ToSet(q))
  BY <1>1
<1>. HIDE DEF r, T
<1>3. /\ Enqueue(r, h, prio) \in Seq(Procs)
      /\ ToSet(Enqueue(r, h, prio)) = ToSet(r) \cup {h}
      /\ NoRepeat(Enqueue(r, h, prio))
  <2>1. Enqueue(r, h, prio) \in Seq(Procs)
    BY <1>1, EnqueueProperties
  <2>2. ToSet(Enqueue(r, h, prio)) = ToSet(r) \cup {h}
    BY <1>1, EnqueueMembers
  <2>3. NoRepeat(Enqueue(r, h, prio))
    BY <1>1, <1>2, EnqueueMembers
  <2>. QED  BY <2>1, <2>2, <2>3
<1>4. Boosted(q, h, prio) = IF h \in ToSet(q) THEN Enqueue(r, h, prio) ELSE q
  BY DEF Boosted, r, T
<1>5. CASE h \in ToSet(q)
  <2>1. Boosted(q, h, prio) = Enqueue(r, h, prio)
    BY <1>4, <1>5
  <2>2. \A x \in Procs : x \in ToSet(Enqueue(r, h, prio)) <=> x \in ToSet(q)
    BY <1>2, <1>3, <1>5
  <2>. QED  BY <1>3, <2>1, <2>2 DEF FiledIn
<1>. QED
  BY <1>4, <1>5

LEMMA StepKeepsQueues ==
  ASSUME TypeOK, QueueInv, NEW p \in Procs, Step(p)
  PROVE  QueueInv'
<1>1. PICK i \in Program[p] :
        \/ Compute(p, i) \/ SetPriority(p, i) \/ Sleep(p, i)
        \/ Leave(p, i) \/ Crash(p, i)
        \/ AcquireAvailable(p, i) \/ AcquireBusy(p, i)
        \/ Release(p, i) \/ ReleaseNotOwner(p, i)
        \/ Signal(p, i) \/ WaitSignaled(p, i) \/ WaitBlock(p, i)
        \/ Terminate(p, i) \/ TerminateNothing(p, i)
  BY DEF Step
<1>2. phase = "run" /\ running = p /\ switchReason = "none"
  BY <1>1 DEF Fetch, Compute, SetPriority, Sleep, Leave, Crash, AcquireAvailable,
              AcquireBusy, Release, ReleaseNotOwner, Signal, WaitSignaled, WaitBlock,
              Terminate, TerminateNothing
<1>3. /\ priority \in [Procs -> Int]
      /\ state \in [Procs -> States] /\ ready \in Seq(Procs) /\ sleepQueue \in Seq(Procs)
      /\ lockWait \in [Locks -> Seq(Procs)] /\ eventWait \in [Events -> Seq(Procs)]
  BY PriorityIsInt DEF TypeOK
<1>4. /\ OnCpu /\ state[p] \in {"RUNNING", "TERMINATED"}
      /\ \A r \in Procs : r # p => state[r] # "RUNNING"
  BY <1>2 DEF QueueInv, OnCpu
<1>5. /\ FiledIn(ready, state, "READY") /\ FiledIn(sleepQueue, state, "SLEEPING")
      /\ FiledAmong(lockWait, Locks, state, "WAITING_LOCK")
      /\ FiledAmong(eventWait, Events, state, "WAITING_EVENT")
  BY DEF QueueInv, Filed
<1>6. ASSUME UNCHANGED <<ready, sleepQueue, lockWait, eventWait, state>>,
             Retire(p, "none") \/ Retire(p, "sleep")
      PROVE  QueueInv'
  <2>1. OnCpu'
    BY <1>2, <1>4, <1>6, RetireOnCpu
  <2>. QED  BY <1>6, <2>1, SameQueues
<1>7. CASE Leave(p, i) \/ Crash(p, i)
  <2>1. OnCpu'
    BY <1>2, <1>4, <1>7 DEF Leave, Crash, OnCpu
  <2>. QED  BY <1>7, <2>1, SameQueues DEF Leave, Crash, sleepVars, lockVars, eventVars
<1>8. CASE AcquireBusy(p, i)
  <2>. DEFINE k == i.arg
              h == lockOwner[k]
  <2>1. /\ k \in Locks /\ h \in Procs
        /\ state' = [state EXCEPT ![p] = "WAITING_LOCK"]
        /\ lockWait' = [lockWait EXCEPT ![k] = Append(@, p)]
        /\ ready' = ready \/ ready' = Boosted(ready, h, priority')
        /\ UNCHANGED <<sleepQueue, eventWait>>
        /\ Block(p, i, "lock")
    BY <1>8 DEF AcquireBusy, TypeOK, sleepVars, eventVars
  <2>2. priority' \in [Procs -> Int]
    BY <1>3, <1>8, <2>1 DEF AcquireBusy
  <2>. HIDE DEF k, h
  <2>3. FiledIn(ready', state, "READY")
    BY <1>3, <1>5, <2>1, <2>2, BoostFiles
  <2>4. FiledIn(ready', state', "READY") /\ FiledIn(sleepQueue', state', "SLEEPING")
    BY <1>3, <1>4, <1>5, <2>1, <2>3, FiledElsewhere
  <2>5. FiledAmong(eventWait', Events, state', "WAITING_EVENT")
    BY <1>3, <1>4, <1>5, <2>1, AmongElsewhere
  <2>6. FiledAmong(lockWait', Locks, state', "WAITING_LOCK")
    BY <1>3, <1>4, <1>5, <2>1, AmongAppend
  <2>7. OnCpu'
    BY <1>2, <1>3, <1>4, <2>1, BlockOnCpu
  <2>. QED  BY <2>4, <2>5, <2>6, <2>7 DEF QueueInv, Filed
<1>9. CASE WaitBlock(p, i)
  <2>. DEFINE k == i.arg
  <2>1. /\ k \in Events
        /\ state' = [state EXCEPT ![p] = "WAITING_EVENT"]
        /\ eventWait' = [eventWait EXCEPT ![k] = Append(@, p)]
        /\ UNCHANGED <<ready, sleepQueue, lockWait>>
        /\ Block(p, i, "event")
    BY <1>9 DEF WaitBlock, sleepVars, lockVars
  <2>. HIDE DEF k
  <2>2. FiledIn(ready', state', "READY") /\ FiledIn(sleepQueue', state', "SLEEPING")
    BY <1>3, <1>4, <1>5, <2>1, FiledElsewhere
  <2>3. FiledAmong(lockWait', Locks, state', "WAITING_LOCK")
    BY <1>3, <1>4, <1>5, <2>1, AmongElsewhere
  <2>4. FiledAmong(eventWait', Events, state', "WAITING_EVENT")
    BY <1>3, <1>4, <1>5, <2>1, AmongAppend
  <2>5. OnCpu'
    BY <1>2, <1>3, <1>4, <2>1, BlockOnCpu
  <2>. QED  BY <2>2, <2>3, <2>4, <2>5 DEF QueueInv, Filed
<1>10. CASE Release(p, i)
  <2>. DEFINE k == i.arg
              T == {k}
              h == Heir(k, priority')
  <2>1. /\ k \in Locks /\ T \in SUBSET Locks
        /\ HandOver(T, p, priority')
        /\ IF lockWait[k] = << >> THEN UNCHANGED <<state, ready>>
           ELSE /\ state' = [state EXCEPT ![h] = "READY"]
                /\ ready' = Enqueue(ready, h, priority')
        /\ UNCHANGED <<sleepQueue, eventWait>>
        /\ Retire(p, "none")
    BY <1>10 DEF Release, sleepVars, eventVars
  <2>2. priority' \in [Procs -> Int]
    BY <1>3, <1>10 DEF Release, TypeOK
  <2>3. Heirs(T, priority') = IF lockWait[k] = << >> THEN {} ELSE {h}
    BY DEF Heirs
  <2>4. lockWait[k] # << >> => h \in Procs /\ state[h] = "WAITING_LOCK"
    BY <1>5, <2>1, <2>2, HeirLeaves DEF FiledAmong
  <2>. HIDE DEF h, T, k
  <2>5. \A r \in Procs : state'[r] = IF r \in Heirs(T, priority') THEN "READY" ELSE state[r]
    BY <1>3, <2>1, <2>3, <2>4
  <2>6. \A r \in Procs : r \in Heirs(T, priority') => state[r] = "WAITING_LOCK"
    BY <2>3, <2>4
  <2>7. FiledAmong(lockWait', Locks, state', "WAITING_LOCK")
    BY <1>5, <2>1, <2>2, <2>5, HandOverFiles
  <2>8. FiledIn(ready', state', "READY")
    <3>1. CASE lockWait[k] = << >>
      BY <1>5, <2>1, <3>1
    <3>2. CASE lockWait[k] # << >>
      <4>1. \A r \in Procs : state'[r] = "READY" <=> state[r] = "READY" \/ r = h
        BY <2>3, <2>5, <3>2
      <4>2. h \in Procs /\ state[h] # "READY" /\ ready' = Enqueue(ready, h, priority')
        BY <2>1, <2>4, <3>2
      <4>3. FiledIn(Enqueue(ready, h, priority'), state', "READY")
        BY <1>3, <1>5, <2>2, <4>1, <4>2, FileEnqueue
      <4>. QED  BY <4>2, <4>3
    <3>. QED  BY <3>1, <3>2
  <2>9. FiledIn(sleepQueue', state', "SLEEPING")
    BY <1>5, <2>1, <2>5, <2>6, FiledElsewhere
  <2>10. FiledAmong(eventWait', Events, state', "WAITING_EVENT")
    BY <1>5, <2>1, <2>5, <2>6, AmongElsewhere
  <2>11. OnCpu'
    BY <1>2, <1>4, <2>1, <2>5, <2>6, RetireOnCpu
  <2>. QED  BY <2>7, <2>8, <2>9, <2>10, <2>11 DEF QueueInv, Filed
<1>11. CASE Signal(p, i) /\ eventWait[i.arg] # << >>
  <2>. DEFINE k == i.arg
              h == Head(ByPriority(eventWait[k], priority))
              t == Tail(ByPriority(eventWait[k], priority))
  <2>1. /\ k \in Events /\ eventWait[k] # << >>
        /\ eventWait' = [eventWait EXCEPT ![k] = t]
        /\ state' = [state EXCEPT ![h] = "READY"]
        /\ ready' = Enqueue(ready, h, priority)
        /\ UNCHANGED <<sleepQueue, lockWait>>
        /\ Retire(p, "none")
    BY <1>11 DEF Signal, sleepVars, lockVars
  <2>2. eventWait[k] \in Seq(Procs) /\ NoRepeat(eventWait[k])
    BY <1>3, <1>5, <2>1 DEF FiledAmong
  <2>3. /\ h \in Procs /\ h \in ToSet(eventWait[k])
        /\ NoRepeat(t) /\ ToSet(t) = ToSet(eventWait[k]) \ {h}
    BY <1>3, <2>1, <2>2, BestLeaves
  <2>. HIDE DEF h, t, k
  <2>4. state[h] = "WAITING_EVENT"
    BY <1>5, <2>1, <2>3 DEF FiledAmong
  <2>5. \A r \in Procs : state'[r] = IF r = h THEN "READY" ELSE state[r]
    BY <1>3, <2>1
  <2>6. FiledAmong(eventWait', Events, state', "WAITING_EVENT")
    <3>1. \A e \in Events : eventWait'[e] = IF e = k THEN t ELSE eventWait[e]
      BY <1>3, <2>1
    <3>2. /\ \A e \in Events : NoRepeat(eventWait[e])
          /\ \A e \in Events : \A r \in Procs :
               r \in ToSet(eventWait[e]) => state[r] = "WAITING_EVENT"
          /\ \A d, e \in Events : \A r \in Procs :
               r \in ToSet(eventWait[d]) /\ r \in ToSet(eventWait[e]) => d = e
      BY <1>5 DEF FiledAmong
    <3>3. \A e \in Events : NoRepeat(eventWait'[e])
      BY <2>3, <3>1, <3>2
    <3>4. \A e \in Events : \A r \in Procs :
            r \in ToSet(eventWait'[e])
              <=> r \in ToSet(eventWait[e]) /\ state'[r] = "WAITING_EVENT"
      BY <2>1, <2>3, <2>5, <3>1, <3>2
    <3>5. \A r \in Procs : state'[r] = "WAITING_EVENT" => state[r] = "WAITING_EVENT"
      BY <2>5
    <3>. QED  BY <1>5, <3>3, <3>4, <3>5, AmongShrink
  <2>7. FiledIn(ready', state', "READY")
    <3>1. \A r \in Procs : state'[r] = "READY" <=> state[r] = "READY" \/ r = h
      BY <2>5
    <3>. QED  BY <1>3, <1>5, <2>1, <2>3, <2>4, <3>1, FileEnqueue
  <2>8. FiledIn(sleepQueue', state', "SLEEPING")
    <3>1. \A r \in Procs : state'[r] = "SLEEPING" <=> state[r] = "SLEEPING"
      BY <2>4, <2>5
    <3>2. FiledIn(sleepQueue, state', "SLEEPING")
      BY <1>5, <3>1, FiledElsewhere
    <3>. QED  BY <2>1, <3>2
  <2>9. FiledAmong(lockWait', Locks, state', "WAITING_LOCK")
    <3>1. \A r \in Procs : state'[r] = "WAITING_LOCK" <=> state[r] = "WAITING_LOCK"
      BY <2>4, <2>5
    <3>2. FiledAmong(lockWait, Locks, state', "WAITING_LOCK")
      BY <1>5, <3>1, AmongElsewhere
    <3>. QED  BY <2>1, <3>2
  <2>10. OnCpu'
    BY <1>2, <1>4, <2>1, <2>4, <2>5, RetireOnCpu
  <2>. QED  BY <2>6, <2>7, <2>8, <2>9, <2>10 DEF QueueInv, Filed
<1>12. CASE Terminate(p, i)
  <2>. DEFINE x == i.arg
              T == {x}
  <2>1. /\ x \in Procs
        /\ ready' = Without(ready, T)
        /\ sleepQueue' = Without(sleepQueue, T)
        /\ lockWait' = [l \in Locks |-> Without(lockWait[l], T)]
        /\ eventWait' = [e \in Events |-> Without(eventWait[e], T)]
        /\ state' = [state EXCEPT ![x] = "TERMINATED"]
        /\ Retire(p, "none")
    BY <1>12 DEF Terminate
  <2>2. \A r \in Procs : state'[r] = IF r \in T THEN "TERMINATED" ELSE state[r]
    BY <1>3, <2>1
  <2>. HIDE DEF x, T
  <2>3. FiledIn(ready', state', "READY") /\ FiledIn(sleepQueue', state', "SLEEPING")
    BY <1>3, <1>5, <2>1, <2>2, FileWithout
  <2>4. FiledAmong(lockWait', Locks, state', "WAITING_LOCK")
    <3>1. \A l \in Locks : /\ NoRepeat(lockWait'[l])
                           /\ ToSet(lockWait'[l]) = ToSet(lockWait[l]) \ T
      BY <1>3, <1>5, <2>1, WithoutMembers DEF FiledAmong
    <3>2. \A l \in Locks : \A r \in Procs :
            r \in ToSet(lockWait'[l])
              <=> r \in ToSet(lockWait[l]) /\ state'[r] = "WAITING_LOCK"
      BY <1>5, <2>2, <3>1 DEF FiledAmong
    <3>3. \A r \in Procs : state'[r] = "WAITING_LOCK" => state[r] = "WAITING_LOCK"
      BY <2>2
    <3>. QED  BY <1>5, <3>1, <3>2, <3>3, AmongShrink
  <2>5. FiledAmong(eventWait', Events, state', "WAITING_EVENT")
    <3>1. \A e \in Events : /\ NoRepeat(eventWait'[e])
                            /\ ToSet(eventWait'[e]) = ToSet(eventWait[e]) \ T
      BY <1>3, <1>5, <2>1, WithoutMembers DEF FiledAmong
    <3>2. \A e \in Events : \A r \in Procs :
            r \in ToSet(eventWait'[e])
              <=> r \in ToSet(eventWait[e]) /\ state'[r] = "WAITING_EVENT"
      BY <1>5, <2>2, <3>1 DEF FiledAmong
    <3>3. \A r \in Procs : state'[r] = "WAITING_EVENT" => state[r] = "WAITING_EVENT"
      BY <2>2
    <3>. QED  BY <1>5, <3>1, <3>2, <3>3, AmongShrink
  <2>6. OnCpu'
    BY <1>2, <1>4, <2>1, <2>2, RetireOnCpu
  <2>. QED  BY <2>3, <2>4, <2>5, <2>6 DEF QueueInv, Filed
<1>. QED
  BY <1>1, <1>6, <1>7, <1>8, <1>9, <1>10, <1>11, <1>12
     DEF Compute, SetPriority, Sleep, AcquireAvailable, ReleaseNotOwner, Signal,
         WaitSignaled, TerminateNothing, sleepVars, lockVars, eventVars

(* The heirs of several locks, in any order, are distinct. *)
LEMMA OrderedHeirs ==
  ASSUME TypeOK, FiledAmong(lockWait, Locks, state, "WAITING_LOCK"),
         NEW prio \in [Procs -> Int], NEW S \in SUBSET Locks,
         NEW order \in SetToSeqs({l \in S : lockWait[l] # << >>}),
         NEW heirs, heirs = [n \in DOMAIN order |-> Heir(order[n], prio)]
  PROVE  heirs \in Seq(Procs) /\ NoRepeat(heirs) /\ ToSet(heirs) = Heirs(S, prio)
<1>. DEFINE W == {l \in S : lockWait[l] # << >>}
            N == Cardinality(W)
            D == 1 .. N
<1>1. IsFiniteSet(W) /\ W \subseteq Locks
  BY LocksAssumption, FS_Subset
<1>2. N \in Nat
  BY <1>1, FS_CardinalityType
<1>3. order \in [D -> W] /\ \A i, j \in D : i # j => order[i] # order[j]
  BY DEF SetToSeqs
<1>4. \A l \in W : lockWait[l] # << >>
  OBVIOUS
<1>5. Heirs(S, prio) = {Heir(l, prio) : l \in W}
  BY DEF Heirs
<1>. HIDE DEF W
<1>6. \A l \in W : \E n \in D : order[n] = l
  <2>1. IsFiniteSet(D) /\ Cardinality(D) = N
    BY <1>2, FS_Interval
  <2>2. order \in Injection(D, W)
    BY <1>3 DEF Injection, IsInjective
  <2>. HIDE DEF D, N
  <2>3. order \in Surjection(D, W)
    BY <1>1, <2>1, <2>2, FS_Injection DEF N
  <2>. QED  BY <2>3 DEF Surjection
<1>7. \A n \in D : /\ order[n] \in Locks /\ lockWait[order[n]] # << >>
                   /\ Heir(order[n], prio) \in Procs
                   /\ Heir(order[n], prio) \in ToSet(lockWait[order[n]])
  BY <1>1, <1>3, <1>4, HeirLeaves
<1>8. DOMAIN order = D
  BY <1>3
<1>. HIDE DEF N
<1>9. heirs \in Seq(Procs) /\ DOMAIN heirs = D /\ \A n \in D : heirs[n] = Heir(order[n], prio)
  BY <1>2, <1>7, <1>8
<1>. HIDE DEF D
<1>10. NoRepeat(heirs)
  <2>1. ASSUME NEW m \in D, NEW n \in D, heirs[m] = heirs[n]  PROVE m = n
    <3>1. order[m] = order[n]
      BY <1>7, <1>9, <2>1 DEF FiledAmong
    <3>. QED  BY <1>3, <3>1
  <2>. QED  BY <1>9, <2>1 DEF NoRepeat
<1>11. ToSet(heirs) = Heirs(S, prio)
  BY <1>3, <1>5, <1>6, <1>9 DEF ToSet
<1>. QED
  BY <1>9, <1>10, <1>11

LEMMA DeadKeepsQueues ==
  ASSUME TypeOK, QueueInv, NEW p \in Procs, SwitchOutDead(p)
  PROVE  QueueInv'
<1>. DEFINE S == locksHeld[p]
<1>1. /\ phase = "run" /\ running = p /\ switchReason \in {"exit", "error"}
      /\ HandOver(S, p, priority) /\ UNCHANGED eventWait
  BY DEF SwitchOutDead, eventVars
<1>2. PICK order \in SetToSeqs({l \in S : lockWait[l] # << >>}) :
        LET heirs == [n \in DOMAIN order |-> Heir(order[n], priority)]
        IN  EndSlice(EnqueueAll(ready, heirs, priority), sleepQueue,
                     [q \in Procs |-> IF q = p THEN "TERMINATED"
                                      ELSE IF q \in ToSet(heirs) THEN "READY"
                                      ELSE state[q]])
  BY DEF SwitchOutDead
<1>. DEFINE heirs == [n \in DOMAIN order |-> Heir(order[n], priority)]
            rq == EnqueueAll(ready, heirs, priority)
            st == [q \in Procs |-> IF q = p THEN "TERMINATED"
                                   ELSE IF q \in ToSet(heirs) THEN "READY"
                                   ELSE state[q]]
<1>3. EndSlice(rq, sleepQueue, st)
  BY <1>2
<1>4. /\ priority \in [Procs -> Int] /\ S \in SUBSET Locks
      /\ ready \in Seq(Procs) /\ sleepQueue \in Seq(Procs)
  BY PriorityIsInt DEF TypeOK
<1>5. /\ FiledIn(ready, state, "READY") /\ FiledIn(sleepQueue, state, "SLEEPING")
      /\ FiledAmong(lockWait, Locks, state, "WAITING_LOCK")
      /\ FiledAmong(eventWait, Events, state, "WAITING_EVENT")
  BY DEF QueueInv, Filed
<1>6. heirs \in Seq(Procs) /\ NoRepeat(heirs) /\ ToSet(heirs) = Heirs(S, priority)
  BY <1>4, <1>5, OrderedHeirs
<1>7. \A h \in Heirs(S, priority) : state[h] = "WAITING_LOCK"
  <2>1. \A l \in S : lockWait[l] # << >> => state[Heir(l, priority)] = "WAITING_LOCK"
    BY <1>4, <1>5, HeirLeaves DEF FiledAmong
  <2>. QED  BY <2>1 DEF Heirs
<1>8. /\ state[p] \in {"RUNNING", "TERMINATED"}
      /\ \A r \in Procs : r # p => state[r] # "RUNNING"
  BY <1>1 DEF QueueInv, OnCpu
<1>. HIDE DEF heirs, S
<1>9. \A r \in Procs : st[r] = IF r = p THEN "TERMINATED"
                               ELSE IF r \in Heirs(S, priority) THEN "READY" ELSE state[r]
  BY <1>6
<1>. HIDE DEF st
<1>10. FiledAmong(lockWait', Locks, st, "WAITING_LOCK")
  <2>1. \A r \in Procs : st[r] = "WAITING_LOCK"
                             <=> state[r] = "WAITING_LOCK" /\ r \notin Heirs(S, priority)
    BY <1>8, <1>9
  <2>. QED  BY <1>1, <1>4, <1>5, <2>1, HandOverFiles
<1>11. FiledIn(rq, st, "READY")
  <2>1. \A r \in Procs : st[r] = "READY" <=> state[r] = "READY" \/ r \in ToSet(heirs)
    BY <1>6, <1>7, <1>8, <1>9
  <2>2. \A r \in ToSet(heirs) : state[r] # "READY"
    BY <1>6, <1>7
  <2>. QED  BY <1>4, <1>5, <1>6, <2>1, <2>2, FileAll
<1>12. FiledIn(sleepQueue, st, "SLEEPING")
  <2>1. \A r \in Procs : st[r] = "SLEEPING" <=> state[r] = "SLEEPING"
    BY <1>7, <1>8, <1>9
  <2>. QED  BY <1>5, <2>1, FiledElsewhere
<1>13. FiledAmong(eventWait', Events, st, "WAITING_EVENT")
  <2>1. \A r \in Procs : st[r] = "WAITING_EVENT" <=> state[r] = "WAITING_EVENT"
    BY <1>7, <1>8, <1>9
  <2>2. FiledAmong(eventWait, Events, st, "WAITING_EVENT")
    BY <1>5, <2>1, AmongElsewhere
  <2>. QED  BY <1>1, <2>2
<1>14. \A r \in Procs : st[r] # "RUNNING"
  BY <1>8, <1>9
<1>15. rq \in Seq(Procs)
  BY <1>4, <1>6, EnqueueAllProperties
<1>. HIDE DEF rq
<1>16. Filed(rq, sleepQueue, lockWait', eventWait', st)
  BY <1>10, <1>11, <1>12, <1>13 DEF Filed
<1>. QED
  BY <1>3, <1>4, <1>14, <1>15, <1>16, EndSliceFiles

(* Every step of the kernel leaves each process in the queue its state     *)
(* names.                                                                  *)
LEMMA QueuesStayFiled == Spec => []QueueInv
<1>1. TypeOK /\ QueueInv /\ [Next]_vars => QueueInv'
  <2>. SUFFICES ASSUME TypeOK, QueueInv, [Next]_vars PROVE QueueInv'
    OBVIOUS
  <2>0. /\ priority \in [Procs -> Int] /\ state \in [Procs -> States]
        /\ ready \in Seq(Procs) /\ sleepQueue \in Seq(Procs)
        /\ FiledIn(ready, state, "READY") /\ FiledIn(sleepQueue, state, "SLEEPING")
        /\ FiledAmong(lockWait, Locks, state, "WAITING_LOCK")
        /\ FiledAmong(eventWait, Events, state, "WAITING_EVENT")
    BY PriorityIsInt DEF TypeOK, QueueInv, Filed
  <2>1. CASE Dispatch
    <3>. DEFINE h == Head(ready)
                t == Tail(ready)
    <3>1. /\ phase = "pick" /\ ready # << >>
          /\ running' = h /\ ready' = t /\ phase' = "run"
          /\ state' = [state EXCEPT ![h] = "RUNNING"]
          /\ UNCHANGED <<switchReason, sleepQueue, lockWait, eventWait>>
      BY <2>1 DEF Dispatch, sleepVars, lockVars, eventVars
    <3>2. /\ h \in Procs /\ h \in ToSet(ready)
          /\ ToSet(ready) = ToSet(t) \cup {h}
          /\ NoRepeat(t) /\ h \notin ToSet(t)
      BY <2>0, <3>1, PopFront DEF FiledIn
    <3>. HIDE DEF h, t
    <3>3. \A r \in Procs : state'[r] = IF r = h THEN "RUNNING" ELSE state[r]
      BY <2>0, <3>1
    <3>4. state[h] = "READY" /\ \A r \in Procs : state[r] # "RUNNING"
      BY <2>0, <3>1, <3>2, ProcsAssumption DEF FiledIn, QueueInv, OnCpu
    <3>5. FiledIn(t, state', "READY")
      BY <2>0, <3>2, <3>3 DEF FiledIn
    <3>6. FiledIn(sleepQueue, state', "SLEEPING")
      <4>1. \A r \in Procs : state'[r] = "SLEEPING" <=> state[r] = "SLEEPING"
        BY <3>3, <3>4
      <4>. QED  BY <2>0, <4>1, FiledElsewhere
    <3>7. FiledAmong(lockWait, Locks, state', "WAITING_LOCK")
      <4>1. \A r \in Procs : state'[r] = "WAITING_LOCK" <=> state[r] = "WAITING_LOCK"
        BY <3>3, <3>4
      <4>. QED  BY <2>0, <4>1, AmongElsewhere
    <3>8. FiledAmong(eventWait, Events, state', "WAITING_EVENT")
      <4>1. \A r \in Procs : state'[r] = "WAITING_EVENT" <=> state[r] = "WAITING_EVENT"
        BY <3>3, <3>4
      <4>. QED  BY <2>0, <4>1, AmongElsewhere
    <3>9. OnCpu'
      <4>1. switchReason = "none"
        BY <3>1 DEF QueueInv, OnCpu
      <4>. QED  BY <3>1, <3>2, <3>3, <3>4, <4>1 DEF OnCpu
    <3>. QED  BY <3>1, <3>5, <3>6, <3>7, <3>8, <3>9 DEF QueueInv, Filed
  <2>2. CASE NothingReady
    <3>1. OnCpu'
      BY <2>2 DEF NothingReady, QueueInv, OnCpu
    <3>. QED  BY <2>2, <3>1, SameQueues
           DEF NothingReady, sleepVars, lockVars, eventVars
  <2>3. ASSUME NEW p \in Procs, Step(p)  PROVE QueueInv'
    BY <2>3, StepKeepsQueues
  <2>4. ASSUME NEW p \in Procs, phase = "run", running = p,
               switchReason \in {"quantum", "sleep"}
        PROVE  /\ state[p] \in {"RUNNING", "TERMINATED"}
               /\ \A r \in Procs : r # p => state[r] # "RUNNING"
    BY <2>4 DEF QueueInv, OnCpu
  <2>5. ASSUME NEW p \in Procs, SwitchOutQuantum(p)  PROVE QueueInv'
    <3>. DEFINE rq == Enqueue(ready, p, priority)
                st == [state EXCEPT ![p] = "READY"]
    <3>1. /\ phase = "run" /\ running = p /\ switchReason = "quantum"
          /\ UNCHANGED <<lockWait, eventWait>> /\ EndSlice(rq, sleepQueue, st)
      BY <2>5 DEF SwitchOutQuantum, lockVars, eventVars
    <3>2. \A r \in Procs : st[r] = IF r = p THEN "READY" ELSE state[r]
      BY <2>0
    <3>3. rq \in Seq(Procs)
      BY <2>0, EnqueueProperties
    <3>. HIDE DEF st
    <3>4. \A r \in Procs : st[r] # "RUNNING"
      BY <2>4, <3>1, <3>2
    <3>5. FiledIn(rq, st, "READY")
      <4>1. \A r \in Procs : st[r] = "READY" <=> state[r] = "READY" \/ r = p
        BY <3>2
      <4>2. state[p] # "READY"
        BY <2>4, <3>1
      <4>. QED  BY <2>0, <4>1, <4>2, FileEnqueue
    <3>. HIDE DEF rq
    <3>6. FiledIn(sleepQueue, st, "SLEEPING")
      <4>1. \A r \in Procs : st[r] = "SLEEPING" <=> state[r] = "SLEEPING"
        BY <2>4, <3>1, <3>2
      <4>. QED  BY <2>0, <4>1, FiledElsewhere
    <3>7. FiledAmong(lockWait, Locks, st, "WAITING_LOCK")
      <4>1. \A r \in Procs : st[r] = "WAITING_LOCK" <=> state[r] = "WAITING_LOCK"
        BY <2>4, <3>1, <3>2
      <4>. QED  BY <2>0, <4>1, AmongElsewhere
    <3>8. FiledAmong(eventWait, Events, st, "WAITING_EVENT")
      <4>1. \A r \in Procs : st[r] = "WAITING_EVENT" <=> state[r] = "WAITING_EVENT"
        BY <2>4, <3>1, <3>2
      <4>. QED  BY <2>0, <4>1, AmongElsewhere
    <3>9. Filed(rq, sleepQueue, lockWait', eventWait', st)
      BY <3>1, <3>5, <3>6, <3>7, <3>8 DEF Filed
    <3>. QED  BY <2>0, <3>1, <3>3, <3>4, <3>9, EndSliceFiles
  <2>6. ASSUME NEW p \in Procs, SwitchOutSleep(p)  PROVE QueueInv'
    <3>. DEFINE sq == Append(sleepQueue, p)
                st == [state EXCEPT ![p] = "SLEEPING"]
    <3>1. /\ phase = "run" /\ running = p /\ switchReason = "sleep"
          /\ UNCHANGED <<lockWait, eventWait>> /\ EndSlice(ready, sq, st)
      BY <2>6 DEF SwitchOutSleep, lockVars, eventVars
    <3>2. \A r \in Procs : st[r] = IF r = p THEN "SLEEPING" ELSE state[r]
      BY <2>0
    <3>3. sq \in Seq(Procs)
      BY <2>0
    <3>. HIDE DEF st
    <3>4. \A r \in Procs : st[r] # "RUNNING"
      BY <2>4, <3>1, <3>2
    <3>5. FiledIn(sq, st, "SLEEPING")
      <4>1. \A r \in Procs : st[r] = "SLEEPING" <=> state[r] = "SLEEPING" \/ r = p
        BY <3>2
      <4>2. state[p] # "SLEEPING"
        BY <2>4, <3>1
      <4>. QED  BY <2>0, <4>1, <4>2, FileAppend
    <3>. HIDE DEF sq
    <3>6. FiledIn(ready, st, "READY")
      <4>1. \A r \in Procs : st[r] = "READY" <=> state[r] = "READY"
        BY <2>4, <3>1, <3>2
      <4>. QED  BY <2>0, <4>1, FiledElsewhere
    <3>7. FiledAmong(lockWait, Locks, st, "WAITING_LOCK")
      <4>1. \A r \in Procs : st[r] = "WAITING_LOCK" <=> state[r] = "WAITING_LOCK"
        BY <2>4, <3>1, <3>2
      <4>. QED  BY <2>0, <4>1, AmongElsewhere
    <3>8. FiledAmong(eventWait, Events, st, "WAITING_EVENT")
      <4>1. \A r \in Procs : st[r] = "WAITING_EVENT" <=> state[r] = "WAITING_EVENT"
        BY <2>4, <3>1, <3>2
      <4>. QED  BY <2>0, <4>1, AmongElsewhere
    <3>9. Filed(ready, sq, lockWait', eventWait', st)
      BY <3>1, <3>5, <3>6, <3>7, <3>8 DEF Filed
    <3>. QED  BY <2>0, <3>1, <3>3, <3>4, <3>9, EndSliceFiles
  <2>7. CASE SwitchOutBlocked
    <3>1. /\ phase = "run" /\ switchReason \in {"lock", "event"}
          /\ UNCHANGED <<lockWait, eventWait>> /\ EndSlice(ready, sleepQueue, state)
      BY <2>7 DEF SwitchOutBlocked, lockVars, eventVars
    <3>2. \A r \in Procs : state[r] # "RUNNING"
      BY <3>1, ProcsAssumption DEF QueueInv, OnCpu
    <3>3. Filed(ready, sleepQueue, lockWait', eventWait', state)
      BY <2>0, <3>1 DEF Filed
    <3>. QED  BY <2>0, <3>1, <3>2, <3>3, EndSliceFiles
  <2>8. ASSUME NEW p \in Procs, SwitchOutDead(p)  PROVE QueueInv'
    BY <2>8, DeadKeepsQueues
  <2>9. CASE UNCHANGED vars
    <3>1. OnCpu'
      BY <2>9 DEF vars, loopVars, QueueInv, OnCpu
    <3>. QED  BY <2>9, <3>1, SameQueues DEF vars, sleepVars, lockVars, eventVars
  <2>. QED
    BY <2>1, <2>2, <2>3, <2>5, <2>6, <2>7, <2>8, <2>9 DEF Next, SwitchOut, Halted
<1>. QED
  BY <1>1, InitFiled, TypeCorrect, PTL DEF Spec

(* _enqueue_ready, context_switch_out, tick_sleeping, the hand-over of locks *)
(* and terminate_process lose no process and file none twice, for every set  *)
(* of processes, locks, events and programs.                                 *)
THEOREM NoProcessIsLost == Spec => []NoLostProcess
<1>1. TypeOK /\ QueueInv => NoLostProcess
  <2>. SUFFICES ASSUME TypeOK, QueueInv PROVE NoLostProcess
    OBVIOUS
  <2>1. /\ \A p \in ToSet(ready) : p \in Procs
        /\ \A p \in ToSet(sleepQueue) : p \in Procs
        /\ \A l \in Locks : \A p \in ToSet(lockWait[l]) : p \in Procs
        /\ \A e \in Events : \A p \in ToSet(eventWait[e]) : p \in Procs
    BY MembersAreProcs DEF TypeOK
  <2>2. /\ ToSet(ready) = {p \in Procs : state[p] = "READY"} /\ NoRepeat(ready)
        /\ ToSet(sleepQueue) = {p \in Procs : state[p] = "SLEEPING"} /\ NoRepeat(sleepQueue)
    BY <2>1 DEF QueueInv, Filed, FiledIn
  <2>3. /\ UNION {ToSet(lockWait[l]) : l \in Locks} = {p \in Procs : state[p] = "WAITING_LOCK"}
        /\ \A l \in Locks : NoRepeat(lockWait[l])
        /\ \A k, l \in Locks : k # l => ToSet(lockWait[k]) \cap ToSet(lockWait[l]) = {}
    BY <2>1 DEF QueueInv, Filed, FiledAmong
  <2>4. /\ UNION {ToSet(eventWait[e]) : e \in Events} = {p \in Procs : state[p] = "WAITING_EVENT"}
        /\ \A e \in Events : NoRepeat(eventWait[e])
        /\ \A d, e \in Events : d # e => ToSet(eventWait[d]) \cap ToSet(eventWait[e]) = {}
    BY <2>1 DEF QueueInv, Filed, FiledAmong
  <2>5. {p \in Procs : state[p] = "RUNNING"} \subseteq {running}
    BY DEF QueueInv, OnCpu
  <2>. QED  BY <2>2, <2>3, <2>4, <2>5 DEF NoLostProcess
<1>. QED
  BY <1>1, QueuesStayFiled, TypeCorrect, PTL

-----------------------------------------------------------------------------
(***************************************************************************)
(* A terminated process stays terminated                                   *)
(***************************************************************************)

(* TERMINATEPROCESS of the caller itself lets a terminated process finish   *)
(* its slice and be queued again; p's program does not do that.             *)
NeverEndsItself(p) == \A i \in Program[p] : i.op = "terminate" => i.arg # p

(* So whoever is on the CPU is alive. *)
AliveOnCpu ==
  phase = "run" /\ running \in Procs /\ NeverEndsItself(running)
    => state[running] = "RUNNING"

LEMMA EndSliceKeepsTheDead ==
  ASSUME TypeOK, NEW rq, NEW sq, NEW st, FiledIn(sq, st, "SLEEPING"), EndSlice(rq, sq, st)
  PROVE  /\ \A q \in Procs : st[q] = "TERMINATED" => state'[q] = "TERMINATED"
         /\ AliveOnCpu'
<1>. DEFINE woke == {q \in ToSet(sq) : CountDown(sq)[q] <= 0}
<1>1. /\ state' = [q \in Procs |-> IF q \in woke THEN "READY" ELSE st[q]]
      /\ phase' \in {"pick", "stopped"}
  BY DEF EndSlice
<1>2. \A q \in Procs : q \in woke => st[q] = "SLEEPING"
  BY DEF FiledIn
<1>. HIDE DEF woke
<1>. QED
  BY <1>1, <1>2 DEF AliveOnCpu

LEMMA StepKeepsTheDead ==
  ASSUME TypeOK, QueueInv, NEW p \in Procs, Step(p)
  PROVE  /\ \A q \in Procs : q # p /\ state[q] = "TERMINATED" => state'[q] = "TERMINATED"
         /\ phase = "run" /\ running = p
         /\ AliveOnCpu => AliveOnCpu'
<1>1. PICK i \in Program[p] :
        \/ Compute(p, i) \/ SetPriority(p, i) \/ Sleep(p, i)
        \/ Leave(p, i) \/ Crash(p, i)
        \/ AcquireAvailable(p, i) \/ AcquireBusy(p, i)
        \/ Release(p, i) \/ ReleaseNotOwner(p, i)
        \/ Signal(p, i) \/ WaitSignaled(p, i) \/ WaitBlock(p, i)
        \/ Terminate(p, i) \/ TerminateNothing(p, i)
  BY DEF Step
<1>2. phase = "run" /\ running = p /\ switchReason = "none"
  BY <1>1 DEF Fetch, Compute, SetPriority, Sleep, Leave, Crash, AcquireAvailable,
              AcquireBusy, Release, ReleaseNotOwner, Signal, WaitSignaled, WaitBlock,
              Terminate, TerminateNothing
<1>3. /\ state \in [Procs -> States] /\ priority \in [Procs -> Int] /\ None \notin Procs
      /\ lockWait \in [Locks -> Seq(Procs)] /\ eventWait \in [Events -> Seq(Procs)]
  BY PriorityIsInt, ProcsAssumption DEF TypeOK
<1>4. AliveOnCpu /\ NeverEndsItself(p) => state[p] = "RUNNING"
  BY <1>2 DEF AliveOnCpu
<1>5. /\ FiledAmong(lockWait, Locks, state, "WAITING_LOCK")
      /\ FiledAmong(eventWait, Events, state, "WAITING_EVENT")
      /\ state[p] \in {"RUNNING", "TERMINATED"}
  BY <1>2 DEF QueueInv, Filed, OnCpu
<1>6. ASSUME UNCHANGED state, running' = p
      PROVE  /\ \A q \in Procs : q # p /\ state[q] = "TERMINATED" => state'[q] = "TERMINATED"
             /\ AliveOnCpu => AliveOnCpu'
  BY <1>4, <1>6 DEF AliveOnCpu
<1>7. ASSUME UNCHANGED running, NEW h \in Procs, state' = [state EXCEPT ![h] = "READY"],
             state[h] \in {"WAITING_LOCK", "WAITING_EVENT"}
      PROVE  /\ \A q \in Procs : q # p /\ state[q] = "TERMINATED" => state'[q] = "TERMINATED"
             /\ AliveOnCpu => AliveOnCpu'
  <2>1. \A q \in Procs : state'[q] = IF q = h THEN "READY" ELSE state[q]
    BY <1>3, <1>7
  <2>2. h # p
    BY <1>5, <1>7
  <2>. QED  BY <1>2, <1>4, <1>7, <2>1, <2>2 DEF AliveOnCpu
<1>8. CASE Leave(p, i) \/ Crash(p, i)
  BY <1>2, <1>6, <1>8 DEF Leave, Crash
<1>9. CASE AcquireBusy(p, i) \/ WaitBlock(p, i)
  <2>1. \/ state' = [state EXCEPT ![p] = "WAITING_LOCK"]
        \/ state' = [state EXCEPT ![p] = "WAITING_EVENT"]
    BY <1>9 DEF AcquireBusy, WaitBlock
  <2>2. running' = None
    BY <1>9 DEF AcquireBusy, WaitBlock, Block
  <2>3. \A q \in Procs : q # p => state'[q] = state[q]
    BY <1>3, <2>1
  <2>4. AliveOnCpu'
    BY <1>3, <2>2 DEF AliveOnCpu
  <2>. QED  BY <1>2, <2>3, <2>4
<1>10. CASE Release(p, i)
  <2>. DEFINE h == Heir(i.arg, priority')
  <2>1. /\ i.arg \in Locks /\ UNCHANGED running
        /\ IF lockWait[i.arg] = << >> THEN UNCHANGED state
           ELSE state' = [state EXCEPT ![h] = "READY"]
    BY <1>10 DEF Release, Retire
  <2>2. priority' \in [Procs -> Int]
    BY <1>3, <1>10 DEF Release, TypeOK
  <2>3. lockWait[i.arg] # << >> => h \in Procs /\ state[h] = "WAITING_LOCK"
    BY <1>5, <2>1, <2>2, HeirLeaves DEF FiledAmong
  <2>. HIDE DEF h
  <2>. QED  BY <1>2, <1>6, <1>7, <2>1, <2>3
<1>11. CASE Signal(p, i)
  <2>. DEFINE h == Head(ByPriority(eventWait[i.arg], priority))
  <2>1. /\ i.arg \in Events /\ UNCHANGED running
        /\ IF eventWait[i.arg] = << >> THEN UNCHANGED state
           ELSE state' = [state EXCEPT ![h] = "READY"]
    BY <1>11 DEF Signal, Retire
  <2>2. eventWait[i.arg] \in Seq(Procs) /\ NoRepeat(eventWait[i.arg])
    BY <1>3, <1>5, <2>1 DEF FiledAmong
  <2>3. eventWait[i.arg] # << >> => h \in Procs /\ h \in ToSet(eventWait[i.arg])
    BY <1>3, <2>2, BestLeaves
  <2>4. eventWait[i.arg] # << >> => h \in Procs /\ state[h] = "WAITING_EVENT"
    BY <1>5, <2>1, <2>3 DEF FiledAmong
  <2>. HIDE DEF h
  <2>. QED  BY <1>2, <1>6, <1>7, <2>1, <2>4
<1>12. CASE Terminate(p, i)
  <2>1. state' = [state EXCEPT ![i.arg] = "TERMINATED"] /\ UNCHANGED running
    BY <1>12 DEF Terminate, Retire
  <2>2. NeverEndsItself(p) => i.arg # p
    BY <1>12 DEF NeverEndsItself, Terminate
  <2>3. AliveOnCpu /\ NeverEndsItself(p) => state'[p] = "RUNNING"
    BY <1>3, <1>4, <2>1, <2>2
  <2>. QED  BY <1>2, <1>3, <2>1, <2>3 DEF AliveOnCpu
<1>13. CASE \/ Compute(p, i) \/ SetPriority(p, i) \/ Sleep(p, i)
            \/ AcquireAvailable(p, i) \/ ReleaseNotOwner(p, i)
            \/ WaitSignaled(p, i) \/ TerminateNothing(p, i)
  <2>1. UNCHANGED state /\ UNCHANGED running
    BY <1>13 DEF Compute, SetPriority, Sleep, AcquireAvailable, ReleaseNotOwner,
                 WaitSignaled, TerminateNothing, Retire
  <2>. QED  BY <1>2, <1>6, <2>1
<1>. QED
  BY <1>1, <1>2, <1>8, <1>9, <1>10, <1>11, <1>12, <1>13

(* Every step of the kernel leaves the dead where they are. *)
LEMMA TheDeadStayDead ==
  ASSUME TypeOK, QueueInv, [Next]_vars
  PROVE  /\ AliveOnCpu => AliveOnCpu'
         /\ \A q \in Procs : state[q] = "TERMINATED"
              /\ (q = running => AliveOnCpu /\ NeverEndsItself(q)) => state'[q] = "TERMINATED"
<1>. DEFINE Final ==
       /\ AliveOnCpu => AliveOnCpu'
       /\ \A q \in Procs : state[q] = "TERMINATED"
            /\ (q = running => AliveOnCpu /\ NeverEndsItself(q)) => state'[q] = "TERMINATED"
<1>0. /\ state \in [Procs -> States] /\ ready \in Seq(Procs) /\ sleepQueue \in Seq(Procs)
      /\ priority \in [Procs -> Int]
      /\ FiledIn(ready, state, "READY") /\ FiledIn(sleepQueue, state, "SLEEPING")
      /\ FiledAmong(lockWait, Locks, state, "WAITING_LOCK")
  BY PriorityIsInt DEF TypeOK, QueueInv, Filed
<1>1. CASE Dispatch
  <2>. DEFINE h == Head(ready)
  <2>1. ready # << >> /\ running' = h /\ state' = [state EXCEPT ![h] = "RUNNING"]
    BY <1>1 DEF Dispatch
  <2>2. h \in Procs /\ state[h] = "READY"
    BY <1>0, <2>1, PopFront DEF FiledIn
  <2>. HIDE DEF h
  <2>. QED  BY <1>0, <2>1, <2>2 DEF AliveOnCpu
<1>2. CASE NothingReady
  BY <1>2 DEF NothingReady, AliveOnCpu
<1>3. ASSUME NEW p \in Procs, Step(p)  PROVE Final
  BY <1>3, StepKeepsTheDead DEF AliveOnCpu
<1>4. ASSUME NEW p \in Procs, phase = "run", running = p
      PROVE  /\ AliveOnCpu /\ NeverEndsItself(p) => state[p] = "RUNNING"
             /\ switchReason \in {"quantum", "sleep"} =>
                  state[p] # "SLEEPING" /\ state[p] # "READY"
  BY <1>4 DEF QueueInv, OnCpu, AliveOnCpu
<1>5. ASSUME NEW p \in Procs, SwitchOutQuantum(p)  PROVE Final
  <2>. DEFINE rq == Enqueue(ready, p, priority)
              st == [state EXCEPT ![p] = "READY"]
  <2>1. /\ phase = "run" /\ running = p /\ switchReason = "quantum"
        /\ EndSlice(rq, sleepQueue, st)
    BY <1>5 DEF SwitchOutQuantum
  <2>2. \A r \in Procs : st[r] = IF r = p THEN "READY" ELSE state[r]
    BY <1>0
  <2>. HIDE DEF rq, st
  <2>3. \A r \in Procs : st[r] = "SLEEPING" <=> state[r] = "SLEEPING"
    BY <1>4, <2>1, <2>2
  <2>4. FiledIn(sleepQueue, st, "SLEEPING")
    BY <1>0, <2>3, FiledElsewhere
  <2>5. /\ \A q \in Procs : st[q] = "TERMINATED" => state'[q] = "TERMINATED"
        /\ AliveOnCpu'
    BY <2>1, <2>4, EndSliceKeepsTheDead
  <2>. QED  BY <1>4, <2>1, <2>2, <2>5
<1>6. ASSUME NEW p \in Procs, SwitchOutSleep(p)  PROVE Final
  <2>. DEFINE sq == Append(sleepQueue, p)
              st == [state EXCEPT ![p] = "SLEEPING"]
  <2>1. /\ phase = "run" /\ running = p /\ switchReason = "sleep"
        /\ EndSlice(ready, sq, st)
    BY <1>6 DEF SwitchOutSleep
  <2>2. \A r \in Procs : st[r] = IF r = p THEN "SLEEPING" ELSE state[r]
    BY <1>0
  <2>. HIDE DEF st
  <2>3. \A r \in Procs : st[r] = "SLEEPING" <=> state[r] = "SLEEPING" \/ r = p
    BY <2>2
  <2>4. FiledIn(sq, st, "SLEEPING")
    BY <1>0, <1>4, <2>1, <2>3, FileAppend
  <2>. HIDE DEF sq
  <2>5. /\ \A q \in Procs : st[q] = "TERMINATED" => state'[q] = "TERMINATED"
        /\ AliveOnCpu'
    BY <2>1, <2>4, EndSliceKeepsTheDead
  <2>. QED  BY <1>4, <2>1, <2>2, <2>5
<1>7. CASE SwitchOutBlocked
  <2>1. EndSlice(ready, sleepQueue, state)
    BY <1>7 DEF SwitchOutBlocked
  <2>. QED  BY <1>0, <2>1, EndSliceKeepsTheDead
<1>8. ASSUME NEW p \in Procs, SwitchOutDead(p)  PROVE Final
  <2>1. PICK order \in SetToSeqs({l \in locksHeld[p] : lockWait[l] # << >>}) :
          LET heirs == [n \in DOMAIN order |-> Heir(order[n], priority)]
          IN  EndSlice(EnqueueAll(ready, heirs, priority), sleepQueue,
                       [q \in Procs |-> IF q = p THEN "TERMINATED"
                                        ELSE IF q \in ToSet(heirs) THEN "READY"
                                        ELSE state[q]])
    BY <1>8 DEF SwitchOutDead
  <2>. DEFINE heirs == [n \in DOMAIN order |-> Heir(order[n], priority)]
              rq == EnqueueAll(ready, heirs, priority)
              st == [q \in Procs |-> IF q = p THEN "TERMINATED"
                                     ELSE IF q \in ToSet(heirs) THEN "READY"
                                     ELSE state[q]]
  <2>2. EndSlice(rq, sleepQueue, st)
    BY <2>1
  <2>3. /\ phase = "run" /\ running = p /\ switchReason \in {"exit", "error"}
        /\ locksHeld[p] \in SUBSET Locks
    BY <1>8 DEF SwitchOutDead, TypeOK
  <2>4. ToSet(heirs) = Heirs(locksHeld[p], priority)
    BY <1>0, <2>3, OrderedHeirs
  <2>. HIDE DEF heirs, rq
  <2>5. \A h \in ToSet(heirs) : state[h] = "WAITING_LOCK"
    BY <1>0, <2>3, <2>4, HeirLeaves DEF Heirs, FiledAmong
  <2>6. state[p] # "SLEEPING"
    BY <2>3 DEF QueueInv, OnCpu
  <2>7. /\ \A r \in Procs : st[r] = "SLEEPING" <=> state[r] = "SLEEPING"
        /\ \A r \in Procs : state[r] = "TERMINATED" => st[r] = "TERMINATED"
    BY <2>5, <2>6
  <2>. HIDE DEF st
  <2>8. FiledIn(sleepQueue, st, "SLEEPING")
    BY <1>0, <2>7, FiledElsewhere
  <2>9. /\ \A q \in Procs : st[q] = "TERMINATED" => state'[q] = "TERMINATED"
        /\ AliveOnCpu'
    BY <2>2, <2>8, EndSliceKeepsTheDead
  <2>. QED  BY <2>7, <2>9
<1>9. CASE UNCHANGED vars
  BY <1>9 DEF vars, loopVars, AliveOnCpu
<1>. QED
  BY <1>1, <1>2, <1>3, <1>5, <1>6, <1>7, <1>8, <1>9 DEF Next, SwitchOut, Halted

(* Whatever queue a process was in, slept in or was running from, once it is *)
(* TERMINATED no hand-over, wake-up or switch makes it anything else, as     *)
(* long as no program names itself in TERMINATEPROCESS (the run              *)
(* self_terminate shows that one that does so comes back).                   *)
THEOREM TheTerminatedStayTerminated ==
  ASSUME \A p \in Procs : NeverEndsItself(p)
  PROVE  Spec => TerminatedIsFinal
<1>1. Init => AliveOnCpu
  BY DEF Init, AliveOnCpu
<1>2. TypeOK /\ QueueInv /\ AliveOnCpu /\ [Next]_vars => AliveOnCpu'
  BY TheDeadStayDead
<1>3. TypeOK /\ QueueInv /\ AliveOnCpu /\ [Next]_vars =>
        [\A p \in Procs : state[p] = "TERMINATED" => state'[p] = "TERMINATED"]_vars
  BY TheDeadStayDead
<1>. QED
  BY <1>1, <1>2, <1>3, QueuesStayFiled, TypeCorrect, PTL DEF Spec, TerminatedIsFinal

-----------------------------------------------------------------------------
(***************************************************************************)
(* The run loop stops when the users have ended                            *)
(***************************************************************************)

Alive == {p \in Procs : state[p] # "TERMINATED"}

(* Between two slices the queues hold exactly the processes that are alive. *)
LEMMA QueuedAreAlive == TypeOK /\ QueueInv /\ running = None => Queued = Alive
<1>. SUFFICES ASSUME TypeOK, QueueInv, running = None
              PROVE  Queued = Alive
  OBVIOUS
<1>1. /\ \A p \in ToSet(ready) : p \in Procs
      /\ \A p \in ToSet(sleepQueue) : p \in Procs
      /\ \A l \in Locks : \A p \in ToSet(lockWait[l]) : p \in Procs
      /\ \A e \in Events : \A p \in ToSet(eventWait[e]) : p \in Procs
  BY MembersAreProcs DEF TypeOK
<1>2. \A p \in Procs : state[p] \in States /\ state[p] # "RUNNING"
  BY ProcsAssumption DEF TypeOK, QueueInv, OnCpu
<1>3. \A p \in Procs : p \in Queued <=> state[p] # "TERMINATED"
  <2>1. \A p \in Procs : p \in Queued
          <=> \/ p \in ToSet(ready) \/ p \in ToSet(sleepQueue)
              \/ \E l \in Locks : p \in ToSet(lockWait[l])
              \/ \E e \in Events : p \in ToSet(eventWait[e])
    BY DEF Queued
  <2>2. \A p \in Procs : p \in Queued
          <=> state[p] \in {"READY", "SLEEPING", "WAITING_LOCK", "WAITING_EVENT"}
    BY <2>1 DEF QueueInv, Filed, FiledIn, FiledAmong
  <2>. QED  BY <1>2, <2>2 DEF States
<1>4. \A p \in Queued : p \in Procs
  BY <1>1 DEF Queued
<1>. QED
  BY <1>3, <1>4 DEF Alive

(* So _only_idle_remains stops the loop exactly when no user is alive. *)
LEMMA EndSliceStops ==
  ASSUME TypeOK', QueueInv', NEW rq, NEW sq, NEW st, EndSlice(rq, sq, st)
  PROVE  StopsWhenUsersEnd'
<1>1. /\ running' = None
      /\ phase' = IF Queued' \subseteq {Idle} THEN "stopped" ELSE "pick"
  BY DEF EndSlice
<1>2. (TypeOK /\ QueueInv /\ running = None => Queued = Alive)'
  BY QueuedAreAlive, PTL
<1>3. Queued' = Alive'
  BY <1>1, <1>2
<1>. QED
  BY <1>1, <1>3 DEF Alive, StopsWhenUsersEnd, RunsUntilUsersEnd, Users

(* The idle process never gives up the CPU for anything but its quantum.   *)
IdleRunsOn ==
  /\ state[Idle] \in {"READY", "RUNNING"}
  /\ phase = "run" /\ running = Idle => switchReason \in {"none", "quantum"}

(* What it takes of the programs: idle.txt does not exit, fault, sleep or   *)
(* wait, and nobody terminates it.                                          *)
IdleNeverLeaves ==
  /\ Idle \in Procs
  /\ \A i \in Program[Idle] : i.op \notin {"exit", "fault", "sleep", "acquire", "wait"}

NobodyEndsIdle ==
  \A p \in Procs : \A i \in Program[p] : i.op = "terminate" => i.arg # Idle

IdleKeepsRunning == IdleNeverLeaves /\ NobodyEndsIdle

LEMMA StepKeepsIdle ==
  ASSUME IdleNeverLeaves, NobodyEndsIdle \/ state'[Idle] # "TERMINATED",
         TypeOK, QueueInv, IdleRunsOn, NEW p \in Procs, Step(p)
  PROVE  IdleRunsOn' /\ phase' \in {"run", "crashed"}
<1>1. PICK i \in Program[p] :
        \/ Compute(p, i) \/ SetPriority(p, i) \/ Sleep(p, i)
        \/ Leave(p, i) \/ Crash(p, i)
        \/ AcquireAvailable(p, i) \/ AcquireBusy(p, i)
        \/ Release(p, i) \/ ReleaseNotOwner(p, i)
        \/ Signal(p, i) \/ WaitSignaled(p, i) \/ WaitBlock(p, i)
        \/ Terminate(p, i) \/ TerminateNothing(p, i)
  BY DEF Step
<1>2. phase = "run" /\ running = p /\ switchReason = "none"
  BY <1>1 DEF Fetch, Compute, SetPriority, Sleep, Leave, Crash, AcquireAvailable,
              AcquireBusy, Release, ReleaseNotOwner, Signal, WaitSignaled, WaitBlock,
              Terminate, TerminateNothing
<1>3. /\ state \in [Procs -> States] /\ priority \in [Procs -> Int]
      /\ Idle \in Procs /\ None \notin Procs
      /\ lockWait \in [Locks -> Seq(Procs)] /\ eventWait \in [Events -> Seq(Procs)]
      /\ FiledAmong(lockWait, Locks, state, "WAITING_LOCK")
      /\ FiledAmong(eventWait, Events, state, "WAITING_EVENT")
  BY PriorityIsInt, ProcsAssumption DEF TypeOK, QueueInv, Filed, IdleNeverLeaves
<1>4. ASSUME NEW reason \in {"none", "sleep"}, Retire(p, reason), p = Idle => reason = "none"
      PROVE  /\ phase' = "run"
             /\ phase' = "run" /\ running' = Idle => switchReason' \in {"none", "quantum"}
  BY <1>2, <1>4 DEF Retire
<1>5. CASE Compute(p, i) \/ SetPriority(p, i) \/ ReleaseNotOwner(p, i)
           \/ TerminateNothing(p, i) \/ AcquireAvailable(p, i) \/ WaitSignaled(p, i)
  <2>1. UNCHANGED state /\ Retire(p, "none")
    BY <1>5 DEF Compute, SetPriority, ReleaseNotOwner, TerminateNothing,
                AcquireAvailable, WaitSignaled
  <2>. QED  BY <1>4, <2>1 DEF IdleRunsOn
<1>6. CASE Sleep(p, i)
  <2>1. UNCHANGED state /\ Retire(p, "sleep") /\ p # Idle
    BY <1>6 DEF Sleep, IdleNeverLeaves
  <2>. QED  BY <1>4, <2>1 DEF IdleRunsOn
<1>7. CASE Leave(p, i)
  <2>1. p # Idle /\ UNCHANGED <<state, phase, running>>
    BY <1>7 DEF Leave, IdleNeverLeaves
  <2>. QED  BY <1>2, <2>1 DEF IdleRunsOn
<1>8. CASE Crash(p, i)
  BY <1>8 DEF Crash, IdleRunsOn
<1>9. CASE AcquireBusy(p, i) \/ WaitBlock(p, i)
  <2>1. /\ \/ state' = [state EXCEPT ![p] = "WAITING_LOCK"]
           \/ state' = [state EXCEPT ![p] = "WAITING_EVENT"]
        /\ p # Idle
    BY <1>9 DEF AcquireBusy, WaitBlock, IdleNeverLeaves
  <2>2. running' = None /\ UNCHANGED phase
    BY <1>9 DEF AcquireBusy, WaitBlock, Block
  <2>3. state'[Idle] = state[Idle]
    BY <1>3, <2>1
  <2>. QED  BY <1>2, <1>3, <2>2, <2>3 DEF IdleRunsOn
<1>10. CASE Release(p, i)
  <2>. DEFINE h == Heir(i.arg, priority')
  <2>1. /\ i.arg \in Locks /\ Retire(p, "none")
        /\ IF lockWait[i.arg] = << >> THEN UNCHANGED state
           ELSE state' = [state EXCEPT ![h] = "READY"]
    BY <1>10 DEF Release
  <2>. HIDE DEF h
  <2>2. state'[Idle] \in {state[Idle], "READY"}
    BY <1>3, <2>1
  <2>. QED  BY <1>4, <2>1, <2>2 DEF IdleRunsOn
<1>11. CASE Signal(p, i)
  <2>. DEFINE h == Head(ByPriority(eventWait[i.arg], priority))
  <2>1. /\ i.arg \in Events /\ Retire(p, "none")
        /\ IF eventWait[i.arg] = << >> THEN UNCHANGED state
           ELSE state' = [state EXCEPT ![h] = "READY"]
    BY <1>11 DEF Signal
  <2>. HIDE DEF h
  <2>2. state'[Idle] \in {state[Idle], "READY"}
    BY <1>3, <2>1
  <2>. QED  BY <1>4, <2>1, <2>2 DEF IdleRunsOn
<1>12. CASE Terminate(p, i)
  <2>1. /\ i.op = "terminate"
        /\ state' = [state EXCEPT ![i.arg] = "TERMINATED"]
        /\ Retire(p, "none")
    BY <1>12 DEF Terminate
  <2>2. i.arg # Idle
    BY <1>3, <2>1 DEF NobodyEndsIdle
  <2>3. state'[Idle] = state[Idle]
    BY <1>3, <2>1, <2>2
  <2>. QED  BY <1>4, <2>1, <2>3 DEF IdleRunsOn
<1>. QED
  BY <1>1, <1>5, <1>6, <1>7, <1>8, <1>9, <1>10, <1>11, <1>12

LEMMA NextKeepsIdle ==
  ASSUME IdleNeverLeaves, NobodyEndsIdle \/ state'[Idle] # "TERMINATED",
         TypeOK, QueueInv, IdleRunsOn, TypeOK', QueueInv', [Next]_vars
  PROVE  /\ IdleRunsOn'
         /\ StopsWhenUsersEnd => StopsWhenUsersEnd'
         /\ RunsUntilUsersEnd => RunsUntilUsersEnd'
<1>. DEFINE Kept == /\ IdleRunsOn'
                    /\ StopsWhenUsersEnd => StopsWhenUsersEnd'
                    /\ RunsUntilUsersEnd => RunsUntilUsersEnd'
<1>0. state \in [Procs -> States] /\ ready \in Seq(Procs) /\ Idle \in Procs
  BY DEF TypeOK, IdleNeverLeaves
<1>1. ASSUME NEW rq, NEW sq, NEW st, EndSlice(rq, sq, st), st[Idle] \in {"READY", "RUNNING"}
      PROVE  Kept
  <2>1. state'[Idle] \in {st[Idle], "READY"} /\ phase' \in {"pick", "stopped"}
    BY <1>0, <1>1 DEF EndSlice
  <2>. QED  BY <1>1, <2>1, EndSliceStops DEF IdleRunsOn, StopsWhenUsersEnd
<1>2. ASSUME phase' \in {"run", "crashed"}
      PROVE  StopsWhenUsersEnd' /\ RunsUntilUsersEnd'
  BY <1>2 DEF StopsWhenUsersEnd, RunsUntilUsersEnd
<1>3. CASE Dispatch
  <2>. DEFINE h == Head(ready)
  <2>1. /\ phase' = "run" /\ phase = "pick"
        /\ state' = [state EXCEPT ![h] = "RUNNING"] /\ UNCHANGED switchReason
    BY <1>3 DEF Dispatch
  <2>. HIDE DEF h
  <2>2. state'[Idle] \in {state[Idle], "RUNNING"} /\ switchReason = "none"
    BY <1>0, <2>1 DEF QueueInv, OnCpu
  <2>. QED  BY <1>2, <2>1, <2>2 DEF IdleRunsOn
<1>4. CASE NothingReady
  <2>1. phase = "pick" /\ ready = << >>
    BY <1>4 DEF NothingReady
  <2>2. state[Idle] = "READY"
    BY <1>0, <2>1, ProcsAssumption DEF IdleRunsOn, QueueInv, OnCpu
  <2>3. Idle \in ToSet(ready)
    BY <1>0, <2>2 DEF QueueInv, Filed, FiledIn
  <2>. QED  BY <2>1, <2>3 DEF ToSet
<1>5. ASSUME NEW p \in Procs, Step(p)  PROVE Kept
  BY <1>2, <1>5, StepKeepsIdle
<1>6. ASSUME NEW p \in Procs, SwitchOutQuantum(p)  PROVE Kept
  <2>. DEFINE rq == Enqueue(ready, p, priority)
              st == [state EXCEPT ![p] = "READY"]
  <2>1. EndSlice(rq, sleepQueue, st)
    BY <1>6 DEF SwitchOutQuantum
  <2>2. st[Idle] \in {"READY", "RUNNING"}
    BY <1>0 DEF IdleRunsOn
  <2>. HIDE DEF rq, st
  <2>. QED  BY <1>1, <2>1, <2>2
<1>7. ASSUME NEW p \in Procs, SwitchOutSleep(p)  PROVE Kept
  <2>. DEFINE sq == Append(sleepQueue, p)
              st == [state EXCEPT ![p] = "SLEEPING"]
  <2>1. /\ phase = "run" /\ running = p /\ switchReason = "sleep"
        /\ EndSlice(ready, sq, st)
    BY <1>7 DEF SwitchOutSleep
  <2>2. p # Idle
    BY <2>1 DEF IdleRunsOn
  <2>3. st[Idle] \in {"READY", "RUNNING"}
    BY <1>0, <2>2 DEF IdleRunsOn
  <2>. HIDE DEF sq, st
  <2>. QED  BY <1>1, <2>1, <2>3
<1>8. CASE SwitchOutBlocked
  <2>1. EndSlice(ready, sleepQueue, state)
    BY <1>8 DEF SwitchOutBlocked
  <2>. QED  BY <1>1, <2>1 DEF IdleRunsOn
<1>9. ASSUME NEW p \in Procs, SwitchOutDead(p)  PROVE Kept
  <2>1. PICK order \in SetToSeqs({l \in locksHeld[p] : lockWait[l] # << >>}) :
          LET heirs == [n \in DOMAIN order |-> Heir(order[n], priority)]
          IN  EndSlice(EnqueueAll(ready, heirs, priority), sleepQueue,
                       [q \in Procs |-> IF q = p THEN "TERMINATED"
                                        ELSE IF q \in ToSet(heirs) THEN "READY"
                                        ELSE state[q]])
    BY <1>9 DEF SwitchOutDead
  <2>. DEFINE heirs == [n \in DOMAIN order |-> Heir(order[n], priority)]
              rq == EnqueueAll(ready, heirs, priority)
              st == [q \in Procs |-> IF q = p THEN "TERMINATED"
                                     ELSE IF q \in ToSet(heirs) THEN "READY"
                                     ELSE state[q]]
  <2>2. EndSlice(rq, sleepQueue, st)
    BY <2>1
  <2>3. phase = "run" /\ running = p /\ switchReason \in {"exit", "error"}
    BY <1>9 DEF SwitchOutDead
  <2>4. p # Idle
    BY <2>3 DEF IdleRunsOn
  <2>. HIDE DEF heirs, rq
  <2>5. st[Idle] \in {"READY", "RUNNING"}
    BY <1>0, <2>4 DEF IdleRunsOn
  <2>. HIDE DEF st
  <2>. QED  BY <1>1, <2>2, <2>5
<1>10. CASE UNCHANGED vars
  BY <1>10 DEF vars, loopVars, IdleRunsOn, StopsWhenUsersEnd, RunsUntilUsersEnd
<1>. QED
  BY <1>3, <1>4, <1>5, <1>6, <1>7, <1>8, <1>9, <1>10 DEF Next, SwitchOut, Halted

(* run() ends exactly when every user process has terminated, whatever the  *)
(* users do to each other: no user is left in a queue when it returns, and  *)
(* it never picks a process when there is none to serve.  It takes an idle  *)
(* process that stays: without one the loop ends as soon as all users wait. *)
THEOREM TheLoopStopsWithTheUsers ==
  ASSUME IdleKeepsRunning, Users # {}
  PROVE  Spec => []StopsWhenUsersEnd
<1>1. Init => IdleRunsOn /\ StopsWhenUsersEnd
  BY DEF Init, IdleRunsOn, StopsWhenUsersEnd, RunsUntilUsersEnd, Users,
         IdleKeepsRunning, IdleNeverLeaves
<1>2. TypeOK /\ QueueInv /\ IdleRunsOn /\ StopsWhenUsersEnd
        /\ [Next]_vars /\ TypeOK' /\ QueueInv' => IdleRunsOn' /\ StopsWhenUsersEnd'
  BY NextKeepsIdle DEF IdleKeepsRunning
<1>. QED
  BY <1>1, <1>2, QueuesStayFiled, TypeCorrect, PTL DEF Spec

=============================================================================
