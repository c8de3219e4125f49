--------------------------- MODULE PriorityQueue ---------------------------
(***************************************************************************)
(* The list operations scheduler.py performs on its queues.  A queue is a  *)
(* sequence of processes, prio a function that gives each its priority.    *)
(***************************************************************************)
EXTENDS Integers, Sequences, FiniteSets, SequencesExt

Enqueue_Append(q, p, prio) == Append(q, p)

Enqueue_BeforeEquals(q, p, prio) ==
  LET notStronger == {i \in DOMAIN q : prio[q[i]] <= prio[p]}
  IN  IF notStronger = {} THEN Append(q, p) ELSE InsertAt(q, Min(notStronger), p)

(* _enqueue_ready: insert before the first process of lower priority. *)
Enqueue(q, p, prio) ==
  LET weaker == {i \in DOMAIN q : prio[q[i]] < prio[p]}
  IN  IF weaker = {} THEN Append(q, p) ELSE InsertAt(q, Min(weaker), p)

(* _enqueue_ready of each process of ps in turn. *)
EnqueueAll(q, ps, prio) ==
  LET after[n \in 0..Len(ps)] ==
        IF n = 0 THEN q ELSE Enqueue(after[n - 1], ps[n], prio)
  IN  after[Len(ps)]

ByPriority_Unstable(q, prio) == EnqueueAll(<< >>, Reverse(q), prio)

(* waiters.sort(key=priority, reverse=True): Python's sort is stable. *)
ByPriority(q, prio) == EnqueueAll(<< >>, q, prio)

Without_Nothing(q, S) == q

(* q without its members in S, as list.remove leaves it (a queue holds no  *)
(* process twice).                                                         *)
Without(q, S) ==
  LET kept[n \in 0..Len(q)] ==
        IF n = 0 THEN << >>
        ELSE IF q[n] \in S THEN kept[n - 1] ELSE Append(kept[n - 1], q[n])
  IN  kept[Len(q)]

(* The members of q that are in S, in the order of q. *)
Only(q, S) == Without(q, ToSet(q) \ S)

InOrder(q, prio) ==
  \A i, j \in DOMAIN q : i < j => prio[q[i]] >= prio[q[j]]

NoRepeat(q) == \A i, j \in DOMAIN q : q[i] = q[j] => i = j

=============================================================================
