---------------------------- MODULE LockService ----------------------------
(***************************************************************************)
(* What the kernel's locks promise the processes that use them, without    *)
(* queues, priorities or scheduling: a lock has one owner; a process that  *)
(* finds it taken waits; a lock given up goes to one of its waiters, never *)
(* to anyone else, and is free only when nobody waits for it.              *)
(***************************************************************************)
EXTENDS FiniteSets

CONSTANTS Procs, Locks, None

VARIABLES
  owner,   \* the owner of each lock, or None
  waiting  \* the processes waiting for each lock

lockServiceVars == <<owner, waiting>>

Init ==
  /\ owner = [l \in Locks |-> None]
  /\ waiting = [l \in Locks |-> {}]

Take(p, l) ==
  /\ owner[l] = None
  /\ waiting[l] = {}
  /\ owner' = [owner EXCEPT ![l] = p]
  /\ UNCHANGED waiting

Join(p, l) ==
  /\ owner[l] \notin {None, p}
  /\ \A k \in Locks : p \notin waiting[k]
  /\ waiting' = [waiting EXCEPT ![l] = @ \cup {p}]
  /\ UNCHANGED owner

(* p gives up the locks of S; heir names the waiter that gets each of them. *)
GiveUp(p, S, heir) ==
  /\ \A l \in S : owner[l] = p
  /\ \A l \in S : IF waiting[l] = {} THEN heir[l] = None
                  ELSE heir[l] \in waiting[l]
  /\ owner' = [l \in Locks |-> IF l \in S THEN heir[l] ELSE owner[l]]
  /\ waiting' = [l \in Locks |-> IF l \in S THEN waiting[l] \ {heir[l]}
                                 ELSE waiting[l]]

(* A waiting process is terminated. *)
Withdraw(p) ==
  /\ waiting' = [l \in Locks |-> waiting[l] \ {p}]
  /\ UNCHANGED owner

Next ==
  \E p \in Procs :
    \/ \E l \in Locks : Take(p, l) \/ Join(p, l)
    \/ \E S \in SUBSET Locks : \E heir \in [S -> Procs \cup {None}] :
         GiveUp(p, S, heir)
    \/ Withdraw(p)

Spec == Init /\ [][Next]_lockServiceVars

=============================================================================
