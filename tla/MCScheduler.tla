---------------------------- MODULE MCScheduler ----------------------------
(***************************************************************************)
(* Instances of Scheduler for TLC: an idle process and two or three users. *)
(* A configuration chooses the instructions of each program; Quantum is 2  *)
(* (1 for idle) so that slices end by quantum and by every other reason.   *)
(***************************************************************************)
EXTENDS Scheduler

CONSTANTS idle, u1, u2, u3, l1, l2, e1, unknown

Op(name, args) == {[op |-> name, arg |-> a] : a \in args}

Plain == Op("compute", {None})
Leaving == Op("exit", {None}) \cup Op("fault", {None})
LockOps(ls) == Op("acquire", ls) \cup Op("release", ls)
EventOps == Op("signal", {e1}) \cup Op("wait", {e1})

IdleProgram == Plain

AllOps ==
  [p \in {idle, u1, u2} |->
     IF p = idle THEN IdleProgram
     ELSE Plain \cup Leaving \cup LockOps({l1, l2}) \cup EventOps
            \cup Op("sleep", {0, 2}) \cup Op("setpriority", {0, 1, 2, 4})
            \cup Op("acquire", {unknown}) \cup Op("raise", {None})
            \cup Op("terminate", {u1, u2, unknown} \ {p})]

Two == {idle, u1, u2}
TwoLoaded == <<idle, u1, u2>>
TwoPriorities == (idle :> 0) @@ (u1 :> 1) @@ (u2 :> 2)

(* Three users of different priorities competing for two locks; u1 may      *)
(* terminate the idle process.                                              *)
Three == {idle, u1, u2, u3}
ThreeLoaded == <<idle, u1, u2, u3>>
ThreePriorities == (idle :> 0) @@ (u1 :> 1) @@ (u2 :> 2) @@ (u3 :> 3)

Contending ==
  [p \in Three |->
     IF p = idle THEN IdleProgram
     ELSE Plain \cup Leaving \cup LockOps(Locks) \cup EventOps
            \cup Op("sleep", {1})
            \cup (IF p = u1 THEN Op("terminate", {idle}) ELSE {})
            \cup (IF p = u3 THEN Op("terminate", {u1, u2}) ELSE {})]

(* Three users of one priority, so that no program can starve another. *)
EqualPriorities == (idle :> 0) @@ (u1 :> 1) @@ (u2 :> 1) @@ (u3 :> 1)

Sharing ==
  [p \in Three |->
     IF p = idle THEN IdleProgram
     ELSE Plain \cup Leaving \cup LockOps({l1}) \cup Op("sleep", {1, 3})]

(* Programs for the runs that show where the code departs from its own text. *)

(* u1 takes a lock, u2 terminates u1. *)
KillsHolder ==
  (idle :> IdleProgram) @@ (u1 :> Plain \cup LockOps({l1}))
    @@ (u2 :> Op("sleep", {2}) \cup LockOps({l1}) \cup Op("terminate", {u1}))

(* u1 terminates itself. *)
KillsSelf ==
  (idle :> IdleProgram) @@ (u1 :> Plain \cup Op("terminate", {u1}))
    @@ (u2 :> Plain \cup Op("exit", {None}))

(* u2 waits for an event that u1 signals. *)
WaitsForEvent ==
  (idle :> IdleProgram) @@ (u1 :> Plain \cup Op("signal", {e1}))
    @@ (u2 :> Plain \cup Op("wait", {e1}))

=============================================================================
