------------------------------- MODULE OwnCpu -------------------------------
(***************************************************************************)
(* What the context switch promises programs: every process has a CPU of   *)
(* its own.  There is no saving and restoring; a process executes one      *)
(* instruction at a time on its own registers, flags and memory, and which *)
(* process does so next is anybody's choice.                               *)
(***************************************************************************)
CONSTANTS
  Procs,           \* the processes
  Programs,        \* functions on Procs: the programs that may have been loaded together
  Answers,         \* what the kernel, or the user, may answer
  StartsAs(_, _),  \* the state a process starts in from its program
  Works(_),        \* in this state an instruction is fetched and does not fail
  After(_, _)      \* the state it leaves when it is answered so

VARIABLES
  source,    \* the program each process was loaded from
  machine    \* registers, flags and memory of each process

Init ==
  /\ source \in Programs
  /\ machine = [p \in Procs |-> StartsAs(p, source[p])]

Step(p) ==
  /\ Works(machine[p])
  /\ \E v \in Answers : machine' = [machine EXCEPT ![p] = After(machine[p], v)]
  /\ UNCHANGED source

Next == \E p \in Procs : Step(p)

Spec == Init /\ [][Next]_<<source, machine>>

=============================================================================
