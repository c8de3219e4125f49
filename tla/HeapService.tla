---------------------------- MODULE HeapService ----------------------------
(***************************************************************************)
(* What a process's heap promises it: the addresses it is given were given *)
(* to no one since they were last freed, and lie in the heap, which only   *)
(* grows.                                                                  *)
(***************************************************************************)
EXTENDS Integers

CONSTANTS
  HeapStart, InitialSize,
  MaxEnd,     \* bound on the end of the heap
  Sizes       \* the sizes a program asks for

VARIABLES
  allocated,  \* the allocations in use, as pairs of an address and a size
  limit       \* the end of the heap

heapServiceVars == <<allocated, limit>>

Init ==
  /\ allocated = {}
  /\ limit = HeapStart + InitialSize

Apart(a, m, b, n) == a + m <= b \/ b + n <= a

Allocate(a, n) ==
  /\ \A x \in allocated : Apart(a, n, x[1], x[2])
  /\ allocated' = allocated \cup {<<a, n>>}
  /\ limit' \in limit..MaxEnd
  /\ HeapStart <= a /\ a + n <= limit'

Refuse == limit' \in limit..MaxEnd /\ UNCHANGED allocated

Release(x) == allocated' = allocated \ {x} /\ UNCHANGED limit

Next ==
  \/ \E a \in HeapStart..MaxEnd, n \in Sizes : Allocate(a, n)
  \/ Refuse
  \/ \E x \in allocated : Release(x)

Spec == Init /\ [][Next]_heapServiceVars

=============================================================================
