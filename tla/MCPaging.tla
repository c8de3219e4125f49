------------------------------ MODULE MCPaging ------------------------------
(***************************************************************************)
(* Instances of Paging for TLC: memories of two or three private frames,   *)
(* fewer than the processes have pages, so that most accesses evict a page *)
(* and every allocation may evict several.                                 *)
(***************************************************************************)
EXTENDS Paging

CONSTANTS p1, p2, p3, zero, code

Code == 0 :> code

(* Two private frames.  p1 has its code and nothing else, p2 its code and  *)
(* its stack and may attach the region; p3 never fits, but evicts every    *)
(* page in trying.                                                         *)
SmallSizes == (p1 :> 1) @@ (p2 :> 2) @@ (p3 :> 3)

SmallBounds == (p1 :> 0) @@ (p2 :> 2) @@ (p3 :> 2)

Images == (p1 :> Code) @@ (p2 :> Code) @@ (p3 :> Code)

(* Five pages, too few for three regions of two: one region fits and three *)
(* frames are private.  p1 has its code and its stack and grows its heap,  *)
(* p2 its code; both may attach the region, and p3 never fits.             *)
GrowingSizes == (p1 :> 2) @@ (p2 :> 1) @@ (p3 :> 4)

GrowingBounds == (p1 :> 3) @@ (p2 :> 2) @@ (p3 :> 3)

=============================================================================
