------------------------------ MODULE MCKernel ------------------------------
(***************************************************************************)
(* An instance of Kernel for TLC: the idle process and three users of a    *)
(* page each, on two private frames, so that there are never frames for    *)
(* all, and a shared region that the first may attach.  There are two      *)
(* priorities to give, so the last two users have the same.                *)
(***************************************************************************)
EXTENDS Kernel, TLC

CONSTANTS idle, u1, u2, u3, l1, e1, zero, code

Op(name, args) == {[op |-> name, arg |-> a] : a \in args}

ThreeFiles == <<u1, u2, u3>>

Programs ==
  (idle :> Op("compute", {None}))
    @@ (u1 :> Op("compute", {None}) \cup Op("acquire", {l1}) \cup Op("exit", {None})
                \cup Op("sleep", {2}) \cup Op("terminate", {idle, u1}))
    @@ (u2 :> Op("acquire", {l1}) \cup Op("fault", {None})
                \cup Op("terminate", {u1}))
    @@ (u3 :> Op("exit", {None}))

Sizes == (idle :> 1) @@ (u1 :> 1) @@ (u2 :> 1) @@ (u3 :> 1)
Bounds == (idle :> 0) @@ (u1 :> 1) @@ (u2 :> 0) @@ (u3 :> 0)
Images == [p \in {idle, u1, u2, u3} |-> 0 :> code]

=============================================================================
