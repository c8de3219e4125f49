--------------------------- MODULE VirtualMemory ---------------------------
(***************************************************************************)
(* What the physical memory manager promises programs, without frames,     *)
(* evictions or a swap file: every process has pages of its own, which     *)
(* hold what it last stored in them, and may attach shared pages, which    *)
(* hold what anyone last stored in them.                                   *)
(*                                                                         *)
(* These are the operations and what each does; which one is performed     *)
(* when, on which page and with which content, is the client's choice.  An *)
(* implementation has to be tied to them operation by operation, with the  *)
(* arguments its own operations are called with.                           *)
(***************************************************************************)
EXTENDS Integers

CONSTANTS
  Pids,
  Data,         \* what a page may hold
  SharedPages,  \* the pages of the shared regions
  Size,         \* [Pids -> Nat]: the pages a process is created with
  Image         \* [Pids -> a function from the pages that are filled at
                \* creation to their content]

VARIABLES
  private,      \* the content of each process's own pages
  attached,     \* which of a process's pages are which shared pages
  shared        \* the content of the shared pages

virtualVars == <<private, attached, shared>>

Nothing == [vp \in {} |-> vp]

Init ==
  /\ private = [p \in Pids |-> Nothing]
  /\ attached = [p \in Pids |-> Nothing]
  /\ shared \in [SharedPages -> Data]

(* Pages that are not filled at creation hold anything.                    *)
Create(p) ==
  /\ private[p] = Nothing
  /\ \E content \in [0..(Size[p] - 1) -> Data] :
       /\ \A vp \in DOMAIN Image[p] : content[vp] = Image[p][vp]
       /\ private' = [private EXCEPT ![p] = content]
  /\ UNCHANGED <<attached, shared>>

(* p reads page vp and gets d, which is what was last stored there.        *)
Fetch(p, vp, d) ==
  /\ \/ vp \in DOMAIN private[p] /\ d = private[p][vp]
     \/ vp \in DOMAIN attached[p] /\ d = shared[attached[p][vp]]
  /\ UNCHANGED virtualVars

(* p stores d in page vp, and nothing else changes.                        *)
Store(p, vp, d) ==
  \/ /\ vp \in DOMAIN private[p]
     /\ private' = [private EXCEPT ![p][vp] = d]
     /\ UNCHANGED <<attached, shared>>
  \/ /\ vp \in DOMAIN attached[p]
     /\ shared' = [shared EXCEPT ![attached[p][vp]] = d]
     /\ UNCHANGED <<private, attached>>

(* The pages of share, none of which p has, become the shared pages it     *)
(* gives.                                                                  *)
Attach(p, share) ==
  /\ private[p] # Nothing
  /\ share \in [DOMAIN share -> SharedPages]
  /\ DOMAIN share \cap (DOMAIN private[p] \cup DOMAIN attached[p]) = {}
  /\ attached' = [attached EXCEPT ![p] =
                    [vp \in DOMAIN share \cup DOMAIN @ |->
                       IF vp \in DOMAIN share THEN share[vp] ELSE @[vp]]]
  /\ UNCHANGED <<private, shared>>

Destroy(p) ==
  /\ private[p] # Nothing
  /\ private' = [private EXCEPT ![p] = Nothing]
  /\ attached' = [attached EXCEPT ![p] = Nothing]
  /\ UNCHANGED shared

=============================================================================
