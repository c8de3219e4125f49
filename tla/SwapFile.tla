------------------------------ MODULE SwapFile ------------------------------
(***************************************************************************)
(* The swap file (SwapManager of page_info.py) as the state it keeps and   *)
(* the new states its operations give.  A key is a pair of a process and a *)
(* virtual page; an offset is counted in pages, so a page is one slot of   *)
(* the file.  Nobody else writes the file, and reading it cannot fail.     *)
(***************************************************************************)
EXTENDS Integers, Sequences, SequencesExt, Functions

(* f with what g gives in its place, as an update of a dict leaves it. *)
Over(g, f) == [x \in DOMAIN f \cup DOMAIN g |-> IF x \in DOMAIN g THEN g[x] ELSE f[x]]

EmptySwap ==
  [index |-> << >>, freeSlots |-> << >>, nextSlot |-> 0, file |-> << >>]

HasPage(s, key) == key \in DOMAIN s.index

ReadPage(s, key) == s.file[s.index[key]]

SlotFor_FreeStays(s, key) ==
  IF HasPage(s, key) THEN s.index[key]
  ELSE IF s.freeSlots # << >> THEN Head(s.freeSlots) ELSE s.nextSlot

(* The slot write_page gives a page: its own, the last one freed, or the   *)
(* next one past the end of the file.                                      *)
SlotFor(s, key) ==
  IF HasPage(s, key) THEN s.index[key]
  ELSE IF s.freeSlots # << >> THEN Last(s.freeSlots) ELSE s.nextSlot

WritePage(s, key, data) ==
  LET slot == SlotFor(s, key)
  IN  [index     |-> Over([k \in {key} |-> slot], s.index),
       freeSlots |-> IF HasPage(s, key) \/ s.freeSlots = << >>
                     THEN s.freeSlots ELSE Front(s.freeSlots),
       nextSlot  |-> IF slot = s.nextSlot THEN slot + 1 ELSE s.nextSlot,
       file      |-> Over([n \in {slot} |-> data], s.file)]

KeysOf(s, pid) == {key \in DOMAIN s.index : key[1] = pid}

RemoveAllFor_KeepsIndex(s, pid, keys) ==
  [s EXCEPT !.freeSlots = @ \o [i \in DOMAIN keys |-> s.index[keys[i]]]]

(* remove_all_for_process frees the slots of a process in the order the    *)
(* pages were first written, which is not modelled: keys is any order.     *)
(* What a free slot holds is not kept: it is written before it is read.    *)
RemoveAllFor(s, pid, keys) ==
  LET slots == [i \in DOMAIN keys |-> s.index[keys[i]]]
  IN  [s EXCEPT !.index = Restrict(@, DOMAIN @ \ KeysOf(s, pid)),
                !.freeSlots = @ \o slots,
                !.file = Restrict(@, DOMAIN @ \ ToSet(slots))]

=============================================================================
