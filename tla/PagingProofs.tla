---------------------------- MODULE PagingProofs ----------------------------
(***************************************************************************)
(* What is proved of Paging, for memories, processes and programs of any   *)
(* size: see the theorems, and README.md for how they hang together.       *)
(***************************************************************************)
EXTENDS Paging, PriorityQueueProofs, FiniteSetTheorems

-----------------------------------------------------------------------------
(***************************************************************************)
(* Lists of frames                                                         *)
(***************************************************************************)

LEMMA ConcatMembers ==
  ASSUME NEW S, NEW q \in Seq(S), NEW r \in Seq(S)
  PROVE  /\ q \o r \in Seq(S)
         /\ ToSet(q \o r) = ToSet(q) \cup ToSet(r)
         /\ NoRepeat(q) /\ NoRepeat(r) /\ ToSet(q) \cap ToSet(r) = {} => NoRepeat(q \o r)
<1>. DEFINE t == q \o r
<1>1. /\ Len(q) \in Nat /\ DOMAIN q = 1 .. Len(q)
      /\ Len(r) \in Nat /\ DOMAIN r = 1 .. Len(r)
      /\ t \in Seq(S) /\ Len(t) = Len(q) + Len(r)
      /\ \A i \in 1 .. Len(t) : t[i] = IF i <= Len(q) THEN q[i] ELSE r[i - Len(q)]
  BY ConcatProperties, LenProperties
<1>2. DOMAIN t = 1 .. Len(q) + Len(r)
  BY <1>1, LenProperties
<1>. HIDE DEF t
<1>3. \A i \in 1 .. Len(q) : i \in DOMAIN t /\ t[i] = q[i]
  BY <1>1, <1>2
<1>4. ASSUME NEW i \in 1 .. Len(r) PROVE Len(q) + i \in DOMAIN t /\ t[Len(q) + i] = r[i]
  <2>1. /\ Len(q) + i \in 1 .. Len(q) + Len(r)
        /\ ~ (Len(q) + i <= Len(q)) /\ (Len(q) + i) - Len(q) = i
    BY <1>1
  <2>2. t[Len(q) + i] = r[(Len(q) + i) - Len(q)]
    BY <1>1, <2>1
  <2>. QED
    BY <1>2, <2>1, <2>2
<1>5. ASSUME NEW i \in DOMAIN t
      PROVE  \/ i \in 1 .. Len(q) /\ t[i] = q[i]
             \/ i - Len(q) \in 1 .. Len(r) /\ t[i] = r[i - Len(q)]
  <2>1. i \in 1 .. Len(q) + Len(r) /\ i \in 1 .. Len(t)
    BY <1>1, <1>2, <1>5
  <2>2. t[i] = IF i <= Len(q) THEN q[i] ELSE r[i - Len(q)]
    BY <1>1, <2>1
  <2>3. CASE i <= Len(q)
    BY <1>1, <2>1, <2>2, <2>3
  <2>4. CASE ~ (i <= Len(q))
    BY <1>1, <2>1, <2>2, <2>4
  <2>. QED
    BY <2>3, <2>4
<1>6. ToSet(t) = ToSet(q) \cup ToSet(r)
  <2>1. \A i \in DOMAIN t : t[i] \in ToSet(q) \cup ToSet(r)
    BY <1>1, <1>5 DEF ToSet
  <2>2. \A i \in DOMAIN q : q[i] \in ToSet(t)
    BY <1>1, <1>3 DEF ToSet
  <2>3. \A i \in DOMAIN r : r[i] \in ToSet(t)
    BY <1>1, <1>4 DEF ToSet
  <2>. QED
    BY <2>1, <2>2, <2>3 DEF ToSet
<1>7. ASSUME NoRepeat(q), NoRepeat(r), ToSet(q) \cap ToSet(r) = {} PROVE NoRepeat(t)
  <2>1. SUFFICES ASSUME NEW i \in DOMAIN t, NEW j \in DOMAIN t, t[i] = t[j] PROVE i = j
    BY DEF NoRepeat
  <2>2. \A m \in 1 .. Len(q), n \in 1 .. Len(r) : q[m] # r[n]
    BY <1>1, <1>7 DEF ToSet
  <2>3. \A m, n \in 1 .. Len(q) : q[m] = q[n] => m = n
    BY <1>1, <1>7 DEF NoRepeat
  <2>4. \A m, n \in 1 .. Len(r) : r[m] = r[n] => m = n
    BY <1>1, <1>7 DEF NoRepeat
  <2>5. i - Len(q) = j - Len(q) => i = j
    BY <1>1, <1>2
  <2>. QED
    BY <2>1, <2>2, <2>3, <2>4, <2>5, <1>5
<1>. QED
  BY <1>1, <1>6, <1>7 DEF t

(* What a sequence has at the places m to n.                               *)
Between(q, m, n) == {q[i] : i \in m .. n}

LEMMA SliceMembers ==
  ASSUME NEW S, NEW q \in Seq(S), NEW m \in Nat \ {0}, NEW n \in Nat, n <= Len(q)
  PROVE  /\ SubSeq(q, m, n) \in Seq(S)
         /\ ToSet(SubSeq(q, m, n)) = Between(q, m, n)
         /\ NoRepeat(q) => NoRepeat(SubSeq(q, m, n))
<1>. DEFINE t == SubSeq(q, m, n)
<1>1. Len(q) \in Nat /\ DOMAIN q = 1 .. Len(q) /\ \A i \in m .. n : i \in DOMAIN q /\ q[i] \in S
  BY LenProperties, ElementOfSeq
<1>2. /\ t \in Seq(S)
      /\ Len(t) = IF m <= n THEN n - m + 1 ELSE 0
      /\ \A i \in 1 .. n - m + 1 : t[i] = q[m + i - 1]
  BY <1>1, SubSeqProperties
<1>3. DOMAIN t = 1 .. n - m + 1
  BY <1>1, <1>2, LenProperties
<1>. HIDE DEF t
<1>4. \A i \in DOMAIN t : m + i - 1 \in m .. n /\ t[i] = q[m + i - 1]
  BY <1>2, <1>3
<1>5. ASSUME NEW i \in m .. n PROVE i - m + 1 \in DOMAIN t /\ t[i - m + 1] = q[i]
  <2>1. i - m + 1 \in 1 .. n - m + 1 /\ m + (i - m + 1) - 1 = i
    OBVIOUS
  <2>2. t[i - m + 1] = q[m + (i - m + 1) - 1]
    BY <1>2, <2>1
  <2>. QED
    BY <1>3, <2>1, <2>2
<1>6. ToSet(t) = Between(q, m, n)
  <2>1. \A x \in ToSet(t) : x \in {q[i] : i \in m .. n}
    BY <1>4 DEF ToSet
  <2>2. \A i \in m .. n : q[i] \in ToSet(t)
    BY <1>5 DEF ToSet
  <2>. QED
    BY <2>1, <2>2 DEF Between
<1>7. ASSUME NoRepeat(q) PROVE NoRepeat(t)
  <2>1. SUFFICES ASSUME NEW i \in DOMAIN t, NEW j \in DOMAIN t, t[i] = t[j] PROVE i = j
    BY DEF NoRepeat
  <2>2. m + i - 1 = m + j - 1
    BY <1>1, <1>4, <1>7, <2>1 DEF NoRepeat
  <2>. QED
    BY <1>3, <2>2
<1>. QED
  BY <1>2, <1>6, <1>7 DEF t

(* A finite set in any order.                                              *)
LEMMA OrderMembers ==
  ASSUME NEW S, IsFiniteSet(S), NEW q \in SetToSeqs(S)
  PROVE  q \in Seq(S) /\ ToSet(q) = S /\ NoRepeat(q)
<1>. DEFINE N == Cardinality(S)
            D == 1 .. N
<1>1. N \in Nat
  BY FS_CardinalityType
<1>2. q \in [D -> S] /\ \A i, j \in D : i # j => q[i] # q[j]
  BY DEF SetToSeqs
<1>3. IsFiniteSet(D) /\ Cardinality(D) = N
  BY <1>1, FS_Interval
<1>4. q \in Injection(D, S)
  BY <1>2 DEF Injection, IsInjective
<1>5. q \in Surjection(D, S)
  <2>. HIDE DEF D
  <2>. QED  BY <1>3, <1>4, FS_Injection
<1>6. \A x \in S : \E i \in D : q[i] = x
  BY <1>5 DEF Surjection
<1>7. q \in Seq(S) /\ DOMAIN q = D
  <2>. HIDE DEF N
  <2>. QED  BY <1>1, <1>2
<1>. HIDE DEF D
<1>. QED
  BY <1>2, <1>6, <1>7 DEF ToSet, NoRepeat

-----------------------------------------------------------------------------
(***************************************************************************)
(* The swap file                                                           *)
(***************************************************************************)

Keys == Pids \X Nat

Swaps == [index: UNION {[K -> Nat] : K \in SUBSET Keys}, freeSlots: Seq(Nat),
          nextSlot: Nat, file: UNION {[K -> Data] : K \in SUBSET Nat}]

UsedSlots(s) == {s.index[key] : key \in DOMAIN s.index}

(* SlotsConserved of any swap file; what a slot in use holds is kept, what *)
(* another held is not.                                                    *)
GoodSwap(s) ==
  /\ s \in Swaps
  /\ \A k1, k2 \in DOMAIN s.index : s.index[k1] = s.index[k2] => k1 = k2
  /\ NoRepeat(s.freeSlots)
  /\ UsedSlots(s) \cap ToSet(s.freeSlots) = {}
  /\ UsedSlots(s) \cup ToSet(s.freeSlots) = 0 .. s.nextSlot - 1
  /\ DOMAIN s.file = UsedSlots(s)

LEMMA IndexTypes ==
  ASSUME NEW S, NEW T, NEW f
  PROVE  f \in UNION {[K -> T] : K \in SUBSET S}
           <=> DOMAIN f \subseteq S /\ f \in [DOMAIN f -> T]
OBVIOUS

LEMMA FunctionIn ==
  ASSUME NEW T, NEW f, f = [x \in DOMAIN f |-> f[x]], \A x \in DOMAIN f : f[x] \in T
  PROVE  f \in [DOMAIN f -> T]
OBVIOUS

LEMMA SwapTypes ==
  ASSUME NEW s \in Swaps
  PROVE  /\ DOMAIN s.index \subseteq Keys /\ s.index \in [DOMAIN s.index -> Nat]
         /\ DOMAIN s.file \subseteq Nat /\ s.file \in [DOMAIN s.file -> Data]
         /\ s.freeSlots \in Seq(Nat) /\ s.nextSlot \in Nat
<1>1. /\ s.index \in UNION {[K -> Nat] : K \in SUBSET Keys}
      /\ s.file \in UNION {[K -> Data] : K \in SUBSET Nat}
      /\ s.freeSlots \in Seq(Nat) /\ s.nextSlot \in Nat
  BY DEF Swaps
<1>2. DOMAIN s.index \subseteq Keys /\ s.index \in [DOMAIN s.index -> Nat]
  BY <1>1, IndexTypes
<1>3. DOMAIN s.file \subseteq Nat /\ s.file \in [DOMAIN s.file -> Data]
  BY <1>1, IndexTypes
<1>. QED
  BY <1>1, <1>2, <1>3

LEMMA OverProperties ==
  ASSUME NEW f, NEW g
  PROVE  /\ DOMAIN Over(g, f) = DOMAIN f \cup DOMAIN g
         /\ \A x \in DOMAIN g : Over(g, f)[x] = g[x]
         /\ \A x \in DOMAIN f : x \notin DOMAIN g => Over(g, f)[x] = f[x]
BY DEF Over

LEMMA LastAndFront ==
  ASSUME NEW S, NEW q \in Seq(S), q # << >>
  PROVE  /\ Last(q) \in S /\ Last(q) \in ToSet(q)
         /\ Front(q) \in Seq(S)
         /\ ToSet(q) = ToSet(Front(q)) \cup {Last(q)}
         /\ NoRepeat(q) => NoRepeat(Front(q)) /\ Last(q) \notin ToSet(Front(q))
<1>. DEFINE L == Len(q)
            r == Front(q)
<1>1. /\ L \in Nat \ {0} /\ DOMAIN q = 1 .. L /\ L \in 1 .. L
      /\ \A i \in 1 .. L : q[i] \in S
      /\ L - 1 \in Nat /\ L - 1 \in Int /\ L - 1 <= L
  BY EmptySeq, LenProperties, ElementOfSeq
<1>2. /\ r \in Seq(S) /\ Len(r) = L - 1
      /\ \A i \in 1 .. L - 1 : r[i] = q[i]
  BY <1>1, SubSeqProperties DEF Front
<1>3. DOMAIN r = 1 .. L - 1 /\ Last(q) = q[L]
  BY <1>1, <1>2, LenProperties DEF Last
<1>. HIDE DEF r, L
<1>4. \A i \in 1 .. L : i = L \/ i \in 1 .. L - 1
  BY <1>1
<1>5. ToSet(q) = ToSet(r) \cup {q[L]}
  BY <1>1, <1>2, <1>3, <1>4 DEF ToSet
<1>6. ASSUME NoRepeat(q) PROVE NoRepeat(r) /\ q[L] \notin ToSet(r)
  BY <1>1, <1>2, <1>3, <1>6 DEF ToSet, NoRepeat
<1>. QED
  BY <1>1, <1>2, <1>3, <1>5, <1>6 DEF r

(* write_page keeps the slots in order: the page it writes is there        *)
(* afterwards, and no other page is written over.                          *)
LEMMA WritePageKeeps ==
  ASSUME NEW s, GoodSwap(s), NEW key \in Keys, NEW data \in Data,
         NEW t, t = WritePage(s, key, data)
  PROVE  /\ GoodSwap(t)
         /\ DOMAIN t.index = DOMAIN s.index \cup {key}
         /\ ReadPage(t, key) = data
         /\ \A k \in DOMAIN s.index : k # key => ReadPage(t, k) = ReadPage(s, k)
<1>. DEFINE slot == SlotFor(s, key)
            free == s.freeSlots
<1>0. /\ DOMAIN s.index \subseteq Keys /\ s.index \in [DOMAIN s.index -> Nat]
      /\ DOMAIN s.file \subseteq Nat /\ s.file \in [DOMAIN s.file -> Data]
      /\ free \in Seq(Nat) /\ s.nextSlot \in Nat
  BY SwapTypes DEF GoodSwap
<1>1. \A k \in DOMAIN s.index : /\ s.index[k] \in UsedSlots(s)
                                /\ s.index[k] \in 0 .. s.nextSlot - 1
                                /\ s.index[k] \notin ToSet(free)
  BY DEF UsedSlots, GoodSwap
<1>2. /\ t.index = Over([k \in {key} |-> slot], s.index)
      /\ t.file = Over([n \in {slot} |-> data], s.file)
      /\ t.freeSlots = IF HasPage(s, key) \/ free = << >> THEN free ELSE Front(free)
      /\ t.nextSlot = IF slot = s.nextSlot THEN slot + 1 ELSE s.nextSlot
      /\ t = [index |-> t.index, freeSlots |-> t.freeSlots,
              nextSlot |-> t.nextSlot, file |-> t.file]
  BY DEF WritePage
<1>3. /\ DOMAIN t.index = DOMAIN s.index \cup {key}
      /\ t.index[key] = slot
      /\ \A k \in DOMAIN s.index : k # key => t.index[k] = s.index[k]
      /\ DOMAIN t.file = DOMAIN s.file \cup {slot}
      /\ t.file[slot] = data
      /\ \A n \in DOMAIN s.file : n # slot => t.file[n] = s.file[n]
  <2>. DEFINE g == [k \in {key} |-> slot]
              h == [n \in {slot} |-> data]
  <2>1. DOMAIN g = {key} /\ g[key] = slot /\ DOMAIN h = {slot} /\ h[slot] = data
    OBVIOUS
  <2>2. t.index = Over(g, s.index) /\ t.file = Over(h, s.file)
    BY <1>2
  <2>. HIDE DEF g, h, slot
  <2>3. /\ DOMAIN t.index = DOMAIN s.index \cup {key}
        /\ t.index[key] = slot
        /\ \A k \in DOMAIN s.index : k # key => t.index[k] = s.index[k]
    <3>1. /\ DOMAIN Over(g, s.index) = DOMAIN s.index \cup DOMAIN g
          /\ \A x \in DOMAIN g : Over(g, s.index)[x] = g[x]
          /\ \A x \in DOMAIN s.index : x \notin DOMAIN g => Over(g, s.index)[x] = s.index[x]
      BY OverProperties
    <3>. QED
      BY <2>1, <2>2, <3>1
  <2>4. /\ DOMAIN t.file = DOMAIN s.file \cup {slot}
        /\ t.file[slot] = data
        /\ \A n \in DOMAIN s.file : n # slot => t.file[n] = s.file[n]
    <3>1. /\ DOMAIN Over(h, s.file) = DOMAIN s.file \cup DOMAIN h
          /\ \A x \in DOMAIN h : Over(h, s.file)[x] = h[x]
          /\ \A x \in DOMAIN s.file : x \notin DOMAIN h => Over(h, s.file)[x] = s.file[x]
      BY OverProperties
    <3>. QED
      BY <2>1, <2>2, <3>1
  <2>. QED
    BY <2>3, <2>4
(* The slot is the page's own or nobody's.                                 *)
<1>4. /\ slot \in Nat
      /\ \A k \in DOMAIN s.index : k # key => s.index[k] # slot
      /\ t.freeSlots \in Seq(Nat) /\ NoRepeat(t.freeSlots) /\ slot \notin ToSet(t.freeSlots)
      /\ ToSet(t.freeSlots) = ToSet(free) \ {slot}
      /\ t.nextSlot \in Nat
      /\ 0 .. t.nextSlot - 1 = (0 .. s.nextSlot - 1) \cup {slot}
  <2>1. CASE HasPage(s, key)
    <3>1. key \in DOMAIN s.index /\ slot = s.index[key]
      BY <2>1 DEF HasPage, SlotFor
    <3>2. slot \in 0 .. s.nextSlot - 1 /\ slot \notin ToSet(free)
      BY <1>1, <3>1
    <3>. HIDE DEF slot
    <3>3. t.freeSlots = free /\ t.nextSlot = s.nextSlot
      BY <1>0, <1>2, <2>1, <3>2
    <3>4. \A k \in DOMAIN s.index : k # key => s.index[k] # slot
      BY <3>1 DEF GoodSwap
    <3>. QED
      BY <1>0, <3>2, <3>3, <3>4 DEF GoodSwap
  <2>2. CASE ~ HasPage(s, key) /\ free # << >>
    <3>0. NoRepeat(free)
      BY DEF GoodSwap
    <3>1. slot = Last(free)
      BY <2>2 DEF SlotFor
    <3>. HIDE DEF slot, free
    <3>2. /\ slot \in ToSet(free) /\ Front(free) \in Seq(Nat) /\ NoRepeat(Front(free))
          /\ slot \notin ToSet(Front(free))
          /\ ToSet(free) = ToSet(Front(free)) \cup {slot}
      BY <1>0, <2>2, <3>0, <3>1, LastAndFront
    <3>3. slot \in 0 .. s.nextSlot - 1
      BY <3>2 DEF GoodSwap, free
    <3>4. t.freeSlots = Front(free) /\ t.nextSlot = s.nextSlot
      BY <1>0, <1>2, <2>2, <3>3
    <3>. QED
      BY <1>0, <1>1, <3>2, <3>3, <3>4
  <2>3. CASE ~ HasPage(s, key) /\ free = << >>
    <3>1. slot = s.nextSlot
      BY <2>3 DEF SlotFor
    <3>. HIDE DEF slot
    <3>2. t.freeSlots = free /\ t.nextSlot = s.nextSlot + 1
      BY <1>2, <2>3, <3>1
    <3>3. ToSet(free) = {}
      BY <2>3 DEF ToSet
    <3>. QED
      BY <1>0, <1>1, <3>1, <3>2, <3>3 DEF GoodSwap
  <2>. QED
    BY <2>1, <2>2, <2>3
<1>. HIDE DEF slot
<1>5. t \in Swaps
  <2>1. DOMAIN t.index \subseteq Keys /\ t.index \in [DOMAIN t.index -> Nat]
    <3>1. \A k \in DOMAIN t.index : t.index[k] \in Nat
      BY <1>0, <1>3, <1>4
    <3>2. t.index = [k \in DOMAIN t.index |-> t.index[k]]
      BY <1>2 DEF Over
    <3>. QED
      BY <1>0, <1>3, <3>1, <3>2
  <2>2. DOMAIN t.file \subseteq Nat /\ t.file \in [DOMAIN t.file -> Data]
    <3>1. \A n \in DOMAIN t.file : t.file[n] \in Data
      BY <1>0, <1>3, <1>4
    <3>2. t.file = [n \in DOMAIN t.file |-> t.file[n]]
      BY <1>2 DEF Over
    <3>. QED
      BY <1>0, <1>3, <1>4, <3>1, <3>2
  <2>3. /\ t.index \in UNION {[K -> Nat] : K \in SUBSET Keys}
        /\ t.file \in UNION {[K -> Data] : K \in SUBSET Nat}
    BY <2>1, <2>2, IndexTypes
  <2>4. [index |-> t.index, freeSlots |-> t.freeSlots,
         nextSlot |-> t.nextSlot, file |-> t.file] \in Swaps
    BY <1>4, <2>3 DEF Swaps
  <2>. QED
    BY <1>2, <2>4
<1>6. UsedSlots(t) = UsedSlots(s) \cup {slot}
  <2>1. \A k \in DOMAIN t.index : t.index[k] \in UsedSlots(s) \cup {slot}
    BY <1>3 DEF UsedSlots
  <2>2. \A k \in DOMAIN s.index : s.index[k] \in UsedSlots(t)
    <3>1. \A k \in DOMAIN t.index : t.index[k] \in UsedSlots(t)
      BY DEF UsedSlots
    <3>2. HasPage(s, key) => s.index[key] = slot
      BY DEF slot, SlotFor
    <3>. QED
      BY <1>3, <3>1, <3>2 DEF HasPage
  <2>3. slot \in UsedSlots(t)
    BY <1>3 DEF UsedSlots
  <2>. QED
    BY <2>1, <2>2, <2>3 DEF UsedSlots
<1>7. \A k1, k2 \in DOMAIN t.index : t.index[k1] = t.index[k2] => k1 = k2
  BY <1>3, <1>4 DEF GoodSwap
<1>8. GoodSwap(t)
  BY <1>3, <1>4, <1>5, <1>6, <1>7 DEF GoodSwap
<1>9. \A k \in DOMAIN s.index : k # key => ReadPage(t, k) = ReadPage(s, k)
  BY <1>1, <1>3, <1>4 DEF ReadPage, GoodSwap
<1>. QED
  BY <1>3, <1>8, <1>9 DEF ReadPage

LEMMA FewKeys ==
  ASSUME NEW s, GoodSwap(s)
  PROVE  IsFiniteSet(DOMAIN s.index)
<1>1. s.nextSlot \in Nat /\ s.index \in [DOMAIN s.index -> Nat]
  BY SwapTypes DEF GoodSwap
<1>. DEFINE slots == 0 .. s.nextSlot - 1
<1>2. IsFiniteSet(slots)
  BY <1>1, FS_Interval
<1>3. \A key \in DOMAIN s.index : s.index[key] \in slots
  BY DEF GoodSwap, UsedSlots
<1>4. s.index \in Injection(DOMAIN s.index, slots)
  BY <1>1, <1>3 DEF GoodSwap, Injection, IsInjective
<1>. QED
  BY <1>2, <1>4, FS_Injection

(* remove_all_for_process frees the slots of a process, in whatever order, *)
(* and touches no other page.                                              *)
LEMMA RemoveAllForKeeps ==
  ASSUME NEW s, GoodSwap(s), NEW p, NEW keys \in SetToSeqs(KeysOf(s, p)),
         NEW t, t = RemoveAllFor(s, p, keys)
  PROVE  /\ GoodSwap(t)
         /\ DOMAIN t.index = DOMAIN s.index \ KeysOf(s, p)
         /\ \A k \in DOMAIN t.index : ReadPage(t, k) = ReadPage(s, k)
<1>. DEFINE own == KeysOf(s, p)
            free == s.freeSlots
            slots == [i \in DOMAIN keys |-> s.index[keys[i]]]
<1>0. /\ DOMAIN s.index \subseteq Keys /\ s.index \in [DOMAIN s.index -> Nat]
      /\ DOMAIN s.file \subseteq Nat /\ s.file \in [DOMAIN s.file -> Data]
      /\ free \in Seq(Nat) /\ s.nextSlot \in Nat
      /\ s = [index |-> s.index, freeSlots |-> s.freeSlots,
              nextSlot |-> s.nextSlot, file |-> s.file]
  BY SwapTypes DEF GoodSwap, Swaps
<1>1. own \subseteq DOMAIN s.index /\ IsFiniteSet(own)
  <2>1. own \in SUBSET DOMAIN s.index
    BY DEF KeysOf
  <2>. HIDE DEF own
  <2>. QED  BY <2>1, FewKeys, FS_Subset
<1>2. keys \in Seq(own) /\ ToSet(keys) = own /\ NoRepeat(keys)
  BY <1>1, OrderMembers
<1>. HIDE DEF own
<1>3. /\ Len(keys) \in Nat /\ DOMAIN keys = 1 .. Len(keys)
      /\ \A i \in DOMAIN keys : keys[i] \in DOMAIN s.index
  BY <1>1, <1>2, LenProperties DEF ToSet
<1>4. \A k1, k2 \in DOMAIN s.index : s.index[k1] = s.index[k2] => k1 = k2
  BY DEF GoodSwap
<1>5. slots \in Seq(Nat) /\ DOMAIN slots = DOMAIN keys
      /\ \A i \in DOMAIN keys : slots[i] = s.index[keys[i]]
  BY <1>0, <1>3
<1>6. NoRepeat(slots)
  <2>. HIDE DEF slots
  <2>. QED  BY <1>2, <1>3, <1>4, <1>5 DEF NoRepeat
<1>7. ToSet(slots) = {s.index[k] : k \in own}
  <2>. HIDE DEF slots
  <2>1. \A i \in DOMAIN keys : keys[i] \in own
    BY <1>2 DEF ToSet
  <2>2. \A k \in own : \E i \in DOMAIN keys : keys[i] = k
    BY <1>2 DEF ToSet
  <2>. QED  BY <1>5, <2>1, <2>2 DEF ToSet
<1>8. /\ t.index = Restrict(s.index, DOMAIN s.index \ own)
      /\ t.freeSlots = free \o slots
      /\ t.nextSlot = s.nextSlot
      /\ t.file = Restrict(s.file, DOMAIN s.file \ ToSet(slots))
      /\ t = [index |-> t.index, freeSlots |-> t.freeSlots,
              nextSlot |-> t.nextSlot, file |-> t.file]
  <2>. HIDE DEF slots
  <2>1. t = [s EXCEPT !.index = Restrict(s.index, DOMAIN s.index \ own),
                      !.freeSlots = free \o slots,
                      !.file = Restrict(s.file, DOMAIN s.file \ ToSet(slots))]
    BY DEF RemoveAllFor, own, slots
  <2>. QED
    BY <1>0, <2>1
<1>. HIDE DEF slots
<1>9. /\ DOMAIN t.index = DOMAIN s.index \ own
      /\ \A k \in DOMAIN t.index : t.index[k] = s.index[k]
      /\ DOMAIN t.file = DOMAIN s.file \ ToSet(slots)
      /\ \A n \in DOMAIN t.file : t.file[n] = s.file[n]
      /\ t.index = [k \in DOMAIN t.index |-> t.index[k]]
      /\ t.file = [n \in DOMAIN t.file |-> t.file[n]]
  BY <1>8 DEF Restrict
<1>10. UsedSlots(t) = UsedSlots(s) \ ToSet(slots)
  BY <1>4, <1>1, <1>7, <1>9 DEF UsedSlots
<1>11. ToSet(slots) \subseteq UsedSlots(s)
  BY <1>1, <1>7 DEF UsedSlots
<1>12. /\ t.freeSlots \in Seq(Nat) /\ NoRepeat(t.freeSlots)
       /\ ToSet(t.freeSlots) = ToSet(free) \cup ToSet(slots)
  <2>1. NoRepeat(free) /\ ToSet(free) \cap ToSet(slots) = {}
    BY <1>11 DEF GoodSwap
  <2>. QED
    BY <1>0, <1>5, <1>6, <1>8, <2>1, ConcatMembers
<1>13. t \in Swaps
  <2>1. DOMAIN t.index \subseteq Keys /\ \A k \in DOMAIN t.index : t.index[k] \in Nat
    BY <1>0, <1>9
  <2>2. DOMAIN t.file \subseteq Nat /\ \A n \in DOMAIN t.file : t.file[n] \in Data
    BY <1>0, <1>9
  <2>3. t.index \in UNION {[K -> Nat] : K \in SUBSET Keys}
    <3>. DEFINE e == t.index
    <3>0. DOMAIN e \subseteq Keys /\ (\A k \in DOMAIN e : e[k] \in Nat)
          /\ e = [k \in DOMAIN e |-> e[k]]
      BY <1>9, <2>1
    <3>. HIDE DEF e
    <3>1. DOMAIN e \subseteq Keys /\ e \in [DOMAIN e -> Nat]
      BY <3>0, FunctionIn
    <3>2. e \in UNION {[K -> Nat] : K \in SUBSET Keys}
      BY <3>1, IndexTypes
    <3>. QED
      BY <3>2 DEF e
  <2>4. t.file \in UNION {[K -> Data] : K \in SUBSET Nat}
    <3>. DEFINE e == t.file
    <3>0. DOMAIN e \subseteq Nat /\ (\A n \in DOMAIN e : e[n] \in Data)
          /\ e = [n \in DOMAIN e |-> e[n]]
      BY <1>9, <2>2
    <3>. HIDE DEF e
    <3>1. DOMAIN e \subseteq Nat /\ e \in [DOMAIN e -> Data]
      BY <3>0, FunctionIn
    <3>2. e \in UNION {[K -> Data] : K \in SUBSET Nat}
      BY <3>1, IndexTypes
    <3>. QED
      BY <3>2 DEF e
  <2>5. t.freeSlots \in Seq(Nat) /\ t.nextSlot \in Nat
    BY <1>0, <1>8, <1>12
  <2>6. [index |-> t.index, freeSlots |-> t.freeSlots,
         nextSlot |-> t.nextSlot, file |-> t.file] \in Swaps
    BY <2>3, <2>4, <2>5 DEF Swaps
  <2>. QED
    BY <1>8, <2>6
<1>14. GoodSwap(t)
  <2>1. \A k1, k2 \in DOMAIN t.index : t.index[k1] = t.index[k2] => k1 = k2
    BY <1>4, <1>9
  <2>2. /\ UsedSlots(t) \cap ToSet(t.freeSlots) = {}
        /\ UsedSlots(t) \cup ToSet(t.freeSlots) = 0 .. t.nextSlot - 1
    <3>1. /\ UsedSlots(s) \cap ToSet(free) = {}
          /\ UsedSlots(s) \cup ToSet(free) = 0 .. s.nextSlot - 1
      BY DEF GoodSwap
    <3>2. t.nextSlot = s.nextSlot
      BY <1>8
    <3>. QED
      BY <1>10, <1>11, <1>12, <3>1, <3>2
  <2>3. DOMAIN t.file = UsedSlots(t)
    BY <1>9, <1>10 DEF GoodSwap
  <2>. QED
    BY <1>12, <1>13, <2>1, <2>2, <2>3 DEF GoodSwap
<1>15. \A k \in DOMAIN t.index : ReadPage(t, k) = ReadPage(s, k)
  <2>1. \A k \in DOMAIN t.index : t.index[k] \in DOMAIN t.file
    BY <1>9, <1>14 DEF GoodSwap, UsedSlots
  <2>. QED
    BY <1>9, <2>1 DEF ReadPage
<1>. QED
  BY <1>9, <1>14, <1>15 DEF own

-----------------------------------------------------------------------------
(***************************************************************************)
(* Frames                                                                  *)
(***************************************************************************)

LEMMA SharedTotalIsNat == SharedTotal \in 0 .. TotalPages /\ FirstShared \in 0 .. TotalPages
<1>1. TotalPages \in Nat /\ NumRegions \in Nat /\ PagesPerRegion \in Nat
  BY SizesAssumption
<1>. DEFINE all == NumRegions * PagesPerRegion
<1>2. all \in Nat
  BY <1>1
<1>. HIDE DEF all
<1>3. CASE all < TotalPages
  BY <1>1, <1>2, <1>3 DEF SharedTotal, FirstShared, all
<1>4. CASE ~ (all < TotalPages) /\ ~ (TotalPages > 4)
  BY <1>1, <1>2, <1>4 DEF SharedTotal, FirstShared, all
<1>5. CASE ~ (all < TotalPages) /\ TotalPages > 4
  <2>. DEFINE half == TotalPages \div 2
              T == {all, half}
  <2>1. half \in Nat /\ half <= TotalPages
    BY <1>1
  <2>2. Min(T) \in T /\ Min(T) <= half
    <3>1. T \in SUBSET Nat /\ half \in T
      BY <1>2, <2>1
    <3>. HIDE DEF T, half
    <3>. QED  BY <3>1, MinOfNaturals
  <2>3. Min(T) \in 0 .. TotalPages
    <3>. HIDE DEF half
    <3>. QED  BY <1>1, <1>2, <2>1, <2>2
  <2>4. SharedTotal = Min(T)
    BY <1>5 DEF SharedTotal, all
  <2>. HIDE DEF T
  <2>. QED
    BY <1>1, <2>3, <2>4 DEF FirstShared
<1>. QED
  BY <1>3, <1>4, <1>5

LEMMA FramesArePrivateOrShared ==
  /\ PrivateFrames \subseteq Frames /\ SharedFrames \subseteq Frames
  /\ Frames = PrivateFrames \cup SharedFrames
  /\ PrivateFrames \cap SharedFrames = {}
  /\ PrivateFrames \subseteq Nat /\ Frames \subseteq Nat /\ Swapped \notin Frames
  /\ IsFiniteSet(PrivateFrames)
<1>1. TotalPages \in Nat /\ FirstShared \in 0 .. TotalPages
  BY SharedTotalIsNat, SizesAssumption
<1>2. IsFiniteSet(0 .. FirstShared - 1)
  BY <1>1, FS_Interval
<1>. QED
  BY <1>1, <1>2 DEF Frames, PrivateFrames, SharedFrames, Swapped

-----------------------------------------------------------------------------
(***************************************************************************)
(* Evicting frames                                                         *)
(***************************************************************************)

Tables == [Pids -> UNION {[D -> Frames \cup {Swapped}] : D \in SUBSET Nat}]

(* TypeOK but for the bounds of the page tables, with the swap file in order *)
Typed ==
  /\ proc \in [Pids -> {"new", "live", "gone"}]
  /\ table \in Tables
  /\ working \in [Pids -> SUBSET PrivateFrames]
  /\ heapPage \in [Pids -> Nat]
  /\ info \in [PrivateFrames -> PageInfo]
  /\ recent \in Seq(PrivateFrames)
  /\ freePages \in Seq(PrivateFrames)
  /\ memory \in [Frames -> Data]
  /\ GoodSwap(swap)

(* A frame that may be evicted holds a page of its owner, which has it in   *)
(* its working set.                                                         *)
Registered ==
  \A f \in Evictable :
    /\ info[f].owner \in Pids
    /\ info[f].vpage \in DOMAIN table[info[f].owner]
    /\ f \in working[info[f].owner]

Key(f) == <<info[f].owner, info[f].vpage>>

KeysDiffer == \A f, g \in Evictable : Key(f) = Key(g) => f = g

(* What _evict_page works on. *)
Memories == [swap: {s \in Swaps : GoodSwap(s)}, table: Tables,
             working: [Pids -> SUBSET PrivateFrames]]

LEMMA TableTypes ==
  ASSUME NEW t \in Tables, NEW p \in Pids
  PROVE  /\ DOMAIN t[p] \subseteq Nat
         /\ \A vp \in DOMAIN t[p] : t[p][vp] \in Frames \cup {Swapped}
         /\ t[p] \in [DOMAIN t[p] -> Frames \cup {Swapped}]
<1>1. t[p] \in UNION {[D -> Frames \cup {Swapped}] : D \in SUBSET Nat}
  BY DEF Tables
<1>2. DOMAIN t[p] \subseteq Nat /\ t[p] \in [DOMAIN t[p] -> Frames \cup {Swapped}]
  BY <1>1, IndexTypes
<1>. QED
  BY <1>2

LEMMA EvictableTypes ==
  ASSUME Typed, Registered, NEW f \in Evictable
  PROVE  /\ f \in PrivateFrames /\ f \in Frames
         /\ info[f].owner \in Pids /\ info[f].vpage \in Nat
         /\ Key(f) \in Keys /\ memory[f] \in Data
<1>1. f \in PrivateFrames /\ info[f].owner \in Pids
      /\ info[f].vpage \in DOMAIN table[info[f].owner]
  BY DEF Registered, Evictable
<1>2. info[f].vpage \in Nat
  BY <1>1, TableTypes DEF Typed
<1>3. f \in Frames
  BY <1>1, FramesArePrivateOrShared
<1>. QED
  BY <1>1, <1>2, <1>3 DEF Key, Keys, Typed

(* The outcome of evicting f in the state m: f's page is marked as         *)
(* swapped, in a file that has it.                                         *)
EvictedOne(m, t, f) ==
  /\ t \in Memories
  /\ \A p \in Pids : DOMAIN t.table[p] = DOMAIN m.table[p]
  /\ \A p \in Pids : \A vp \in DOMAIN m.table[p] :
       t.table[p][vp] = IF Key(f) = <<p, vp>> THEN Swapped ELSE m.table[p][vp]
  /\ \A p \in Pids : t.working[p] = IF info[f].owner = p THEN m.working[p] \ {f}
                                     ELSE m.working[p]
  /\ DOMAIN t.swap.index = DOMAIN m.swap.index \cup {Key(f)}
  /\ \A key \in DOMAIN m.swap.index :
       key # Key(f) => ReadPage(t.swap, key) = ReadPage(m.swap, key)
  /\ ReadPage(t.swap, Key(f)) = IF NeedsWriting(m.swap, f, Key(f)) THEN memory[f]
                                ELSE ReadPage(m.swap, Key(f))

LEMMA EvictPageProperties ==
  ASSUME Typed, Registered, NEW f \in Evictable, NEW m \in Memories,
         info[f].vpage \in DOMAIN m.table[info[f].owner],
         NEW t, t = EvictPage(m, f)
  PROVE  EvictedOne(m, t, f)
<1>. DEFINE p == info[f].owner
            vp == info[f].vpage
<1>1. /\ p \in Pids /\ vp \in Nat /\ Key(f) \in Keys /\ memory[f] \in Data
      /\ f \in PrivateFrames
  BY EvictableTypes
<1>2. /\ GoodSwap(m.swap) /\ m.table \in Tables
      /\ m.working \in [Pids -> SUBSET PrivateFrames]
  BY DEF Memories
<1>3. /\ t.swap = SwapOut(m.swap, f)
      /\ t.table = [m.table EXCEPT ![p][vp] = Swapped]
      /\ t.working = [m.working EXCEPT ![p] = @ \ {f}]
      /\ t = [swap |-> t.swap, table |-> t.table, working |-> t.working]
  BY DEF EvictPage
<1>4. /\ GoodSwap(t.swap)
      /\ DOMAIN t.swap.index = DOMAIN m.swap.index \cup {Key(f)}
      /\ \A key \in DOMAIN m.swap.index :
           key # Key(f) => ReadPage(t.swap, key) = ReadPage(m.swap, key)
      /\ ReadPage(t.swap, Key(f)) = IF NeedsWriting(m.swap, f, Key(f)) THEN memory[f]
                                    ELSE ReadPage(m.swap, Key(f))
  <2>1. CASE NeedsWriting(m.swap, f, Key(f))
    <3>1. t.swap = WritePage(m.swap, Key(f), memory[f])
      BY <1>3, <2>1 DEF SwapOut, Key
    <3>. QED
      BY <1>1, <1>2, <2>1, <3>1, WritePageKeeps
  <2>2. CASE ~ NeedsWriting(m.swap, f, Key(f))
    <3>1. t.swap = m.swap
      BY <1>3, <2>2 DEF SwapOut, Key
    <3>2. Key(f) \in DOMAIN m.swap.index
      BY <2>2 DEF NeedsWriting, HasPage
    <3>. QED
      BY <1>2, <2>2, <3>1, <3>2
  <2>. QED
    BY <2>1, <2>2
<1>. HIDE DEF p, vp
<1>5. \A q \in Pids : t.table[q] = IF q = p THEN [m.table[q] EXCEPT ![vp] = Swapped]
                                   ELSE m.table[q]
  BY <1>1, <1>2, <1>3 DEF Tables
<1>6. \A q \in Pids : m.table[q] \in [DOMAIN m.table[q] -> Frames \cup {Swapped}]
                      /\ DOMAIN m.table[q] \subseteq Nat
  BY <1>2, TableTypes
<1>7. \A q \in Pids : DOMAIN t.table[q] = DOMAIN m.table[q]
  BY <1>5, <1>6
<1>8. \A q \in Pids : \A v \in DOMAIN m.table[q] :
        t.table[q][v] = IF <<p, vp>> = <<q, v>> THEN Swapped ELSE m.table[q][v]
  BY <1>5, <1>6
<1>9. t.table \in Tables
  <2>1. ASSUME NEW q \in Pids
        PROVE  t.table[q] \in [DOMAIN t.table[q] -> Frames \cup {Swapped}]
    <3>1. m.table[q] \in [DOMAIN m.table[q] -> Frames \cup {Swapped}]
      BY <1>6
    <3>2. CASE q = p
      <4>. DEFINE e == m.table[q]
                  D == DOMAIN e
                  S == Frames \cup {Swapped}
      <4>1. e \in [D -> S] /\ Swapped \in S /\ t.table[q] = [e EXCEPT ![vp] = Swapped]
        BY <1>5, <3>1, <3>2
      <4>. HIDE DEF e, D, S
      <4>2. [e EXCEPT ![vp] = Swapped] \in [D -> S]
        BY <4>1
      <4>3. D = DOMAIN t.table[q]
        BY <1>7 DEF D, e
      <4>. QED
        BY <4>1, <4>2, <4>3 DEF S
    <3>3. CASE q # p
      BY <1>5, <3>1, <3>3
    <3>. QED
      BY <3>2, <3>3
  <2>2. ASSUME NEW q \in Pids
        PROVE  t.table[q] \in UNION {[D -> Frames \cup {Swapped}] : D \in SUBSET Nat}
    <3>. DEFINE e == t.table[q]
    <3>1. DOMAIN e \subseteq Nat /\ e \in [DOMAIN e -> Frames \cup {Swapped}]
      BY <1>6, <1>7, <2>1
    <3>. HIDE DEF e
    <3>2. e \in UNION {[D -> Frames \cup {Swapped}] : D \in SUBSET Nat}
      BY <3>1, IndexTypes
    <3>. QED
      BY <3>2 DEF e
  <2>3. t.table = [q \in Pids |-> t.table[q]]
    BY <1>2, <1>3 DEF Tables
  <2>. QED
    BY <2>2, <2>3 DEF Tables
<1>10. \A q \in Pids : t.working[q] = IF p = q THEN m.working[q] \ {f} ELSE m.working[q]
  BY <1>1, <1>2, <1>3
<1>11. t.working \in [Pids -> SUBSET PrivateFrames]
  BY <1>1, <1>2, <1>3
<1>12. t \in Memories
  <2>1. t.swap \in {s \in Swaps : GoodSwap(s)}
    BY <1>4 DEF GoodSwap
  <2>. QED
    BY <1>3, <1>9, <1>11, <2>1 DEF Memories
<1>13. Key(f) = <<p, vp>>
  BY DEF Key, p, vp
<1>14. \A q \in Pids : \A v \in DOMAIN m.table[q] :
         t.table[q][v] = IF Key(f) = <<q, v>> THEN Swapped ELSE m.table[q][v]
  BY <1>8, <1>13
<1>15. \A q \in Pids : t.working[q] = IF info[f].owner = q THEN m.working[q] \ {f}
                                     ELSE m.working[q]
  BY <1>10 DEF p
<1>. QED
  BY <1>4, <1>7, <1>12, <1>14, <1>15 DEF EvictedOne

(* The outcome of evicting the frames of V, in terms of the state before:  *)
(* the index of the swap file has their pages, and nothing else in it is   *)
(* written; what is in the file for them is what they held, or was there   *)
(* already.                                                                *)
EvictedAll(m, V) ==
  /\ m \in Memories
  /\ \A p \in Pids : DOMAIN m.table[p] = DOMAIN table[p]
  /\ \A p \in Pids : \A vp \in DOMAIN table[p] :
       m.table[p][vp] = IF \E f \in V : Key(f) = <<p, vp>> THEN Swapped ELSE table[p][vp]
  /\ \A p \in Pids : m.working[p] = working[p] \ {f \in V : info[f].owner = p}
  /\ DOMAIN m.swap.index = DOMAIN swap.index \cup {Key(f) : f \in V}
  /\ \A key \in DOMAIN swap.index :
       (\A f \in V : Key(f) # key) => ReadPage(m.swap, key) = ReadPage(swap, key)
  /\ KeysDiffer => \A f \in V :
       ReadPage(m.swap, Key(f)) = IF NeedsWriting(swap, f, Key(f)) THEN memory[f]
                                  ELSE ReadPage(swap, Key(f))

LEMMA EvictOneMore ==
  ASSUME Typed, Registered, NEW V \in SUBSET Evictable, NEW f \in Evictable \ V,
         NEW m, EvictedAll(m, V), NEW t, t = EvictPage(m, f)
  PROVE  EvictedAll(t, V \cup {f})
<1>. DEFINE p == info[f].owner
            W == V \cup {f}
<1>0. /\ f \in Evictable /\ m \in Memories
      /\ p \in Pids /\ info[f].vpage \in DOMAIN table[p]
  BY DEF Registered, EvictedAll
<1>1. info[f].vpage \in DOMAIN m.table[info[f].owner]
  BY <1>0 DEF EvictedAll
<1>2. EvictedOne(m, t, f)
  <2>. HIDE DEF p, W
  <2>. QED
    BY <1>0, <1>1, EvictPageProperties
<1>3. /\ t \in Memories
      /\ \A q \in Pids : DOMAIN t.table[q] = DOMAIN m.table[q]
      /\ \A q \in Pids : \A vp \in DOMAIN m.table[q] :
           t.table[q][vp] = IF Key(f) = <<q, vp>> THEN Swapped ELSE m.table[q][vp]
      /\ \A q \in Pids : t.working[q] = IF info[f].owner = q THEN m.working[q] \ {f}
                                        ELSE m.working[q]
      /\ DOMAIN t.swap.index = DOMAIN m.swap.index \cup {Key(f)}
      /\ \A key \in DOMAIN m.swap.index :
           key # Key(f) => ReadPage(t.swap, key) = ReadPage(m.swap, key)
      /\ ReadPage(t.swap, Key(f)) = IF NeedsWriting(m.swap, f, Key(f)) THEN memory[f]
                                    ELSE ReadPage(m.swap, Key(f))
  BY <1>2 DEF EvictedOne
<1>4. \A q \in Pids : DOMAIN t.table[q] = DOMAIN table[q]
  BY <1>3 DEF EvictedAll
<1>5. ASSUME NEW q \in Pids, NEW vp \in DOMAIN table[q]
      PROVE  t.table[q][vp] = IF \E g \in W : Key(g) = <<q, vp>> THEN Swapped
                              ELSE table[q][vp]
  <2>1. vp \in DOMAIN m.table[q]
    BY DEF EvictedAll
  <2>2. /\ t.table[q][vp] = IF Key(f) = <<q, vp>> THEN Swapped ELSE m.table[q][vp]
        /\ m.table[q][vp] = IF \E g \in V : Key(g) = <<q, vp>> THEN Swapped
                            ELSE table[q][vp]
    BY <1>3, <2>1 DEF EvictedAll
  <2>3. (\E g \in W : Key(g) = <<q, vp>>)
          <=> Key(f) = <<q, vp>> \/ \E g \in V : Key(g) = <<q, vp>>
    OBVIOUS
  <2>. QED
    BY <2>2, <2>3
<1>6. ASSUME NEW q \in Pids
      PROVE  t.working[q] = working[q] \ {g \in W : info[g].owner = q}
  <2>1. m.working[q] = working[q] \ {g \in V : info[g].owner = q}
    BY DEF EvictedAll
  <2>2. t.working[q] = IF info[f].owner = q THEN m.working[q] \ {f} ELSE m.working[q]
    BY <1>3
  <2>. QED
    BY <2>1, <2>2
<1>7. DOMAIN t.swap.index = DOMAIN swap.index \cup {Key(g) : g \in W}
  <2>1. DOMAIN m.swap.index = DOMAIN swap.index \cup {Key(g) : g \in V}
    BY DEF EvictedAll
  <2>. QED
    BY <1>3, <2>1
<1>8. ASSUME NEW key \in DOMAIN swap.index, \A g \in W : Key(g) # key
      PROVE  ReadPage(t.swap, key) = ReadPage(swap, key)
  <2>1. key \in DOMAIN m.swap.index /\ ReadPage(m.swap, key) = ReadPage(swap, key)
    BY <1>8 DEF EvictedAll
  <2>. QED
    BY <1>3, <1>8, <2>1
<1>9. ASSUME KeysDiffer, NEW g \in W
      PROVE  ReadPage(t.swap, Key(g)) = IF NeedsWriting(swap, g, Key(g)) THEN memory[g]
                                        ELSE ReadPage(swap, Key(g))
  <2>1. \A h \in V : Key(h) # Key(f)
    BY <1>9 DEF KeysDiffer
  <2>2. CASE g = f
    <3>1. Key(f) \in DOMAIN m.swap.index <=> Key(f) \in DOMAIN swap.index
      BY <2>1 DEF EvictedAll
    <3>2. NeedsWriting(m.swap, f, Key(f)) <=> NeedsWriting(swap, f, Key(f))
      BY <3>1 DEF NeedsWriting, HasPage
    <3>3. ~ NeedsWriting(swap, f, Key(f)) => ReadPage(m.swap, Key(f)) = ReadPage(swap, Key(f))
      BY <2>1 DEF NeedsWriting, HasPage, EvictedAll
    <3>. QED
      BY <1>3, <2>2, <3>2, <3>3
  <2>3. CASE g # f
    <3>1. g \in V
      BY <2>3
    <3>2. /\ Key(g) \in DOMAIN m.swap.index /\ Key(g) # Key(f)
          /\ ReadPage(m.swap, Key(g)) = IF NeedsWriting(swap, g, Key(g)) THEN memory[g]
                                        ELSE ReadPage(swap, Key(g))
      BY <1>9, <2>1, <3>1 DEF EvictedAll
    <3>3. ReadPage(t.swap, Key(g)) = ReadPage(m.swap, Key(g))
      BY <1>3, <3>2
    <3>. QED
      BY <3>2, <3>3
  <2>. QED
    BY <2>2, <2>3
<1>. HIDE DEF W
<1>10. EvictedAll(t, W)
  BY <1>3, <1>4, <1>5, <1>6, <1>7, <1>8, <1>9 DEF EvictedAll
<1>. QED
  BY <1>10 DEF W

EvictMaps(X, vs, L) == \A n \in 1 .. L : \A m \in X : EvictPage(m, vs[n]) \in X

(* The recursive function in Evict exists, and has its value round by round *)
LEMMA EvictRoundsExist ==
  ASSUME NEW X, NEW start, start \in X, NEW L, L \in Nat, NEW vs, EvictMaps(X, vs, L)
  PROVE  \E a : a = [n \in 0 .. L |->
                       IF n = 0 THEN start ELSE EvictPage(a[n - 1], vs[n])]
<1>. DEFINE step == [n \in 1 .. L |-> [m \in X |-> EvictPage(m, vs[n])]]
<1>1. step \in [1 .. L -> [X -> X]]
  BY DEF EvictMaps
<1>2. PICK a \in [0 .. L -> X] :
        a[0] = start /\ \A n \in 1 .. L : a[n] = step[n][a[n - 1]]
  <2>. HIDE DEF step
  <2>. QED  BY <1>1, LoopExists
<1>3. \A n \in 1 .. L : n - 1 \in 0 .. L
  OBVIOUS
<1>4. \A n \in 1 .. L : a[n] = EvictPage(a[n - 1], vs[n])
  BY <1>2, <1>3
<1>. QED
  BY <1>2, <1>4

LEMMA EvictRounds ==
  ASSUME Typed, Registered, NEW vs \in Seq(PrivateFrames), ToSet(vs) \subseteq Evictable
  PROVE  \E after : /\ after[0] = [swap |-> swap, table |-> table, working |-> working]
                    /\ \A n \in 1 .. Len(vs) : after[n] = EvictPage(after[n - 1], vs[n])
                    /\ Evict(vs) = after[Len(vs)]
<1>. DEFINE L == Len(vs)
            start == [swap |-> swap, table |-> table, working |-> working]
            X == {m \in Memories : \A p \in Pids : DOMAIN m.table[p] = DOMAIN table[p]}
<1>1. /\ L \in Nat /\ DOMAIN vs = 1 .. L
      /\ \A n \in 1 .. L : vs[n] \in Evictable /\ n - 1 \in 0 .. L
  BY LenProperties DEF ToSet
<1>2. start \in X
  BY DEF Typed, Memories, GoodSwap
<1>3. ASSUME NEW n \in 1 .. L, NEW m \in X PROVE EvictPage(m, vs[n]) \in X
  <2>. DEFINE f == vs[n]
              t == EvictPage(m, f)
  <2>1. f \in Evictable /\ m \in Memories
    BY <1>1
  <2>. HIDE DEF f
  <2>2. info[f].vpage \in DOMAIN m.table[info[f].owner]
    BY <2>1 DEF Registered
  <2>3. t \in Memories /\ \A p \in Pids : DOMAIN t.table[p] = DOMAIN m.table[p]
    <3>. HIDE DEF t, X
    <3>1. EvictedOne(m, t, f)
      BY <2>1, <2>2, EvictPageProperties DEF t
    <3>. QED  BY <3>1 DEF EvictedOne
  <2>. HIDE DEF t
  <2>4. t \in X
    BY <2>3
  <2>. QED
    BY <2>4 DEF t, f
<1>. DEFINE Round(a) == [n \in 0 .. L |-> IF n = 0 THEN start ELSE EvictPage(a[n - 1], vs[n])]
<1>7. \E a : a = Round(a)
  <2>1. start \in X /\ L \in Nat /\ EvictMaps(X, vs, L)
    BY <1>1, <1>2, <1>3 DEF EvictMaps
  <2>. HIDE DEF X, L, start
  <2>. QED  BY <2>1, EvictRoundsExist
<1>8. PICK a : a = Round(a) /\ Evict(vs) = a[L]
  BY <1>7 DEF Evict
<1>9. \A n \in 0 .. L : a[n] = IF n = 0 THEN start ELSE EvictPage(a[n - 1], vs[n])
  <2>1. \A n \in 0 .. L :
          Round(a)[n] = IF n = 0 THEN start ELSE EvictPage(a[n - 1], vs[n])
    OBVIOUS
  <2>2. \A n \in 0 .. L : a[n] = Round(a)[n]
    <3>. HIDE DEF Round
    <3>. QED  BY <1>8
  <2>. HIDE DEF Round, start
  <2>. QED  BY <2>1, <2>2
<1>10. a[0] = start /\ \A n \in 1 .. L : a[n] = EvictPage(a[n - 1], vs[n])
  <2>1. 0 \in 0 .. L /\ \A n \in 1 .. L : n \in 0 .. L /\ n # 0
    BY <1>1
  <2>. HIDE DEF Round, start, L
  <2>. QED  BY <1>9, <2>1
<1>. QED
  BY <1>8, <1>10

LEMMA EvictProperties ==
  ASSUME Typed, Registered, NEW vs \in Seq(PrivateFrames), ToSet(vs) \subseteq Evictable,
         NoRepeat(vs)
  PROVE  EvictedAll(Evict(vs), ToSet(vs))
<1>. DEFINE L == Len(vs)
            First(n) == {vs[i] : i \in 1 .. n}
<1>1. /\ L \in Nat /\ DOMAIN vs = 1 .. L
      /\ \A n \in 1 .. L : vs[n] \in Evictable
  BY LenProperties DEF ToSet
<1>2. PICK a : /\ a[0] = [swap |-> swap, table |-> table, working |-> working]
               /\ \A n \in 1 .. Len(vs) : a[n] = EvictPage(a[n - 1], vs[n])
               /\ Evict(vs) = a[Len(vs)]
  BY EvictRounds
<1>. DEFINE T == {n \in 0 .. L : EvictedAll(a[n], First(n))}
<1>3. 0 \in T
  <2>1. First(0) = {}
    OBVIOUS
  <2>2. a[0] \in Memories
    BY <1>2 DEF Typed, Memories, GoodSwap
  <2>3. EvictedAll(a[0], {})
    BY <1>2, <2>2 DEF EvictedAll
  <2>. HIDE DEF First
  <2>4. EvictedAll(a[0], First(0))
    BY <2>1, <2>3
  <2>. QED
    BY <1>1, <2>4
<1>4. ASSUME NEW n \in 1 .. L, n - 1 \in T PROVE n \in T
  <2>1. EvictedAll(a[n - 1], First(n - 1))
    BY <1>4
  <2>2. First(n - 1) \in SUBSET Evictable
    BY <1>1
  <2>3. vs[n] \in Evictable \ First(n - 1)
    <3>1. \A i \in 1 .. n - 1 : i \in 1 .. L /\ i # n
      BY <1>1
    <3>. QED
      BY <1>1, <3>1 DEF NoRepeat
  <2>4. First(n) = First(n - 1) \cup {vs[n]}
    <3>1. 1 .. n = 1 .. (n - 1) \cup {n}
      BY <1>1
    <3>. QED
      BY <3>1
  <2>5. a[n] = EvictPage(a[n - 1], vs[n])
    BY <1>2
  <2>. HIDE DEF First
  <2>6. EvictedAll(a[n], First(n))
    BY <2>1, <2>2, <2>3, <2>4, <2>5, EvictOneMore
  <2>. QED
    BY <1>1, <2>6
<1>5. T = 0 .. L
  <2>1. T \in SUBSET (0 .. L)
    OBVIOUS
  <2>. HIDE DEF T, L
  <2>. QED  BY <1>1, <1>3, <1>4, <2>1, UpTo
<1>6. EvictedAll(a[L], First(L))
  <2>1. L \in T
    <3>. HIDE DEF T
    <3>. QED  BY <1>1, <1>5
  <2>. HIDE DEF First, L
  <2>. QED  BY <2>1
<1>7. First(L) = ToSet(vs)
  BY <1>1 DEF ToSet
<1>. HIDE DEF First
<1>. QED
  BY <1>2, <1>6, <1>7

-----------------------------------------------------------------------------
(***************************************************************************)
(* The invariant                                                           *)
(***************************************************************************)

TablesBounded == \A p \in Pids : DOMAIN table[p] \subseteq 0 .. MaxVPage[p]

(* No other page is mapped to a registered frame. *)
MappedOnce ==
  \A f \in Evictable : \A p \in Pids : \A vp \in DOMAIN table[p] :
    table[p][vp] = f => Key(f) = <<p, vp>>

(* Every frame that may be evicted has a place in the order of use. *)
RecentComplete == NoRepeat(recent) /\ Evictable \subseteq ToSet(recent)

OnlyTheLive ==
  \A p \in Pids : proc[p] # "live" =>
    DOMAIN table[p] = {} /\ working[p] = {} /\ KeysOf(swap, p) = {}

MemInv ==
  /\ Typed /\ TablesBounded
  /\ Registered /\ MappedOnce /\ RecentComplete
  /\ FramesConserved /\ MappedFramesAreOwn
  /\ OnlyTheLive /\ SwappedPagesHaveCopy

LEMMA OneHolder ==
  ASSUME FramesConserved
  PROVE  /\ \A f \in PrivateFrames : \A p, q \in Pids :
              f \in working[p] /\ f \in working[q] => p = q
         /\ \A f \in PrivateFrames : \A p \in Pids :
              f \in working[p] => f \notin ToSet(freePages)
         /\ \A f \in PrivateFrames : f \notin ToSet(freePages) => \E p \in Pids : f \in working[p]
<1>1. ASSUME NEW f \in PrivateFrames
      PROVE  /\ \A p, q \in Pids : f \in working[p] /\ f \in working[q] => p = q
             /\ \A p \in Pids : f \in working[p] => f \notin ToSet(freePages)
             /\ f \notin ToSet(freePages) => \E p \in Pids : f \in working[p]
  <2>. DEFINE holders == {p \in Pids : f \in working[p]}
  <2>1. IF f \in ToSet(freePages) THEN holders = {} ELSE \E p \in Pids : holders = {p}
    BY DEF FramesConserved
  <2>2. \A p \in Pids : f \in working[p] <=> p \in holders
    OBVIOUS
  <2>. HIDE DEF holders
  <2>. QED
    BY <2>1, <2>2
<1>. QED
  BY <1>1

(* The other way round. *)
LEMMA ConservedIf ==
  ASSUME NEW w, NEW fs, NoRepeat(fs),
         \A f \in PrivateFrames : \A p, q \in Pids : f \in w[p] /\ f \in w[q] => p = q,
         \A f \in PrivateFrames : \A p \in Pids : f \in w[p] => f \notin ToSet(fs),
         \A f \in PrivateFrames : f \notin ToSet(fs) => \E p \in Pids : f \in w[p]
  PROVE  /\ NoRepeat(fs)
         /\ \A f \in PrivateFrames :
              LET holders == {p \in Pids : f \in w[p]}
              IN  IF f \in ToSet(fs) THEN holders = {} ELSE \E p \in Pids : holders = {p}
<1>1. ASSUME NEW f \in PrivateFrames
      PROVE  IF f \in ToSet(fs) THEN {p \in Pids : f \in w[p]} = {}
             ELSE \E p \in Pids : {q \in Pids : f \in w[q]} = {p}
  <2>1. CASE f \in ToSet(fs)
    BY <2>1
  <2>2. CASE f \notin ToSet(fs)
    <3>1. PICK p \in Pids : f \in w[p]
      BY <2>2
    <3>2. {q \in Pids : f \in w[q]} = {p}
      BY <3>1
    <3>. QED
      BY <2>2, <3>2
  <2>. QED
    BY <2>1, <2>2
<1>. QED
  BY <1>1

(* What evicting the registered frames in V leaves: they are in no working *)
(* set and no page table, and the pages that were in them are in swap.     *)
NowEvicted(out, V) ==
  /\ out.table \in Tables /\ out.working \in [Pids -> SUBSET PrivateFrames]
  /\ GoodSwap(out.swap)
  /\ \A p \in Pids : out.working[p] = working[p] \ V
  /\ \A p \in Pids : DOMAIN out.table[p] = DOMAIN table[p]
  /\ \A p \in Pids : \A vp \in DOMAIN table[p] :
       out.table[p][vp] \in {table[p][vp], Swapped} /\ out.table[p][vp] \notin V
  /\ \A p \in Pids : \A vp \in DOMAIN table[p] :
       out.table[p][vp] = Swapped => HasPage(out.swap, <<p, vp>>)
  /\ \A p \in Pids : proc[p] # "live" => KeysOf(out.swap, p) = {}

LEMMA EvictSet ==
  ASSUME MemInv, NEW vs \in Seq(PrivateFrames), NoRepeat(vs), ToSet(vs) \subseteq Evictable,
         NEW out, out = Evict(vs), NEW V, V = ToSet(vs)
  PROVE  EvictedAll(out, V) /\ NowEvicted(out, V)
<1>1. /\ Typed /\ Registered /\ MappedOnce /\ FramesConserved /\ OnlyTheLive
      /\ SwappedPagesHaveCopy
      /\ V \subseteq Evictable /\ V \subseteq PrivateFrames
  BY DEF MemInv, Evictable
<1>2. EvictedAll(out, V)
  BY <1>1, EvictProperties
<1>3. /\ out \in Memories
      /\ \A p \in Pids : DOMAIN out.table[p] = DOMAIN table[p]
      /\ \A p \in Pids : \A vp \in DOMAIN table[p] :
           out.table[p][vp] = IF \E f \in V : Key(f) = <<p, vp>> THEN Swapped
                              ELSE table[p][vp]
      /\ \A p \in Pids : out.working[p] = working[p] \ {f \in V : info[f].owner = p}
      /\ DOMAIN out.swap.index = DOMAIN swap.index \cup {Key(f) : f \in V}
  BY <1>2 DEF EvictedAll
<1>4. /\ out.table \in Tables /\ out.working \in [Pids -> SUBSET PrivateFrames]
      /\ GoodSwap(out.swap)
  BY <1>3 DEF Memories
<1>5. ASSUME NEW p \in Pids PROVE out.working[p] = working[p] \ V
  <2>1. \A f \in V : f \in PrivateFrames /\ info[f].owner \in Pids /\ f \in working[info[f].owner]
    BY <1>1 DEF Registered
  <2>2. \A f \in V : f \in working[p] => info[f].owner = p
    BY <1>1, <2>1, OneHolder
  <2>. QED
    BY <1>3, <2>2
<1>6. ASSUME NEW p \in Pids, NEW vp \in DOMAIN table[p]
      PROVE  out.table[p][vp] \in {table[p][vp], Swapped} /\ out.table[p][vp] \notin V
  <2>1. Swapped \notin V
    BY <1>1, FramesArePrivateOrShared
  <2>2. table[p][vp] \in V => Key(table[p][vp]) = <<p, vp>>
    BY <1>1 DEF MappedOnce
  <2>. QED
    BY <1>3, <2>1, <2>2
<1>7. ASSUME NEW p \in Pids, NEW vp \in DOMAIN table[p], out.table[p][vp] = Swapped
      PROVE  HasPage(out.swap, <<p, vp>>)
  <2>1. CASE \E f \in V : Key(f) = <<p, vp>>
    BY <1>3, <2>1 DEF HasPage
  <2>2. CASE ~ \E f \in V : Key(f) = <<p, vp>>
    <3>1. table[p][vp] = Swapped
      BY <1>3, <1>7, <2>2
    <3>. QED
      BY <1>1, <1>3, <3>1 DEF HasPage, SwappedPagesHaveCopy
  <2>. QED
    BY <2>1, <2>2
<1>8. ASSUME NEW p \in Pids, proc[p] # "live" PROVE KeysOf(out.swap, p) = {}
  <2>1. KeysOf(swap, p) = {} /\ working[p] = {}
    BY <1>1, <1>8 DEF OnlyTheLive
  <2>2. \A f \in V : info[f].owner # p
    BY <1>1, <2>1 DEF Registered
  <2>3. \A f \in V : Key(f)[1] # p
    BY <2>2 DEF Key
  <2>. QED
    BY <1>3, <2>1, <2>3 DEF KeysOf
<1>. QED
  BY <1>2, <1>3, <1>4, <1>5, <1>6, <1>7, <1>8 DEF NowEvicted

LEMMA FreeFrames ==
  ASSUME MemInv
  PROVE  /\ Evictable \subseteq PrivateFrames
         /\ Evictable \cap ToSet(freePages) = {}
         /\ freePages \in Seq(PrivateFrames) /\ NoRepeat(freePages)
         /\ ToSet(freePages) \subseteq PrivateFrames
         /\ Only(recent, Evictable) \in Seq(PrivateFrames)
         /\ ToSet(Only(recent, Evictable)) = Evictable
         /\ NoRepeat(Only(recent, Evictable))
         /\ Available \in Seq(PrivateFrames) /\ NoRepeat(Available)
         /\ ToSet(Available) = ToSet(freePages) \cup Evictable
<1>1. Evictable \subseteq PrivateFrames
  BY DEF Evictable
<1>2. Evictable \cap ToSet(freePages) = {}
  <2>1. \A f \in Evictable : f \in PrivateFrames /\ info[f].owner \in Pids /\ f \in working[info[f].owner]
    BY <1>1 DEF MemInv, Registered
  <2>. QED
    BY <2>1, OneHolder DEF MemInv
<1>3. /\ freePages \in Seq(PrivateFrames) /\ NoRepeat(freePages)
      /\ recent \in Seq(PrivateFrames) /\ NoRepeat(recent) /\ Evictable \subseteq ToSet(recent)
  BY DEF MemInv, Typed, FramesConserved, RecentComplete
<1>4. ToSet(freePages) \subseteq PrivateFrames
  BY <1>3, LenProperties, ElementOfSeq DEF ToSet
<1>5. /\ Only(recent, Evictable) \in Seq(PrivateFrames)
      /\ ToSet(Only(recent, Evictable)) = Evictable
      /\ NoRepeat(Only(recent, Evictable))
  <2>1. ToSet(recent) \cap Evictable = Evictable
    BY <1>3
  <2>. QED
    BY <1>3, <2>1, OnlyProperties
<1>6. /\ Available \in Seq(PrivateFrames) /\ NoRepeat(Available)
      /\ ToSet(Available) = ToSet(freePages) \cup Evictable
  BY <1>2, <1>3, <1>5, ConcatMembers DEF Available
<1>. QED
  BY <1>1, <1>2, <1>3, <1>4, <1>5, <1>6

(* The frames n calls of _get_free_frame return, and whom they come from.   *)
LEMMA TakenFrames ==
  ASSUME MemInv, NEW n \in Nat, n <= Len(Available)
  PROVE  /\ Taken(n) \in Seq(PrivateFrames) /\ NoRepeat(Taken(n)) /\ Len(Taken(n)) = n
         /\ ToSet(Taken(n)) \subseteq ToSet(freePages) \cup Evictable
         /\ Victims(n) \in Seq(PrivateFrames) /\ NoRepeat(Victims(n))
         /\ ToSet(Victims(n)) = ToSet(Taken(n)) \cap Evictable
         /\ StillFree(n) \in Seq(PrivateFrames) /\ NoRepeat(StillFree(n))
         /\ ToSet(StillFree(n)) = ToSet(freePages) \ ToSet(Taken(n))
<1>. DEFINE q == freePages
            r == Only(recent, Evictable)
            A == Available
<1>1. /\ q \in Seq(PrivateFrames) /\ NoRepeat(q)
      /\ r \in Seq(PrivateFrames) /\ ToSet(r) = Evictable
      /\ A \in Seq(PrivateFrames) /\ NoRepeat(A) /\ ToSet(A) = ToSet(q) \cup Evictable
      /\ Evictable \cap ToSet(q) = {}
  BY FreeFrames
<1>2. A = q \o r
  BY DEF Available
<1>. HIDE DEF q, r, A
<1>3. /\ Len(q) \in Nat /\ DOMAIN q = 1 .. Len(q)
      /\ Len(r) \in Nat /\ DOMAIN r = 1 .. Len(r)
      /\ Len(A) = Len(q) + Len(r) /\ DOMAIN A = 1 .. Len(A)
      /\ \A i \in 1 .. Len(q) + Len(r) : A[i] = IF i <= Len(q) THEN q[i] ELSE r[i - Len(q)]
  BY <1>1, <1>2, ConcatProperties, LenProperties
<1>4. n <= Len(A)
  BY DEF A
<1>5. /\ Taken(n) = SubSeq(A, 1, n)
      /\ Victims(n) = SubSeq(A, Len(q) + 1, n)
      /\ StillFree(n) = SubSeq(q, n + 1, Len(q))
  BY DEF Taken, Victims, StillFree, A, q
<1>6. \A i \in 1 .. Len(A) : A[i] \in PrivateFrames
  BY <1>1, ElementOfSeq
<1>7. Len(SubSeq(A, 1, n)) = n
  <2>1. \A i \in 1 .. n : A[i] \in PrivateFrames
    BY <1>3, <1>4, <1>6
  <2>2. Len(SubSeq(A, 1, n)) = IF 1 <= n THEN n - 1 + 1 ELSE 0
    BY <2>1, SubSeqProperties
  <2>. QED
    BY <2>2
<1>8. /\ Taken(n) \in Seq(PrivateFrames) /\ NoRepeat(Taken(n)) /\ Len(Taken(n)) = n
      /\ ToSet(Taken(n)) = {A[i] : i \in 1 .. n}
  <2>. DEFINE k == 1
  <2>1. k \in Nat \ {0} /\ Taken(n) = SubSeq(A, k, n)
    BY <1>5
  <2>. HIDE DEF k
  <2>2. /\ SubSeq(A, k, n) \in Seq(PrivateFrames) /\ NoRepeat(SubSeq(A, k, n))
        /\ ToSet(SubSeq(A, k, n)) = Between(A, k, n)
    BY <1>1, <1>4, <2>1, SliceMembers
  <2>3. Between(A, k, n) = {A[i] : i \in 1 .. n}
    BY DEF Between, k
  <2>. QED
    BY <1>5, <1>7, <2>1, <2>2, <2>3
<1>9. /\ Victims(n) \in Seq(PrivateFrames) /\ NoRepeat(Victims(n))
      /\ ToSet(Victims(n)) = {A[i] : i \in Len(q) + 1 .. n}
  <2>. DEFINE k == Len(q) + 1
  <2>1. k \in Nat \ {0} /\ Victims(n) = SubSeq(A, k, n)
    BY <1>3, <1>5
  <2>. HIDE DEF k
  <2>2. /\ SubSeq(A, k, n) \in Seq(PrivateFrames) /\ NoRepeat(SubSeq(A, k, n))
        /\ ToSet(SubSeq(A, k, n)) = Between(A, k, n)
    BY <1>1, <1>4, <2>1, SliceMembers
  <2>3. Between(A, k, n) = {A[i] : i \in Len(q) + 1 .. n}
    BY DEF Between, k
  <2>. QED
    BY <2>1, <2>2, <2>3
<1>10. /\ StillFree(n) \in Seq(PrivateFrames) /\ NoRepeat(StillFree(n))
       /\ ToSet(StillFree(n)) = {q[i] : i \in n + 1 .. Len(q)}
  <2>. DEFINE k == n + 1
              last == Len(q)
  <2>1. k \in Nat \ {0} /\ last \in Nat /\ last <= Len(q)
        /\ StillFree(n) = SubSeq(q, k, last)
    BY <1>3, <1>5
  <2>. HIDE DEF k, last
  <2>2. /\ SubSeq(q, k, last) \in Seq(PrivateFrames) /\ NoRepeat(SubSeq(q, k, last))
        /\ ToSet(SubSeq(q, k, last)) = Between(q, k, last)
    BY <1>1, <2>1, SliceMembers
  <2>3. Between(q, k, last) = {q[i] : i \in n + 1 .. Len(q)}
    BY DEF Between, k, last
  <2>. QED
    BY <2>1, <2>2, <2>3
<1>11. \A i \in 1 .. Len(q) : i \in 1 .. Len(A) /\ A[i] = q[i] /\ A[i] \in ToSet(q)
  BY <1>3 DEF ToSet
<1>12. ASSUME NEW i \in Len(q) + 1 .. Len(A) PROVE A[i] \in Evictable
  <2>1. i \in 1 .. Len(q) + Len(r) /\ ~ (i <= Len(q)) /\ i - Len(q) \in DOMAIN r
    BY <1>3
  <2>2. A[i] = r[i - Len(q)]
    BY <1>3, <2>1
  <2>. QED
    BY <1>1, <2>1, <2>2 DEF ToSet
<1>13. ToSet(Taken(n)) \subseteq ToSet(q) \cup Evictable
  BY <1>3, <1>4, <1>8, <1>11, <1>12
<1>14. ToSet(Victims(n)) = ToSet(Taken(n)) \cap Evictable
  <2>1. \A i \in Len(q) + 1 .. n : i \in 1 .. n /\ A[i] \in Evictable
    BY <1>3, <1>4, <1>12
  <2>2. ASSUME NEW i \in 1 .. n, A[i] \in Evictable PROVE i \in Len(q) + 1 .. n
    <3>1. ~ (i \in 1 .. Len(q))
      BY <1>1, <1>11, <2>2
    <3>. QED
      BY <1>3, <3>1
  <2>. QED
    BY <1>8, <1>9, <2>1, <2>2
<1>15. ToSet(StillFree(n)) = ToSet(q) \ ToSet(Taken(n))
  <2>1. \A i, j \in 1 .. Len(A) : A[i] = A[j] => i = j
    BY <1>1, <1>3 DEF NoRepeat
  <2>2. ASSUME NEW i \in n + 1 .. Len(q) PROVE q[i] \in ToSet(q) \ ToSet(Taken(n))
    <3>1. i \in 1 .. Len(q) /\ i \notin 1 .. n
      BY <1>3
    <3>2. \A j \in 1 .. n : A[j] # q[i]
      BY <1>4, <1>11, <2>1, <3>1, <1>3
    <3>. QED
      BY <1>8, <1>11, <3>1, <3>2
  <2>3. ASSUME NEW f \in ToSet(q), f \notin ToSet(Taken(n))
        PROVE  f \in {q[i] : i \in n + 1 .. Len(q)}
    <3>1. PICK i \in 1 .. Len(q) : q[i] = f
      BY <1>3 DEF ToSet
    <3>2. i \notin 1 .. n
      BY <1>8, <1>11, <2>3, <3>1
    <3>3. i \in n + 1 .. Len(q)
      BY <1>3, <3>2
    <3>. QED
      BY <3>1, <3>3
  <2>. QED
    BY <1>10, <2>2, <2>3
<1>. QED
  BY <1>8, <1>9, <1>10, <1>13, <1>14, <1>15 DEF q

-----------------------------------------------------------------------------
(***************************************************************************)
(* The steps keep the invariant                                            *)
(***************************************************************************)

(* A step that takes the frames of F for process p, after the evictions in *)
(* out, and maps the pages in DOMAIN g to them: loading, a page fault and  *)
(* heap growth.  A taken frame that is registered afterwards is registered *)
(* with the one page mapped to it.                                         *)
Taking(p, F, out, g) ==
  /\ g \in [DOMAIN g -> F] /\ DOMAIN g \subseteq 0 .. MaxVPage[p]
  /\ proc' \in [Pids -> {"new", "live", "gone"}] /\ proc'[p] = "live"
  /\ \A q \in Pids : q # p => proc'[q] = proc[q]
  /\ table' = [out.table EXCEPT ![p] = Over(g, @)]
  /\ working' = [out.working EXCEPT ![p] = @ \cup F]
  /\ swap' = out.swap
  /\ heapPage' \in [Pids -> Nat] /\ memory' \in [Frames -> Data]
  /\ info' \in [PrivateFrames -> PageInfo]
  /\ \A f \in PrivateFrames \ F : info'[f].valid = info[f].valid /\ Key(f)' = Key(f)
  /\ \A f \in F : info'[f].valid /\ info'[f].owner # None =>
       /\ info'[f].owner = p /\ info'[f].vpage \in DOMAIN g /\ f \in ToSet(recent')
       /\ \A vp \in DOMAIN g : g[vp] = f => info'[f].vpage = vp
  /\ recent' \in Seq(PrivateFrames) /\ NoRepeat(recent')
  /\ Evictable \ F \subseteq ToSet(recent')

(* A step that takes frames and registers each with the page it is for.    *)
Filling(p, F, out, g) ==
  /\ Taking(p, F, out, g)
  /\ DOMAIN g # {}
  /\ \A f \in F : /\ info'[f].valid /\ info'[f].owner = p
                  /\ info'[f].vpage \in DOMAIN g /\ g[info'[f].vpage] = f
  /\ \A vp \in DOMAIN g : info'[g[vp]].vpage = vp
  /\ \A vp \in DOMAIN g \cap DOMAIN table[p] : table[p][vp] = Swapped
  /\ \A f \in PrivateFrames \ F : info'[f] = info[f] /\ memory'[f] = memory[f]
  /\ \A f \in F : ~ info'[f].dirty /\ HasPage(swap', Key(f)') =>
                    ReadPage(swap', Key(f)') = memory'[f]

LEMMA TakingKeeps ==
  ASSUME MemInv, NEW p \in Pids, NEW n \in Nat, n <= Len(Available),
         NEW F, F = ToSet(Taken(n)), NEW out, out = Evict(Victims(n)),
         NEW g, Taking(p, F, out, g), freePages' = StillFree(n)
  PROVE  MemInv'
<1>. DEFINE V == ToSet(Victims(n))
            old == out.table
            oldWorking == out.working
<1>0. /\ Typed /\ TablesBounded /\ Registered /\ MappedOnce /\ RecentComplete
      /\ FramesConserved /\ MappedFramesAreOwn /\ OnlyTheLive /\ SwappedPagesHaveCopy
  BY DEF MemInv
<1>1. /\ F \subseteq ToSet(freePages) \cup Evictable /\ F \subseteq PrivateFrames
      /\ Victims(n) \in Seq(PrivateFrames) /\ NoRepeat(Victims(n))
      /\ V = F \cap Evictable
      /\ freePages' \in Seq(PrivateFrames) /\ NoRepeat(freePages')
      /\ ToSet(freePages') = ToSet(freePages) \ F
      /\ ToSet(freePages) \subseteq PrivateFrames /\ Evictable \subseteq PrivateFrames
  BY TakenFrames, FreeFrames
<1>. HIDE DEF V
<1>2. /\ old \in Tables /\ oldWorking \in [Pids -> SUBSET PrivateFrames]
      /\ GoodSwap(out.swap)
      /\ \A q \in Pids : oldWorking[q] = working[q] \ V
      /\ \A q \in Pids : DOMAIN old[q] = DOMAIN table[q]
      /\ \A q \in Pids : \A vp \in DOMAIN table[q] :
           old[q][vp] \in {table[q][vp], Swapped} /\ old[q][vp] \notin V
      /\ \A q \in Pids : \A vp \in DOMAIN table[q] :
           old[q][vp] = Swapped => HasPage(out.swap, <<q, vp>>)
      /\ \A q \in Pids : proc[q] # "live" => KeysOf(out.swap, q) = {}
  <2>. DEFINE vs == Victims(n)
  <2>1. ToSet(vs) \subseteq Evictable /\ V = ToSet(vs) /\ out = Evict(vs)
    BY <1>1 DEF V
  <2>2. vs \in Seq(PrivateFrames) /\ NoRepeat(vs)
    BY <1>1
  <2>. HIDE DEF vs, V
  <2>3. NowEvicted(out, V)
    BY <2>1, <2>2, EvictSet
  <2>. QED
    BY <2>3 DEF NowEvicted
<1>a. /\ g \in [DOMAIN g -> F] /\ DOMAIN g \subseteq 0 .. MaxVPage[p]
      /\ proc' \in [Pids -> {"new", "live", "gone"}] /\ proc'[p] = "live"
      /\ \A q \in Pids : q # p => proc'[q] = proc[q]
      /\ table' = [old EXCEPT ![p] = Over(g, @)]
      /\ working' = [oldWorking EXCEPT ![p] = @ \cup F]
      /\ swap' = out.swap
      /\ heapPage' \in [Pids -> Nat] /\ memory' \in [Frames -> Data]
      /\ info' \in [PrivateFrames -> PageInfo]
  BY DEF Taking
<1>b. /\ \A f \in PrivateFrames \ F : info'[f].valid = info[f].valid /\ Key(f)' = Key(f)
      /\ \A f \in F : info'[f].valid /\ info'[f].owner # None =>
           /\ info'[f].owner = p /\ info'[f].vpage \in DOMAIN g /\ f \in ToSet(recent')
           /\ \A vp \in DOMAIN g : g[vp] = f => info'[f].vpage = vp
      /\ recent' \in Seq(PrivateFrames) /\ NoRepeat(recent')
      /\ Evictable \ F \subseteq ToSet(recent')
  BY DEF Taking
<1>. HIDE DEF old, oldWorking
<1>3. \A q \in Pids : working'[q] = IF q = p THEN (working[q] \ V) \cup F ELSE working[q] \ V
  BY <1>2, <1>a
<1>. DEFINE new == Over(g, old[p])
<1>4. /\ DOMAIN new = DOMAIN table[p] \cup DOMAIN g
      /\ \A vp \in DOMAIN g : new[vp] = g[vp]
      /\ \A vp \in DOMAIN table[p] : vp \notin DOMAIN g => new[vp] = old[p][vp]
  <2>1. /\ DOMAIN Over(g, old[p]) = DOMAIN old[p] \cup DOMAIN g
        /\ \A vp \in DOMAIN g : Over(g, old[p])[vp] = g[vp]
        /\ \A vp \in DOMAIN old[p] : vp \notin DOMAIN g => Over(g, old[p])[vp] = old[p][vp]
    BY OverProperties
  <2>. QED
    BY <1>2, <2>1
<1>c. new = [vp \in DOMAIN new |-> new[vp]]
  BY DEF Over
<1>5. \A q \in Pids : table'[q] = IF q = p THEN new ELSE old[q]
  BY <1>2, <1>a DEF Tables
<1>. HIDE DEF new
<1>6. \A q \in Pids : DOMAIN table'[q] = IF q = p THEN DOMAIN table[q] \cup DOMAIN g
                                         ELSE DOMAIN table[q]
  BY <1>2, <1>4, <1>5
<1>7. ASSUME NEW q \in Pids, NEW vp \in DOMAIN table'[q]
      PROVE  \/ q = p /\ vp \in DOMAIN g /\ table'[q][vp] = g[vp] /\ table'[q][vp] \in F
             \/ /\ vp \in DOMAIN table[q] /\ table'[q][vp] = old[q][vp]
                /\ table'[q][vp] \in {table[q][vp], Swapped} /\ table'[q][vp] \notin V
  BY <1>a, <1>2, <1>4, <1>5, <1>6
<1>8. ASSUME NEW f \in Evictable'
      PROVE  \/ f \in F /\ info'[f].valid /\ info'[f].owner # None
             \/ f \in Evictable \ F /\ Key(f)' = Key(f)
  BY <1>b DEF Evictable, Key
<1>9. \A q \in Pids : \A f \in F : f \notin working[q] \ V
  BY <1>0, <1>1, OneHolder
<1>10. \A q \in Pids : \A vp \in DOMAIN table'[q] : table'[q][vp] \in Frames \cup {Swapped}
  BY <1>0, <1>1, <1>7, TableTypes, FramesArePrivateOrShared DEF Typed
<1>11. \A q \in Pids : DOMAIN table'[q] \subseteq 0 .. MaxVPage[q]
  BY <1>0, <1>6, <1>a DEF TablesBounded
<1>12. table' \in Tables
  <2>1. ASSUME NEW q \in Pids
        PROVE  table'[q] \in UNION {[D -> Frames \cup {Swapped}] : D \in SUBSET Nat}
    <3>1. DOMAIN table'[q] \subseteq Nat
      BY <1>11, SizesAssumption
    <3>2. table'[q] = [vp \in DOMAIN table'[q] |-> table'[q][vp]]
      <4>1. CASE q = p
        BY <1>5, <1>c, <4>1
      <4>2. CASE q # p
        BY <1>2, <1>5, <4>2, TableTypes
      <4>. QED
        BY <4>1, <4>2
    <3>3. table'[q] \in [DOMAIN table'[q] -> Frames \cup {Swapped}]
      BY <1>10, <3>2
    <3>. QED
      BY <3>1, <3>3, IndexTypes
  <2>2. table' = [q \in Pids |-> table'[q]]
    BY <1>2, <1>a DEF Tables
  <2>. QED
    BY <2>1, <2>2 DEF Tables
<1>13. working' \in [Pids -> SUBSET PrivateFrames]
  BY <1>1, <1>2, <1>a
<1>14. Typed'
  BY <1>1, <1>2, <1>a, <1>b, <1>12, <1>13 DEF Typed
<1>15. TablesBounded'
  BY <1>11 DEF TablesBounded
<1>16. Registered'
  <2>1. ASSUME NEW f \in Evictable'
        PROVE  /\ info'[f].owner \in Pids
               /\ info'[f].vpage \in DOMAIN table'[info'[f].owner]
               /\ f \in working'[info'[f].owner]
    <3>1. CASE f \in F /\ info'[f].valid /\ info'[f].owner # None
      <4>1. info'[f].owner = p /\ info'[f].vpage \in DOMAIN g
        BY <1>b, <3>1
      <4>2. DOMAIN g \subseteq DOMAIN table'[p] /\ F \subseteq working'[p]
        BY <1>3, <1>6
      <4>. QED
        BY <3>1, <4>1, <4>2
    <3>2. CASE f \in Evictable \ F /\ Key(f)' = Key(f)
      <4>1. info'[f].owner = info[f].owner /\ info'[f].vpage = info[f].vpage
        BY <3>2 DEF Key
      <4>2. /\ info[f].owner \in Pids /\ info[f].vpage \in DOMAIN table[info[f].owner]
            /\ f \in working[info[f].owner]
        BY <1>0, <3>2 DEF Registered
      <4>3. f \notin V
        BY <1>1, <3>2
      <4>. QED
        BY <1>3, <1>6, <4>1, <4>2, <4>3
    <3>. QED
      BY <1>8, <3>1, <3>2
  <2>. QED
    BY <2>1 DEF Registered
<1>17. MappedOnce'
  <2>1. ASSUME NEW f \in Evictable', NEW q \in Pids, NEW vp \in DOMAIN table'[q],
               table'[q][vp] = f
        PROVE  Key(f)' = <<q, vp>>
    <3>1. CASE q = p /\ vp \in DOMAIN g /\ table'[q][vp] = g[vp] /\ table'[q][vp] \in F
      BY <1>b, <1>8, <2>1, <3>1 DEF Key
    <3>2. CASE /\ vp \in DOMAIN table[q] /\ table'[q][vp] \in {table[q][vp], Swapped}
               /\ table'[q][vp] \notin V
      <4>1. f \in PrivateFrames /\ f # Swapped /\ f \notin V /\ table[q][vp] = f
        BY <1>1, <1>8, <2>1, <3>2, FramesArePrivateOrShared
      <4>2. f \in working[q]
        BY <1>0, <3>2, <4>1, FramesArePrivateOrShared DEF MappedFramesAreOwn, Writable
      <4>3. f \notin F
        BY <1>9, <4>1, <4>2
      <4>4. f \in Evictable /\ Key(f)' = Key(f)
        BY <1>8, <4>3
      <4>. QED
        BY <1>0, <3>2, <4>1, <4>4 DEF MappedOnce
    <3>. QED
      BY <1>7, <3>1, <3>2
  <2>. QED
    BY <2>1 DEF MappedOnce
<1>18. RecentComplete'
  BY <1>b, <1>8 DEF RecentComplete
<1>19. FramesConserved'
  <2>1. \A f \in PrivateFrames : \A a, b \in Pids :
          f \in working'[a] /\ f \in working'[b] => a = b
    <3>1. \A f \in PrivateFrames : \A a, b \in Pids :
            f \in working[a] /\ f \in working[b] => a = b
      BY <1>0, OneHolder
    <3>2. ASSUME NEW f \in PrivateFrames, NEW a \in Pids, f \in working'[a]
          PROVE  IF f \in F THEN a = p ELSE f \in working[a]
      BY <1>3, <1>9, <3>2
    <3>. QED
      BY <3>1, <3>2
  <2>2. \A f \in PrivateFrames : \A a \in Pids : f \in working'[a] => f \notin ToSet(freePages')
    <3>1. \A f \in PrivateFrames : \A a \in Pids : f \in working[a] => f \notin ToSet(freePages)
      BY <1>0, OneHolder
    <3>2. ASSUME NEW f \in PrivateFrames, NEW a \in Pids, f \in working'[a]
          PROVE  f \in F \/ f \in working[a]
      BY <1>3, <3>2
    <3>3. \A f \in ToSet(freePages') : f \in ToSet(freePages) /\ f \notin F
      BY <1>1
    <3>. QED
      BY <3>1, <3>2, <3>3
  <2>3. \A f \in PrivateFrames : f \notin ToSet(freePages') => \E a \in Pids : f \in working'[a]
    <3>1. \A f \in F : f \in working'[p]
      BY <1>3
    <3>2. \A f \in PrivateFrames \ F : \A a \in Pids : f \in working[a] => f \in working'[a]
      BY <1>1, <1>3
    <3>3. \A f \in PrivateFrames \ F : f \notin ToSet(freePages')
            => \E a \in Pids : f \in working[a]
      BY <1>0, <1>1, OneHolder
    <3>. QED
      BY <3>1, <3>2, <3>3
  <2>. QED
    BY <1>1, <2>1, <2>2, <2>3, ConservedIf DEF FramesConserved
<1>20. MappedFramesAreOwn'
  <2>1. ASSUME NEW q \in Pids, NEW vp \in DOMAIN table'[q]
        PROVE  table'[q][vp] \in working'[q] \cup SharedFrames \cup {Swapped}
    <3>1. CASE q = p /\ table'[q][vp] \in F
      BY <1>3, <3>1
    <3>2. CASE /\ vp \in DOMAIN table[q] /\ table'[q][vp] \in {table[q][vp], Swapped}
               /\ table'[q][vp] \notin V
      BY <1>0, <1>3, <3>2 DEF MappedFramesAreOwn, Writable
    <3>. QED
      BY <1>7, <3>1, <3>2
  <2>. QED
    BY <2>1 DEF MappedFramesAreOwn, Writable
<1>21. OnlyTheLive'
  <2>1. ASSUME NEW q \in Pids, proc'[q] # "live"
        PROVE  DOMAIN table'[q] = {} /\ working'[q] = {} /\ KeysOf(swap', q) = {}
    <3>1. q # p /\ proc[q] # "live" /\ swap' = out.swap
      BY <1>a, <2>1
    <3>2. DOMAIN table[q] = {} /\ working[q] = {}
      BY <1>0, <3>1 DEF OnlyTheLive
    <3>. QED
      BY <1>2, <1>3, <1>6, <3>1, <3>2
  <2>. QED
    BY <2>1 DEF OnlyTheLive
<1>22. SwappedPagesHaveCopy'
  <2>1. Swapped \notin F
    BY <1>1, FramesArePrivateOrShared
  <2>. QED
    BY <1>a, <1>2, <1>7, <2>1 DEF SwappedPagesHaveCopy
<1>. QED
  BY <1>14, <1>15, <1>16, <1>17, <1>18, <1>19, <1>20, <1>21, <1>22 DEF MemInv

(* A step that leaves the mappings alone: an access that does not fault.   *)
Touching ==
  /\ UNCHANGED <<proc, table, working, heapPage, freePages, swap>>
  /\ memory' \in [Frames -> Data] /\ info' \in [PrivateFrames -> PageInfo]
  /\ \A f \in PrivateFrames : info'[f].valid = info[f].valid /\ Key(f)' = Key(f)
  /\ recent' \in Seq(PrivateFrames) /\ NoRepeat(recent')
  /\ Evictable \subseteq ToSet(recent')

LEMMA TouchingKeeps ==
  ASSUME MemInv, Touching
  PROVE  MemInv'
<1>1. /\ Typed /\ TablesBounded /\ Registered /\ MappedOnce /\ RecentComplete
      /\ FramesConserved /\ MappedFramesAreOwn /\ OnlyTheLive /\ SwappedPagesHaveCopy
  BY DEF MemInv
<1>2. /\ proc' = proc /\ table' = table /\ working' = working /\ heapPage' = heapPage
      /\ freePages' = freePages /\ swap' = swap
  BY DEF Touching
<1>3. /\ Evictable' = Evictable
      /\ \A f \in Evictable : /\ info'[f].owner = info[f].owner
                              /\ info'[f].vpage = info[f].vpage /\ Key(f)' = Key(f)
  BY DEF Touching, Evictable, Key
<1>4. Typed'
  <2>1. /\ memory' \in [Frames -> Data] /\ info' \in [PrivateFrames -> PageInfo]
        /\ recent' \in Seq(PrivateFrames)
    BY DEF Touching
  <2>. QED
    BY <1>1, <1>2, <2>1 DEF Typed
<1>5. RecentComplete'
  BY <1>3 DEF Touching, RecentComplete
<1>6. Registered' /\ MappedOnce'
  BY <1>1, <1>2, <1>3 DEF Registered, MappedOnce
<1>7. FramesConserved' /\ MappedFramesAreOwn' /\ OnlyTheLive' /\ SwappedPagesHaveCopy'
  BY <1>1, <1>2 DEF FramesConserved, MappedFramesAreOwn, Writable, OnlyTheLive,
                    SwappedPagesHaveCopy
<1>8. TablesBounded'
  BY <1>1, <1>2 DEF TablesBounded
<1>. QED
  BY <1>4, <1>5, <1>6, <1>7, <1>8 DEF MemInv

(* A step that maps pages of process p to shared frames.                   *)
Attaching(p, g) ==
  /\ proc[p] = "live"
  /\ g \in [DOMAIN g -> SharedFrames] /\ DOMAIN g \subseteq 0 .. MaxVPage[p]
  /\ table' = [table EXCEPT ![p] = Over(g, @)]
  /\ UNCHANGED <<proc, working, heapPage, info, recent, freePages, memory, swap>>

LEMMA AttachingKeeps ==
  ASSUME MemInv, NEW p \in Pids, NEW g, Attaching(p, g)
  PROVE  MemInv'
<1>. DEFINE new == Over(g, table[p])
<1>1. /\ Typed /\ TablesBounded /\ Registered /\ MappedOnce /\ RecentComplete
      /\ FramesConserved /\ MappedFramesAreOwn /\ OnlyTheLive /\ SwappedPagesHaveCopy
  BY DEF MemInv
<1>2. /\ proc[p] = "live"
      /\ g \in [DOMAIN g -> SharedFrames] /\ DOMAIN g \subseteq 0 .. MaxVPage[p]
      /\ proc' = proc /\ working' = working /\ heapPage' = heapPage /\ info' = info
      /\ recent' = recent /\ freePages' = freePages /\ memory' = memory /\ swap' = swap
      /\ table' = [table EXCEPT ![p] = Over(g, @)]
  BY DEF Attaching
<1>3. /\ DOMAIN new = DOMAIN table[p] \cup DOMAIN g
      /\ \A vp \in DOMAIN g : new[vp] = g[vp]
      /\ \A vp \in DOMAIN table[p] : vp \notin DOMAIN g => new[vp] = table[p][vp]
  BY OverProperties
<1>4. new = [vp \in DOMAIN new |-> new[vp]]
  BY DEF Over
<1>5. \A q \in Pids : table'[q] = IF q = p THEN new ELSE table[q]
  BY <1>1, <1>2 DEF Typed, Tables
<1>. HIDE DEF new
<1>6. \A q \in Pids : DOMAIN table'[q] = IF q = p THEN DOMAIN table[q] \cup DOMAIN g
                                         ELSE DOMAIN table[q]
  BY <1>3, <1>5
<1>7. ASSUME NEW q \in Pids, NEW vp \in DOMAIN table'[q]
      PROVE  \/ q = p /\ vp \in DOMAIN g /\ table'[q][vp] \in SharedFrames
             \/ vp \in DOMAIN table[q] /\ table'[q][vp] = table[q][vp]
  BY <1>2, <1>3, <1>5, <1>6
<1>8. Evictable' = Evictable /\ \A f \in PrivateFrames : Key(f)' = Key(f)
  BY <1>2 DEF Evictable, Key
<1>9. \A q \in Pids : DOMAIN table'[q] \subseteq 0 .. MaxVPage[q]
  BY <1>1, <1>2, <1>6 DEF TablesBounded
<1>10. \A q \in Pids : \A vp \in DOMAIN table'[q] : table'[q][vp] \in Frames \cup {Swapped}
  BY <1>1, <1>7, TableTypes, FramesArePrivateOrShared DEF Typed
<1>11. table' \in Tables
  <2>1. ASSUME NEW q \in Pids
        PROVE  table'[q] \in UNION {[D -> Frames \cup {Swapped}] : D \in SUBSET Nat}
    <3>1. DOMAIN table'[q] \subseteq Nat
      BY <1>9, SizesAssumption
    <3>2. table'[q] = [vp \in DOMAIN table'[q] |-> table'[q][vp]]
      BY <1>1, <1>4, <1>5, TableTypes DEF Typed
    <3>3. table'[q] \in [DOMAIN table'[q] -> Frames \cup {Swapped}]
      BY <1>10, <3>2
    <3>. QED
      BY <3>1, <3>3, IndexTypes
  <2>2. table' = [q \in Pids |-> table'[q]]
    BY <1>1, <1>2 DEF Typed, Tables
  <2>. QED
    BY <2>1, <2>2 DEF Tables
<1>12. Typed' /\ TablesBounded'
  BY <1>1, <1>2, <1>9, <1>11 DEF Typed, TablesBounded
<1>13. Registered'
  <2>1. \A q \in Pids : DOMAIN table[q] \subseteq DOMAIN table'[q]
    BY <1>6
  <2>. QED
    BY <1>1, <1>2, <1>8, <2>1 DEF Registered
<1>14. MappedOnce'
  <2>1. \A f \in Evictable : f \in PrivateFrames /\ f \notin SharedFrames
    BY FramesArePrivateOrShared DEF Evictable
  <2>2. \A f \in Evictable : \A q \in Pids : \A vp \in DOMAIN table'[q] :
          table'[q][vp] = f => Key(f) = <<q, vp>>
    BY <1>1, <1>7, <2>1 DEF MappedOnce
  <2>. QED
    BY <1>8, <2>1, <2>2 DEF MappedOnce
<1>15. RecentComplete' /\ FramesConserved'
  BY <1>1, <1>2, <1>8 DEF RecentComplete, FramesConserved
<1>16. MappedFramesAreOwn'
  BY <1>1, <1>2, <1>7 DEF MappedFramesAreOwn, Writable
<1>17. OnlyTheLive'
  BY <1>1, <1>2, <1>6 DEF OnlyTheLive
<1>18. SwappedPagesHaveCopy'
  <2>1. Swapped \notin SharedFrames
    BY FramesArePrivateOrShared
  <2>. QED
    BY <1>1, <1>2, <1>7, <2>1 DEF SwappedPagesHaveCopy
<1>. QED
  BY <1>12, <1>13, <1>14, <1>15, <1>16, <1>17, <1>18 DEF MemInv

(* An allocation that fails evicts every page there is.                    *)
LEMMA FailingKeeps ==
  ASSUME MemInv, NEW n, AllocationFails(n)
  PROVE  MemInv'
<1>. DEFINE vs == Only(recent, Evictable)
            V == Evictable
            out == Evict(vs)
            old == out.table
            oldWorking == out.working
<1>1. /\ Typed /\ TablesBounded /\ Registered /\ MappedOnce /\ RecentComplete
      /\ FramesConserved /\ MappedFramesAreOwn /\ OnlyTheLive /\ SwappedPagesHaveCopy
  BY DEF MemInv
<1>2. /\ swap' = out.swap /\ table' = old /\ working' = oldWorking
      /\ info' = InfoWithout(vs) /\ freePages' = Available
      /\ proc' = proc /\ heapPage' = heapPage /\ recent' = recent /\ memory' = memory
  BY DEF AllocationFails, AfterFailure
<1>3. /\ vs \in Seq(PrivateFrames) /\ ToSet(vs) = V /\ NoRepeat(vs)
      /\ Available \in Seq(PrivateFrames) /\ NoRepeat(Available)
      /\ ToSet(Available) = ToSet(freePages) \cup V
      /\ V \subseteq PrivateFrames /\ ToSet(vs) \subseteq Evictable
  BY FreeFrames
<1>4. NowEvicted(out, V)
  <2>1. out = Evict(vs) /\ V = ToSet(vs)
    BY <1>3
  <2>. HIDE DEF vs, out, V
  <2>. QED
    BY <1>3, <2>1, EvictSet
<1>. HIDE DEF out
<1>5. /\ old \in Tables /\ oldWorking \in [Pids -> SUBSET PrivateFrames]
      /\ GoodSwap(out.swap)
      /\ \A q \in Pids : oldWorking[q] = working[q] \ V
      /\ \A q \in Pids : DOMAIN old[q] = DOMAIN table[q]
      /\ \A q \in Pids : \A vp \in DOMAIN table[q] :
           old[q][vp] \in {table[q][vp], Swapped} /\ old[q][vp] \notin V
      /\ \A q \in Pids : \A vp \in DOMAIN table[q] :
           old[q][vp] = Swapped => HasPage(out.swap, <<q, vp>>)
      /\ \A q \in Pids : proc[q] # "live" => KeysOf(out.swap, q) = {}
  BY <1>4 DEF NowEvicted
<1>6. \A f \in PrivateFrames : info'[f] = IF f \in V THEN Evicted ELSE info[f]
  BY <1>2, <1>3 DEF InfoWithout
<1>7. info' \in [PrivateFrames -> PageInfo]
  <2>1. Evicted \in PageInfo
    BY DEF Evicted, PageInfo
  <2>2. info' = [f \in PrivateFrames |-> info'[f]]
    BY <1>2 DEF InfoWithout
  <2>. HIDE DEF V
  <2>. QED
    BY <1>1, <1>6, <2>1, <2>2 DEF Typed
<1>8. Evictable' = {}
  <2>1. ASSUME NEW f \in PrivateFrames PROVE ~ (info'[f].valid /\ info'[f].owner # None)
    <3>1. CASE f \in V
      BY <1>6, <3>1 DEF Evicted
    <3>2. CASE f \notin V
      BY <1>6, <3>2 DEF Evictable
    <3>. QED
      BY <3>1, <3>2
  <2>. QED
    BY <2>1 DEF Evictable
<1>. HIDE DEF vs, V, old, oldWorking
<1>9. Typed' /\ TablesBounded'
  BY <1>1, <1>2, <1>3, <1>5, <1>7 DEF Typed, TablesBounded
<1>10. Registered' /\ MappedOnce' /\ RecentComplete'
  BY <1>1, <1>2, <1>8 DEF Registered, MappedOnce, RecentComplete
<1>11. FramesConserved'
  <2>1. \A f \in PrivateFrames : \A a, b \in Pids :
          f \in working'[a] /\ f \in working'[b] => a = b
    BY <1>1, <1>2, <1>5, OneHolder
  <2>2. \A f \in PrivateFrames : \A a \in Pids : f \in working'[a] => f \notin ToSet(freePages')
    BY <1>1, <1>2, <1>3, <1>5, OneHolder
  <2>3. \A f \in PrivateFrames : f \notin ToSet(freePages') => \E a \in Pids : f \in working'[a]
    BY <1>1, <1>2, <1>3, <1>5, OneHolder
  <2>. QED
    BY <1>2, <1>3, <2>1, <2>2, <2>3, ConservedIf DEF FramesConserved
<1>12. MappedFramesAreOwn'
  <2>1. ASSUME NEW q \in Pids, NEW vp \in DOMAIN table'[q]
        PROVE  table'[q][vp] \in working'[q] \cup SharedFrames \cup {Swapped}
    <3>1. vp \in DOMAIN table[q]
      BY <1>2, <1>5
    <3>2. table[q][vp] \in working[q] \cup SharedFrames \cup {Swapped}
      BY <1>1, <3>1 DEF MappedFramesAreOwn, Writable
    <3>. QED
      BY <1>2, <1>5, <3>1, <3>2
  <2>. QED
    BY <2>1 DEF MappedFramesAreOwn, Writable
<1>13. OnlyTheLive' /\ SwappedPagesHaveCopy'
  BY <1>1, <1>2, <1>5 DEF OnlyTheLive, SwappedPagesHaveCopy
<1>. QED
  BY <1>9, <1>10, <1>11, <1>12, <1>13 DEF MemInv

(* A process that ends gives back its frames and its slots.                *)
LEMMA ExitKeeps ==
  ASSUME MemInv, NEW p \in Pids, Exit(p)
  PROVE  MemInv'
<1>1. /\ Typed /\ TablesBounded /\ Registered /\ MappedOnce /\ RecentComplete
      /\ FramesConserved /\ MappedFramesAreOwn /\ OnlyTheLive /\ SwappedPagesHaveCopy
      /\ GoodSwap(swap)
  BY DEF MemInv, Typed
<1>2. /\ proc[p] = "live" /\ proc' = [proc EXCEPT ![p] = "gone"]
      /\ info' = [f \in PrivateFrames |-> IF f \in working[p] THEN Unused ELSE info[f]]
      /\ table' = [table EXCEPT ![p] = << >>]
      /\ working' = [working EXCEPT ![p] = {}]
      /\ recent' = Without(recent, working[p])
      /\ heapPage' = heapPage /\ memory' = memory
  BY DEF Exit
<1>3. PICK frames \in SetToSeqs(working[p] \ ToSet(freePages)) :
        freePages' = freePages \o frames
  BY DEF Exit
<1>4. PICK keys \in SetToSeqs(KeysOf(swap, p)) : swap' = RemoveAllFor(swap, p, keys)
  BY DEF Exit
<1>5. working[p] \ ToSet(freePages) = working[p] /\ working[p] \in SUBSET PrivateFrames
  <2>1. working[p] \in SUBSET PrivateFrames
    BY <1>1 DEF Typed
  <2>. QED
    BY <1>1, <2>1, OneHolder
<1>6. frames \in Seq(PrivateFrames) /\ ToSet(frames) = working[p] /\ NoRepeat(frames)
  <2>1. IsFiniteSet(working[p])
    BY <1>5, FramesArePrivateOrShared, FS_Subset
  <2>2. frames \in Seq(working[p]) /\ ToSet(frames) = working[p] /\ NoRepeat(frames)
    BY <1>3, <1>5, <2>1, OrderMembers
  <2>. QED
    BY <1>5, <2>2
<1>7. /\ freePages \in Seq(PrivateFrames) /\ NoRepeat(freePages)
      /\ ToSet(freePages) \cap working[p] = {}
  BY <1>1, <1>5 DEF Typed, FramesConserved
<1>8. /\ freePages' \in Seq(PrivateFrames) /\ NoRepeat(freePages')
      /\ ToSet(freePages') = ToSet(freePages) \cup working[p]
  BY <1>3, <1>6, <1>7, ConcatMembers
<1>9. GoodSwap(swap') /\ DOMAIN swap'.index = DOMAIN swap.index \ KeysOf(swap, p)
  BY <1>1, <1>4, RemoveAllForKeeps
<1>10. \A q \in Pids : working'[q] = IF q = p THEN {} ELSE working[q]
  BY <1>1, <1>2 DEF Typed
<1>11. \A q \in Pids : table'[q] = IF q = p THEN << >> ELSE table[q]
  BY <1>1, <1>2 DEF Typed, Tables
<1>12. \A q \in Pids : proc'[q] = IF q = p THEN "gone" ELSE proc[q]
  BY <1>1, <1>2 DEF Typed
<1>13. DOMAIN << >> = {}
  OBVIOUS
<1>14. info' \in [PrivateFrames -> PageInfo]
  <2>1. Unused \in PageInfo
    BY DEF Unused, PageInfo
  <2>. QED
    BY <1>1, <1>2, <2>1 DEF Typed
<1>15. \A f \in Evictable' : /\ f \in Evictable /\ f \notin working[p]
                             /\ info'[f] = info[f] /\ Key(f)' = Key(f)
  <2>1. \A f \in working[p] : ~ (info'[f].owner # None)
    BY <1>2, <1>5 DEF Unused
  <2>2. \A f \in PrivateFrames : f \notin working[p] => info'[f] = info[f]
    BY <1>2
  <2>. QED
    BY <2>1, <2>2 DEF Evictable, Key
<1>16. /\ recent' \in Seq(PrivateFrames) /\ NoRepeat(recent')
       /\ ToSet(recent') = ToSet(recent) \ working[p]
  BY <1>1, <1>2, WithoutMembers DEF Typed, RecentComplete
<1>17. table' \in Tables
  <2>1. << >> \in UNION {[D -> Frames \cup {Swapped}] : D \in SUBSET Nat}
    <3>1. << >> \in [{} -> Frames \cup {Swapped}]
      OBVIOUS
    <3>. QED
      BY <3>1
  <2>2. \A q \in Pids : table[q] \in UNION {[D -> Frames \cup {Swapped}] : D \in SUBSET Nat}
    BY <1>1 DEF Typed, Tables
  <2>3. table' = [q \in Pids |-> table'[q]]
    BY <1>1, <1>2 DEF Typed, Tables
  <2>. QED
    BY <1>11, <2>1, <2>2, <2>3 DEF Tables
<1>18. Typed'
  <2>1. /\ proc' \in [Pids -> {"new", "live", "gone"}]
        /\ working' \in [Pids -> SUBSET PrivateFrames]
        /\ heapPage' \in [Pids -> Nat] /\ memory' \in [Frames -> Data]
    BY <1>1, <1>2 DEF Typed
  <2>. QED
    BY <1>8, <1>9, <1>14, <1>16, <1>17, <2>1 DEF Typed
<1>19. TablesBounded'
  BY <1>1, <1>11, <1>13 DEF TablesBounded
<1>20. Registered'
  <2>1. ASSUME NEW f \in Evictable'
        PROVE  /\ info'[f].owner \in Pids
               /\ info'[f].vpage \in DOMAIN table'[info'[f].owner]
               /\ f \in working'[info'[f].owner]
    <3>1. /\ info[f].owner \in Pids /\ info[f].vpage \in DOMAIN table[info[f].owner]
          /\ f \in working[info[f].owner]
      BY <1>1, <1>15 DEF Registered
    <3>2. info[f].owner # p
      BY <1>15, <3>1
    <3>. QED
      BY <1>10, <1>11, <1>15, <3>1, <3>2
  <2>. QED
    BY <2>1 DEF Registered
<1>21. MappedOnce'
  <2>1. ASSUME NEW f \in Evictable', NEW q \in Pids, NEW vp \in DOMAIN table'[q],
               table'[q][vp] = f
        PROVE  Key(f)' = <<q, vp>>
    <3>1. q # p /\ vp \in DOMAIN table[q] /\ table[q][vp] = f
      BY <1>11, <1>13, <2>1
    <3>. QED
      BY <1>1, <1>15, <3>1 DEF MappedOnce
  <2>. QED
    BY <2>1 DEF MappedOnce
<1>22. RecentComplete'
  BY <1>1, <1>15, <1>16 DEF RecentComplete
<1>23. FramesConserved'
  <2>1. \A f \in PrivateFrames : \A a, b \in Pids :
          f \in working'[a] /\ f \in working'[b] => a = b
    BY <1>1, <1>10, OneHolder
  <2>2. \A f \in PrivateFrames : \A a \in Pids : f \in working'[a] => f \notin ToSet(freePages')
    BY <1>1, <1>8, <1>10, OneHolder
  <2>3. \A f \in PrivateFrames : f \notin ToSet(freePages') => \E a \in Pids : f \in working'[a]
    BY <1>1, <1>8, <1>10, OneHolder
  <2>. QED
    BY <1>8, <2>1, <2>2, <2>3, ConservedIf DEF FramesConserved
<1>24. MappedFramesAreOwn'
  <2>1. ASSUME NEW q \in Pids, NEW vp \in DOMAIN table'[q]
        PROVE  table'[q][vp] \in working'[q] \cup SharedFrames \cup {Swapped}
    <3>1. q # p /\ vp \in DOMAIN table[q]
      BY <1>11, <1>13
    <3>. QED
      BY <1>1, <1>10, <1>11, <3>1 DEF MappedFramesAreOwn, Writable
  <2>. QED
    BY <2>1 DEF MappedFramesAreOwn, Writable
<1>25. OnlyTheLive'
  <2>1. KeysOf(swap', p) = {} /\ \A q \in Pids : KeysOf(swap', q) \subseteq KeysOf(swap, q)
    BY <1>9 DEF KeysOf
  <2>. QED
    BY <1>1, <1>10, <1>11, <1>12, <1>13, <2>1 DEF OnlyTheLive
<1>26. SwappedPagesHaveCopy'
  <2>1. ASSUME NEW q \in Pids, NEW vp \in DOMAIN table'[q], table'[q][vp] = Swapped
        PROVE  HasPage(swap', <<q, vp>>)
    <3>1. q # p /\ vp \in DOMAIN table[q] /\ table[q][vp] = Swapped
      BY <1>11, <1>13, <2>1
    <3>2. <<q, vp>> \in DOMAIN swap.index /\ <<q, vp>> \notin KeysOf(swap, p)
      BY <1>1, <3>1 DEF SwappedPagesHaveCopy, HasPage, KeysOf
    <3>. QED
      BY <1>9, <3>2 DEF HasPage
  <2>. QED
    BY <2>1 DEF SwappedPagesHaveCopy
<1>. QED
  BY <1>18, <1>19, <1>20, <1>21, <1>22, <1>23, <1>24, <1>25, <1>26 DEF MemInv

LEMMA TakenEviction ==
  ASSUME MemInv, NEW n \in Nat, n <= Len(Available)
  PROVE  NowEvicted(Evict(Victims(n)), ToSet(Victims(n)))
<1>. DEFINE vs == Victims(n)
            V == ToSet(vs)
            out == Evict(vs)
<1>1. vs \in Seq(PrivateFrames) /\ NoRepeat(vs) /\ ToSet(vs) \subseteq Evictable
  BY TakenFrames
<1>2. V = ToSet(vs) /\ out = Evict(vs)
  OBVIOUS
<1>. HIDE DEF vs, V, out
<1>3. NowEvicted(out, V)
  BY <1>1, <1>2, EvictSet
<1>. QED
  BY <1>3 DEF vs, V, out

LEMMA MaxOfBounded ==
  ASSUME NEW N \in Nat, NEW T \in SUBSET (0 .. N), T # {}
  PROVE  Max(T) \in T /\ \A m \in T : m <= Max(T)
<1>. DEFINE R == {N - n : n \in T}
<1>1. R \in SUBSET Nat /\ R # {}
  <2>1. \A n \in T : N - n \in Nat
    OBVIOUS
  <2>2. PICK n \in T : TRUE
    OBVIOUS
  <2>. QED
    BY <2>1, <2>2
<1>2. PICK r \in R : \A m \in R : r <= m
  <2>. HIDE DEF R
  <2>. QED  BY <1>1, LeastMember
<1>3. PICK n \in T : r = N - n
  BY <1>2
<1>4. \A m \in T : N - m \in R /\ n >= m
  BY <1>2, <1>3
<1>. QED
  BY <1>3, <1>4 DEF Max

LEMMA GrowHeapKeeps ==
  ASSUME MemInv, NEW p \in Pids, NEW n \in 1 .. MaxGrowth, GrowHeap(p, n)
  PROVE  MemInv'
<1>. DEFINE frames == Taken(n)
            F == ToSet(frames)
            out == Evict(Victims(n))
            first == heapPage[p]
            last == first + n - 1
            g == [vp \in first .. last |-> frames[vp - first + 1]]
            V == ToSet(Victims(n))
<1>1. /\ proc[p] = "live" /\ n <= Len(Available) /\ last <= MaxVPage[p]
      /\ table' = [out.table EXCEPT ![p] = Over(g, @)]
      /\ working' = [out.working EXCEPT ![p] = @ \cup F]
      /\ heapPage' = [heapPage EXCEPT ![p] = last + 1]
      /\ info' = InfoWithout(Victims(n))
      /\ freePages' = StillFree(n) /\ swap' = out.swap
      /\ proc' = proc /\ recent' = recent /\ memory' = memory
  BY DEF GrowHeap
<1>2. /\ Typed /\ RecentComplete /\ n \in Nat /\ first \in Nat /\ last \in Int
      /\ MaxVPage[p] \in Nat /\ heapPage \in [Pids -> Nat]
  BY SizesAssumption DEF MemInv, Typed
<1>3. /\ frames \in Seq(PrivateFrames) /\ Len(frames) = n
      /\ F \subseteq ToSet(freePages) \cup Evictable
      /\ V = F \cap Evictable /\ Evictable \subseteq PrivateFrames
      /\ Evictable \cap ToSet(freePages) = {}
  BY <1>1, <1>2, TakenFrames, FreeFrames
<1>4. DOMAIN frames = 1 .. n
  BY <1>3, LenProperties
<1>. HIDE DEF frames
<1>5. g \in [DOMAIN g -> F] /\ DOMAIN g \subseteq 0 .. MaxVPage[p]
  <2>1. \A vp \in first .. last : vp - first + 1 \in DOMAIN frames
    BY <1>2, <1>4
  <2>2. \A vp \in first .. last : frames[vp - first + 1] \in F
    BY <2>1 DEF ToSet
  <2>3. first .. last \subseteq 0 .. MaxVPage[p]
    BY <1>1, <1>2
  <2>4. DOMAIN g = first .. last /\ \A vp \in first .. last : g[vp] \in F
    BY <2>2
  <2>5. g = [vp \in DOMAIN g |-> g[vp]]
    OBVIOUS
  <2>. HIDE DEF g, F, first, last
  <2>. QED
    BY <2>3, <2>4, <2>5
<1>6. \A f \in PrivateFrames : info'[f] = IF f \in V THEN Evicted ELSE info[f]
  BY <1>1 DEF InfoWithout
<1>7. info' \in [PrivateFrames -> PageInfo]
  <2>1. Evicted \in PageInfo
    BY DEF Evicted, PageInfo
  <2>2. info' = [f \in PrivateFrames |-> info'[f]]
    BY <1>1 DEF InfoWithout
  <2>3. \A f \in PrivateFrames : info[f] \in PageInfo
    BY <1>2 DEF Typed
  <2>. HIDE DEF V
  <2>. QED
    BY <1>6, <2>1, <2>2, <2>3
<1>. HIDE DEF V
<1>8. \A f \in F : f \in PrivateFrames /\ ~ (info'[f].valid /\ info'[f].owner # None)
  <2>1. \A f \in F : f \in PrivateFrames
    BY <1>1, <1>2, TakenFrames, FreeFrames DEF frames
  <2>2. \A f \in V : ~ (info'[f].valid)
    BY <1>3, <1>6 DEF Evicted
  <2>3. \A f \in F \ V : f \notin Evictable /\ info'[f] = info[f]
    BY <1>3, <1>6, <2>1
  <2>. QED
    BY <2>1, <2>2, <2>3 DEF Evictable
<1>9. \A f \in PrivateFrames \ F : info'[f].valid = info[f].valid /\ Key(f)' = Key(f)
  BY <1>3, <1>6 DEF Key
<1>10. /\ proc' \in [Pids -> {"new", "live", "gone"}] /\ proc'[p] = "live"
       /\ \A q \in Pids : q # p => proc'[q] = proc[q]
       /\ memory' \in [Frames -> Data]
       /\ recent' \in Seq(PrivateFrames) /\ NoRepeat(recent')
       /\ Evictable \ F \subseteq ToSet(recent')
  BY <1>1, <1>2 DEF Typed, RecentComplete
<1>11. heapPage' \in [Pids -> Nat]
  <2>1. last + 1 \in Nat
    BY <1>2
  <2>. QED
    BY <1>1, <1>2, <2>1
<1>. HIDE DEF F, out, g
<1>12. Taking(p, F, out, g)
  BY <1>1, <1>5, <1>7, <1>8, <1>9, <1>10, <1>11 DEF Taking
<1>13. F = ToSet(Taken(n)) /\ out = Evict(Victims(n))
  BY DEF F, frames, out
<1>. QED
  BY <1>1, <1>2, <1>12, <1>13, TakingKeeps

(* The page table the loader gives a process.                              *)
LoadedTable(p) == [vp \in 0..(Size[p] - 1) |-> Taken(Size[p])[vp + 1]]

LEMMA LoadFills ==
  ASSUME MemInv, NEW p \in Pids, Load(p)
  PROVE  /\ Filling(p, ToSet(Taken(Size[p])), Evict(Victims(Size[p])), LoadedTable(p))
         /\ DOMAIN LoadedTable(p) = 0..(Size[p] - 1)
         /\ \A vp \in DOMAIN Image[p] : memory'[LoadedTable(p)[vp]] = Image[p][vp]
<1>. DEFINE n == Size[p]
            frames == Taken(n)
            F == ToSet(frames)
            out == Evict(Victims(n))
            page == [f \in F |-> (CHOOSE i \in DOMAIN frames : frames[i] = f) - 1]
            g == [vp \in 0 .. (n - 1) |-> frames[vp + 1]]
<1>1. /\ proc[p] = "new" /\ n <= Len(Available)
      /\ proc' = [proc EXCEPT ![p] = "live"]
      /\ table' = [out.table EXCEPT ![p] = g]
      /\ working' = [out.working EXCEPT ![p] = F]
      /\ heapPage' = [heapPage EXCEPT ![p] = n - 1]
      /\ info' = [f \in PrivateFrames |-> IF f \in F THEN Holding(p, page[f]) ELSE info[f]]
      /\ recent' = Without(recent, F) \o frames
      /\ freePages' = StillFree(n)
      /\ memory' = [f \in Frames |-> IF f \in F /\ page[f] \in DOMAIN Image[p]
                                     THEN Image[p][page[f]] ELSE memory[f]]
      /\ swap' = out.swap
  BY DEF Load
<1>2. /\ Typed /\ RecentComplete /\ OnlyTheLive /\ n \in Nat \ {0} /\ n - 1 \in Nat
      /\ MaxVPage[p] \in Nat /\ n <= MaxVPage[p] + 1
      /\ recent \in Seq(PrivateFrames) /\ NoRepeat(recent)
  BY SizesAssumption DEF MemInv, Typed, RecentComplete
<1>3. /\ frames \in Seq(PrivateFrames) /\ Len(frames) = n /\ NoRepeat(frames)
      /\ F \subseteq PrivateFrames
  BY <1>1, <1>2, TakenFrames, FreeFrames
<1>4. NowEvicted(out, ToSet(Victims(n)))
  BY <1>1, <1>2, TakenEviction
<1>5. /\ DOMAIN out.table[p] = {} /\ out.working[p] = {}
      /\ out.table \in Tables /\ out.working \in [Pids -> SUBSET PrivateFrames]
  BY <1>1, <1>2, <1>4 DEF NowEvicted, OnlyTheLive
<1>6. DOMAIN frames = 1 .. n
  BY <1>3, LenProperties
<1>. HIDE DEF n, frames
<1>7. /\ g \in [DOMAIN g -> F] /\ DOMAIN g = 0 .. (n - 1)
      /\ \A vp \in 0 .. (n - 1) : g[vp] = frames[vp + 1] /\ vp + 1 \in DOMAIN frames
  <2>1. \A vp \in 0 .. (n - 1) : vp + 1 \in DOMAIN frames
    BY <1>2, <1>6
  <2>2. \A vp \in 0 .. (n - 1) : frames[vp + 1] \in F
    BY <2>1 DEF ToSet
  <2>. QED
    BY <2>1, <2>2
<1>8. \A f \in F : /\ page[f] \in 0 .. (n - 1) /\ g[page[f]] = f
                   /\ \A vp \in 0 .. (n - 1) : g[vp] = f => page[f] = vp
  <2>1. ASSUME NEW f \in F
        PROVE  \E i \in DOMAIN frames : frames[i] = f
    BY DEF ToSet
  <2>2. ASSUME NEW f \in F
        PROVE  page[f] + 1 \in DOMAIN frames /\ frames[page[f] + 1] = f
    <3>. DEFINE i == CHOOSE k \in DOMAIN frames : frames[k] = f
    <3>1. i \in DOMAIN frames /\ frames[i] = f
      BY <2>1
    <3>2. page[f] = i - 1
      OBVIOUS
    <3>. HIDE DEF i, page
    <3>3. page[f] + 1 = i
      BY <1>2, <1>6, <3>1, <3>2
    <3>. QED
      BY <3>1, <3>3
  <2>3. \A f \in F : page[f] \in Int
    <3>1. \A f \in F : (CHOOSE i \in DOMAIN frames : frames[i] = f) \in DOMAIN frames
      BY <2>1
    <3>. QED
      BY <1>2, <1>6, <3>1
  <2>. HIDE DEF page
  <2>4. \A f \in F : page[f] \in 0 .. (n - 1)
    BY <1>2, <1>6, <2>2, <2>3
  <2>5. \A f \in F : \A vp \in 0 .. (n - 1) : g[vp] = f => page[f] + 1 = vp + 1
    BY <1>3, <1>7, <2>2 DEF NoRepeat
  <2>6. \A f \in F : g[page[f]] = f
    BY <1>7, <2>2, <2>4
  <2>7. \A f \in F : \A vp \in 0 .. (n - 1) : g[vp] = f => page[f] = vp
    BY <1>2, <2>3, <2>5
  <2>. QED
    BY <2>4, <2>6, <2>7
<1>. HIDE DEF page
<1>9. Over(g, out.table[p]) = g
  BY <1>5 DEF Over
<1>10. table' = [out.table EXCEPT ![p] = Over(g, @)]
  BY <1>1, <1>9
<1>11. working' = [out.working EXCEPT ![p] = @ \cup F]
  BY <1>1, <1>5
<1>. HIDE DEF g, out
<1>12. \A f \in F : info'[f] = Holding(p, page[f]) /\ f \in PrivateFrames
  BY <1>1, <1>3
<1>13. \A f \in PrivateFrames \ F : info'[f].valid = info[f].valid /\ Key(f)' = Key(f)
  BY <1>1 DEF Key
<1>14. info' \in [PrivateFrames -> PageInfo]
  <2>1. \A f \in F : Holding(p, page[f]) \in PageInfo
    BY <1>2, <1>8 DEF Holding, PageInfo
  <2>2. \A f \in PrivateFrames : info[f] \in PageInfo
    BY <1>2 DEF Typed
  <2>. QED
    BY <1>1, <2>1, <2>2
<1>15. memory' \in [Frames -> Data]
  <2>1. \A vp \in DOMAIN Image[p] : Image[p][vp] \in Data
    BY DataAssumption
  <2>. QED
    BY <1>1, <1>2, <2>1 DEF Typed
<1>16. /\ proc' \in [Pids -> {"new", "live", "gone"}] /\ proc'[p] = "live"
       /\ \A q \in Pids : q # p => proc'[q] = proc[q]
       /\ heapPage' \in [Pids -> Nat]
  BY <1>1, <1>2 DEF Typed
<1>17. /\ recent' \in Seq(PrivateFrames) /\ NoRepeat(recent')
       /\ ToSet(recent') = (ToSet(recent) \ F) \cup F
  <2>. DEFINE rest == Without(recent, F)
  <2>1. rest \in Seq(PrivateFrames) /\ ToSet(rest) = ToSet(recent) \ F /\ NoRepeat(rest)
    BY <1>2, WithoutMembers
  <2>2. recent' = rest \o frames /\ F = ToSet(frames)
    BY <1>1
  <2>. HIDE DEF rest, F
  <2>. QED
    BY <1>3, <2>1, <2>2, ConcatMembers
<1>18. Evictable \ F \subseteq ToSet(recent')
  BY <1>2, <1>17 DEF RecentComplete
<1>19. ASSUME NEW f \in F
       PROVE  /\ info'[f].owner = p /\ info'[f].vpage \in DOMAIN g /\ f \in ToSet(recent')
              /\ \A vp \in DOMAIN g : g[vp] = f => info'[f].vpage = vp
  <2>1. info'[f].owner = p /\ info'[f].vpage = page[f]
    <3>1. info'[f] = Holding(p, page[f])
      BY <1>12
    <3>2. Holding(p, page[f]).owner = p /\ Holding(p, page[f]).vpage = page[f]
      BY DEF Holding
    <3>. QED
      BY <3>1, <3>2
  <2>2. page[f] \in 0 .. (n - 1) /\ \A vp \in 0 .. (n - 1) : g[vp] = f => page[f] = vp
    BY <1>8
  <2>3. f \in ToSet(recent')
    BY <1>17
  <2>. QED
    BY <1>7, <2>1, <2>2, <2>3
<1>20. DOMAIN g \subseteq 0 .. MaxVPage[p]
  BY <1>2, <1>7
<1>21. swap' = out.swap
  BY <1>1
<1>22. Taking(p, F, out, g)
  <2>. HIDE DEF F
  <2>. QED
    BY <1>7, <1>10, <1>11, <1>13, <1>14, <1>15, <1>16, <1>17, <1>18, <1>19, <1>20, <1>21
       DEF Taking
<1>23. \A f \in F : /\ info'[f].valid /\ info'[f].owner = p
                    /\ info'[f].vpage = page[f] /\ Key(f)' = <<p, page[f]>>
  <2>1. \A vp : Holding(p, vp).valid /\ Holding(p, vp).owner = p /\ Holding(p, vp).vpage = vp
    BY DEF Holding
  <2>2. \A f \in F : Key(f)' = <<info'[f].owner, info'[f].vpage>>
    BY DEF Key
  <2>. HIDE DEF F
  <2>. QED
    BY <1>12, <2>1, <2>2
<1>24. \A vp \in DOMAIN g : g[vp] \in F /\ page[g[vp]] = vp
  <2>. HIDE DEF F
  <2>. QED  BY <1>7, <1>8
<1>25. \A f \in PrivateFrames \ F : info'[f] = info[f] /\ memory'[f] = memory[f]
  BY <1>1, FramesArePrivateOrShared
<1>26. KeysOf(swap', p) = {} /\ DOMAIN table[p] = {}
  BY <1>1, <1>2, <1>4, <1>21 DEF NowEvicted, OnlyTheLive
<1>27. \A f \in F : ~ HasPage(swap', Key(f)')
  <2>1. \A vp : <<p, vp>> \notin DOMAIN swap'.index
    BY <1>26 DEF KeysOf
  <2>. HIDE DEF F
  <2>. QED
    BY <1>23, <2>1 DEF HasPage
<1>28. 0 \in DOMAIN g
  BY <1>2, <1>7
<1>29. Filling(p, F, out, g)
  <2>. HIDE DEF F
  <2>. QED
    BY <1>7, <1>8, <1>22, <1>23, <1>24, <1>25, <1>26, <1>27, <1>28 DEF Filling
<1>30. \A vp \in DOMAIN Image[p] : memory'[g[vp]] = Image[p][vp]
  <2>1. DOMAIN Image[p] \subseteq DOMAIN g
    BY <1>7, DataAssumption DEF n
  <2>2. \A vp \in DOMAIN Image[p] : g[vp] \in Frames /\ g[vp] \in F /\ page[g[vp]] = vp
    BY <1>3, <1>24, <2>1, FramesArePrivateOrShared
  <2>. HIDE DEF F
  <2>. QED
    BY <1>1, <2>2
<1>31. /\ g = LoadedTable(p) /\ out = Evict(Victims(Size[p]))
       /\ F = ToSet(Taken(Size[p])) /\ n = Size[p]
  BY DEF g, out, n, frames, LoadedTable
<1>. HIDE DEF F
<1>. QED
  BY <1>7, <1>29, <1>30, <1>31

LEMMA LoadKeeps ==
  ASSUME MemInv, NEW p \in Pids, Load(p)
  PROVE  MemInv'
<1>. DEFINE n == Size[p]
            F == ToSet(Taken(n))
            out == Evict(Victims(n))
            g == LoadedTable(p)
<1>1. n \in Nat /\ n <= Len(Available) /\ freePages' = StillFree(n)
  BY SizesAssumption DEF Load
<1>2. Taking(p, F, out, g)
  BY LoadFills DEF Filling
<1>3. F = ToSet(Taken(n)) /\ out = Evict(Victims(n))
  OBVIOUS
<1>. HIDE DEF n, F, out, g
<1>. QED
  BY <1>1, <1>2, <1>3, TakingKeeps

(* A page fault: the step takes one frame for the page.                    *)
LEMMA TouchProperties ==
  ASSUME Typed, RecentComplete, NEW f
  PROVE  /\ Touch(f) \in Seq(PrivateFrames) /\ NoRepeat(Touch(f))
         /\ ToSet(recent) \subseteq ToSet(Touch(f))
         /\ f \in PrivateFrames => f \in ToSet(Touch(f))
<1>1. recent \in Seq(PrivateFrames) /\ NoRepeat(recent)
  BY DEF Typed, RecentComplete
<1>2. CASE f \in PrivateFrames
  <2>. DEFINE rest == Without(recent, {f})
  <2>1. rest \in Seq(PrivateFrames) /\ ToSet(rest) = ToSet(recent) \ {f} /\ NoRepeat(rest)
    BY <1>1, WithoutMembers
  <2>2. Touch(f) = Append(rest, f)
    BY <1>2 DEF Touch
  <2>. HIDE DEF rest
  <2>3. f \notin ToSet(rest)
    BY <2>1
  <2>. QED
    BY <1>2, <2>1, <2>2, <2>3, AppendMember
<1>3. CASE f \notin PrivateFrames
  BY <1>1, <1>3 DEF Touch
<1>. QED
  BY <1>2, <1>3

LEMMA SwappedInType ==
  ASSUME NEW s, GoodSwap(s), NEW key, NEW f
  PROVE  SwappedIn(s, key, f) \in Data
<1>1. s.file \in [DOMAIN s.file -> Data] /\ DOMAIN s.file = UsedSlots(s)
  BY SwapTypes DEF GoodSwap
<1>2. key \in DOMAIN s.index => s.index[key] \in UsedSlots(s)
  BY DEF UsedSlots
<1>. QED
  BY <1>1, <1>2, DataAssumption DEF SwappedIn, ReadPage, HasPage

TakesOne(p, vp) ==
  /\ 1 <= Len(Available) /\ {Available[1]} = ToSet(Taken(1))
  /\ Available[1] \in PrivateFrames /\ freePages' = StillFree(1)
  /\ Taking(p, {Available[1]}, Evict(Victims(1)), [v \in {vp} |-> Available[1]])

LEMMA FaultTakes ==
  ASSUME MemInv, NEW p \in Pids, NEW vp \in DOMAIN table[p], proc[p] = "live",
         Available # << >>, NEW t, t = FaultedIn(p, vp), Access(p, vp, t),
         memory' \in [Frames -> Data], info' \in [PrivateFrames -> PageInfo],
         \A f \in PrivateFrames : /\ info'[f].valid = t.info[f].valid
                                  /\ info'[f].owner = t.info[f].owner
                                  /\ info'[f].vpage = t.info[f].vpage
  PROVE  TakesOne(p, vp)
<1>. DEFINE f == Available[1]
            F == {f}
            out == Evict(Victims(1))
            g == [v \in {vp} |-> f]
<1>0. Typed /\ RecentComplete /\ TablesBounded
  BY DEF MemInv
<1>1. /\ t.frame = f /\ t.table = [out.table EXCEPT ![p][vp] = f]
      /\ t.working = [out.working EXCEPT ![p] = @ \cup {f}]
      /\ t.info = [info EXCEPT ![f] = Holding(p, vp)]
      /\ t.freePages = StillFree(1) /\ t.swap = out.swap
  BY DEF FaultedIn
<1>2. /\ table' = t.table /\ working' = t.working /\ recent' = Touch(t.frame)
      /\ freePages' = t.freePages /\ swap' = t.swap /\ proc' = proc /\ heapPage' = heapPage
  BY DEF Access
<1>3. 1 <= Len(Available) /\ 1 \in Nat
  BY FreeFrames, EmptySeq, LenProperties
<1>4. F = ToSet(Taken(1)) /\ f \in PrivateFrames
  <2>1. /\ Taken(1) \in Seq(PrivateFrames) /\ Len(Taken(1)) = 1
        /\ Available \in Seq(PrivateFrames)
    BY <1>3, TakenFrames, FreeFrames
  <2>2. DOMAIN Taken(1) = {1}
    BY <2>1, LenProperties
  <2>3. Taken(1)[1] = Available[1] /\ Available[1] \in PrivateFrames
    <3>1. \A i \in 1 .. 1 : Available[i] \in PrivateFrames
      BY <1>3, <2>1, ElementOfSeq, LenProperties
    <3>2. SubSeq(Available, 1, 1)[1] = Available[1 + 1 - 1]
      BY <3>1, SubSeqProperties
    <3>. QED
      BY <3>1, <3>2 DEF Taken
  <2>. QED
    BY <2>2, <2>3 DEF ToSet
<1>5. NowEvicted(out, ToSet(Victims(1)))
  BY <1>3, TakenEviction
<1>6. /\ out.table \in Tables /\ out.working \in [Pids -> SUBSET PrivateFrames]
      /\ DOMAIN out.table[p] = DOMAIN table[p]
  BY <1>5 DEF NowEvicted
<1>7. \A x \in PrivateFrames : t.info[x] = IF x = f THEN Holding(p, vp) ELSE info[x]
  BY <1>0, <1>1 DEF Typed
<1>8. out = Evict(Victims(1)) /\ g \in [DOMAIN g -> F] /\ DOMAIN g = {vp} /\ g[vp] = f
  OBVIOUS
<1>. HIDE DEF f, out
<1>9. table' = [out.table EXCEPT ![p] = Over(g, @)]
  <2>. DEFINE old == out.table[p]
  <2>1. [old EXCEPT ![vp] = f] = Over(g, old)
    <3>1. DOMAIN old \cup DOMAIN g = DOMAIN old
      BY <1>6
    <3>2. old \in [DOMAIN old -> Frames \cup {Swapped}]
      BY <1>6, TableTypes
    <3>. HIDE DEF old
    <3>. QED
      BY <3>1, <3>2 DEF Over
  <2>2. table' = [out.table EXCEPT ![p] = [old EXCEPT ![vp] = f]]
    BY <1>1, <1>2
  <2>. QED
    BY <2>1, <2>2
<1>10. working' = [out.working EXCEPT ![p] = @ \cup F]
  BY <1>1, <1>2
<1>. HIDE DEF g
<1>11. \A x \in PrivateFrames \ F : info'[x].valid = info[x].valid /\ Key(x)' = Key(x)
  BY <1>7 DEF Key
<1>12. /\ recent' \in Seq(PrivateFrames) /\ NoRepeat(recent') /\ f \in ToSet(recent')
       /\ Evictable \ F \subseteq ToSet(recent')
  <2>1. recent' = Touch(f)
    BY <1>1, <1>2
  <2>2. Touch(f) \in Seq(PrivateFrames) /\ NoRepeat(Touch(f))
        /\ ToSet(recent) \subseteq ToSet(Touch(f)) /\ f \in ToSet(Touch(f))
    BY <1>0, <1>4, TouchProperties
  <2>. QED
    BY <1>0, <2>1, <2>2 DEF RecentComplete
<1>13. ASSUME NEW x \in F
       PROVE  /\ info'[x].owner = p /\ info'[x].vpage \in DOMAIN g /\ x \in ToSet(recent')
              /\ \A v \in DOMAIN g : g[v] = x => info'[x].vpage = v
  <2>1. x = f /\ info'[x].owner = p /\ info'[x].vpage = vp
    BY <1>4, <1>7 DEF Holding
  <2>. QED
    BY <1>8, <1>12, <2>1
<1>14. DOMAIN g \subseteq 0 .. MaxVPage[p]
  BY <1>0, <1>8 DEF TablesBounded
<1>15. /\ proc' \in [Pids -> {"new", "live", "gone"}] /\ proc'[p] = "live"
       /\ \A q \in Pids : q # p => proc'[q] = proc[q]
       /\ heapPage' \in [Pids -> Nat]
  BY <1>0, <1>2 DEF Typed
<1>16. swap' = out.swap /\ freePages' = StillFree(1)
  BY <1>1, <1>2
<1>. HIDE DEF F
<1>17. Taking(p, F, out, g)
  BY <1>8, <1>9, <1>10, <1>11, <1>12, <1>13, <1>14, <1>15, <1>16 DEF Taking
<1>. QED
  BY <1>3, <1>4, <1>16, <1>17 DEF f, F, out, g, TakesOne

LEMMA FaultKeeps ==
  ASSUME MemInv, NEW p \in Pids, NEW vp \in DOMAIN table[p], proc[p] = "live",
         Available # << >>, NEW t, t = FaultedIn(p, vp), Access(p, vp, t),
         memory' \in [Frames -> Data], info' \in [PrivateFrames -> PageInfo],
         \A f \in PrivateFrames : /\ info'[f].valid = t.info[f].valid
                                  /\ info'[f].owner = t.info[f].owner
                                  /\ info'[f].vpage = t.info[f].vpage
  PROVE  MemInv'
<1>. DEFINE F == {Available[1]}
            out == Evict(Victims(1))
            g == [v \in {vp} |-> Available[1]]
<1>1. /\ 1 <= Len(Available) /\ F = ToSet(Taken(1)) /\ freePages' = StillFree(1)
      /\ Taking(p, F, out, g)
  <2>1. TakesOne(p, vp)
    BY FaultTakes
  <2>. QED
    BY <2>1 DEF TakesOne
<1>2. out = Evict(Victims(1)) /\ 1 \in Nat
  OBVIOUS
<1>. HIDE DEF F, out, g
<1>. QED
  BY <1>1, <1>2, TakingKeeps

LEMMA PresentKeeps ==
  ASSUME MemInv, NEW p \in Pids, NEW vp \in DOMAIN table[p], Present(p, vp),
         NEW t, t = Translated(p, vp), Access(p, vp, t),
         memory' \in [Frames -> Data], info' \in [PrivateFrames -> PageInfo],
         \A f \in PrivateFrames : /\ info'[f].valid = t.info[f].valid
                                  /\ info'[f].owner = t.info[f].owner
                                  /\ info'[f].vpage = t.info[f].vpage
  PROVE  MemInv'
<1>1. t = [frame |-> table[p][vp], table |-> table, working |-> working,
           info |-> info, freePages |-> freePages, memory |-> memory, swap |-> swap]
  BY DEF Translated
<1>2. /\ table' = table /\ working' = working /\ freePages' = freePages /\ swap' = swap
      /\ proc' = proc /\ heapPage' = heapPage /\ recent' = Touch(table[p][vp])
  BY <1>1 DEF Access
<1>3. \A f \in PrivateFrames : info'[f].valid = info[f].valid /\ Key(f)' = Key(f)
  BY <1>1 DEF Key
<1>4. /\ recent' \in Seq(PrivateFrames) /\ NoRepeat(recent')
      /\ ToSet(recent) \subseteq ToSet(recent')
  BY <1>2, TouchProperties DEF MemInv
<1>5. Evictable \subseteq ToSet(recent')
  BY <1>4 DEF MemInv, RecentComplete
<1>6. Touching
  BY <1>2, <1>3, <1>4, <1>5 DEF Touching
<1>. QED
  BY <1>6, TouchingKeeps

LEMMA TranslatedTypes ==
  ASSUME MemInv, NEW p \in Pids, NEW vp \in DOMAIN table[p],
         Present(p, vp) \/ Available # << >>, NEW t, t = Translated(p, vp)
  PROVE  t.info \in [PrivateFrames -> PageInfo] /\ t.memory \in [Frames -> Data]
<1>1. CASE Present(p, vp)
  BY <1>1 DEF Translated, MemInv, Typed
<1>2. CASE ~ Present(p, vp)
  <2>. DEFINE f == Available[1]
              out == Evict(Victims(1))
              content == SwappedIn(out.swap, <<p, vp>>, f)
  <2>1. /\ t.info = [info EXCEPT ![f] = Holding(p, vp)]
        /\ t.memory = [memory EXCEPT ![f] = content]
    BY <1>2 DEF Translated, FaultedIn
  <2>2. vp \in Nat /\ Holding(p, vp) \in PageInfo
    <3>1. vp \in Nat
      BY TableTypes DEF MemInv, Typed
    <3>. QED
      BY <3>1 DEF Holding, PageInfo
  <2>3. content \in Data
    <3>1. 1 <= Len(Available) /\ 1 \in Nat
      BY <1>2, FreeFrames, EmptySeq, LenProperties
    <3>2. NowEvicted(out, ToSet(Victims(1)))
      BY <3>1, TakenEviction
    <3>3. GoodSwap(out.swap)
      BY <3>2 DEF NowEvicted
    <3>. QED
      BY <3>3, SwappedInType
  <2>. HIDE DEF content, f
  <2>. QED
    BY <2>1, <2>2, <2>3 DEF MemInv, Typed
<1>. QED
  BY <1>1, <1>2

LEMMA AccessKeeps ==
  ASSUME MemInv, NEW p \in Pids, NEW vp \in DOMAIN table[p],
         NEW t, t = Translated(p, vp), Access(p, vp, t),
         memory' \in [Frames -> Data], info' \in [PrivateFrames -> PageInfo],
         \A f \in PrivateFrames : /\ info'[f].valid = t.info[f].valid
                                  /\ info'[f].owner = t.info[f].owner
                                  /\ info'[f].vpage = t.info[f].vpage
  PROVE  MemInv'
<1>1. proc[p] = "live" /\ (Present(p, vp) \/ Available # << >>)
  BY DEF Access
<1>2. CASE Present(p, vp)
  BY <1>2, PresentKeeps
<1>3. CASE ~ Present(p, vp)
  <2>1. t = FaultedIn(p, vp)
    BY <1>3 DEF Translated
  <2>. QED
    BY <1>1, <1>3, <2>1, FaultKeeps
<1>. QED
  BY <1>2, <1>3

LEMMA ReadKeeps ==
  ASSUME MemInv, NEW p \in Pids, NEW vp \in DOMAIN table[p], Read(p, vp)
  PROVE  MemInv'
<1>. DEFINE t == Translated(p, vp)
<1>1. Access(p, vp, t) /\ info' = t.info /\ memory' = t.memory
  BY DEF Read
<1>2. Present(p, vp) \/ Available # << >>
  BY <1>1 DEF Access
<1>3. t = Translated(p, vp)
  OBVIOUS
<1>. HIDE DEF t
<1>4. t.info \in [PrivateFrames -> PageInfo] /\ t.memory \in [Frames -> Data]
  BY <1>2, <1>3, TranslatedTypes
<1>. QED
  BY <1>1, <1>3, <1>4, AccessKeeps

LEMMA DirtiedProperties ==
  ASSUME NEW i \in [PrivateFrames -> PageInfo], NEW f
  PROVE  /\ Dirtied(i, f) \in [PrivateFrames -> PageInfo]
         /\ \A x \in PrivateFrames : /\ Dirtied(i, f)[x].valid = i[x].valid
                                     /\ Dirtied(i, f)[x].owner = i[x].owner
                                     /\ Dirtied(i, f)[x].vpage = i[x].vpage
<1>1. CASE f \in PrivateFrames
  <2>. DEFINE dirty == [i[f] EXCEPT !.dirty = TRUE]
  <2>1. i[f] \in PageInfo
    BY <1>1
  <2>2. dirty \in PageInfo
    BY <2>1, Zenon DEF PageInfo
  <2>3. dirty.valid = i[f].valid /\ dirty.owner = i[f].owner /\ dirty.vpage = i[f].vpage
    BY <2>1 DEF PageInfo
  <2>4. Dirtied(i, f) = [i EXCEPT ![f] = dirty]
    BY <1>1 DEF Dirtied
  <2>. HIDE DEF dirty
  <2>. QED
    BY <1>1, <2>2, <2>3, <2>4
<1>2. CASE f \notin PrivateFrames
  BY <1>2 DEF Dirtied
<1>. QED
  BY <1>1, <1>2

LEMMA WriteKeeps ==
  ASSUME MemInv, NEW p \in Pids, NEW vp \in DOMAIN table[p], NEW d \in Data,
         Write(p, vp, d)
  PROVE  MemInv'
<1>. DEFINE t == Translated(p, vp)
<1>1. /\ Access(p, vp, t) /\ info' = Dirtied(t.info, t.frame)
      /\ memory' = IF t.frame \in Writable(t.working, p)
                   THEN [t.memory EXCEPT ![t.frame] = d] ELSE t.memory
  BY DEF Write
<1>2. Present(p, vp) \/ Available # << >>
  BY <1>1 DEF Access
<1>3. t = Translated(p, vp)
  OBVIOUS
<1>. HIDE DEF t
<1>4. t.info \in [PrivateFrames -> PageInfo] /\ t.memory \in [Frames -> Data]
  BY <1>2, <1>3, TranslatedTypes
<1>5. memory' \in [Frames -> Data]
  BY <1>1, <1>4
<1>6. /\ info' \in [PrivateFrames -> PageInfo]
      /\ \A f \in PrivateFrames : /\ info'[f].valid = t.info[f].valid
                                  /\ info'[f].owner = t.info[f].owner
                                  /\ info'[f].vpage = t.info[f].vpage
  BY <1>1, <1>4, DirtiedProperties
<1>. QED
  BY <1>1, <1>3, <1>5, <1>6, AccessKeeps

LEMMA MapSharedAttaches ==
  ASSUME MemInv, NEW p \in Pids, NEW r \in DOMAIN RegionStart, MapShared(p, r)
  PROVE  /\ Attaching(p, RegionPages(p, r))
         /\ DOMAIN RegionPages(p, r) \cap DOMAIN table[p] = {}
<1>. DEFINE first == NextVPage(p)
            last == first + PagesPerRegion - 1
            g == [vp \in first .. last |-> RegionStart[r] + (vp - first)]
<1>0. g = RegionPages(p, r)
  BY DEF RegionPages
<1>1. /\ proc[p] = "live" /\ DOMAIN g \subseteq 0 .. MaxVPage[p]
      /\ table' = [table EXCEPT ![p] = Over(g, @)]
      /\ UNCHANGED <<proc, working, heapPage, info, recent, freePages, memory, swap>>
  BY <1>0 DEF MapShared
<1>2. first \in Nat /\ \A vp \in DOMAIN table[p] : vp \in Nat /\ vp < first
  <2>. DEFINE N == MaxVPage[p]
              T == DOMAIN table[p]
              m == Max(T)
  <2>1. T \in SUBSET (0 .. N) /\ N \in Nat
    BY SizesAssumption DEF MemInv, TablesBounded
  <2>2. \A vp \in T : vp \in Nat
    BY <2>1
  <2>3. first = IF T = {} THEN 0 ELSE m + 1
    BY DEF NextVPage
  <2>4. T # {} => m \in T /\ \A vp \in T : vp <= m
    <3>. HIDE DEF T, N
    <3>. QED  BY <2>1, MaxOfBounded
  <2>. HIDE DEF T, m, N, first
  <2>5. first \in Nat /\ \A vp \in T : vp \in Nat /\ vp < first
    BY <2>2, <2>3, <2>4
  <2>. QED
    BY <2>5 DEF T
<1>3. /\ PagesPerRegion \in Nat \ {0} /\ TotalPages \in Nat /\ FirstShared \in Nat
      /\ MaxVPage[p] \in Nat
  BY SizesAssumption, SharedTotalIsNat
<1>4. /\ RegionStart[r] \in Nat /\ FirstShared <= RegionStart[r]
      /\ RegionStart[r] + PagesPerRegion <= TotalPages
  <2>1. /\ r \in 1 .. NumRegions /\ FirstShared + r * PagesPerRegion <= TotalPages
        /\ RegionStart[r] = FirstShared + (r - 1) * PagesPerRegion
    BY DEF RegionStart
  <2>2. NumRegions \in Nat
    BY SizesAssumption
  <2>3. r \in Nat \ {0} /\ r - 1 \in Nat
    BY <2>1, <2>2
  <2>4. r * PagesPerRegion = (r - 1) * PagesPerRegion + PagesPerRegion
        /\ (r - 1) * PagesPerRegion \in Nat
    BY <1>3, <2>3
  <2>. DEFINE before == (r - 1) * PagesPerRegion
              upTo == r * PagesPerRegion
  <2>5. before \in Nat /\ upTo = before + PagesPerRegion
        /\ RegionStart[r] = FirstShared + before /\ FirstShared + upTo <= TotalPages
    BY <2>1, <2>4
  <2>. HIDE DEF before, upTo
  <2>. QED
    BY <1>3, <2>5
<1>. HIDE DEF first
<1>5. g \in [DOMAIN g -> SharedFrames] /\ DOMAIN g \subseteq 0 .. MaxVPage[p]
  <2>1. ASSUME NEW vp \in first .. last PROVE RegionStart[r] + (vp - first) \in SharedFrames
    BY <1>2, <1>3, <1>4 DEF SharedFrames
  <2>. HIDE DEF last
  <2>. QED
    BY <1>1, <2>1
<1>6. DOMAIN g \cap DOMAIN table[p] = {}
  <2>1. \A vp \in DOMAIN g : vp \in first .. last
    OBVIOUS
  <2>2. \A vp \in first .. last : vp >= first
    BY <1>2
  <2>. HIDE DEF g, last
  <2>. QED
    BY <1>2, <2>1, <2>2
<1>. HIDE DEF g
<1>7. Attaching(p, g)
  BY <1>1, <1>5 DEF Attaching
<1>. QED
  BY <1>0, <1>6, <1>7

LEMMA MapSharedKeeps ==
  ASSUME MemInv, NEW p \in Pids, NEW r \in DOMAIN RegionStart, MapShared(p, r)
  PROVE  MemInv'
BY MapSharedAttaches, AttachingKeeps

LEMMA InitEstablishes == Init => MemInv
<1>. SUFFICES ASSUME Init PROVE MemInv
  OBVIOUS
<1>1. /\ proc = [p \in Pids |-> "new"] /\ table = [p \in Pids |-> << >>]
      /\ working = [p \in Pids |-> {}] /\ heapPage = [p \in Pids |-> 0]
      /\ info = [f \in PrivateFrames |-> Unused] /\ recent = << >>
      /\ freePages = [i \in 1 .. FirstShared |-> i - 1]
      /\ memory = [f \in Frames |-> Zero] /\ swap = EmptySwap
  BY DEF Init
<1>2. DOMAIN << >> = {} /\ \A S : << >> \in [{} -> S]
  OBVIOUS
<1>3. FirstShared \in Nat
  BY SharedTotalIsNat, SizesAssumption
<1>4. GoodSwap(swap)
  <2>1. /\ swap.index = << >> /\ swap.freeSlots = << >> /\ swap.nextSlot = 0
        /\ swap.file = << >>
    BY <1>1 DEF EmptySwap
  <2>2. swap \in Swaps
    <3>1. << >> \in UNION {[K -> Nat] : K \in SUBSET Keys}
          /\ << >> \in UNION {[K -> Data] : K \in SUBSET Nat}
      BY <1>2
    <3>2. << >> \in Seq(Nat)
      OBVIOUS
    <3>. QED
      BY <1>1, <3>1, <3>2 DEF EmptySwap, Swaps
  <2>3. UsedSlots(swap) = {} /\ ToSet(swap.freeSlots) = {} /\ NoRepeat(swap.freeSlots)
    BY <1>2, <2>1 DEF UsedSlots, ToSet, NoRepeat
  <2>. QED
    BY <1>2, <2>1, <2>2, <2>3 DEF GoodSwap
<1>5. /\ freePages \in Seq(PrivateFrames) /\ NoRepeat(freePages)
      /\ ToSet(freePages) = PrivateFrames
  <2>1. \A i \in 1 .. FirstShared : i - 1 \in PrivateFrames
    BY <1>3 DEF PrivateFrames
  <2>2. freePages \in Seq(PrivateFrames) /\ DOMAIN freePages = 1 .. FirstShared
    BY <1>1, <1>3, <2>1
  <2>3. NoRepeat(freePages)
    BY <1>1, <1>3, <2>2 DEF NoRepeat
  <2>4. \A f \in PrivateFrames : f + 1 \in 1 .. FirstShared /\ freePages[f + 1] = f
    BY <1>1, <1>3 DEF PrivateFrames
  <2>5. \A i \in 1 .. FirstShared : freePages[i] \in PrivateFrames
    BY <1>1, <2>1
  <2>. QED
    BY <2>2, <2>3, <2>4, <2>5 DEF ToSet
<1>6. Typed
  <2>1. << >> \in UNION {[D -> Frames \cup {Swapped}] : D \in SUBSET Nat}
    BY <1>2
  <2>2. table \in Tables
    BY <1>1, <2>1 DEF Tables
  <2>3. info \in [PrivateFrames -> PageInfo]
    BY <1>1 DEF Unused, PageInfo
  <2>. QED
    BY <1>1, <1>4, <1>5, <2>2, <2>3, DataAssumption DEF Typed
<1>7. Evictable = {}
  BY <1>1 DEF Evictable, Unused
<1>8. \A p \in Pids : DOMAIN table[p] = {} /\ working[p] = {} /\ KeysOf(swap, p) = {}
  BY <1>1, <1>2 DEF EmptySwap, KeysOf
<1>9. FramesConserved
  BY <1>5, <1>8 DEF FramesConserved
<1>10. RecentComplete
  BY <1>1, <1>2, <1>7 DEF RecentComplete, NoRepeat
<1>. QED
  BY <1>6, <1>7, <1>8, <1>9, <1>10
     DEF MemInv, TablesBounded, Registered, MappedOnce, MappedFramesAreOwn, OnlyTheLive,
         SwappedPagesHaveCopy

LEMMA NextKeeps ==
  ASSUME MemInv, [Next]_vars
  PROVE  MemInv'
<1>1. CASE Next
  <2>1. PICK p \in Pids :
          \/ Load(p)
          \/ LoadFails(p)
          \/ Exit(p)
          \/ \E vp \in DOMAIN table[p] : Read(p, vp)
          \/ \E vp \in DOMAIN table[p], d \in Data : Write(p, vp, d)
          \/ \E r \in DOMAIN RegionStart : MapShared(p, r)
          \/ p \in Growers /\ \E n \in 1..MaxGrowth : GrowHeap(p, n)
          \/ p \in Growers /\ \E n \in 1..MaxGrowth : GrowFails(p, n)
    BY <1>1 DEF Next
  <2>2. CASE Load(p)
    BY <2>2, LoadKeeps
  <2>3. CASE LoadFails(p)
    BY <2>3, FailingKeeps DEF LoadFails
  <2>4. CASE Exit(p)
    BY <2>4, ExitKeeps
  <2>5. CASE \E vp \in DOMAIN table[p] : Read(p, vp)
    BY <2>5, ReadKeeps
  <2>6. CASE \E vp \in DOMAIN table[p], d \in Data : Write(p, vp, d)
    BY <2>6, WriteKeeps
  <2>7. CASE \E r \in DOMAIN RegionStart : MapShared(p, r)
    BY <2>7, MapSharedKeeps
  <2>8. CASE p \in Growers /\ \E n \in 1..MaxGrowth : GrowHeap(p, n)
    BY <2>8, GrowHeapKeeps
  <2>9. CASE p \in Growers /\ \E n \in 1..MaxGrowth : GrowFails(p, n)
    BY <2>9, FailingKeeps DEF GrowFails
  <2>. QED
    BY <2>1, <2>2, <2>3, <2>4, <2>5, <2>6, <2>7, <2>8, <2>9
<1>2. CASE UNCHANGED vars
  <2>1. /\ UNCHANGED <<proc, table, working, heapPage, freePages, swap>>
        /\ info' = info /\ recent' = recent /\ memory' = memory
    BY <1>2 DEF vars, processVars
  <2>2. \A f : Key(f)' = Key(f)
    BY <2>1 DEF Key
  <2>3. Touching
    BY <2>1, <2>2 DEF Touching, MemInv, Typed, RecentComplete
  <2>. QED
    BY <2>3, TouchingKeeps
<1>. QED
  BY <1>1, <1>2

(* The memory manager keeps its tables, working sets, free list and swap   *)
(* file in order through every step.                                       *)
THEOREM InvariantHolds == Spec => []MemInv
<1>1. Init => MemInv
  BY InitEstablishes
<1>2. MemInv /\ [Next]_vars => MemInv'
  BY NextKeeps
<1>. QED
  BY <1>1, <1>2, PTL DEF Spec

(* The types of the memory manager's state, whatever the programs do.      *)
THEOREM TypesHold == Spec => []TypeOK
<1>1. MemInv => TypeOK
  <2>1. ASSUME MemInv PROVE TypeOK
    <3>1. Typed /\ TablesBounded /\ GoodSwap(swap)
      BY <2>1 DEF MemInv, Typed
    <3>2. \A p \in Pids : /\ DOMAIN table[p] \subseteq 0..MaxVPage[p]
                          /\ \A vp \in DOMAIN table[p] :
                               table[p][vp] \in Frames \cup {Swapped}
      BY <3>1, TableTypes DEF Typed, TablesBounded
    <3>3. /\ DOMAIN swap.index \subseteq Keys
          /\ DOMAIN swap.file \subseteq Nat /\ swap.file \in [DOMAIN swap.file -> Data]
          /\ swap.freeSlots \in Seq(Nat) /\ swap.nextSlot \in Nat
      BY <3>1, SwapTypes DEF GoodSwap
    <3>4. \A key \in DOMAIN swap.index : swap.index[key] \in DOMAIN swap.file
      BY <3>1 DEF GoodSwap, UsedSlots
    <3>5. swap.freeSlots \in Seq(0 .. swap.nextSlot - 1)
      <4>. DEFINE q == swap.freeSlots
                  S == 0 .. swap.nextSlot - 1
      <4>1. q \in Seq(Nat) /\ \A i \in DOMAIN q : q[i] \in S
        BY <3>1, <3>3 DEF GoodSwap, ToSet
      <4>. HIDE DEF q, S
      <4>2. Len(q) \in Nat /\ q \in [1 .. Len(q) -> Nat]
        BY <4>1, LenProperties
      <4>3. q \in [1 .. Len(q) -> S]
        BY <4>1, <4>2
      <4>4. q \in Seq(S)
        BY <4>2, <4>3
      <4>. QED
        BY <4>4 DEF q, S
    <3>. QED
      BY <3>1, <3>2, <3>3, <3>4, <3>5 DEF TypeOK, Typed, Keys
  <2>. QED
    BY <2>1
<1>. QED
  BY <1>1, InvariantHolds, PTL

(* No frame is ever lost or given out twice.                               *)
THEOREM FramesAreConserved == Spec => []FramesConserved
<1>1. MemInv => FramesConserved
  BY DEF MemInv
<1>. QED
  BY <1>1, InvariantHolds, PTL

(* No process reaches a frame of another through its page table.           *)
THEOREM MappedFramesStayOwn == Spec => []MappedFramesAreOwn
<1>1. MemInv => MappedFramesAreOwn
  BY DEF MemInv
<1>. QED
  BY <1>1, InvariantHolds, PTL

(* The swap file gives no slot to two pages and leaks none.                *)
THEOREM SlotsAreConserved == Spec => []SlotsConserved
<1>1. MemInv => SlotsConserved
  BY DEF MemInv, Typed, GoodSwap, UsedSlots, SlotsConserved
<1>. QED
  BY <1>1, InvariantHolds, PTL

-----------------------------------------------------------------------------
(***************************************************************************)
(* As long as no heap grows                                                *)
(***************************************************************************)

(* The registered frames are just those in use, and the page of each is    *)
(* mapped to it; heap growth breaks this, its frames are not registered.   *)
Exact ==
  /\ FrameMapConsistent
  /\ \A p \in Pids : working[p] \subseteq Evictable
  /\ CleanCopiesAreCurrent
  /\ \A p \in Pids : proc[p] = "live" => OwnPages(p) # {}
  /\ (\E p \in Pids : proc[p] = "live") => PrivateFrames # {}

LEMMA FramesMapBack ==
  ASSUME MemInv, Exact
  PROVE  /\ KeysDiffer
         /\ \A p \in Pids : \A vp \in DOMAIN table[p] : table[p][vp] \in PrivateFrames =>
              table[p][vp] \in Evictable /\ Key(table[p][vp]) = <<p, vp>>
         /\ \A f \in Evictable : \A p \in Pids : \A vp \in DOMAIN table[p] :
              Key(f) = <<p, vp>> => table[p][vp] = f
<1>1. \A f \in Evictable :
        /\ f \in PrivateFrames /\ info[f].owner \in Pids
        /\ info[f].vpage \in DOMAIN table[info[f].owner]
        /\ table[info[f].owner][info[f].vpage] = f
  BY DEF MemInv, Registered, Exact, FrameMapConsistent, Evictable
<1>2. KeysDiffer
  BY <1>1 DEF KeysDiffer, Key
<1>3. \A f \in Evictable : \A p \in Pids : \A vp \in DOMAIN table[p] :
        Key(f) = <<p, vp>> => table[p][vp] = f
  BY <1>1 DEF Key
<1>4. ASSUME NEW p \in Pids, NEW vp \in DOMAIN table[p], table[p][vp] \in PrivateFrames
      PROVE  table[p][vp] \in Evictable /\ Key(table[p][vp]) = <<p, vp>>
  <2>1. /\ info[table[p][vp]].valid /\ info[table[p][vp]].owner = p
        /\ info[table[p][vp]].vpage = vp
    BY <1>4 DEF Exact, FrameMapConsistent
  <2>. QED
    BY <1>4, <2>1, DataAssumption DEF Evictable, Key
<1>. QED
  BY <1>2, <1>3, <1>4

(* What a page holds, given its page table entry.                          *)
ContentIn(entry, m, s, key) == IF entry = Swapped THEN SwappedIn(s, key, 0) ELSE m[entry]

(* Evicting the frames in V changes where pages are, not what they hold.   *)
PagesKept(out, V) ==
  /\ \A q \in Pids : \A vp \in DOMAIN table[q] :
       out.table[q][vp] = IF table[q][vp] \in V THEN Swapped ELSE table[q][vp]
  /\ \A q \in Pids : \A vp \in OwnPages(q) :
       ContentIn(out.table[q][vp], memory, out.swap, <<q, vp>>) = Content(q, vp)
  /\ \A key \in DOMAIN out.swap.index : (\A f \in V : Key(f) # key) =>
       key \in DOMAIN swap.index /\ ReadPage(out.swap, key) = ReadPage(swap, key)

LEMMA EvictingKeepsPages ==
  ASSUME MemInv, Exact, NEW vs \in Seq(PrivateFrames), NoRepeat(vs),
         ToSet(vs) \subseteq Evictable, NEW out, out = Evict(vs), NEW V, V = ToSet(vs)
  PROVE  PagesKept(out, V)
<1>1. /\ \A q \in Pids : \A vp \in DOMAIN table[q] :
           out.table[q][vp] = IF \E f \in V : Key(f) = <<q, vp>> THEN Swapped
                              ELSE table[q][vp]
      /\ DOMAIN out.swap.index = DOMAIN swap.index \cup {Key(f) : f \in V}
      /\ \A key \in DOMAIN swap.index :
           (\A f \in V : Key(f) # key) => ReadPage(out.swap, key) = ReadPage(swap, key)
      /\ KeysDiffer => \A f \in V :
           ReadPage(out.swap, Key(f)) = IF NeedsWriting(swap, f, Key(f)) THEN memory[f]
                                        ELSE ReadPage(swap, Key(f))
  BY EvictSet DEF EvictedAll
<1>2. V \subseteq Evictable /\ V \subseteq PrivateFrames /\ Swapped \notin V
  BY FramesArePrivateOrShared DEF Evictable
<1>3. \A q \in Pids : \A vp \in DOMAIN table[q] :
        /\ \A f \in V : Key(f) = <<q, vp>> => table[q][vp] = f
        /\ table[q][vp] \in V => Key(table[q][vp]) = <<q, vp>>
  BY <1>2, FramesMapBack
<1>4. \A q \in Pids : \A vp \in DOMAIN table[q] :
        out.table[q][vp] = IF table[q][vp] \in V THEN Swapped ELSE table[q][vp]
  BY <1>1, <1>3
<1>5. ASSUME NEW f \in V PROVE ReadPage(out.swap, Key(f)) = memory[f]
  <2>1. ReadPage(out.swap, Key(f)) = IF NeedsWriting(swap, f, Key(f)) THEN memory[f]
                                     ELSE ReadPage(swap, Key(f))
    BY <1>1, FramesMapBack
  <2>2. ~ NeedsWriting(swap, f, Key(f)) => ReadPage(swap, Key(f)) = memory[f]
    BY <1>2 DEF NeedsWriting, Exact, CleanCopiesAreCurrent, Key
  <2>. QED
    BY <2>1, <2>2
<1>6. ASSUME NEW q \in Pids, NEW vp \in OwnPages(q)
      PROVE  ContentIn(out.table[q][vp], memory, out.swap, <<q, vp>>) = Content(q, vp)
  <2>. DEFINE e == table[q][vp]
              key == <<q, vp>>
  <2>1. vp \in DOMAIN table[q] /\ e \in PrivateFrames \cup {Swapped}
    BY DEF OwnPages
  <2>2. CASE e \in V
    <3>1. out.table[q][vp] = Swapped /\ Key(e) = key /\ e # Swapped
      BY <1>2, <1>3, <1>4, <2>1, <2>2
    <3>2. HasPage(out.swap, key) /\ ReadPage(out.swap, key) = memory[e]
      BY <1>1, <1>5, <2>2, <3>1 DEF HasPage
    <3>3. ContentIn(out.table[q][vp], memory, out.swap, key) = memory[e]
      BY <3>1, <3>2 DEF ContentIn, SwappedIn
    <3>4. Content(q, vp) = memory[e]
      BY <3>1 DEF Content
    <3>. QED
      BY <3>3, <3>4
  <2>3. CASE e = Swapped
    <3>1. out.table[q][vp] = Swapped
      BY <1>4, <2>1, <2>3
    <3>2. key \in DOMAIN swap.index
      BY <2>1, <2>3 DEF MemInv, SwappedPagesHaveCopy, HasPage
    <3>3. \A f \in V : Key(f) # key
      BY <1>2, <1>3, <2>1, <2>3
    <3>4. HasPage(swap, key) /\ HasPage(out.swap, key)
          /\ ReadPage(out.swap, key) = ReadPage(swap, key)
      BY <1>1, <3>2, <3>3 DEF HasPage
    <3>. QED
      BY <2>3, <3>1, <3>4 DEF ContentIn, Content, SwappedIn
  <2>4. CASE e \notin V /\ e # Swapped
    <3>1. out.table[q][vp] = e
      BY <1>4, <2>1, <2>4
    <3>. QED
      BY <2>4, <3>1 DEF ContentIn, Content
  <2>. QED
    BY <2>2, <2>3, <2>4
<1>. QED
  BY <1>1, <1>4, <1>6 DEF PagesKept

LEMMA TakenPagesKept ==
  ASSUME MemInv, Exact, NEW n \in Nat, n <= Len(Available)
  PROVE  PagesKept(Evict(Victims(n)), ToSet(Victims(n)))
<1>. DEFINE vs == Victims(n)
            V == ToSet(vs)
            out == Evict(vs)
<1>1. vs \in Seq(PrivateFrames) /\ NoRepeat(vs) /\ ToSet(vs) \subseteq Evictable
  BY TakenFrames
<1>2. V = ToSet(vs) /\ out = Evict(vs)
  OBVIOUS
<1>. HIDE DEF vs, V, out
<1>3. PagesKept(out, V)
  BY <1>1, <1>2, EvictingKeepsPages
<1>. QED
  BY <1>3 DEF vs, V, out

(* How a step of the manager looks to programs: of the pages of p, those   *)
(* in D become or stay its own and may change, and no other page of any    *)
(* process does; no shared frame is attached or detached.                  *)
OthersSame(p, D) ==
  /\ \A q \in Pids : OwnPages(q)' = IF q = p THEN OwnPages(q) \cup D ELSE OwnPages(q)
  /\ \A q \in Pids : \A vp \in OwnPages(q) :
       ~ (q = p /\ vp \in D) => Content(q, vp)' = Content(q, vp)
  /\ \A q \in Pids : DOMAIN table'[q] \ OwnPages(q)' = DOMAIN table[q] \ OwnPages(q)
  /\ \A q \in Pids : \A vp \in DOMAIN table[q] \ OwnPages(q) : table'[q][vp] = table[q][vp]

LEMMA FillingKeeps ==
  ASSUME MemInv, Exact, NEW p \in Pids, NEW n \in Nat, n <= Len(Available),
         NEW F, F = ToSet(Taken(n)), NEW out, out = Evict(Victims(n)),
         NEW g, Filling(p, F, out, g), freePages' = StillFree(n)
  PROVE  Exact' /\ OthersSame(p, DOMAIN g)
<1>. DEFINE V == ToSet(Victims(n))
            old == out.table
            new == Over(g, old[p])
<1>1. /\ F \subseteq ToSet(freePages) \cup Evictable /\ F \subseteq PrivateFrames
      /\ V = F \cap Evictable /\ Evictable \subseteq PrivateFrames
  BY TakenFrames, FreeFrames
<1>2. NowEvicted(out, V) /\ PagesKept(out, V)
  BY TakenEviction, TakenPagesKept
<1>. HIDE DEF V
<1>3. /\ old \in Tables /\ out.working \in [Pids -> SUBSET PrivateFrames]
      /\ \A q \in Pids : out.working[q] = working[q] \ V
      /\ \A q \in Pids : DOMAIN old[q] = DOMAIN table[q]
      /\ \A q \in Pids : \A vp \in DOMAIN table[q] :
           old[q][vp] \in {table[q][vp], Swapped} /\ old[q][vp] \notin V
  BY <1>2 DEF NowEvicted
<1>4. /\ \A q \in Pids : \A vp \in DOMAIN table[q] :
           old[q][vp] = IF table[q][vp] \in V THEN Swapped ELSE table[q][vp]
      /\ \A q \in Pids : \A vp \in OwnPages(q) :
           ContentIn(old[q][vp], memory, out.swap, <<q, vp>>) = Content(q, vp)
      /\ \A key \in DOMAIN out.swap.index : (\A f \in V : Key(f) # key) =>
           key \in DOMAIN swap.index /\ ReadPage(out.swap, key) = ReadPage(swap, key)
  BY <1>2 DEF PagesKept
<1>5. /\ g \in [DOMAIN g -> F] /\ proc'[p] = "live"
      /\ \A q \in Pids : q # p => proc'[q] = proc[q]
      /\ table' = [old EXCEPT ![p] = Over(g, @)]
      /\ working' = [out.working EXCEPT ![p] = @ \cup F]
      /\ swap' = out.swap
  BY DEF Filling, Taking
<1>6. /\ DOMAIN g # {}
      /\ \A f \in F : /\ info'[f].valid /\ info'[f].owner = p
                      /\ info'[f].vpage \in DOMAIN g /\ g[info'[f].vpage] = f
      /\ \A vp \in DOMAIN g : info'[g[vp]].vpage = vp
      /\ \A vp \in DOMAIN g \cap DOMAIN table[p] : table[p][vp] = Swapped
      /\ \A f \in PrivateFrames \ F : info'[f] = info[f] /\ memory'[f] = memory[f]
      /\ \A f \in F : ~ info'[f].dirty /\ HasPage(swap', Key(f)') =>
                        ReadPage(swap', Key(f)') = memory'[f]
  BY DEF Filling
<1>. HIDE DEF old
<1>7. /\ DOMAIN new = DOMAIN table[p] \cup DOMAIN g
      /\ \A vp \in DOMAIN g : new[vp] = g[vp]
      /\ \A vp \in DOMAIN table[p] : vp \notin DOMAIN g => new[vp] = old[p][vp]
  <2>1. /\ DOMAIN Over(g, old[p]) = DOMAIN old[p] \cup DOMAIN g
        /\ \A vp \in DOMAIN g : Over(g, old[p])[vp] = g[vp]
        /\ \A vp \in DOMAIN old[p] : vp \notin DOMAIN g => Over(g, old[p])[vp] = old[p][vp]
    BY OverProperties
  <2>. QED
    BY <1>3, <2>1
<1>8. \A q \in Pids : table'[q] = IF q = p THEN new ELSE old[q]
  BY <1>3, <1>5 DEF Tables
<1>9. \A q \in Pids : working'[q] = IF q = p THEN (working[q] \ V) \cup F ELSE working[q] \ V
  BY <1>3, <1>5
<1>. HIDE DEF new
<1>10. \A q \in Pids : DOMAIN table'[q] = IF q = p THEN DOMAIN table[q] \cup DOMAIN g
                                          ELSE DOMAIN table[q]
  BY <1>3, <1>7, <1>8
<1>11. \A vp \in DOMAIN g : table'[p][vp] = g[vp] /\ table'[p][vp] \in F
  BY <1>5, <1>7, <1>8
<1>12. \A q \in Pids : \A vp \in DOMAIN table[q] : ~ (q = p /\ vp \in DOMAIN g) =>
         table'[q][vp] = old[q][vp]
  BY <1>7, <1>8
(* No taken frame was mapped and is not evicted.                           *)
<1>13. \A q \in Pids : \A vp \in DOMAIN table[q] : old[q][vp] \notin F
  <2>1. ASSUME NEW q \in Pids, NEW vp \in DOMAIN table[q], old[q][vp] \in F PROVE FALSE
    <3>1. old[q][vp] # Swapped /\ old[q][vp] \in PrivateFrames
      BY <1>1, <2>1, FramesArePrivateOrShared
    <3>2. table[q][vp] = old[q][vp] /\ table[q][vp] \notin V
      BY <1>3, <3>1
    <3>3. table[q][vp] \in Evictable
      BY <3>1, <3>2, FramesMapBack
    <3>. QED
      BY <1>1, <2>1, <3>2, <3>3
  <2>. QED
    BY <2>1
<1>14. Evictable' = (Evictable \ F) \cup F
  <2>1. \A f \in F : f \in PrivateFrames /\ info'[f].valid /\ info'[f].owner # None
    BY <1>1, <1>6, DataAssumption
  <2>2. \A f \in PrivateFrames \ F : f \in Evictable' <=> f \in Evictable
    BY <1>6 DEF Evictable
  <2>3. F \subseteq Evictable'
    BY <2>1 DEF Evictable
  <2>4. Evictable' \subseteq PrivateFrames
    BY DEF Evictable
  <2>. QED
    BY <1>1, <2>2, <2>3, <2>4
<1>15. \A f \in Evictable \ F : f \notin V /\ info'[f] = info[f] /\ memory'[f] = memory[f]
                               /\ Key(f)' = Key(f)
  BY <1>1, <1>6 DEF Key
<1>16. FrameMapConsistent'
  <2>1. ASSUME NEW q \in Pids, NEW vp \in DOMAIN table'[q], table'[q][vp] \in PrivateFrames
        PROVE  /\ info'[table'[q][vp]].valid /\ info'[table'[q][vp]].owner = q
               /\ info'[table'[q][vp]].vpage = vp
    <3>1. CASE q = p /\ vp \in DOMAIN g
      BY <1>5, <1>6, <1>11, <3>1
    <3>2. CASE ~ (q = p /\ vp \in DOMAIN g)
      <4>1. vp \in DOMAIN table[q] /\ table'[q][vp] = old[q][vp] /\ table'[q][vp] \notin F
        BY <1>10, <1>12, <1>13, <3>2
      <4>2. table'[q][vp] = table[q][vp]
        BY <1>3, <2>1, <4>1, FramesArePrivateOrShared
      <4>3. /\ info[table[q][vp]].valid /\ info[table[q][vp]].owner = q
            /\ info[table[q][vp]].vpage = vp
        BY <2>1, <4>1, <4>2 DEF Exact, FrameMapConsistent
      <4>. QED
        BY <1>6, <2>1, <4>1, <4>2, <4>3
    <3>. QED
      BY <3>1, <3>2
  <2>2. ASSUME NEW f \in Evictable'
        PROVE  /\ info'[f].vpage \in DOMAIN table'[info'[f].owner]
               /\ table'[info'[f].owner][info'[f].vpage] = f
    <3>1. CASE f \in F
      <4>1. info'[f].owner = p /\ info'[f].vpage \in DOMAIN g /\ g[info'[f].vpage] = f
        BY <1>6, <3>1
      <4>2. DOMAIN g \subseteq DOMAIN table'[p]
        BY <1>10
      <4>. QED
        BY <1>11, <4>1, <4>2
    <3>2. CASE f \in Evictable \ F
      <4>. DEFINE q == info[f].owner
                  vp == info[f].vpage
      <4>1. q \in Pids /\ vp \in DOMAIN table[q] /\ table[q][vp] = f
        BY <3>2 DEF MemInv, Registered, Exact, FrameMapConsistent
      <4>2. ~ (q = p /\ vp \in DOMAIN g)
        BY <1>1, <1>6, <3>2, <4>1, FramesArePrivateOrShared
      <4>3. info'[f].owner = q /\ info'[f].vpage = vp /\ f \notin V
        BY <1>15, <3>2
      <4>. HIDE DEF q, vp
      <4>. QED
        <5>1. vp \in DOMAIN table'[q] /\ table'[q][vp] = old[q][vp]
          BY <1>10, <1>12, <4>1, <4>2
        <5>2. old[q][vp] = f
          BY <1>4, <4>1, <4>3
        <5>. QED
          BY <4>3, <5>1, <5>2
    <3>. QED
      BY <1>14, <3>1, <3>2
  <2>. QED
    BY <2>1, <2>2 DEF FrameMapConsistent
<1>17. \A q \in Pids : working'[q] \subseteq Evictable'
  <2>1. \A q \in Pids : working[q] \subseteq Evictable
    BY DEF Exact
  <2>. QED
    BY <1>9, <1>14, <2>1
<1>18. CleanCopiesAreCurrent'
  <2>1. ASSUME NEW f \in Evictable', ~ info'[f].dirty, HasPage(swap', Key(f)')
        PROVE  ReadPage(swap', Key(f)') = memory'[f]
    <3>1. CASE f \in F
      BY <1>6, <2>1, <3>1
    <3>2. CASE f \in Evictable \ F
      <4>1. ~ info[f].dirty /\ Key(f)' = Key(f) /\ memory'[f] = memory[f] /\ f \notin V
        BY <1>15, <2>1, <3>2
      <4>2. \A x \in V : Key(x) # Key(f)
        BY <1>1, <3>2, <4>1, FramesMapBack DEF KeysDiffer
      <4>3. Key(f) \in DOMAIN swap.index /\ ReadPage(swap', Key(f)) = ReadPage(swap, Key(f))
        BY <1>4, <1>5, <2>1, <4>1, <4>2 DEF HasPage
      <4>4. ReadPage(swap, Key(f)) = memory[f]
        BY <3>2, <4>1, <4>3 DEF Exact, CleanCopiesAreCurrent, HasPage, Key
      <4>. QED
        BY <4>1, <4>3, <4>4
    <3>. QED
      BY <1>14, <3>1, <3>2
  <2>. QED
    BY <2>1 DEF CleanCopiesAreCurrent, Key
<1>19. \A q \in Pids : \A vp \in DOMAIN table[q] : ~ (q = p /\ vp \in DOMAIN g) =>
         (table'[q][vp] \in PrivateFrames \cup {Swapped}
            <=> table[q][vp] \in PrivateFrames \cup {Swapped})
  BY <1>1, <1>4, <1>12
<1>20. \A q \in Pids : OwnPages(q)' = IF q = p THEN OwnPages(q) \cup DOMAIN g ELSE OwnPages(q)
  <2>1. ASSUME NEW q \in Pids, NEW vp
        PROVE  vp \in OwnPages(q)' <=> vp \in OwnPages(q) \/ (q = p /\ vp \in DOMAIN g)
    <3>1. CASE q = p /\ vp \in DOMAIN g
      BY <1>1, <1>10, <1>11, <3>1 DEF OwnPages
    <3>2. CASE ~ (q = p /\ vp \in DOMAIN g)
      BY <1>10, <1>19, <3>2 DEF OwnPages
    <3>. QED
      BY <3>1, <3>2
  <2>. QED
    BY <2>1
<1>21. ASSUME NEW q \in Pids, NEW vp \in OwnPages(q), ~ (q = p /\ vp \in DOMAIN g)
       PROVE  Content(q, vp)' = Content(q, vp)
  <2>1. vp \in DOMAIN table[q] /\ table'[q][vp] = old[q][vp] /\ old[q][vp] \notin F
        /\ old[q][vp] \in PrivateFrames \cup {Swapped}
    BY <1>12, <1>13, <1>19, <1>21 DEF OwnPages
  <2>2. Content(q, vp)' = ContentIn(old[q][vp], memory', swap', <<q, vp>>)
    BY <2>1 DEF Content, ContentIn
  <2>3. ContentIn(old[q][vp], memory', swap', <<q, vp>>)
          = ContentIn(old[q][vp], memory, out.swap, <<q, vp>>)
    BY <1>5, <1>6, <2>1 DEF ContentIn
  <2>. QED
    BY <1>4, <2>2, <2>3
<1>22. ASSUME NEW q \in Pids
       PROVE  /\ DOMAIN table'[q] \ OwnPages(q)' = DOMAIN table[q] \ OwnPages(q)
              /\ \A vp \in DOMAIN table[q] \ OwnPages(q) : table'[q][vp] = table[q][vp]
  <2>1. \A vp \in DOMAIN table[q] \ OwnPages(q) : ~ (q = p /\ vp \in DOMAIN g)
    BY <1>6 DEF OwnPages
  <2>2. \A vp \in DOMAIN table[q] \ OwnPages(q) :
          table[q][vp] \notin V /\ table'[q][vp] = table[q][vp]
    BY <1>1, <1>4, <1>12, <2>1 DEF OwnPages
  <2>. QED
    BY <1>10, <1>20, <2>1, <2>2
<1>23. \A q \in Pids : proc'[q] = "live" => OwnPages(q)' # {}
  BY <1>5, <1>6, <1>20 DEF Exact
<1>24. PrivateFrames # {}
  BY <1>1, <1>5, <1>6
<1>25. Exact'
  BY <1>16, <1>17, <1>18, <1>23, <1>24 DEF Exact
<1>26. OthersSame(p, DOMAIN g)
  BY <1>20, <1>21, <1>22 DEF OthersSame
<1>. QED
  BY <1>25, <1>26

(* The frame a page fault takes holds what the page held.                  *)
LEMMA FaultFills ==
  ASSUME MemInv, Exact, NEW p \in Pids, NEW vp \in DOMAIN table[p], ~ Present(p, vp),
         NEW f, f = Available[1], NEW out, out = Evict(Victims(1)),
         NEW g, g = [v \in {vp} |-> f],
         Taking(p, {f}, out, g), f \in PrivateFrames,
         info'[f].valid, Key(f)' = <<p, vp>>,
         \A x \in PrivateFrames \ {f} : info'[x] = info[x] /\ memory'[x] = memory[x],
         ~ info'[f].dirty => memory'[f] = SwappedIn(out.swap, <<p, vp>>, f)
  PROVE  Filling(p, {f}, out, g)
<1>1. table[p][vp] = Swapped
  <2>1. table[p][vp] \in PrivateFrames => info[table[p][vp]].valid
    BY DEF Exact, FrameMapConsistent
  <2>. QED
    BY <2>1 DEF Present
<1>2. DOMAIN g = {vp} /\ g[vp] = f
  OBVIOUS
<1>3. info'[f].owner = p /\ info'[f].vpage = vp
  BY DEF Key
<1>4. swap' = out.swap
  BY DEF Taking
<1>5. ~ info'[f].dirty /\ HasPage(swap', Key(f)') => ReadPage(swap', Key(f)') = memory'[f]
  BY <1>4 DEF SwappedIn
<1>6. DOMAIN g # {}
  BY <1>2
<1>7. \A v \in DOMAIN g : info'[g[v]].vpage = v
  BY <1>2, <1>3
<1>8. \A v \in DOMAIN g \cap DOMAIN table[p] : table[p][v] = Swapped
  BY <1>1, <1>2
<1>. QED
  BY <1>2, <1>3, <1>5, <1>6, <1>7, <1>8 DEF Filling

(* An access that does not fault.                                          *)
LEMMA TouchingKeepsExact ==
  ASSUME MemInv, Exact,
         UNCHANGED <<proc, table, working, swap>>,
         \A x \in PrivateFrames : /\ info'[x].valid = info[x].valid
                                  /\ info'[x].owner = info[x].owner
                                  /\ info'[x].vpage = info[x].vpage,
         \A x \in Evictable : ~ info'[x].dirty => ~ info[x].dirty /\ memory'[x] = memory[x]
  PROVE  Exact'
<1>1. Evictable' = Evictable
  BY DEF Evictable
<1>2. \A f \in Evictable : f \in PrivateFrames
  BY DEF Evictable
<1>3. FrameMapConsistent'
  BY <1>1, <1>2 DEF Exact, FrameMapConsistent
<1>4. CleanCopiesAreCurrent'
  <2>1. ASSUME NEW f \in Evictable, ~ info'[f].dirty, HasPage(swap, Key(f))
        PROVE  ReadPage(swap, Key(f)) = memory'[f]
    BY <2>1 DEF Exact, CleanCopiesAreCurrent, Key
  <2>2. \A f \in Evictable : info'[f].owner = info[f].owner /\ info'[f].vpage = info[f].vpage
    BY <1>2
  <2>. QED
    BY <1>1, <2>1, <2>2 DEF CleanCopiesAreCurrent, Key
<1>5. \A p \in Pids : OwnPages(p)' = OwnPages(p)
  BY DEF OwnPages
<1>6. /\ \A p \in Pids : working'[p] \subseteq Evictable'
      /\ \A p \in Pids : proc'[p] = "live" => OwnPages(p)' # {}
      /\ (\E p \in Pids : proc'[p] = "live") => PrivateFrames # {}
  BY <1>1, <1>5 DEF Exact
<1>. QED
  BY <1>3, <1>4, <1>6 DEF Exact

LEMMA FailingKeepsExact ==
  ASSUME MemInv, Exact, NEW n, AllocationFails(n)
  PROVE  Exact' /\ \A p \in Pids : OthersSame(p, {})
<1>. DEFINE vs == Only(recent, Evictable)
            V == Evictable
            out == Evict(vs)
            old == out.table
<1>1. /\ swap' = out.swap /\ table' = old /\ working' = out.working
      /\ info' = InfoWithout(vs) /\ proc' = proc /\ memory' = memory
  BY DEF AllocationFails
<1>2. /\ vs \in Seq(PrivateFrames) /\ ToSet(vs) = V /\ NoRepeat(vs)
      /\ V \subseteq PrivateFrames /\ ToSet(vs) \subseteq Evictable
  BY FreeFrames
<1>3. NowEvicted(out, V) /\ PagesKept(out, V)
  <2>1. out = Evict(vs) /\ V = ToSet(vs)
    BY <1>2
  <2>. HIDE DEF vs, out, V
  <2>. QED
    BY <1>2, <2>1, EvictSet, EvictingKeepsPages
<1>. HIDE DEF out
<1>4. /\ \A q \in Pids : out.working[q] = working[q] \ V
      /\ \A q \in Pids : DOMAIN old[q] = DOMAIN table[q]
      /\ \A q \in Pids : \A vp \in DOMAIN table[q] :
           old[q][vp] = IF table[q][vp] \in V THEN Swapped ELSE table[q][vp]
      /\ \A q \in Pids : \A vp \in OwnPages(q) :
           ContentIn(old[q][vp], memory, out.swap, <<q, vp>>) = Content(q, vp)
  BY <1>3 DEF NowEvicted, PagesKept
<1>. HIDE DEF vs, old
<1>5. Evictable' = {}
  <2>1. \A f \in PrivateFrames : info'[f] = IF f \in V THEN Evicted ELSE info[f]
    BY <1>1, <1>2 DEF InfoWithout
  <2>2. ASSUME NEW f \in PrivateFrames PROVE ~ (info'[f].valid /\ info'[f].owner # None)
    <3>1. CASE f \in V
      BY <2>1, <3>1 DEF Evicted
    <3>2. CASE f \notin V
      BY <2>1, <3>2 DEF Evictable
    <3>. QED
      BY <3>1, <3>2
  <2>. QED
    BY <2>2 DEF Evictable
<1>6. \A q \in Pids : \A vp \in DOMAIN table[q] : table[q][vp] \in PrivateFrames =>
        table[q][vp] \in V
  BY FramesMapBack
<1>7. \A q \in Pids : \A vp \in DOMAIN table[q] :
        /\ table'[q][vp] \notin PrivateFrames
        /\ table[q][vp] \in PrivateFrames \cup {Swapped} => table'[q][vp] = Swapped
        /\ table[q][vp] \notin PrivateFrames \cup {Swapped} => table'[q][vp] = table[q][vp]
  <2>1. Swapped \notin PrivateFrames
    BY FramesArePrivateOrShared
  <2>2. \A q \in Pids : \A vp \in DOMAIN table[q] :
          table'[q][vp] = IF table[q][vp] \in V THEN Swapped ELSE table[q][vp]
    BY <1>1, <1>4
  <2>. HIDE DEF V
  <2>. QED
    BY <1>2, <1>6, <2>1, <2>2
<1>8. \A q \in Pids : DOMAIN table'[q] = DOMAIN table[q] /\ OwnPages(q)' = OwnPages(q)
  <2>1. \A q \in Pids : DOMAIN table'[q] = DOMAIN table[q]
    BY <1>1, <1>4
  <2>2. \A q \in Pids : \A vp \in DOMAIN table[q] :
          table'[q][vp] \in PrivateFrames \cup {Swapped}
            <=> table[q][vp] \in PrivateFrames \cup {Swapped}
    BY <1>7
  <2>. QED
    BY <2>1, <2>2 DEF OwnPages
<1>9. FrameMapConsistent' /\ CleanCopiesAreCurrent'
  BY <1>5, <1>7, <1>8 DEF FrameMapConsistent, CleanCopiesAreCurrent
<1>10. \A q \in Pids : working'[q] \subseteq Evictable'
  BY <1>1, <1>4, <1>5 DEF Exact
<1>11. Exact'
  BY <1>1, <1>8, <1>9, <1>10 DEF Exact
<1>12. \A q \in Pids : \A vp \in OwnPages(q) : Content(q, vp)' = Content(q, vp)
  BY <1>1, <1>4 DEF Content, ContentIn
<1>13. \A q \in Pids : \A vp \in DOMAIN table[q] \ OwnPages(q) : table'[q][vp] = table[q][vp]
  BY <1>7 DEF OwnPages
<1>14. \A p \in Pids : OthersSame(p, {})
  BY <1>8, <1>12, <1>13 DEF OthersSame
<1>. QED
  BY <1>11, <1>14

LEMMA ExitKeepsExact ==
  ASSUME MemInv, Exact, NEW p \in Pids, Exit(p)
  PROVE  /\ Exact' /\ DOMAIN table'[p] = {}
         /\ \A q \in Pids : q # p => table'[q] = table[q]
         /\ \A q \in Pids : q # p => \A vp \in OwnPages(q) : Content(q, vp)' = Content(q, vp)
<1>1. /\ Typed /\ Registered /\ SwappedPagesHaveCopy /\ GoodSwap(swap) /\ FramesConserved
  BY DEF MemInv, Typed
<1>2. /\ proc[p] = "live" /\ proc' = [proc EXCEPT ![p] = "gone"]
      /\ info' = [f \in PrivateFrames |-> IF f \in working[p] THEN Unused ELSE info[f]]
      /\ table' = [table EXCEPT ![p] = << >>]
      /\ working' = [working EXCEPT ![p] = {}]
      /\ memory' = memory
  BY DEF Exit
<1>3. PICK keys \in SetToSeqs(KeysOf(swap, p)) : swap' = RemoveAllFor(swap, p, keys)
  BY DEF Exit
<1>4. /\ DOMAIN swap'.index = DOMAIN swap.index \ KeysOf(swap, p)
      /\ \A k \in DOMAIN swap'.index : ReadPage(swap', k) = ReadPage(swap, k)
  BY <1>1, <1>3, RemoveAllForKeeps
<1>5. \A q \in Pids : working'[q] = IF q = p THEN {} ELSE working[q]
  BY <1>1, <1>2 DEF Typed
<1>6. \A q \in Pids : table'[q] = IF q = p THEN << >> ELSE table[q]
  BY <1>1, <1>2 DEF Typed, Tables
<1>7. \A q \in Pids : proc'[q] = IF q = p THEN "gone" ELSE proc[q]
  BY <1>1, <1>2 DEF Typed
<1>8. DOMAIN << >> = {}
  OBVIOUS
<1>9. /\ \A f \in Evictable' : /\ f \in Evictable /\ f \notin working[p]
                               /\ info'[f] = info[f] /\ Key(f)' = Key(f)
      /\ \A f \in Evictable : f \notin working[p] => f \in Evictable'
      /\ \A f \in PrivateFrames : f \notin working[p] => info'[f] = info[f]
  <2>1. \A f \in PrivateFrames : f \in working[p] => ~ (info'[f].owner # None)
    BY <1>2 DEF Unused
  <2>2. \A f \in PrivateFrames : f \notin working[p] => info'[f] = info[f]
    BY <1>2
  <2>. QED
    BY <2>1, <2>2 DEF Evictable, Key
<1>10. \A q \in Pids : q # p => \A vp \in DOMAIN table[q] :
         table[q][vp] \in PrivateFrames => table[q][vp] \notin working[p]
  <2>1. \A q \in Pids : \A vp \in DOMAIN table[q] :
          table[q][vp] \in PrivateFrames => table[q][vp] \in working[q]
    BY FramesArePrivateOrShared DEF MemInv, MappedFramesAreOwn, Writable
  <2>. QED
    BY <1>1, <2>1, OneHolder
<1>11. FrameMapConsistent'
  <2>1. ASSUME NEW q \in Pids, NEW vp \in DOMAIN table'[q], table'[q][vp] \in PrivateFrames
        PROVE  /\ info'[table'[q][vp]].valid /\ info'[table'[q][vp]].owner = q
               /\ info'[table'[q][vp]].vpage = vp
    <3>1. q # p /\ vp \in DOMAIN table[q] /\ table'[q][vp] = table[q][vp]
      BY <1>6, <1>8
    <3>2. info'[table[q][vp]] = info[table[q][vp]]
      BY <1>9, <1>10, <2>1, <3>1
    <3>. QED
      BY <2>1, <3>1, <3>2 DEF Exact, FrameMapConsistent
  <2>2. ASSUME NEW f \in Evictable'
        PROVE  /\ info'[f].vpage \in DOMAIN table'[info'[f].owner]
               /\ table'[info'[f].owner][info'[f].vpage] = f
    <3>1. /\ info[f].owner \in Pids /\ f \in working[info[f].owner]
          /\ info[f].vpage \in DOMAIN table[info[f].owner]
          /\ table[info[f].owner][info[f].vpage] = f
      BY <1>1, <1>9 DEF Registered, Exact, FrameMapConsistent
    <3>2. info[f].owner # p
      BY <1>9, <3>1
    <3>. QED
      BY <1>6, <1>9, <3>1, <3>2
  <2>. QED
    BY <2>1, <2>2 DEF FrameMapConsistent
<1>12. \A q \in Pids : working'[q] \subseteq Evictable'
  <2>1. ASSUME NEW q \in Pids, q # p, NEW f \in working[q]
        PROVE  f \in Evictable'
    <3>1. f \in Evictable /\ f \in PrivateFrames
      BY DEF Exact, Evictable
    <3>2. f \notin working[p]
      BY <1>1, <2>1, <3>1, OneHolder
    <3>. QED
      BY <1>9, <3>1, <3>2
  <2>. QED
    BY <1>5, <2>1
<1>13. CleanCopiesAreCurrent'
  <2>1. ASSUME NEW f \in Evictable', ~ info'[f].dirty, HasPage(swap', Key(f)')
        PROVE  ReadPage(swap', Key(f)') = memory'[f]
    <3>1. f \in Evictable /\ ~ info[f].dirty /\ Key(f)' = Key(f) /\ HasPage(swap, Key(f))
      BY <1>4, <1>9, <2>1 DEF HasPage
    <3>2. ReadPage(swap', Key(f)) = ReadPage(swap, Key(f))
      BY <1>4, <2>1, <3>1 DEF HasPage
    <3>3. ReadPage(swap, Key(f)) = memory[f]
      BY <3>1 DEF Exact, CleanCopiesAreCurrent, Key
    <3>. QED
      BY <1>2, <3>1, <3>2, <3>3
  <2>. QED
    BY <2>1 DEF CleanCopiesAreCurrent, Key
<1>14. \A q \in Pids : proc'[q] = "live" => OwnPages(q)' # {}
  <2>1. \A q \in Pids : q # p => OwnPages(q)' = OwnPages(q)
    BY <1>6 DEF OwnPages
  <2>. QED
    BY <1>7, <2>1 DEF Exact
<1>15. ASSUME NEW q \in Pids, q # p, NEW vp \in OwnPages(q)
       PROVE  Content(q, vp)' = Content(q, vp)
  <2>. DEFINE key == <<q, vp>>
  <2>1. vp \in DOMAIN table[q] /\ table'[q] = table[q]
    BY <1>6, <1>15 DEF OwnPages
  <2>2. CASE table[q][vp] = Swapped
    <3>1. key \in DOMAIN swap.index /\ key \notin KeysOf(swap, p)
      BY <1>1, <1>15, <2>1, <2>2 DEF SwappedPagesHaveCopy, HasPage, KeysOf
    <3>2. HasPage(swap, key) /\ HasPage(swap', key) /\ ReadPage(swap', key) = ReadPage(swap, key)
      BY <1>4, <3>1 DEF HasPage
    <3>. QED
      BY <2>1, <2>2, <3>2 DEF Content, SwappedIn
  <2>3. CASE table[q][vp] # Swapped
    BY <1>2, <2>1, <2>3 DEF Content
  <2>. QED
    BY <2>2, <2>3
<1>16. Exact'
  <2>1. (\E q \in Pids : proc'[q] = "live") => PrivateFrames # {}
    BY <1>7 DEF Exact
  <2>. QED
    BY <1>11, <1>12, <1>13, <1>14, <2>1 DEF Exact
<1>. QED
  BY <1>6, <1>8, <1>15, <1>16

LEMMA AttachingKeepsExact ==
  ASSUME MemInv, Exact, NEW p \in Pids, NEW g, Attaching(p, g),
         DOMAIN g \cap DOMAIN table[p] = {}
  PROVE  /\ Exact'
         /\ \A q \in Pids : OwnPages(q)' = OwnPages(q)
         /\ \A q \in Pids : \A vp \in OwnPages(q) : Content(q, vp)' = Content(q, vp)
         /\ \A q \in Pids : table'[q] = IF q = p THEN Over(g, table[q]) ELSE table[q]
<1>. DEFINE new == Over(g, table[p])
<1>1. /\ proc[p] = "live" /\ g \in [DOMAIN g -> SharedFrames]
      /\ proc' = proc /\ working' = working /\ info' = info
      /\ memory' = memory /\ swap' = swap
      /\ table' = [table EXCEPT ![p] = Over(g, @)] /\ table \in Tables
  BY DEF Attaching, MemInv, Typed
<1>2. /\ DOMAIN new = DOMAIN table[p] \cup DOMAIN g
      /\ \A vp \in DOMAIN g : new[vp] = g[vp]
      /\ \A vp \in DOMAIN table[p] : vp \notin DOMAIN g => new[vp] = table[p][vp]
  BY OverProperties
<1>3. \A q \in Pids : table'[q] = IF q = p THEN new ELSE table[q]
  BY <1>1 DEF Tables
<1>. HIDE DEF new
<1>4. \A q \in Pids : DOMAIN table'[q] = IF q = p THEN DOMAIN table[q] \cup DOMAIN g
                                         ELSE DOMAIN table[q]
  BY <1>2, <1>3
<1>5. \A q \in Pids : \A vp \in DOMAIN table[q] : table'[q][vp] = table[q][vp]
  BY <1>2, <1>3
<1>6. \A q \in Pids : \A vp \in DOMAIN table'[q] \ DOMAIN table[q] :
        table'[q][vp] \in SharedFrames
  BY <1>1, <1>2, <1>3, <1>4
<1>7. Evictable' = Evictable
  BY <1>1 DEF Evictable
<1>8. SharedFrames \cap (PrivateFrames \cup {Swapped}) = {}
  BY FramesArePrivateOrShared
<1>9. FrameMapConsistent'
  <2>1. ASSUME NEW q \in Pids, NEW vp \in DOMAIN table'[q], table'[q][vp] \in PrivateFrames
        PROVE  /\ info'[table'[q][vp]].valid /\ info'[table'[q][vp]].owner = q
               /\ info'[table'[q][vp]].vpage = vp
    <3>1. vp \in DOMAIN table[q] /\ table'[q][vp] = table[q][vp]
      BY <1>5, <1>6, <1>8, <2>1
    <3>. QED
      BY <1>1, <2>1, <3>1 DEF Exact, FrameMapConsistent
  <2>2. ASSUME NEW f \in Evictable
        PROVE  /\ info'[f].vpage \in DOMAIN table'[info'[f].owner]
               /\ table'[info'[f].owner][info'[f].vpage] = f
    <3>1. /\ info[f].owner \in Pids /\ info[f].vpage \in DOMAIN table[info[f].owner]
          /\ table[info[f].owner][info[f].vpage] = f
      BY DEF MemInv, Registered, Exact, FrameMapConsistent
    <3>2. /\ info[f].vpage \in DOMAIN table'[info[f].owner]
          /\ table'[info[f].owner][info[f].vpage] = f
      BY <1>4, <1>5, <3>1
    <3>. QED
      BY <1>1, <3>2
  <2>. QED
    BY <1>7, <2>1, <2>2 DEF FrameMapConsistent
<1>10. CleanCopiesAreCurrent'
  BY <1>1, <1>7 DEF Exact, CleanCopiesAreCurrent
<1>11. \A q \in Pids : OwnPages(q)' = OwnPages(q)
  BY <1>4, <1>5, <1>6, <1>8 DEF OwnPages
<1>12. \A q \in Pids : \A vp \in OwnPages(q) : Content(q, vp)' = Content(q, vp)
  BY <1>1, <1>5 DEF Content, OwnPages
<1>13. Exact'
  BY <1>1, <1>7, <1>9, <1>10, <1>11 DEF Exact
<1>. QED
  BY <1>3, <1>11, <1>12, <1>13 DEF new

-----------------------------------------------------------------------------
(***************************************************************************)
(* The virtual memory programs see                                         *)
(***************************************************************************)

LEMMA ContentType ==
  ASSUME MemInv, NEW p \in Pids, NEW vp \in OwnPages(p)
  PROVE  Content(p, vp) \in Data
<1>1. table[p][vp] \in PrivateFrames \cup {Swapped}
  BY DEF OwnPages
<1>2. SwappedIn(swap, <<p, vp>>, 0) \in Data
  BY SwappedInType DEF MemInv, Typed
<1>3. table[p][vp] \in PrivateFrames => memory[table[p][vp]] \in Data
  BY FramesArePrivateOrShared DEF MemInv, Typed
<1>. QED
  BY <1>1, <1>2, <1>3 DEF Content

LEMMA PrivateIsFunction ==
  /\ Private = [q \in Pids |-> Private[q]]
  /\ \A q \in Pids : Private[q] = [vp \in DOMAIN Private[q] |-> Private[q][vp]]
  /\ Private' = [q \in Pids |-> Private'[q]]
  /\ \A q \in Pids : Private'[q] = [vp \in DOMAIN Private'[q] |-> Private'[q][vp]]
BY DEF Private

LEMMA AttachedIsFunction ==
  /\ Attached = [q \in Pids |-> Attached[q]]
  /\ \A q \in Pids : Attached[q] = [vp \in DOMAIN Attached[q] |-> Attached[q][vp]]
  /\ Attached' = [q \in Pids |-> Attached'[q]]
  /\ \A q \in Pids : Attached'[q] = [vp \in DOMAIN Attached'[q] |-> Attached'[q][vp]]
BY DEF Attached

LEMMA MappingValues ==
  ASSUME NEW q \in Pids
  PROVE  /\ DOMAIN Private[q] = OwnPages(q) /\ DOMAIN Private'[q] = OwnPages(q)'
         /\ \A vp \in OwnPages(q) : Private[q][vp] = Content(q, vp)
         /\ \A vp \in OwnPages(q)' : Private'[q][vp] = Content(q, vp)'
         /\ DOMAIN Attached[q] = DOMAIN table[q] \ OwnPages(q)
         /\ DOMAIN Attached'[q] = DOMAIN table'[q] \ OwnPages(q)'
         /\ \A vp \in DOMAIN table[q] \ OwnPages(q) : Attached[q][vp] = table[q][vp]
         /\ \A vp \in DOMAIN table'[q] \ OwnPages(q)' : Attached'[q][vp] = table'[q][vp]
BY DEF Private, Attached

(* What OthersSame says of the mapping.                                    *)
LEMMA MappingOfOthers ==
  ASSUME NEW p \in Pids, NEW D, OthersSame(p, D)
  PROVE  /\ \A q \in Pids : q # p => Private'[q] = Private[q]
         /\ DOMAIN Private'[p] = DOMAIN Private[p] \cup D
         /\ \A vp \in DOMAIN Private[p] \ D : Private'[p][vp] = Private[p][vp]
         /\ \A vp \in D : Private'[p][vp] = Content(p, vp)'
         /\ Attached' = Attached
<1>1. /\ \A q \in Pids : OwnPages(q)' = IF q = p THEN OwnPages(q) \cup D ELSE OwnPages(q)
      /\ \A q \in Pids : \A vp \in OwnPages(q) :
           ~ (q = p /\ vp \in D) => Content(q, vp)' = Content(q, vp)
      /\ \A q \in Pids : DOMAIN table'[q] \ OwnPages(q)' = DOMAIN table[q] \ OwnPages(q)
      /\ \A q \in Pids : \A vp \in DOMAIN table[q] \ OwnPages(q) : table'[q][vp] = table[q][vp]
  BY DEF OthersSame
<1>2. ASSUME NEW q \in Pids, q # p PROVE Private'[q] = Private[q]
  <2>1. DOMAIN Private'[q] = DOMAIN Private[q]
    BY <1>1, <1>2, MappingValues
  <2>2. \A vp \in DOMAIN Private[q] : Private'[q][vp] = Private[q][vp]
    BY <1>1, <1>2, MappingValues
  <2>. QED
    BY <2>1, <2>2, PrivateIsFunction
<1>3. /\ DOMAIN Private'[p] = DOMAIN Private[p] \cup D
      /\ \A vp \in DOMAIN Private[p] \ D : Private'[p][vp] = Private[p][vp]
      /\ \A vp \in D : Private'[p][vp] = Content(p, vp)'
  BY <1>1, MappingValues
<1>4. ASSUME NEW q \in Pids PROVE Attached'[q] = Attached[q]
  <2>1. DOMAIN Attached'[q] = DOMAIN Attached[q]
    BY <1>1, MappingValues
  <2>2. \A vp \in DOMAIN Attached[q] : Attached'[q][vp] = Attached[q][vp]
    BY <1>1, MappingValues
  <2>. QED
    BY <2>1, <2>2, AttachedIsFunction
<1>5. Attached' = Attached
  BY <1>4, AttachedIsFunction
<1>. QED
  BY <1>2, <1>3, <1>5

(* A step that changes no page is a stuttering step, ...                   *)
LEMMA SamePages ==
  ASSUME NEW p \in Pids, OthersSame(p, {})
  PROVE  UNCHANGED <<Private, Attached>>
<1>1. /\ \A q \in Pids : q # p => Private'[q] = Private[q]
      /\ DOMAIN Private'[p] = DOMAIN Private[p]
      /\ \A vp \in DOMAIN Private[p] : Private'[p][vp] = Private[p][vp]
      /\ Attached' = Attached
  <2>. DEFINE D == {}
  <2>1. OthersSame(p, D)
    OBVIOUS
  <2>. HIDE DEF D
  <2>2. /\ \A q \in Pids : q # p => Private'[q] = Private[q]
        /\ DOMAIN Private'[p] = DOMAIN Private[p] \cup D
        /\ \A vp \in DOMAIN Private[p] \ D : Private'[p][vp] = Private[p][vp]
        /\ Attached' = Attached
    BY <2>1, MappingOfOthers
  <2>3. DOMAIN Private[p] \cup D = DOMAIN Private[p] /\ DOMAIN Private[p] \ D = DOMAIN Private[p]
    BY DEF D
  <2>. QED
    BY <2>2, <2>3
<1>2. Private'[p] = Private[p]
  BY <1>1, PrivateIsFunction
<1>3. Private' = Private
  BY <1>1, <1>2, PrivateIsFunction
<1>. QED
  BY <1>1, <1>3

LEMMA SamePagesStutter ==
  ASSUME NEW p \in Pids, OthersSame(p, {}), Shared' = Shared
  PROVE  UNCHANGED <<Private, Attached, Shared>>
BY SamePages

(* ... one that changes one page stores in it.                             *)
LEMMA OnePageIsStored ==
  ASSUME NEW p \in Pids, NEW vp \in OwnPages(p), OthersSame(p, {vp}), Shared' = Shared
  PROVE  /\ vp \in DOMAIN Private[p]
         /\ Private' = [Private EXCEPT ![p][vp] = Content(p, vp)']
         /\ UNCHANGED <<Attached, Shared>>
<1>1. vp \in DOMAIN Private[p]
  BY DEF Private
<1>2. /\ \A q \in Pids : q # p => Private'[q] = Private[q]
      /\ DOMAIN Private'[p] = DOMAIN Private[p] \cup {vp}
      /\ \A v \in DOMAIN Private[p] \ {vp} : Private'[p][v] = Private[p][v]
      /\ \A v \in {vp} : Private'[p][v] = Content(p, v)'
      /\ Attached' = Attached
  BY MappingOfOthers
<1>. DEFINE d == Content(p, vp)'
<1>3. Private'[p] = [Private[p] EXCEPT ![vp] = d]
  <2>1. DOMAIN Private'[p] = DOMAIN Private[p] /\ Private'[p][vp] = d
    BY <1>1, <1>2
  <2>. HIDE DEF d
  <2>. QED
    BY <1>2, <2>1, PrivateIsFunction
<1>4. Private' = [Private EXCEPT ![p] = [Private[p] EXCEPT ![vp] = d]]
  <2>. HIDE DEF d
  <2>. QED  BY <1>2, <1>3, PrivateIsFunction
<1>. QED
  BY <1>1, <1>2, <1>4

LEMMA SharedKept ==
  ASSUME \A f \in SharedFrames : memory'[f] = memory[f]
  PROVE  Shared' = Shared
BY DEF Shared

(* The pages for which frames were taken hold what is in them.             *)
LEMMA FilledContent ==
  ASSUME NEW p \in Pids, NEW F \in SUBSET PrivateFrames, NEW out, out.table \in Tables,
         NEW g, Taking(p, F, out, g)
  PROVE  \A vp \in DOMAIN g : Content(p, vp)' = memory'[g[vp]] /\ Content(p, vp)' \in Data
<1>1. /\ table' = [out.table EXCEPT ![p] = Over(g, @)] /\ g \in [DOMAIN g -> F]
      /\ memory' \in [Frames -> Data]
  BY DEF Taking
<1>2. table'[p] = Over(g, out.table[p])
  BY <1>1 DEF Tables
<1>3. \A vp \in DOMAIN g : table'[p][vp] = g[vp] /\ g[vp] \in F
  <2>1. \A vp \in DOMAIN g : Over(g, out.table[p])[vp] = g[vp]
    BY OverProperties
  <2>2. \A vp \in DOMAIN g : g[vp] \in F
    BY <1>1
  <2>3. \A vp \in DOMAIN g : table'[p][vp] = g[vp]
    BY <1>2, <2>1
  <2>. QED
    BY <2>2, <2>3
<1>4. \A f \in F : f \in Frames /\ f # Swapped
  BY FramesArePrivateOrShared
<1>. QED
  BY <1>1, <1>3, <1>4 DEF Content

LEMMA LoadCreates ==
  ASSUME MemInv, Exact, NEW p \in Pids, Load(p)
  PROVE  Exact' /\ Virtual!Create(p)
<1>. DEFINE n == Size[p]
            F == ToSet(Taken(n))
            out == Evict(Victims(n))
            g == LoadedTable(p)
            content == Private'[p]
<1>1. /\ n \in Nat /\ n <= Len(Available) /\ freePages' = StillFree(n) /\ proc[p] = "new"
      /\ \A f \in Frames : f \notin F => memory'[f] = memory[f]
  BY SizesAssumption DEF Load
<1>2. /\ Filling(p, F, out, g) /\ DOMAIN g = 0 .. (Size[p] - 1)
      /\ \A vp \in DOMAIN Image[p] : memory'[g[vp]] = Image[p][vp]
  BY LoadFills
<1>3. /\ F = ToSet(Taken(n)) /\ out = Evict(Victims(n)) /\ n = Size[p]
  OBVIOUS
<1>4. F \subseteq PrivateFrames /\ out.table \in Tables
  BY <1>1, TakenFrames, FreeFrames, TakenEviction DEF NowEvicted
<1>. HIDE DEF n, F, out, g
<1>5. Exact' /\ OthersSame(p, DOMAIN g)
  BY <1>1, <1>2, <1>3, FillingKeeps
<1>6. \A vp \in DOMAIN g : Content(p, vp)' = memory'[g[vp]] /\ Content(p, vp)' \in Data
  BY <1>2, <1>4, FilledContent DEF Filling
<1>7. DOMAIN Private[p] = {} /\ Private[p] = Virtual!Nothing
  <2>1. DOMAIN table[p] = {}
    BY <1>1 DEF MemInv, OnlyTheLive
  <2>2. DOMAIN Private[p] = {}
    BY <2>1, MappingValues DEF OwnPages
  <2>. QED
    BY <2>2, PrivateIsFunction DEF Virtual!Nothing
<1>8. /\ \A q \in Pids : q # p => Private'[q] = Private[q]
      /\ DOMAIN content = DOMAIN g /\ Attached' = Attached
      /\ \A vp \in DOMAIN g : content[vp] = Content(p, vp)'
  BY <1>5, <1>7, MappingOfOthers
<1>9. content = [vp \in DOMAIN content |-> content[vp]]
  BY PrivateIsFunction
<1>10. Private' = [Private EXCEPT ![p] = content]
  BY <1>8, PrivateIsFunction
<1>. HIDE DEF content
<1>11. content \in [0 .. (Size[p] - 1) -> Data]
  BY <1>2, <1>6, <1>8, <1>9
<1>12. \A vp \in DOMAIN Image[p] : content[vp] = Image[p][vp]
  BY <1>2, <1>6, <1>8, DataAssumption
<1>13. Shared' = Shared
  BY <1>1, <1>4, FramesArePrivateOrShared, SharedKept
<1>14. Virtual!Create(p)
  BY <1>7, <1>8, <1>10, <1>11, <1>12, <1>13 DEF Virtual!Create
<1>. QED
  BY <1>5, <1>14

LEMMA LoadFailsStutters ==
  ASSUME MemInv, Exact, NEW p \in Pids, LoadFails(p)
  PROVE  Exact' /\ UNCHANGED <<Private, Attached, Shared>>
<1>1. AllocationFails(Size[p]) /\ memory' = memory
  BY DEF LoadFails, AllocationFails
<1>2. Exact' /\ OthersSame(p, {})
  BY <1>1, FailingKeepsExact
<1>3. Shared' = Shared
  BY <1>1, SharedKept
<1>. QED
  BY <1>2, <1>3, SamePagesStutter

LEMMA ExitDestroys ==
  ASSUME MemInv, Exact, NEW p \in Pids, Exit(p)
  PROVE  Exact' /\ Virtual!Destroy(p)
<1>1. /\ Exact' /\ DOMAIN table'[p] = {}
      /\ \A q \in Pids : q # p => table'[q] = table[q]
      /\ \A q \in Pids : q # p => \A vp \in OwnPages(q) : Content(q, vp)' = Content(q, vp)
  BY ExitKeepsExact
<1>2. proc[p] = "live" /\ memory' = memory
  BY DEF Exit
<1>3. ASSUME NEW q \in Pids, q # p
      PROVE  Private'[q] = Private[q] /\ Attached'[q] = Attached[q]
  <2>1. OwnPages(q)' = OwnPages(q) /\ table'[q] = table[q]
    BY <1>1, <1>3 DEF OwnPages
  <2>2. DOMAIN Private'[q] = DOMAIN Private[q] /\ DOMAIN Attached'[q] = DOMAIN Attached[q]
    BY <2>1, MappingValues
  <2>3. /\ \A vp \in DOMAIN Private[q] : Private'[q][vp] = Private[q][vp]
        /\ \A vp \in DOMAIN Attached[q] : Attached'[q][vp] = Attached[q][vp]
    BY <1>1, <1>3, <2>1, MappingValues
  <2>. QED
    BY <2>2, <2>3, PrivateIsFunction, AttachedIsFunction
<1>4. Private'[p] = Virtual!Nothing /\ Attached'[p] = Virtual!Nothing
  <2>1. DOMAIN Private'[p] = {} /\ DOMAIN Attached'[p] = {}
    BY <1>1, MappingValues DEF OwnPages
  <2>. QED
    BY <2>1, PrivateIsFunction, AttachedIsFunction DEF Virtual!Nothing
<1>5. /\ Private' = [Private EXCEPT ![p] = Virtual!Nothing]
      /\ Attached' = [Attached EXCEPT ![p] = Virtual!Nothing]
  BY <1>3, <1>4, PrivateIsFunction, AttachedIsFunction
<1>6. Private[p] # Virtual!Nothing
  <2>1. DOMAIN Private[p] # {}
    BY <1>2, MappingValues DEF Exact
  <2>. QED
    BY <2>1 DEF Virtual!Nothing
<1>7. Shared' = Shared
  BY <1>2, SharedKept
<1>. QED
  BY <1>1, <1>5, <1>6, <1>7 DEF Virtual!Destroy

(* An access that does not fault leaves the pages where they are.          *)
LEMMA PresentTouches ==
  ASSUME MemInv, Exact, NEW p \in Pids, NEW vp \in DOMAIN table[p], Present(p, vp),
         NEW t, t = Translated(p, vp), Access(p, vp, t)
  PROVE  /\ UNCHANGED <<proc, table, working, swap>>
         /\ t.info = info /\ t.memory = memory /\ t.frame = table[p][vp]
         /\ t.working = working /\ t.frame \in Writable(working, p)
         /\ t.frame \in PrivateFrames \/ t.frame \in SharedFrames
<1>1. t = [frame |-> table[p][vp], table |-> table, working |-> working,
           info |-> info, freePages |-> freePages, memory |-> memory, swap |-> swap]
  BY DEF Translated
<1>2. UNCHANGED <<proc, table, working, swap>>
  BY <1>1 DEF Access
<1>3. table[p][vp] \in Writable(working, p) /\ table[p][vp] # Swapped
  BY DEF MemInv, MappedFramesAreOwn, Present
<1>4. table[p][vp] \in PrivateFrames \/ table[p][vp] \in SharedFrames
  BY <1>3 DEF Writable, MemInv, Typed
<1>. QED
  BY <1>1, <1>2, <1>3, <1>4

(* A step that changes what is in frames only.                             *)
LEMMA SameTables ==
  ASSUME UNCHANGED <<table, swap>>, NEW p \in Pids, NEW D \in SUBSET OwnPages(p),
         \A q \in Pids : \A v \in OwnPages(q) : table[q][v] \in PrivateFrames =>
            (q = p /\ v \in D) \/ memory'[table[q][v]] = memory[table[q][v]]
  PROVE  OthersSame(p, D)
<1>1. \A q \in Pids : OwnPages(q)' = OwnPages(q)
  BY DEF OwnPages
<1>2. \A q \in Pids : \A v \in OwnPages(q) :
        ~ (q = p /\ v \in D) => Content(q, v)' = Content(q, v)
  BY DEF OwnPages, Content
<1>. QED
  BY <1>1, <1>2 DEF OthersSame

LEMMA PresentReadFetches ==
  ASSUME MemInv, Exact, NEW p \in Pids, NEW vp \in DOMAIN table[p], Present(p, vp),
         Read(p, vp)
  PROVE  Exact' /\ Virtual!Fetch(p, vp, Returned(p, vp))
<1>. DEFINE t == Translated(p, vp)
<1>1. Access(p, vp, t) /\ info' = t.info /\ memory' = t.memory
  BY DEF Read
<1>2. /\ UNCHANGED <<proc, table, working, swap>> /\ info' = info /\ memory' = memory
  BY <1>1, PresentTouches
<1>3. Exact'
  BY <1>2, TouchingKeepsExact
<1>4. OthersSame(p, {})
  BY <1>2, SameTables
<1>5. Shared' = Shared
  BY <1>2, SharedKept
<1>6. UNCHANGED <<Private, Attached, Shared>>
  BY <1>4, <1>5, SamePagesStutter
<1>7. /\ t.memory = memory /\ t.frame = table[p][vp]
      /\ t.frame \in PrivateFrames \/ t.frame \in SharedFrames
  BY <1>1, PresentTouches
<1>8. Returned(p, vp) = memory[table[p][vp]]
  BY <1>7 DEF Returned
<1>. HIDE DEF t
<1>9. CASE table[p][vp] \in PrivateFrames
  <2>1. vp \in OwnPages(p) /\ table[p][vp] # Swapped
    BY <1>9, FramesArePrivateOrShared DEF OwnPages
  <2>2. Content(p, vp) = memory[table[p][vp]]
    BY <2>1 DEF Content
  <2>. QED
    BY <1>3, <1>6, <1>8, <2>1, <2>2, MappingValues DEF Virtual!Fetch, Virtual!virtualVars
<1>10. CASE table[p][vp] \in SharedFrames
  <2>1. vp \notin OwnPages(p)
    BY <1>10, FramesArePrivateOrShared DEF OwnPages
  <2>2. vp \in DOMAIN Attached[p] /\ Attached[p][vp] = table[p][vp]
    BY <2>1, MappingValues
  <2>3. Shared[table[p][vp]] = memory[table[p][vp]]
    BY <1>10 DEF Shared
  <2>. QED
    BY <1>3, <1>6, <1>8, <2>2, <2>3 DEF Virtual!Fetch, Virtual!virtualVars
<1>. QED
  BY <1>7, <1>9, <1>10

LEMMA PresentWriteStores ==
  ASSUME MemInv, Exact, NEW p \in Pids, NEW vp \in DOMAIN table[p], Present(p, vp),
         NEW d \in Data, Write(p, vp, d)
  PROVE  /\ Exact'
         /\ Virtual!Store(p, vp, d)
<1>. DEFINE t == Translated(p, vp)
            f == table[p][vp]
<1>1. /\ Access(p, vp, t) /\ info' = Dirtied(t.info, t.frame)
      /\ memory' = IF t.frame \in Writable(t.working, p)
                   THEN [t.memory EXCEPT ![t.frame] = d] ELSE t.memory
  BY DEF Write
<1>2. /\ UNCHANGED <<proc, table, working, swap>>
      /\ t.info = info /\ t.memory = memory /\ t.frame = f /\ t.working = working
      /\ f \in Writable(working, p) /\ (f \in PrivateFrames \/ f \in SharedFrames)
  BY <1>1, PresentTouches
<1>3. /\ info' = Dirtied(info, f) /\ memory' = [memory EXCEPT ![f] = d]
  BY <1>1, <1>2
<1>4. info \in [PrivateFrames -> PageInfo] /\ memory \in [Frames -> Data]
  BY DEF MemInv, Typed
<1>5. f \in Frames
  BY <1>2, FramesArePrivateOrShared
<1>6. /\ \A x \in Frames : x # f => memory'[x] = memory[x]
      /\ memory'[f] = d
  <2>. HIDE DEF f
  <2>. QED  BY <1>3, <1>4, <1>5
<1>7. /\ \A x \in PrivateFrames : /\ info'[x].valid = info[x].valid
                                  /\ info'[x].owner = info[x].owner
                                  /\ info'[x].vpage = info[x].vpage
      /\ f \in PrivateFrames => info'[f].dirty
      /\ \A x \in PrivateFrames : x # f => info'[x] = info[x]
  <2>1. /\ \A x \in PrivateFrames : /\ info'[x].valid = info[x].valid
                                    /\ info'[x].owner = info[x].owner
                                    /\ info'[x].vpage = info[x].vpage
    BY <1>3, <1>4, DirtiedProperties
  <2>2. f \in PrivateFrames => info' = [info EXCEPT ![f].dirty = TRUE]
    BY <1>3 DEF Dirtied
  <2>3. f \notin PrivateFrames => info' = info
    BY <1>3 DEF Dirtied
  <2>4. f \in PrivateFrames => info'[f].dirty
    BY <1>4, <2>2 DEF PageInfo
  <2>. HIDE DEF f
  <2>5. \A x \in PrivateFrames : x # f => info'[x] = info[x]
    BY <1>4, <2>2, <2>3
  <2>. QED
    BY <2>1, <2>4, <2>5
<1>8. Exact'
  <2>1. \A x \in Evictable : ~ info'[x].dirty => ~ info[x].dirty /\ memory'[x] = memory[x]
    BY <1>6, <1>7, FramesArePrivateOrShared DEF Evictable
  <2>. HIDE DEF f
  <2>. QED
    BY <1>2, <1>7, <2>1, TouchingKeepsExact
<1>9. CASE f \in PrivateFrames
  <2>1. vp \in OwnPages(p) /\ f # Swapped
    BY <1>9, FramesArePrivateOrShared DEF OwnPages
  <2>2. ASSUME NEW q \in Pids, NEW v \in OwnPages(q), table[q][v] \in PrivateFrames
        PROVE  (q = p /\ v \in {vp}) \/ memory'[table[q][v]] = memory[table[q][v]]
    <3>1. v \in DOMAIN table[q]
      BY DEF OwnPages
    <3>2. Key(table[q][v]) = <<q, v>> /\ Key(f) = <<p, vp>>
      BY <1>9, <2>2, <3>1, FramesMapBack
    <3>3. CASE table[q][v] = f
      BY <3>2, <3>3
    <3>4. CASE table[q][v] # f
      BY <1>6, <2>2, <3>4, FramesArePrivateOrShared
    <3>. QED
      BY <3>3, <3>4
  <2>3. OthersSame(p, {vp})
    BY <1>2, <2>1, <2>2, SameTables
  <2>4. Content(p, vp)' = d
    BY <1>2, <1>6, <2>1 DEF Content
  <2>5. Shared' = Shared
    BY <1>6, <1>9, FramesArePrivateOrShared, SharedKept
  <2>6. /\ vp \in DOMAIN Private[p] /\ Private' = [Private EXCEPT ![p][vp] = d]
        /\ UNCHANGED <<Attached, Shared>>
    BY <2>1, <2>3, <2>4, <2>5, OnePageIsStored
  <2>. QED
    BY <1>8, <2>6 DEF Virtual!Store
<1>10. CASE f \in SharedFrames
  <2>1. f \notin PrivateFrames \cup {Swapped}
    BY <1>10, FramesArePrivateOrShared
  <2>2. vp \in DOMAIN Attached[p] /\ Attached[p][vp] = f
    BY <2>1, MappingValues DEF OwnPages
  <2>3. OthersSame(p, {})
    <3>1. \A q \in Pids : \A v \in OwnPages(q) : table[q][v] \in PrivateFrames =>
            memory'[table[q][v]] = memory[table[q][v]]
      BY <1>6, <2>1, FramesArePrivateOrShared
    <3>. QED
      BY <1>2, <3>1, SameTables
  <2>4. Private' = Private /\ Attached' = Attached
    BY <2>3, SamePages
  <2>5. Shared' = [Shared EXCEPT ![f] = d]
    <3>1. \A x \in SharedFrames : x \in Frames
      BY FramesArePrivateOrShared
    <3>. HIDE DEF f
    <3>. QED
      BY <1>6, <1>10, <3>1 DEF Shared
  <2>. QED
    BY <1>8, <2>2, <2>4, <2>5 DEF Virtual!Store
<1>. QED
  BY <1>2, <1>9, <1>10

(* What a page fault and what follows it have in common: TakesOne is what  *)
(* FaultTakes says of either.                                              *)
LEMMA FaultMaps ==
  ASSUME MemInv, Exact, NEW p \in Pids, NEW vp \in DOMAIN table[p], ~ Present(p, vp),
         NEW f, f = Available[1], NEW out, out = Evict(Victims(1)),
         TakesOne(p, vp), info'[f].valid, Key(f)' = <<p, vp>>,
         \A x \in Frames : x # f => memory'[x] = memory[x],
         \A x \in PrivateFrames : x # f => info'[x] = info[x],
         ~ info'[f].dirty => memory'[f] = SwappedIn(out.swap, <<p, vp>>, f)
  PROVE  /\ Exact' /\ OthersSame(p, {vp}) /\ Shared' = Shared /\ vp \in OwnPages(p)
         /\ Content(p, vp)' = memory'[f]
         /\ Content(p, vp) = SwappedIn(out.swap, <<p, vp>>, f)
<1>. DEFINE F == {f}
            g == [v \in {vp} |-> f]
<1>1. /\ 1 <= Len(Available) /\ F = ToSet(Taken(1)) /\ f \in PrivateFrames
      /\ freePages' = StillFree(1) /\ Taking(p, F, out, g)
  BY DEF TakesOne
<1>2. Filling(p, F, out, g)
  <2>1. \A x \in PrivateFrames \ {f} : info'[x] = info[x] /\ memory'[x] = memory[x]
    BY FramesArePrivateOrShared
  <2>2. g = [v \in {vp} |-> f] /\ F = {f}
    OBVIOUS
  <2>3. Taking(p, {f}, out, g)
    BY <1>1
  <2>. HIDE DEF g, F
  <2>4. Filling(p, {f}, out, g)
    BY <1>1, <2>1, <2>2, <2>3, FaultFills
  <2>. QED
    BY <2>2, <2>4
<1>3. DOMAIN g = {vp} /\ g[vp] = f /\ 1 \in Nat
  OBVIOUS
<1>4. out.table \in Tables /\ PagesKept(out, ToSet(Victims(1)))
  BY <1>1, <1>3, TakenEviction, TakenPagesKept DEF NowEvicted
<1>5. F \in SUBSET PrivateFrames
  BY <1>1
<1>. HIDE DEF g, F
<1>6. Exact' /\ OthersSame(p, DOMAIN g)
  BY <1>1, <1>2, <1>3, FillingKeeps
<1>7. Content(p, vp)' = memory'[f]
  <2>1. \A v \in DOMAIN g : Content(p, v)' = memory'[g[v]] /\ Content(p, v)' \in Data
    <3>1. out.table \in Tables /\ Taking(p, F, out, g)
      BY <1>1, <1>4, Zenon
    <3>. QED
      BY <1>5, <3>1, FilledContent, Zenon
  <2>2. vp \in DOMAIN g
    BY <1>3
  <2>3. Content(p, vp)' = memory'[g[vp]]
    BY <2>1, <2>2, Zenon
  <2>. QED
    BY <1>3, <2>3, Zenon
<1>8. Shared' = Shared
  BY <1>1, FramesArePrivateOrShared, SharedKept
<1>9. table[p][vp] = Swapped
  <2>1. table[p][vp] \in PrivateFrames => info[table[p][vp]].valid
    BY DEF Exact, FrameMapConsistent
  <2>. QED
    BY <2>1 DEF Present
<1>10. vp \in OwnPages(p)
  BY <1>9 DEF OwnPages
<1>11. Content(p, vp) = SwappedIn(out.swap, <<p, vp>>, f)
  <2>1. out.table[p][vp] = Swapped
    BY <1>4, <1>9 DEF PagesKept
  <2>2. Content(p, vp) = ContentIn(out.table[p][vp], memory, out.swap, <<p, vp>>)
    BY <1>4, <1>10 DEF PagesKept
  <2>. QED
    BY <2>1, <2>2 DEF ContentIn, SwappedIn
<1>. QED
  BY <1>3, <1>6, <1>7, <1>8, <1>10, <1>11

LEMMA FaultingReadFetches ==
  ASSUME MemInv, Exact, NEW p \in Pids, NEW vp \in DOMAIN table[p], ~ Present(p, vp),
         Read(p, vp)
  PROVE  Exact' /\ Virtual!Fetch(p, vp, Returned(p, vp))
<1>0. PICK f : f = Available[1]
  OBVIOUS
<1>. DEFINE t == FaultedIn(p, vp)
            out == Evict(Victims(1))
            content == SwappedIn(out.swap, <<p, vp>>, f)
<1>1. /\ Access(p, vp, t) /\ info' = t.info /\ memory' = t.memory
      /\ proc[p] = "live" /\ Available # << >>
  BY DEF Read, Translated, Access
<1>2. /\ t.info = [info EXCEPT ![f] = Holding(p, vp)]
      /\ t.memory = [memory EXCEPT ![f] = content] /\ t.frame = f
  BY <1>0 DEF FaultedIn
<1>3. t.info \in [PrivateFrames -> PageInfo] /\ t.memory \in [Frames -> Data]
  <2>1. t = Translated(p, vp)
    BY DEF Translated
  <2>. HIDE DEF t
  <2>. QED
    BY <1>1, <2>1, TranslatedTypes
<1>4. TakesOne(p, vp)
  <2>. HIDE DEF t
  <2>1. t = FaultedIn(p, vp)
    BY DEF t
  <2>. QED
    BY <1>1, <1>3, <2>1, FaultTakes
<1>. HIDE DEF t
<1>5. f \in PrivateFrames /\ f \in Frames
  BY <1>0, <1>4, FramesArePrivateOrShared DEF TakesOne
<1>6. info \in [PrivateFrames -> PageInfo] /\ memory \in [Frames -> Data]
  BY DEF MemInv, Typed
<1>. HIDE DEF content, out
<1>7. /\ info'[f] = Holding(p, vp) /\ memory'[f] = content
      /\ \A x \in Frames : x # f => memory'[x] = memory[x]
      /\ \A x \in PrivateFrames : x # f => info'[x] = info[x]
  BY <1>1, <1>2, <1>5, <1>6
<1>8. info'[f].valid /\ Key(f)' = <<p, vp>>
  <2>1. Holding(p, vp).valid /\ Holding(p, vp).owner = p /\ Holding(p, vp).vpage = vp
    BY DEF Holding
  <2>. QED
    BY <1>7, <2>1 DEF Key
<1>9. f = Available[1] /\ out = Evict(Victims(1))
  BY <1>0 DEF out
<1>10. memory'[f] = SwappedIn(out.swap, <<p, vp>>, f)
  BY <1>7 DEF content
<1>11. /\ Exact' /\ OthersSame(p, {vp}) /\ Shared' = Shared /\ vp \in OwnPages(p)
       /\ Content(p, vp)' = memory'[f]
       /\ Content(p, vp) = SwappedIn(out.swap, <<p, vp>>, f)
  BY <1>4, <1>7, <1>8, <1>9, <1>10, FaultMaps
<1>12. OthersSame(p, {})
  BY <1>10, <1>11 DEF OthersSame
<1>13. UNCHANGED <<Private, Attached, Shared>>
  BY <1>11, <1>12, SamePagesStutter
<1>14. Returned(p, vp) = Content(p, vp)
  <2>1. t = Translated(p, vp)
    BY DEF t, Translated
  <2>2. Returned(p, vp) = t.memory[t.frame]
    BY <2>1 DEF Returned
  <2>. QED
    BY <1>1, <1>2, <1>10, <1>11, <2>2
<1>. QED
  BY <1>11, <1>13, <1>14, MappingValues DEF Virtual!Fetch, Virtual!virtualVars

LEMMA FaultingWriteStores ==
  ASSUME MemInv, Exact, NEW p \in Pids, NEW vp \in DOMAIN table[p], ~ Present(p, vp),
         NEW d \in Data, Write(p, vp, d)
  PROVE  Exact' /\ Virtual!Store(p, vp, d)
<1>0. PICK f : f = Available[1]
  OBVIOUS
<1>. DEFINE t == FaultedIn(p, vp)
            out == Evict(Victims(1))
            content == SwappedIn(out.swap, <<p, vp>>, f)
<1>1. /\ Access(p, vp, t) /\ info' = Dirtied(t.info, t.frame)
      /\ memory' = IF t.frame \in Writable(t.working, p)
                   THEN [t.memory EXCEPT ![t.frame] = d] ELSE t.memory
      /\ proc[p] = "live" /\ Available # << >>
  BY DEF Write, Translated, Access
<1>2. /\ t.info = [info EXCEPT ![f] = Holding(p, vp)]
      /\ t.memory = [memory EXCEPT ![f] = content]
      /\ t.working = [out.working EXCEPT ![p] = @ \cup {f}] /\ t.frame = f
  BY <1>0 DEF FaultedIn
<1>3. t.info \in [PrivateFrames -> PageInfo] /\ t.memory \in [Frames -> Data]
  <2>1. t = Translated(p, vp)
    BY DEF Translated
  <2>. HIDE DEF t
  <2>. QED
    BY <1>1, <2>1, TranslatedTypes
<1>4. memory' \in [Frames -> Data] /\ info' \in [PrivateFrames -> PageInfo]
      /\ \A x \in PrivateFrames : /\ info'[x].valid = t.info[x].valid
                                 /\ info'[x].owner = t.info[x].owner
                                 /\ info'[x].vpage = t.info[x].vpage
  <2>. HIDE DEF t
  <2>1. \A x \in PrivateFrames : /\ info'[x].valid = t.info[x].valid
                                 /\ info'[x].owner = t.info[x].owner
                                 /\ info'[x].vpage = t.info[x].vpage
    BY <1>1, <1>3, DirtiedProperties
  <2>2. info' \in [PrivateFrames -> PageInfo]
    BY <1>1, <1>3, DirtiedProperties
  <2>3. memory' \in [Frames -> Data]
    BY <1>1, <1>3
  <2>. QED
    BY <2>1, <2>2, <2>3
<1>5. TakesOne(p, vp)
  <2>. HIDE DEF t
  <2>1. t = FaultedIn(p, vp)
    BY DEF t
  <2>. QED
    BY <1>1, <1>4, <2>1, FaultTakes
<1>. HIDE DEF t
<1>6. f \in PrivateFrames /\ f \in Frames
  BY <1>0, <1>5, FramesArePrivateOrShared DEF TakesOne
<1>7. info \in [PrivateFrames -> PageInfo] /\ memory \in [Frames -> Data]
  BY DEF MemInv, Typed
<1>8. t.frame \in Writable(t.working, p)
  <2>1. 1 <= Len(Available) /\ 1 \in Nat
    BY <1>5 DEF TakesOne
  <2>2. out.working \in [Pids -> SUBSET PrivateFrames]
    BY <2>1, TakenEviction DEF NowEvicted
  <2>. HIDE DEF out
  <2>. QED
    BY <1>2, <2>2 DEF Writable
<1>. HIDE DEF content, out
<1>9. memory'[f] = d /\ \A x \in Frames : x # f => memory'[x] = memory[x]
  BY <1>1, <1>2, <1>6, <1>7, <1>8
<1>10. /\ info'[f] = [Holding(p, vp) EXCEPT !.dirty = TRUE]
       /\ \A x \in PrivateFrames : x # f => info'[x] = info[x]
  BY <1>1, <1>2, <1>6, <1>7 DEF Dirtied
<1>11. info'[f].valid /\ info'[f].dirty /\ Key(f)' = <<p, vp>>
  <2>. DEFINE i == [Holding(p, vp) EXCEPT !.dirty = TRUE]
  <2>1. i.valid /\ i.dirty /\ i.owner = p /\ i.vpage = vp
    BY DEF Holding
  <2>2. info'[f] = i
    BY <1>10
  <2>. HIDE DEF i
  <2>. QED
    BY <2>1, <2>2 DEF Key
<1>12. f = Available[1] /\ out = Evict(Victims(1))
  BY <1>0 DEF out
<1>13. /\ Exact' /\ OthersSame(p, {vp}) /\ Shared' = Shared /\ vp \in OwnPages(p)
       /\ Content(p, vp)' = memory'[f]
  <2>1. ~ info'[f].dirty => memory'[f] = SwappedIn(out.swap, <<p, vp>>, f)
    BY <1>11
  <2>2. /\ \A x \in Frames : x # f => memory'[x] = memory[x]
        /\ \A x \in PrivateFrames : x # f => info'[x] = info[x]
    BY <1>9, <1>10
  <2>. QED
    BY <1>5, <1>11, <1>12, <2>1, <2>2, FaultMaps
<1>14. /\ vp \in DOMAIN Private[p] /\ Private' = [Private EXCEPT ![p][vp] = d]
       /\ UNCHANGED <<Attached, Shared>>
  BY <1>9, <1>13, OnePageIsStored
<1>. QED
  BY <1>13, <1>14 DEF Virtual!Store

LEMMA MapSharedAttachesPages ==
  ASSUME MemInv, Exact, NEW p \in Pids, NEW r \in DOMAIN RegionStart, MapShared(p, r)
  PROVE  Exact' /\ Virtual!Attach(p, RegionPages(p, r))
<1>. DEFINE g == RegionPages(p, r)
<1>1. Attaching(p, g) /\ DOMAIN g \cap DOMAIN table[p] = {}
  BY MapSharedAttaches
<1>. HIDE DEF g
<1>2. /\ Exact'
      /\ \A q \in Pids : OwnPages(q)' = OwnPages(q)
      /\ \A q \in Pids : \A vp \in OwnPages(q) : Content(q, vp)' = Content(q, vp)
      /\ \A q \in Pids : table'[q] = IF q = p THEN Over(g, table[q]) ELSE table[q]
  BY <1>1, AttachingKeepsExact
<1>3. /\ proc[p] = "live" /\ g \in [DOMAIN g -> SharedFrames]
      /\ DOMAIN g \subseteq 0 .. MaxVPage[p] /\ memory' = memory
  BY <1>1 DEF Attaching
<1>. DEFINE pages == DOMAIN g
            old == Attached[p]
            new == [vp \in pages \cup DOMAIN old |-> IF vp \in pages THEN g[vp] ELSE old[vp]]
<1>4. Private' = Private
  <2>1. ASSUME NEW q \in Pids PROVE Private'[q] = Private[q]
    <3>1. DOMAIN Private'[q] = DOMAIN Private[q]
      BY <1>2, MappingValues
    <3>2. \A vp \in DOMAIN Private[q] : Private'[q][vp] = Private[q][vp]
      BY <1>2, MappingValues
    <3>. QED
      BY <3>1, <3>2, PrivateIsFunction
  <2>. QED
    BY <2>1, PrivateIsFunction
<1>5. /\ DOMAIN table'[p] = DOMAIN table[p] \cup pages
      /\ \A vp \in pages : table'[p][vp] = g[vp]
      /\ \A vp \in DOMAIN table[p] : vp \notin pages => table'[p][vp] = table[p][vp]
      /\ \A q \in Pids : q # p => table'[q] = table[q]
  <2>1. table'[p] = Over(g, table[p]) /\ \A q \in Pids : q # p => table'[q] = table[q]
    BY <1>2
  <2>. DEFINE both == Over(g, table[p])
  <2>2. /\ DOMAIN both = DOMAIN table[p] \cup DOMAIN g
        /\ \A vp \in DOMAIN g : both[vp] = g[vp]
        /\ \A vp \in DOMAIN table[p] : vp \notin DOMAIN g => both[vp] = table[p][vp]
    BY OverProperties
  <2>. HIDE DEF both
  <2>3. table'[p] = both
    BY <2>1 DEF both
  <2>. QED
    BY <2>1, <2>2, <2>3
<1>6. OwnPages(p) \subseteq DOMAIN table[p] /\ pages \cap DOMAIN table[p] = {}
  BY <1>1 DEF OwnPages
<1>. HIDE DEF pages
<1>7. Attached'[p] = new
  <2>1. DOMAIN Attached'[p] = pages \cup DOMAIN old
    BY <1>2, <1>5, <1>6, MappingValues
  <2>2. \A vp \in pages : Attached'[p][vp] = g[vp]
    BY <1>2, <1>5, <1>6, MappingValues
  <2>3. \A vp \in DOMAIN old : vp \notin pages /\ Attached'[p][vp] = old[vp]
    BY <1>2, <1>5, <1>6, MappingValues
  <2>. HIDE DEF old
  <2>. QED
    BY <2>1, <2>2, <2>3, AttachedIsFunction
<1>8. ASSUME NEW q \in Pids, q # p PROVE Attached'[q] = Attached[q]
  <2>1. DOMAIN Attached'[q] = DOMAIN Attached[q]
    BY <1>2, <1>5, <1>8, MappingValues
  <2>2. \A vp \in DOMAIN Attached[q] : Attached'[q][vp] = Attached[q][vp]
    BY <1>2, <1>5, <1>8, MappingValues
  <2>. QED
    BY <2>1, <2>2, AttachedIsFunction
<1>9. Attached' = [Attached EXCEPT ![p] = new]
  <2>. HIDE DEF new
  <2>. QED  BY <1>7, <1>8, AttachedIsFunction
<1>10. DOMAIN g \cap (DOMAIN Private[p] \cup DOMAIN Attached[p]) = {}
  <2>1. DOMAIN Attached[p] \cup DOMAIN Private[p] \subseteq DOMAIN table[p]
    BY <1>6, MappingValues
  <2>. QED
    BY <1>6, <2>1 DEF pages
<1>11. Attached' = [Attached EXCEPT ![p] =
                      [vp \in DOMAIN g \cup DOMAIN @ |-> IF vp \in DOMAIN g THEN g[vp] ELSE @[vp]]]
  BY <1>9 DEF pages
<1>12. Private[p] # Virtual!Nothing
  <2>1. DOMAIN Private[p] # {}
    BY <1>3, MappingValues DEF Exact
  <2>. QED
    BY <2>1 DEF Virtual!Nothing
<1>13. Shared' = Shared
  BY <1>3, SharedKept
<1>14. Virtual!Attach(p, g)
  BY <1>3, <1>4, <1>10, <1>11, <1>12, <1>13 DEF Virtual!Attach
<1>. QED
  BY <1>2, <1>14 DEF g

LEMMA InitIsExact == Init => Exact /\ Virtual!Init
<1>. SUFFICES ASSUME Init PROVE Exact /\ Virtual!Init
  OBVIOUS
<1>1. /\ proc = [p \in Pids |-> "new"] /\ table = [p \in Pids |-> << >>]
      /\ working = [p \in Pids |-> {}] /\ info = [f \in PrivateFrames |-> Unused]
      /\ memory = [f \in Frames |-> Zero]
  BY DEF Init
<1>2. \A p \in Pids : DOMAIN table[p] = {} /\ OwnPages(p) = {}
  BY <1>1 DEF OwnPages
<1>3. Evictable = {}
  BY <1>1 DEF Evictable, Unused
<1>4. Exact
  BY <1>1, <1>2, <1>3 DEF Exact, FrameMapConsistent, CleanCopiesAreCurrent
<1>5. \A p \in Pids : Private[p] = Virtual!Nothing /\ Attached[p] = Virtual!Nothing
  <2>1. \A p \in Pids : DOMAIN Private[p] = {} /\ DOMAIN Attached[p] = {}
    BY <1>2, MappingValues
  <2>. QED
    BY <2>1, PrivateIsFunction, AttachedIsFunction DEF Virtual!Nothing
<1>6. Shared \in [SharedFrames -> Data]
  BY <1>1, FramesArePrivateOrShared, DataAssumption DEF Shared
<1>7. Private = [p \in Pids |-> Virtual!Nothing] /\ Attached = [p \in Pids |-> Virtual!Nothing]
  BY <1>5, PrivateIsFunction, AttachedIsFunction
<1>. QED
  BY <1>4, <1>6, <1>7 DEF Virtual!Init

LEMMA NextKeepsExact ==
  ASSUME MemInv, Exact, Growers = {}, [Next]_vars
  PROVE  Exact'
<1>1. CASE Next
  <2>1. PICK p \in Pids :
          \/ Load(p)
          \/ LoadFails(p)
          \/ Exit(p)
          \/ \E vp \in DOMAIN table[p] : Read(p, vp)
          \/ \E vp \in DOMAIN table[p], d \in Data : Write(p, vp, d)
          \/ \E r \in DOMAIN RegionStart : MapShared(p, r)
    BY <1>1 DEF Next
  <2>2. CASE Load(p)
    BY <2>2, LoadCreates
  <2>3. CASE LoadFails(p)
    BY <2>3, LoadFailsStutters
  <2>4. CASE Exit(p)
    BY <2>4, ExitDestroys
  <2>5. ASSUME NEW vp \in DOMAIN table[p], Read(p, vp) PROVE Exact'
    BY <2>5, PresentReadFetches, FaultingReadFetches
  <2>6. ASSUME NEW vp \in DOMAIN table[p], NEW d \in Data, Write(p, vp, d) PROVE Exact'
    BY <2>6, PresentWriteStores, FaultingWriteStores
  <2>7. ASSUME NEW r \in DOMAIN RegionStart, MapShared(p, r) PROVE Exact'
    BY <2>7, MapSharedAttachesPages
  <2>. QED
    BY <2>1, <2>2, <2>3, <2>4, <2>5, <2>6, <2>7
<1>2. CASE UNCHANGED vars
  <2>1. /\ UNCHANGED <<proc, table, working, swap>> /\ info' = info /\ memory' = memory
    BY <1>2 DEF vars, processVars
  <2>. QED
    BY <2>1, TouchingKeepsExact
<1>. QED
  BY <1>1, <1>2

(* Whatever step is taken, what it is for programs follows from what it is *)
(* called: heap growth apart, which is none of these.                      *)
LEMMA StepsServe ==
  ASSUME MemInv, Exact
  PROVE  ServesAsVirtual
<1>. SUFFICES ASSUME NEW p \in Pids
              PROVE  /\ Load(p) => Virtual!Create(p)
                     /\ LoadFails(p) => UNCHANGED Virtual!virtualVars
                     /\ Exit(p) => Virtual!Destroy(p)
                     /\ \A vp \in DOMAIN table[p] :
                          /\ Read(p, vp) => Virtual!Fetch(p, vp, Returned(p, vp))
                          /\ \A d \in Data : Write(p, vp, d) => Virtual!Store(p, vp, d)
                     /\ \A r \in DOMAIN RegionStart :
                          MapShared(p, r) => Virtual!Attach(p, RegionPages(p, r))
  BY DEF ServesAsVirtual
<1>1. Load(p) => Virtual!Create(p)
  BY LoadCreates
<1>2. LoadFails(p) => UNCHANGED Virtual!virtualVars
  BY LoadFailsStutters DEF Virtual!virtualVars
<1>3. Exit(p) => Virtual!Destroy(p)
  BY ExitDestroys
<1>4. ASSUME NEW vp \in DOMAIN table[p]
      PROVE  Read(p, vp) => Virtual!Fetch(p, vp, Returned(p, vp))
  BY PresentReadFetches, FaultingReadFetches
<1>5. ASSUME NEW vp \in DOMAIN table[p], NEW d \in Data
      PROVE  Write(p, vp, d) => Virtual!Store(p, vp, d)
  BY PresentWriteStores, FaultingWriteStores
<1>6. ASSUME NEW r \in DOMAIN RegionStart
      PROVE  MapShared(p, r) => Virtual!Attach(p, RegionPages(p, r))
  BY MapSharedAttachesPages
<1>. QED
  BY <1>1, <1>2, <1>3, <1>4, <1>5, <1>6

(* Exact is an invariant while no heap grows, as the frames of a grown     *)
(* heap are not registered.                                                *)
THEOREM RegistrationIsExact ==
  ASSUME Growers = {}
  PROVE  Spec => [](MemInv /\ Exact)
<1>1. Init => MemInv /\ Exact
  BY InitEstablishes, InitIsExact
<1>2. MemInv /\ Exact /\ [Next]_vars => (MemInv /\ Exact)'
  BY NextKeeps, NextKeepsExact
<1>. QED
  BY <1>1, <1>2, PTL DEF Spec

(* The frame map and the page tables stay inverse to each other.           *)
THEOREM FrameMapStaysConsistent ==
  ASSUME Growers = {}
  PROVE  Spec => []FrameMapConsistent
<1>1. MemInv /\ Exact => FrameMapConsistent
  BY DEF Exact
<1>. QED
  BY <1>1, RegistrationIsExact, PTL

(* No eviction loses what a process wrote because it skips the write.      *)
THEOREM CopiesStayCurrent ==
  ASSUME Growers = {}
  PROVE  Spec => []CleanCopiesAreCurrent
<1>1. MemInv /\ Exact => CleanCopiesAreCurrent
  BY DEF Exact
<1>. QED
  BY <1>1, RegistrationIsExact, PTL

(* A page fault always finds a frame: of a memory with a live process, no  *)
(* private frame is neither free nor evictable.                            *)
THEOREM FaultsAlwaysResolve ==
  ASSUME Growers = {}
  PROVE  Spec => []FaultsResolve
<1>1. MemInv /\ Exact => FaultsResolve
  <2>. SUFFICES ASSUME MemInv, Exact, NEW p \in Pids, NEW vp \in DOMAIN table[p],
                       Faults(p, vp), Available = << >>
                PROVE  FALSE
    BY DEF FaultsResolve
  <2>1. PICK f : f \in PrivateFrames
    BY DEF Faults, Exact
  <2>2. f \in ToSet(freePages) \/ f \in Evictable
    BY <2>1, OneHolder DEF MemInv, Exact
  <2>3. ToSet(Available) = ToSet(freePages) \cup Evictable
    BY FreeFrames
  <2>4. ToSet(<< >>) = {}
    BY DEF ToSet
  <2>. QED
    BY <2>2, <2>3, <2>4
<1>. QED
  BY <1>1, RegistrationIsExact, PTL

(* What programs see through translation, page faults, evictions and the   *)
(* swap file is the memory that VirtualMemory promises: each operation is  *)
(* the one of that process, page and content, a read gets what was last    *)
(* stored in the page and changes none.                                    *)
THEOREM PagingIsVirtualMemory ==
  ASSUME Growers = {}
  PROVE  Spec => ImplementsVirtualMemory
<1>1. Init => Virtual!Init
  BY InitIsExact
<1>2. MemInv /\ Exact /\ [Next]_vars => [ServesAsVirtual]_vars
  BY StepsServe
<1>. QED
  BY <1>1, <1>2, RegistrationIsExact, PTL DEF Spec, ImplementsVirtualMemory

(* The page used last is at the end of the list that frames are taken from. *)
LEMMA FirstIsNotLast ==
  ASSUME MemInv, Cardinality(Evictable) > 1
  PROVE  /\ Last(Only(recent, Evictable)) \in PrivateFrames
         /\ Last(Only(recent, Evictable)) # Available[1]
<1>. DEFINE q == freePages
            r == Only(recent, Evictable)
            A == Available
            E == Evictable
<1>1. /\ E \cap ToSet(q) = {} /\ E \subseteq PrivateFrames /\ q \in Seq(PrivateFrames)
      /\ r \in Seq(PrivateFrames) /\ ToSet(r) = E /\ NoRepeat(r)
  BY FreeFrames
<1>2. A = q \o r /\ Last(r) = r[Len(r)]
  BY DEF Available, Last
<1>3. Cardinality(E) > 1
  OBVIOUS
<1>. HIDE DEF q, r, A, E
<1>4. /\ Len(q) \in Nat /\ DOMAIN q = 1 .. Len(q)
      /\ Len(r) \in Nat /\ DOMAIN r = 1 .. Len(r)
      /\ \A i \in 1 .. Len(q) + Len(r) : A[i] = IF i <= Len(q) THEN q[i] ELSE r[i - Len(q)]
  BY <1>1, <1>2, ConcatProperties, LenProperties
<1>5. /\ \A i \in 1 .. Len(q) : q[i] \in ToSet(q)
      /\ E = {r[i] : i \in 1 .. Len(r)}
  BY <1>1, <1>4 DEF ToSet
<1>6. Len(r) > 1
  <2>1. CASE Len(r) = 0
    <3>1. E = {}
      BY <1>5, <2>1
    <3>. QED  BY <1>3, <3>1, FS_EmptySet
  <2>2. CASE Len(r) = 1
    <3>1. E = {r[1]}
      BY <1>5, <2>2
    <3>2. Cardinality(E) = 1
      BY <3>1, FS_Singleton, Zenon
    <3>. QED  BY <1>3, <3>2
  <2>. QED  BY <1>4, <2>1, <2>2
<1>7. r[Len(r)] \in E
  BY <1>4, <1>5, <1>6
<1>8. CASE Len(q) = 0
  <2>1. 1 \in DOMAIN r /\ Len(r) \in DOMAIN r /\ A[1] = r[1]
    BY <1>4, <1>6, <1>8
  <2>2. r[1] # r[Len(r)]
    BY <1>1, <1>6, <2>1 DEF NoRepeat
  <2>. QED  BY <1>1, <1>2, <1>7, <2>1, <2>2 DEF r, A
<1>9. CASE Len(q) > 0
  <2>1. A[1] = q[1] /\ q[1] \in ToSet(q)
    BY <1>4, <1>5, <1>9
  <2>. QED  BY <1>1, <1>2, <1>7, <2>1 DEF r, A
<1>. QED
  BY <1>4, <1>8, <1>9

(* Only an access that faults brings a page back from the swap file.       *)
LEMMA OnlyFaultsBringBack ==
  ASSUME MemInv, Growers = {}, [Next]_vars,
         NEW p \in Pids, NEW vp \in DOMAIN table[p], proc[p] = "live",
         table[p][vp] = Swapped, vp \in DOMAIN table'[p], table'[p][vp] # Swapped
  PROVE  \E q \in Pids : \E vq \in DOMAIN table[q] :
           /\ ~ Present(q, vq)
           /\ Read(q, vq) \/ \E d \in Data : Write(q, vq, d)
<1>1. table' # table
  OBVIOUS
<1>2. PICK q \in Pids :
        \/ Load(q)
        \/ LoadFails(q)
        \/ Exit(q)
        \/ \E vq \in DOMAIN table[q] : Read(q, vq)
        \/ \E vq \in DOMAIN table[q], d \in Data : Write(q, vq, d)
        \/ \E r \in DOMAIN RegionStart : MapShared(q, r)
  BY <1>1 DEF Next, vars, processVars
<1>3. table \in [Pids -> UNION {[D -> Frames \cup {Swapped}] : D \in SUBSET Nat}]
  BY DEF MemInv, Typed, Tables
<1>4. ASSUME NEW out, NEW V, NowEvicted(out, V)
      PROVE  out.table[p][vp] = Swapped /\ out.table \in Tables
  BY <1>4 DEF NowEvicted
<1>5. CASE Load(q)
  <2>. DEFINE n == Size[q]
              out == Evict(Victims(n))
  <2>1. /\ q # p /\ n \in Nat /\ n <= Len(Available)
        /\ \E g : table' = [out.table EXCEPT ![q] = g]
    BY <1>5, SizesAssumption DEF Load
  <2>2. NowEvicted(out, ToSet(Victims(n)))
    BY <2>1, TakenEviction
  <2>. HIDE DEF out
  <2>3. table'[p][vp] = out.table[p][vp]
    BY <2>1, <2>2, <1>4 DEF Tables
  <2>. QED  BY <1>4, <2>2, <2>3
<1>6. CASE LoadFails(q)
  <2>. DEFINE vs == Only(recent, Evictable)
              out == Evict(vs)
  <2>1. table' = out.table
    BY <1>6 DEF LoadFails, AllocationFails
  <2>2. vs \in Seq(PrivateFrames) /\ ToSet(vs) \subseteq Evictable /\ NoRepeat(vs)
    BY FreeFrames
  <2>3. out = Evict(vs)
    OBVIOUS
  <2>. HIDE DEF vs, out
  <2>4. NowEvicted(out, ToSet(vs))
    BY <2>2, <2>3, EvictSet
  <2>. QED  BY <1>4, <2>1, <2>4
<1>7. CASE Exit(q)
  <2>1. table' = [table EXCEPT ![q] = << >>]
    BY <1>7 DEF Exit
  <2>2. q # p
    BY <1>3, <2>1
  <2>. QED  BY <1>3, <2>1, <2>2
<1>8. ASSUME NEW vq \in DOMAIN table[q], Read(q, vq) \/ \E d \in Data : Write(q, vq, d)
      PROVE  ~ Present(q, vq)
  <2>1. ASSUME Present(q, vq) PROVE Translated(q, vq).table = table
    BY <2>1 DEF Translated
  <2>2. table' = Translated(q, vq).table
    BY <1>8 DEF Read, Write, Access
  <2>. QED  BY <1>1, <2>1, <2>2
<1>9. ASSUME NEW r \in DOMAIN RegionStart, MapShared(q, r)
      PROVE  FALSE
  <2>. DEFINE g == RegionPages(q, r)
  <2>1. Attaching(q, g) /\ DOMAIN g \cap DOMAIN table[q] = {}
    BY <1>9, MapSharedAttaches
  <2>. HIDE DEF g
  <2>2. table' = [table EXCEPT ![q] = Over(g, @)]
    BY <2>1 DEF Attaching
  <2>3. table'[p][vp] = table[p][vp]
    <3>1. CASE q = p
      BY <1>3, <2>1, <2>2, <3>1 DEF Over
    <3>2. CASE q # p
      BY <1>3, <2>2, <3>2
    <3>. QED  BY <3>1, <3>2
  <2>. QED  BY <2>3
<1>. QED
  BY <1>2, <1>5, <1>6, <1>7, <1>8, <1>9

(* A fault registers the first frame there is with its page and no other.  *)
LEMMA FaultFillsTheFirst ==
  ASSUME MemInv, NEW q \in Pids, NEW vq \in DOMAIN table[q], ~ Present(q, vq),
         Read(q, vq) \/ (\E d \in Data : Write(q, vq, d)),
         NEW f \in PrivateFrames, f # Available[1]
  PROVE  info'[f] = info[f]
<1>. DEFINE x == Available[1]
            held == [info EXCEPT ![x] = Holding(q, vq)]
<1>1. /\ Translated(q, vq).info = held /\ Translated(q, vq).frame = x
  BY DEF Translated, FaultedIn
<1>2. info' = held \/ info' = Dirtied(held, x)
  BY <1>1 DEF Read, Write
<1>3. info \in [PrivateFrames -> PageInfo]
  BY DEF MemInv, Typed
<1>. HIDE DEF x
<1>4. held[f] = info[f] /\ Dirtied(held, x)[f] = held[f]
  BY <1>3 DEF Dirtied, x
<1>. QED
  BY <1>2, <1>4

(* A page fault does not evict the page used last, unless there is no      *)
(* other: a program that works on two pages makes progress.                *)
THEOREM TheLastUsedPageStays ==
  ASSUME Growers = {}
  PROVE  Spec => LastUsedPageStays
<1>. DEFINE Spares ==
       \A p \in Pids : \A vp \in DOMAIN table[p] \cap DOMAIN table'[p] :
         Faults(p, vp) /\ table'[p][vp] # table[p][vp] /\ Cardinality(Evictable) > 1
           => LET f == Last(Only(recent, Evictable)) IN info'[f] = info[f]
<1>1. ASSUME MemInv, Exact, [Next]_vars  PROVE Spares
  <2>. SUFFICES ASSUME NEW p \in Pids, NEW vp \in DOMAIN table[p], vp \in DOMAIN table'[p],
                       Faults(p, vp), table'[p][vp] # table[p][vp],
                       Cardinality(Evictable) > 1
                PROVE  info'[Last(Only(recent, Evictable))]
                         = info[Last(Only(recent, Evictable))]
    OBVIOUS
  <2>1. proc[p] = "live" /\ table[p][vp] = Swapped
    BY <1>1 DEF Faults, Present, Exact, FrameMapConsistent
  <2>2. PICK q \in Pids : \E vq \in DOMAIN table[q] :
          /\ ~ Present(q, vq)
          /\ Read(q, vq) \/ \E d \in Data : Write(q, vq, d)
    BY <1>1, <2>1, OnlyFaultsBringBack
  <2>3. PICK vq \in DOMAIN table[q] :
          /\ ~ Present(q, vq)
          /\ Read(q, vq) \/ \E d \in Data : Write(q, vq, d)
    BY <2>2
  <2>. QED  BY <1>1, <2>3, FirstIsNotLast, FaultFillsTheFirst
<1>2. [](MemInv /\ Exact) /\ [][Next]_vars => [][Spares]_vars
  BY <1>1, PTL
<1>. QED
  BY <1>2, RegistrationIsExact, PTL DEF Spec, LastUsedPageStays

-----------------------------------------------------------------------------
(***************************************************************************)
(* What a process leaves behind, and what it leaves alone                  *)
(***************************************************************************)

(* A frame that is registered with a process can be evicted. *)
OwnersValid == \A f \in PrivateFrames : info[f].owner # None => info[f].valid

LEMMA OwnersStayValid ==
  ASSUME MemInv, OwnersValid, [Next]_vars
  PROVE  OwnersValid'
<1>1. ASSUME \A f \in PrivateFrames : \/ info'[f] \in {info[f], Unused, Evicted}
                                      \/ info'[f].valid
      PROVE  OwnersValid'
  BY <1>1 DEF OwnersValid, Unused, Evicted
<1>2. info \in [PrivateFrames -> PageInfo]
  BY DEF MemInv, Typed
<1>3. ASSUME NEW vs, info' = InfoWithout(vs)  PROVE OwnersValid'
  BY <1>1, <1>3 DEF InfoWithout
<1>4. ASSUME NEW p \in Pids, Load(p)  PROVE OwnersValid'
  BY <1>1, <1>4 DEF Load, Holding
<1>5. ASSUME NEW n, AllocationFails(n)  PROVE OwnersValid'
  BY <1>3, <1>5 DEF AllocationFails
<1>6. ASSUME NEW p \in Pids, Exit(p)  PROVE OwnersValid'
  BY <1>1, <1>6 DEF Exit
<1>7. ASSUME NEW p \in Pids, NEW vp
      PROVE  /\ \A f \in PrivateFrames : \/ Translated(p, vp).info[f] = info[f]
                                         \/ Translated(p, vp).info[f].valid
             /\ Translated(p, vp).info[Translated(p, vp).frame] \in
                  {info[Translated(p, vp).frame], Holding(p, vp)}
  BY <1>2 DEF Translated, FaultedIn, Holding
<1>8. ASSUME NEW p \in Pids, NEW vp, Read(p, vp)  PROVE OwnersValid'
  BY <1>1, <1>7, <1>8 DEF Read
<1>9. ASSUME NEW p \in Pids, NEW vp \in DOMAIN table[p], NEW d, Write(p, vp, d)  PROVE OwnersValid'
  <2>. DEFINE f == Translated(p, vp).frame
              i == Translated(p, vp).info
  <2>1. info' = Dirtied(i, f)
    BY <1>9 DEF Write
  <2>2. \A x \in PrivateFrames : i[x] = info[x] \/ i[x].valid
    BY <1>7
  <2>3. i \in [PrivateFrames -> PageInfo]
    BY <1>9, TranslatedTypes DEF Write, Access
  <2>. HIDE DEF i, f
  <2>. QED  BY <2>1, <2>2, <2>3, DirtiedProperties DEF OwnersValid
<1>10. ASSUME NEW p \in Pids, NEW n, GrowHeap(p, n)  PROVE OwnersValid'
  BY <1>3, <1>10 DEF GrowHeap
<1>11. CASE UNCHANGED info
  BY <1>1, <1>11
<1>. QED
  BY <1>4, <1>5, <1>6, <1>8, <1>9, <1>10, <1>11
     DEF Next, LoadFails, GrowFails, MapShared, vars

(* The memory manager keeps nothing of a process that is not loaded: no    *)
(* frame, no page in the swap file, no entry of the frame map.             *)
LEMMA NothingOfTheGone ==
  ASSUME MemInv, OwnersValid, NEW p \in Pids, proc[p] # "live"
  PROVE  /\ working[p] = {} /\ KeysOf(swap, p) = {}
         /\ \A f \in PrivateFrames : info[f].owner # p
<1>1. working[p] = {} /\ KeysOf(swap, p) = {}
  BY DEF MemInv, OnlyTheLive
<1>2. ASSUME NEW f \in PrivateFrames, info[f].owner = p  PROVE FALSE
  <2>1. f \in Evictable
    BY <1>2, DataAssumption DEF Evictable, OwnersValid
  <2>2. f \in working[p]
    BY <1>2, <2>1 DEF MemInv, Registered
  <2>. QED  BY <1>1, <2>2
<1>. QED
  BY <1>1, <1>2

(* What process p does to memory, page faults included, leaves the pages of *)
(* all others what they are.                                                *)
LEMMA OthersKeepTheirPages ==
  ASSUME MemInv, Exact, NEW p \in Pids,
         \/ Exit(p)
         \/ \E vp \in DOMAIN table[p] : Read(p, vp)
         \/ \E vp \in DOMAIN table[p], d \in Data : Write(p, vp, d)
         \/ \E r \in DOMAIN RegionStart : MapShared(p, r)
  PROVE  \A q \in Pids \ {p} :
           /\ OwnPages(q)' = OwnPages(q)
           /\ \A vp \in OwnPages(q) : Content(q, vp)' = Content(q, vp)
<1>. DEFINE Alone == \A q \in Pids : q # p => Private'[q] = Private[q]
<1>1. ASSUME NEW x, Private' = [Private EXCEPT ![p] = x]
      PROVE  Alone
  BY <1>1, PrivateIsFunction
<1>2. ASSUME Private' = Private
      PROVE  Alone
  BY <1>2
<1>3. ASSUME Exit(p)  PROVE Alone
  <2>1. Virtual!Destroy(p)
    BY <1>3, ExitDestroys
  <2>2. Private' = [Private EXCEPT ![p] = Virtual!Nothing]
    BY <2>1 DEF Virtual!Destroy
  <2>. HIDE DEF Alone
  <2>. QED  BY <1>1, <2>2
<1>4. ASSUME NEW vp \in DOMAIN table[p], Read(p, vp)
      PROVE  Alone
  <2>1. Virtual!Fetch(p, vp, Returned(p, vp))
    BY <1>4, PresentReadFetches, FaultingReadFetches
  <2>. QED  BY <1>2, <2>1 DEF Virtual!Fetch, Virtual!virtualVars
<1>5. ASSUME NEW vp \in DOMAIN table[p], NEW d \in Data, Write(p, vp, d)
      PROVE  Alone
  <2>1. Virtual!Store(p, vp, d)
    BY <1>5, PresentWriteStores, FaultingWriteStores
  <2>2. CASE Private' = [Private EXCEPT ![p][vp] = d]
    BY <1>1, <2>2, PrivateIsFunction
  <2>. QED  BY <1>2, <2>1, <2>2 DEF Virtual!Store
<1>6. ASSUME NEW r \in DOMAIN RegionStart, MapShared(p, r)
      PROVE  Alone
  <2>1. Virtual!Attach(p, RegionPages(p, r))
    BY <1>6, MapSharedAttachesPages
  <2>. QED  BY <1>2, <2>1 DEF Virtual!Attach
<1>7. Alone
  <2>. HIDE DEF Alone
  <2>. QED  BY <1>3, <1>4, <1>5, <1>6
<1>. HIDE DEF Alone
<1>8. ASSUME NEW q \in Pids, q # p
      PROVE  /\ OwnPages(q)' = OwnPages(q)
             /\ \A vp \in OwnPages(q) : Content(q, vp)' = Content(q, vp)
  <2>1. Private'[q] = Private[q]
    BY <1>7, <1>8 DEF Alone
  <2>2. /\ DOMAIN Private[q] = OwnPages(q)
        /\ \A vp \in OwnPages(q) : Private[q][vp] = Content(q, vp)
    BY DEF Private
  <2>3. /\ DOMAIN Private'[q] = OwnPages(q)'
        /\ \A vp \in OwnPages(q)' : Private'[q][vp] = Content(q, vp)'
    BY DEF Private
  <2>. QED  BY <2>1, <2>2, <2>3
<1>. QED
  BY <1>8

LEMMA OwnersAreValid == Spec => []OwnersValid
<1>1. Init => OwnersValid
  BY DEF Init, OwnersValid, Unused
<1>2. MemInv /\ OwnersValid /\ [Next]_vars => OwnersValid'
  BY OwnersStayValid
<1>. QED
  BY <1>1, <1>2, InvariantHolds, PTL DEF Spec

=============================================================================
