------------------------ MODULE PriorityQueueProofs ------------------------
(***************************************************************************)
(* What the queue operations return, for queues of any length: every       *)
(* result is a queue of the same processes, plus those inserted, minus     *)
(* those removed, each as often as before.                                 *)
(***************************************************************************)
EXTENDS PriorityQueue, SequenceTheorems, WellFoundedInduction, TLAPS

-----------------------------------------------------------------------------
(***************************************************************************)
(* Counting up to a bound                                                  *)
(***************************************************************************)

LessThan == OpToRel(<, Nat)

LEMMA LessThanDef == \A m, n \in Nat : <<m, n>> \in LessThan <=> m < n
BY DEF LessThan, OpToRel

(* A nonempty set of naturals has a least member. *)
LEMMA LeastMember ==
  ASSUME NEW T \in SUBSET Nat, T # {}
  PROVE  \E n \in T : \A m \in T : n <= m
<1>1. IsWellFoundedOn(LessThan, Nat)
  BY NatLessThanWellFounded DEF LessThan
<1>2. PICK n \in T : \A m \in T : <<m, n>> \notin LessThan
  BY <1>1, WFMin
<1>3. \A m \in T : ~ (m < n)
  BY <1>2, LessThanDef, Zenon
<1>4. \A m \in T : m \in Nat /\ n \in Nat
  OBVIOUS
<1>. QED
  BY <1>3, <1>4

LEMMA MinOfNaturals ==
  ASSUME NEW T \in SUBSET Nat, T # {}
  PROVE  Min(T) \in T /\ \A m \in T : Min(T) <= m
BY LeastMember DEF Min

(* Induction over 0..L: a set that holds 0 and, with n - 1, also n.         *)
LEMMA UpTo ==
  ASSUME NEW L \in Nat, NEW T \in SUBSET (0 .. L), 0 \in T,
         \A n \in 1 .. L : n - 1 \in T => n \in T
  PROVE  T = 0 .. L
<1>. DEFINE Missing == (0 .. L) \ T
<1>1. SUFFICES ASSUME Missing # {} PROVE FALSE
  OBVIOUS
<1>2. PICK n \in Missing : \A m \in Missing : n <= m
  <2>1. Missing \in SUBSET Nat
    OBVIOUS
  <2>. HIDE DEF Missing
  <2>. QED  BY <1>1, <2>1, LeastMember
<1>3. n \in 1 .. L /\ n - 1 \in 0 .. L
  BY <1>2
<1>4. n - 1 \in T
  BY <1>2, <1>3
<1>. QED
  BY <1>2, <1>3, <1>4

(* A loop of L rounds that starts with a and whose n-th round is step[n].   *)
LEMMA LoopExists ==
  ASSUME NEW X, NEW a \in X, NEW L \in Nat, NEW step \in [1 .. L -> [X -> X]]
  PROVE  \E f \in [0 .. L -> X] :
           f[0] = a /\ \A n \in 1 .. L : f[n] = step[n][f[n - 1]]
<1>. DEFINE Runs(m) == \E f \in [0 .. m -> X] :
              f[0] = a /\ \A n \in 1 .. m : f[n] = step[n][f[n - 1]]
            T == {m \in 0 .. L : Runs(m)}
<1>1. Runs(0)
  <2>. DEFINE g == [k \in 0 .. 0 |-> a]
  <2>1. g \in [0 .. 0 -> X] /\ g[0] = a
    OBVIOUS
  <2>2. \A n \in 1 .. 0 : g[n] = step[n][g[n - 1]]
    OBVIOUS
  <2>. HIDE DEF g
  <2>. QED  BY <2>1, <2>2
<1>2. ASSUME NEW m \in 1 .. L, Runs(m - 1)  PROVE Runs(m)
  <2>1. PICK f \in [0 .. m - 1 -> X] :
          f[0] = a /\ \A n \in 1 .. m - 1 : f[n] = step[n][f[n - 1]]
    BY <1>2
  <2>. DEFINE g == [k \in 0 .. m |-> IF k = m THEN step[m][f[m - 1]] ELSE f[k]]
  <2>2. g \in [0 .. m -> X]
    OBVIOUS
  <2>3. g[0] = a
    BY <2>1
  <2>4. ASSUME NEW n \in 1 .. m  PROVE g[n] = step[n][g[n - 1]]
    BY <2>1
  <2>. HIDE DEF g
  <2>. QED  BY <2>2, <2>3, <2>4
<1>3. T = 0 .. L
  <2>. HIDE DEF Runs
  <2>1. 0 \in T /\ \A m \in 1 .. L : m - 1 \in T => m \in T
    BY <1>1, <1>2
  <2>2. T \in SUBSET (0 .. L)
    OBVIOUS
  <2>. HIDE DEF T
  <2>. QED  BY <2>1, <2>2, UpTo
<1>4. Runs(L)
  <2>. HIDE DEF Runs
  <2>. QED  BY <1>3
<1>. QED
  BY <1>4

-----------------------------------------------------------------------------
(***************************************************************************)
(* Enqueue                                                                 *)
(***************************************************************************)

LEMMA InsertAtProperties ==
  ASSUME NEW S, NEW q \in Seq(S), NEW p \in S, NEW k \in 1 .. Len(q) + 1
  PROVE  /\ InsertAt(q, k, p) \in Seq(S)
         /\ Len(InsertAt(q, k, p)) = Len(q) + 1
         /\ \A i \in 1 .. Len(q) + 1 :
              /\ i < k => InsertAt(q, k, p)[i] = q[i]
              /\ i = k => InsertAt(q, k, p)[i] = p
              /\ i > k => InsertAt(q, k, p)[i] = q[i - 1]
<1>. DEFINE front == SubSeq(q, 1, k - 1)
            back  == SubSeq(q, k, Len(q))
<1>0. Len(q) \in Nat /\ k \in Int /\ k - 1 \in Int /\ \A i \in 1 .. Len(q) : q[i] \in S
  BY LenProperties, ElementOfSeq
<1>1. /\ front \in Seq(S) /\ Len(front) = k - 1
      /\ \A i \in 1 .. k - 1 : front[i] = q[i]
  BY <1>0, SubSeqProperties
<1>2. /\ back \in Seq(S) /\ Len(back) = Len(q) - k + 1
      /\ \A i \in 1 .. Len(q) - k + 1 : back[i] = q[k + i - 1]
  BY <1>0, SubSeqProperties
<1>3. <<p>> \in Seq(S) /\ Len(<<p>>) = 1 /\ <<p>>[1] = p
  OBVIOUS
<1>. HIDE DEF front, back
<1>. DEFINE head == front \o <<p>>
            all  == head \o back
<1>4. /\ head \in Seq(S) /\ Len(head) = k
      /\ \A i \in 1 .. k : head[i] = IF i < k THEN front[i] ELSE p
  BY <1>0, <1>1, <1>3, ConcatProperties
<1>5. /\ all \in Seq(S) /\ Len(all) = Len(q) + 1
      /\ \A i \in 1 .. Len(q) + 1 :
           all[i] = IF i <= k THEN head[i] ELSE back[i - k]
  <2>. HIDE DEF head
  <2>1. /\ all \in Seq(S) /\ Len(all) = Len(head) + Len(back)
        /\ \A i \in 1 .. Len(head) + Len(back) :
             all[i] = IF i <= Len(head) THEN head[i] ELSE back[i - Len(head)]
    BY <1>2, <1>4, ConcatProperties
  <2>. HIDE DEF all
  <2>. QED  BY <2>1, <1>0, <1>2, <1>4
<1>6. all = InsertAt(q, k, p)
  BY DEF InsertAt, front, back
<1>. HIDE DEF head, all
<1>7. ASSUME NEW i \in 1 .. Len(q) + 1
      PROVE  /\ i < k => all[i] = q[i]
             /\ i = k => all[i] = p
             /\ i > k => all[i] = q[i - 1]
  <2>1. ASSUME i < k PROVE all[i] = q[i]
    BY <2>1, <1>0, <1>1, <1>4, <1>5
  <2>2. ASSUME i = k PROVE all[i] = p
    BY <2>2, <1>0, <1>4, <1>5
  <2>3. ASSUME i > k PROVE all[i] = q[i - 1]
    <3>1. i - k \in 1 .. Len(q) - k + 1 /\ k + (i - k) - 1 = i - 1
      BY <2>3, <1>0
    <3>2. all[i] = back[i - k]
      BY <2>3, <1>0, <1>5
    <3>. QED  BY <3>1, <3>2, <1>2
  <2>. QED  BY <2>1, <2>2, <2>3
<1>. QED
  BY <1>5, <1>6, <1>7

(* Where _enqueue_ready puts p: behind every process of at least its        *)
(* priority that precedes the first weaker one.                             *)
LEMMA EnqueuePosition ==
  ASSUME NEW S, NEW q \in Seq(S), NEW p \in S, NEW prio \in [S -> Int]
  PROVE  /\ Enqueue(q, p, prio) \in Seq(S)
         /\ Len(Enqueue(q, p, prio)) = Len(q) + 1
         /\ \E k \in 1 .. Len(q) + 1 :
              /\ \A i \in 1 .. Len(q) + 1 :
                   Enqueue(q, p, prio)[i] = IF i < k THEN q[i]
                                            ELSE IF i = k THEN p ELSE q[i - 1]
              /\ \A i \in 1 .. k - 1 : prio[q[i]] >= prio[p]
              /\ k <= Len(q) => prio[q[k]] < prio[p]
<1>. DEFINE weaker == {i \in DOMAIN q : prio[q[i]] < prio[p]}
<1>0. /\ Len(q) \in Nat /\ DOMAIN q = 1 .. Len(q)
      /\ \A i \in 1 .. Len(q) : q[i] \in S /\ prio[q[i]] \in Int
      /\ prio[p] \in Int
  BY LenProperties, ElementOfSeq
<1>1. CASE weaker = {}
  <2>1. Enqueue(q, p, prio) = Append(q, p)
    BY <1>1 DEF Enqueue
  <2>2. \A i \in 1 .. Len(q) : prio[q[i]] >= prio[p]
    BY <1>0, <1>1
  <2>. HIDE DEF weaker
  <2>3. /\ Append(q, p) \in Seq(S) /\ Len(Append(q, p)) = Len(q) + 1
        /\ \A i \in 1 .. Len(q) : Append(q, p)[i] = q[i]
        /\ Append(q, p)[Len(q) + 1] = p
    BY AppendProperties
  <2>. DEFINE k == Len(q) + 1
  <2>4. k \in 1 .. Len(q) + 1
    BY <1>0
  <2>5. \A i \in 1 .. Len(q) + 1 :
          Append(q, p)[i] = IF i < k THEN q[i] ELSE IF i = k THEN p ELSE q[i - 1]
    <3>1. \A i \in 1 .. Len(q) + 1 : i = k \/ (i \in 1 .. Len(q) /\ i < k)
      BY <1>0
    <3>. QED  BY <3>1, <2>3, <1>0
  <2>6. (\A i \in 1 .. k - 1 : prio[q[i]] >= prio[p]) /\ ~ (k <= Len(q))
    BY <1>0, <2>2
  <2>. HIDE DEF k
  <2>. QED  BY <2>1, <2>3, <2>4, <2>5, <2>6
<1>2. CASE weaker # {}
  <2>1. weaker \in SUBSET Nat
    BY <1>0
  <2>2. Min(weaker) \in weaker /\ \A i \in weaker : Min(weaker) <= i
    <3>. HIDE DEF weaker
    <3>. QED  BY <1>2, <2>1, MinOfNaturals
  <2>3. PICK k \in 1 .. Len(q) :
          k = Min(weaker) /\ k \in weaker /\ \A i \in weaker : k <= i
    <3>1. weaker \subseteq 1 .. Len(q)
      BY <1>0
    <3>. HIDE DEF weaker
    <3>. QED  BY <2>2, <3>1
  <2>4. prio[q[k]] < prio[p]
    BY <2>3
  <2>5. ASSUME NEW i \in 1 .. k - 1  PROVE prio[q[i]] >= prio[p]
    <3>1. i \in 1 .. Len(q) /\ i < k
      BY <2>4, <1>0
    <3>2. i \notin weaker
      <4>. HIDE DEF weaker
      <4>. QED  BY <3>1, <2>3
    <3>. QED  BY <3>1, <3>2, <1>0
  <2>6. Enqueue(q, p, prio) = InsertAt(q, k, p)
    BY <1>2, <2>3 DEF Enqueue
  <2>7. k \in 1 .. Len(q) + 1
    BY <1>0
  <2>8. /\ InsertAt(q, k, p) \in Seq(S)
        /\ Len(InsertAt(q, k, p)) = Len(q) + 1
        /\ \A i \in 1 .. Len(q) + 1 :
             InsertAt(q, k, p)[i] = IF i < k THEN q[i]
                                    ELSE IF i = k THEN p ELSE q[i - 1]
    <3>. HIDE DEF weaker
    <3>1. InsertAt(q, k, p) \in Seq(S) /\ Len(InsertAt(q, k, p)) = Len(q) + 1
      BY <2>7, InsertAtProperties
    <3>2. ASSUME NEW i \in 1 .. Len(q) + 1
          PROVE  /\ i < k => InsertAt(q, k, p)[i] = q[i]
                 /\ i = k => InsertAt(q, k, p)[i] = p
                 /\ i > k => InsertAt(q, k, p)[i] = q[i - 1]
      BY <2>7, InsertAtProperties
    <3>3. \A i \in 1 .. Len(q) + 1 : i < k \/ i = k \/ i > k
      BY <1>0
    <3>4. \A i \in 1 .. Len(q) + 1 : (i = k \/ i > k) => ~ (i < k)
      BY <1>0
    <3>5. \A i \in 1 .. Len(q) + 1 : i > k => i # k
      BY <1>0
    <3>6. ASSUME NEW i \in 1 .. Len(q) + 1
          PROVE  InsertAt(q, k, p)[i] = IF i < k THEN q[i]
                                        ELSE IF i = k THEN p ELSE q[i - 1]
      <4>1. CASE i < k
        BY <3>2, <4>1
      <4>2. CASE i = k
        BY <3>2, <3>4, <4>2
      <4>3. CASE i > k
        BY <3>2, <3>4, <3>5, <4>3
      <4>. QED  BY <3>3, <4>1, <4>2, <4>3
    <3>. QED  BY <3>1, <3>6
  <2>. HIDE DEF weaker
  <2>. QED  BY <2>4, <2>5, <2>6, <2>7, <2>8
<1>. QED
  BY <1>1, <1>2

(* _enqueue_ready adds the one process and loses none. *)
LEMMA EnqueueProperties ==
  ASSUME NEW S, NEW q \in Seq(S), NEW p \in S, NEW prio \in [S -> Int]
  PROVE  /\ Enqueue(q, p, prio) \in Seq(S)
         /\ Enqueue(q, p, prio) # << >>
         /\ ToSet(Enqueue(q, p, prio)) = ToSet(q) \cup {p}
         /\ NoRepeat(q) /\ p \notin ToSet(q) => NoRepeat(Enqueue(q, p, prio))
         /\ InOrder(q, prio) => InOrder(Enqueue(q, p, prio), prio)
<1>. DEFINE r == Enqueue(q, p, prio)
<1>1. PICK k \in 1 .. Len(q) + 1 :
        /\ r \in Seq(S) /\ Len(r) = Len(q) + 1
        /\ \A i \in 1 .. Len(q) + 1 :
             r[i] = IF i < k THEN q[i] ELSE IF i = k THEN p ELSE q[i - 1]
        /\ \A i \in 1 .. k - 1 : prio[q[i]] >= prio[p]
        /\ k <= Len(q) => prio[q[k]] < prio[p]
  BY EnqueuePosition
<1>. HIDE DEF r
<1>2. /\ Len(q) \in Nat /\ DOMAIN q = 1 .. Len(q)
      /\ DOMAIN r = 1 .. Len(q) + 1
      /\ \A i \in 1 .. Len(q) : q[i] \in S /\ prio[q[i]] \in Int
      /\ prio[p] \in Int
  BY <1>1, LenProperties, ElementOfSeq
<1>3. ASSUME NEW i \in 1 .. Len(q) + 1
      PROVE  /\ i < k => i \in 1 .. Len(q) /\ r[i] = q[i]
             /\ i = k => r[i] = p
             /\ i > k => /\ i - 1 \in 1 .. Len(q)
                         /\ i - 1 \in k .. Len(q)
                         /\ r[i] = q[i - 1]
             /\ i < k \/ i = k \/ i > k
  <2>1. r[i] = IF i < k THEN q[i] ELSE IF i = k THEN p ELSE q[i - 1]
    BY <1>1
  <2>2. /\ i < k => i \in 1 .. Len(q)
        /\ i > k => i - 1 \in 1 .. Len(q) /\ i - 1 \in k .. Len(q) /\ ~ (i < k) /\ i # k
        /\ i = k => ~ (i < k)
        /\ i < k \/ i = k \/ i > k
    BY <1>2
  <2>. QED  BY <2>1, <2>2
<1>7. r # << >>
  BY <1>1, <1>2
<1>4. ToSet(r) = ToSet(q) \cup {p}
  <2>1. ASSUME NEW i \in DOMAIN r  PROVE r[i] \in ToSet(q) \cup {p}
    <3>1. CASE i < k  BY <3>1, <1>2, <1>3 DEF ToSet
    <3>2. CASE i = k  BY <3>2, <1>2, <1>3
    <3>3. CASE i > k  BY <3>3, <1>2, <1>3 DEF ToSet
    <3>. QED  BY <3>1, <3>2, <3>3, <1>2, <1>3
  <2>2. ASSUME NEW i \in DOMAIN q  PROVE q[i] \in ToSet(r)
    <3>1. CASE i < k
      <4>1. i \in DOMAIN r /\ r[i] = q[i]  BY <3>1, <1>1, <1>2
      <4>. QED  BY <4>1 DEF ToSet
    <3>2. CASE i >= k
      <4>0. i + 1 \in 1 .. Len(q) + 1 /\ i + 1 > k /\ (i + 1) - 1 = i
        BY <3>2, <1>2
      <4>1. i + 1 \in DOMAIN r /\ r[i + 1] = q[i]
        BY <4>0, <1>2, <1>3
      <4>. QED  BY <4>1 DEF ToSet
    <3>. QED  BY <3>1, <3>2, <1>2
  <2>3. k \in DOMAIN r /\ r[k] = p
    BY <1>1, <1>2
  <2>4. p \in ToSet(r)
    BY <2>3 DEF ToSet
  <2>. QED  BY <2>1, <2>2, <2>4 DEF ToSet
<1>5. ASSUME NoRepeat(q), p \notin ToSet(q)  PROVE NoRepeat(r)
  <2>1. \A i \in 1 .. Len(q) : q[i] # p
    BY <1>2, <1>5 DEF ToSet
  <2>2. \A i, j \in 1 .. Len(q) : q[i] = q[j] => i = j
    BY <1>2, <1>5 DEF NoRepeat
  <2>3. SUFFICES ASSUME NEW i \in 1 .. Len(q) + 1, NEW j \in 1 .. Len(q) + 1, r[i] = r[j]
                 PROVE  i = j
    BY <1>2 DEF NoRepeat
  <2>4. \A m \in 1 .. Len(q) : q[m] \in S /\ q[m] # p
    BY <2>1, <1>2
  <2>5. CASE i = k \/ j = k
    BY <2>3, <2>4, <2>5, <1>3
  <2>6. CASE i < k /\ j < k
    BY <2>2, <2>3, <2>6, <1>3
  <2>7. CASE i < k /\ j > k
    BY <2>2, <2>3, <2>7, <1>3
  <2>8. CASE i > k /\ j < k
    BY <2>2, <2>3, <2>8, <1>3
  <2>9. CASE i > k /\ j > k
    <3>1. i - 1 \in 1 .. Len(q) /\ j - 1 \in 1 .. Len(q) /\ q[i - 1] = q[j - 1]
      BY <2>3, <2>9, <1>3
    <3>2. i - 1 = j - 1
      BY <3>1, <2>2
    <3>. QED  BY <3>2
  <2>. QED  BY <2>5, <2>6, <2>7, <2>8, <2>9, <1>3
<1>6. ASSUME InOrder(q, prio)  PROVE InOrder(r, prio)
  <2>1. \A i, j \in 1 .. Len(q) : i < j => prio[q[i]] >= prio[q[j]]
    BY <1>2, <1>6 DEF InOrder
  <2>2. ASSUME NEW i \in k .. Len(q)  PROVE prio[q[i]] < prio[p]
    <3>1. /\ k \in 1 .. Len(q) /\ i \in 1 .. Len(q) /\ k <= Len(q)
          /\ i = k \/ k < i
      BY <1>2
    <3>2. prio[q[k]] < prio[p] /\ (k < i => prio[q[k]] >= prio[q[i]])
      BY <3>1, <2>1, <1>1
    <3>3. prio[q[k]] \in Int /\ prio[q[i]] \in Int /\ prio[p] \in Int
      BY <3>1, <1>2
    <3>. QED  BY <3>1, <3>2, <3>3
  <2>3. SUFFICES ASSUME NEW i \in 1 .. Len(q) + 1, NEW j \in 1 .. Len(q) + 1, i < j
                 PROVE  prio[r[i]] >= prio[r[j]]
    BY <1>2 DEF InOrder
  <2>4. CASE j < k
    <3>1. i < k
      BY <2>3, <2>4
    <3>. QED  BY <3>1, <2>1, <2>3, <2>4, <1>3
  <2>5. CASE j = k
    <3>1. i \in 1 .. k - 1
      BY <2>3, <2>5
    <3>. QED  BY <3>1, <2>3, <2>5, <1>1, <1>3
  <2>6. CASE j > k
    <3>1. r[j] = q[j - 1] /\ j - 1 \in k .. Len(q) /\ j - 1 \in 1 .. Len(q)
      BY <2>6, <1>3
    <3>2. CASE i < k
      <4>1. r[i] = q[i] /\ i \in 1 .. Len(q) /\ i < j - 1
        BY <3>2, <2>6, <1>3
      <4>2. prio[q[i]] >= prio[q[j - 1]]
        BY <4>1, <3>1, <2>1
      <4>. QED  BY <4>1, <4>2, <3>1
    <3>3. CASE i = k
      <4>1. prio[q[j - 1]] < prio[p] /\ prio[q[j - 1]] \in Int
        BY <3>1, <2>2, <1>2
      <4>2. r[i] = p
        BY <3>3, <1>3
      <4>. QED  BY <4>1, <4>2, <3>1, <1>2
    <3>4. CASE i > k
      <4>1. r[i] = q[i - 1] /\ i - 1 \in 1 .. Len(q) /\ i - 1 < j - 1
        BY <3>4, <2>3, <1>3
      <4>2. prio[q[i - 1]] >= prio[q[j - 1]]
        BY <4>1, <3>1, <2>1
      <4>. QED  BY <4>1, <4>2, <3>1
    <3>. QED  BY <3>2, <3>3, <3>4
  <2>. QED  BY <2>4, <2>5, <2>6
<1>. QED
  BY <1>1, <1>4, <1>5, <1>6, <1>7 DEF r

-----------------------------------------------------------------------------
(***************************************************************************)
(* EnqueueAll                                                              *)
(***************************************************************************)

EnqueueMaps(X, ps, prio, L) ==
  \A n \in 1 .. L : \A s \in X : Enqueue(s, ps[n], prio) \in X

(* The recursive function in EnqueueAll exists. *)
LEMMA EnqueueRoundsExist ==
  ASSUME NEW X, NEW q, q \in X, NEW L, L \in Nat, NEW ps, NEW prio,
         EnqueueMaps(X, ps, prio, L)
  PROVE  \E f : f = [n \in 0 .. L |->
                       IF n = 0 THEN q ELSE Enqueue(f[n - 1], ps[n], prio)]
<1>. DEFINE step == [n \in 1 .. L |-> [s \in X |-> Enqueue(s, ps[n], prio)]]
<1>1. step \in [1 .. L -> [X -> X]]
  BY DEF EnqueueMaps
<1>2. PICK f \in [0 .. L -> X] :
        f[0] = q /\ \A n \in 1 .. L : f[n] = step[n][f[n - 1]]
  <2>. HIDE DEF step
  <2>. QED  BY <1>1, LoopExists
<1>3. \A n \in 1 .. L : n - 1 \in 0 .. L
  OBVIOUS
<1>4. \A n \in 1 .. L : f[n] = Enqueue(f[n - 1], ps[n], prio)
  BY <1>2, <1>3
<1>. QED
  BY <1>2, <1>4

(* The loop of EnqueueAll, one value per round. *)
LEMMA EnqueueAllRounds ==
  ASSUME NEW S, NEW q \in Seq(S), NEW ps \in Seq(S), NEW prio \in [S -> Int]
  PROVE  \E f : /\ f[0] = q
                /\ \A n \in 1 .. Len(ps) : f[n] = Enqueue(f[n - 1], ps[n], prio)
                /\ EnqueueAll(q, ps, prio) = f[Len(ps)]
<1>1. /\ Len(ps) \in Nat
      /\ \A n \in 1 .. Len(ps) : ps[n] \in S
  BY LenProperties, ElementOfSeq
<1>2. EnqueueMaps(Seq(S), ps, prio, Len(ps))
  BY <1>1, EnqueueProperties DEF EnqueueMaps
<1>. DEFINE Round(f) == [n \in 0 .. Len(ps) |->
                           IF n = 0 THEN q ELSE Enqueue(f[n - 1], ps[n], prio)]
<1>3. \E f : f = Round(f)
  BY <1>1, <1>2, EnqueueRoundsExist
<1>4. PICK f : f = Round(f) /\ EnqueueAll(q, ps, prio) = f[Len(ps)]
  BY <1>3 DEF EnqueueAll
<1>5. \A n \in 0 .. Len(ps) :
        f[n] = IF n = 0 THEN q ELSE Enqueue(f[n - 1], ps[n], prio)
  <2>1. \A n \in 0 .. Len(ps) :
          Round(f)[n] = IF n = 0 THEN q ELSE Enqueue(f[n - 1], ps[n], prio)
    OBVIOUS
  <2>2. \A n \in 0 .. Len(ps) : f[n] = Round(f)[n]
    <3>. HIDE DEF Round
    <3>. QED  BY <1>4
  <2>. QED  BY <2>1, <2>2, Zenon
<1>6. 0 \in 0 .. Len(ps) /\ \A n \in 1 .. Len(ps) : n \in 0 .. Len(ps) /\ n # 0
  BY <1>1
<1>. HIDE DEF Round
<1>. QED
  BY <1>4, <1>5, <1>6

(* Enqueuing several processes adds just these, and keeps the order.        *)
LEMMA EnqueueAllProperties ==
  ASSUME NEW S, NEW q \in Seq(S), NEW ps \in Seq(S), NEW prio \in [S -> Int]
  PROVE  /\ EnqueueAll(q, ps, prio) \in Seq(S)
         /\ ToSet(EnqueueAll(q, ps, prio)) = ToSet(q) \cup ToSet(ps)
         /\ NoRepeat(q) /\ NoRepeat(ps) /\ ToSet(q) \cap ToSet(ps) = {}
              => NoRepeat(EnqueueAll(q, ps, prio))
         /\ InOrder(q, prio) => InOrder(EnqueueAll(q, ps, prio), prio)
<1>1. /\ Len(ps) \in Nat /\ DOMAIN ps = 1 .. Len(ps)
      /\ \A n \in 1 .. Len(ps) : ps[n] \in S
  BY LenProperties, ElementOfSeq
<1>2. PICK f : /\ f[0] = q
               /\ \A n \in 1 .. Len(ps) : f[n] = Enqueue(f[n - 1], ps[n], prio)
               /\ EnqueueAll(q, ps, prio) = f[Len(ps)]
  BY EnqueueAllRounds
<1>. DEFINE first(n) == {ps[m] : m \in 1 .. n}
            clean == NoRepeat(q) /\ NoRepeat(ps) /\ ToSet(q) \cap ToSet(ps) = {}
            Good(n) == /\ f[n] \in Seq(S)
                       /\ ToSet(f[n]) = ToSet(q) \cup first(n)
                       /\ clean => NoRepeat(f[n])
                       /\ InOrder(q, prio) => InOrder(f[n], prio)
            T == {n \in 0 .. Len(ps) : Good(n)}
<1>3. Good(0)
  <2>1. first(0) = {}
    OBVIOUS
  <2>. HIDE DEF first
  <2>. QED  BY <1>2, <2>1
<1>4. ASSUME NEW n \in 1 .. Len(ps), Good(n - 1)  PROVE Good(n)
  <2>1. ps[n] \in S /\ f[n - 1] \in Seq(S) /\ f[n] = Enqueue(f[n - 1], ps[n], prio)
    BY <1>1, <1>2, <1>4
  <2>2. first(n) = first(n - 1) \cup {ps[n]}
    <3>1. 1 .. n = (1 .. n - 1) \cup {n}
      BY <1>1
    <3>. QED  BY <3>1
  <2>3. clean => ps[n] \notin ToSet(q) \cup first(n - 1)
    <3>1. ASSUME clean, ps[n] \in first(n - 1)  PROVE FALSE
      <4>1. PICK m \in 1 .. n - 1 : ps[m] = ps[n]
        BY <3>1
      <4>2. m \in DOMAIN ps /\ n \in DOMAIN ps /\ m # n
        BY <1>1
      <4>. QED  BY <3>1, <4>1, <4>2 DEF NoRepeat
    <3>2. ps[n] \in ToSet(ps)
      BY <1>1 DEF ToSet
    <3>. HIDE DEF first
    <3>. QED  BY <3>1, <3>2
  <2>. HIDE DEF first, clean
  <2>. DEFINE r == f[n - 1]
              e == ps[n]
  <2>4. /\ Enqueue(r, e, prio) \in Seq(S)
        /\ ToSet(Enqueue(r, e, prio)) = ToSet(r) \cup {e}
        /\ NoRepeat(r) /\ e \notin ToSet(r) => NoRepeat(Enqueue(r, e, prio))
        /\ InOrder(r, prio) => InOrder(Enqueue(r, e, prio), prio)
    <3>1. r \in Seq(S) /\ e \in S
      BY <2>1
    <3>. HIDE DEF r, e
    <3>. QED  BY <3>1, EnqueueProperties
  <2>. QED  BY <1>4, <2>1, <2>2, <2>3, <2>4
<1>5. T = 0 .. Len(ps)
  <2>. HIDE DEF Good
  <2>1. 0 \in T /\ \A n \in 1 .. Len(ps) : n - 1 \in T => n \in T
    BY <1>1, <1>3, <1>4
  <2>2. T \in SUBSET (0 .. Len(ps))
    OBVIOUS
  <2>. HIDE DEF T
  <2>. QED  BY <1>1, <2>1, <2>2, UpTo
<1>6. Good(Len(ps))
  <2>. HIDE DEF Good
  <2>1. Len(ps) \in T
    <3>. HIDE DEF T
    <3>. QED  BY <1>1, <1>5
  <2>. QED  BY <2>1
<1>7. first(Len(ps)) = ToSet(ps)
  BY <1>1 DEF ToSet
<1>. QED
  BY <1>2, <1>6, <1>7

(* Sorting keeps the members of a queue.                                    *)
LEMMA ByPriorityProperties ==
  ASSUME NEW S, NEW q \in Seq(S), NEW prio \in [S -> Int]
  PROVE  /\ ByPriority(q, prio) \in Seq(S)
         /\ ToSet(ByPriority(q, prio)) = ToSet(q)
         /\ NoRepeat(q) => NoRepeat(ByPriority(q, prio))
         /\ InOrder(ByPriority(q, prio), prio)
         /\ q # << >> => ByPriority(q, prio) # << >>
<1>. DEFINE e == << >>
<1>1. e \in Seq(S) /\ ToSet(e) = {} /\ NoRepeat(e) /\ InOrder(e, prio)
  BY DEF ToSet, NoRepeat, InOrder
<1>2. /\ ByPriority(q, prio) \in Seq(S)
      /\ ToSet(ByPriority(q, prio)) = ToSet(q)
      /\ NoRepeat(q) => NoRepeat(ByPriority(q, prio))
      /\ InOrder(ByPriority(q, prio), prio)
  <2>1. ByPriority(q, prio) = EnqueueAll(e, q, prio)
    BY DEF ByPriority
  <2>. HIDE DEF e
  <2>2. /\ EnqueueAll(e, q, prio) \in Seq(S)
        /\ ToSet(EnqueueAll(e, q, prio)) = ToSet(e) \cup ToSet(q)
        /\ NoRepeat(e) /\ NoRepeat(q) /\ ToSet(e) \cap ToSet(q) = {}
             => NoRepeat(EnqueueAll(e, q, prio))
        /\ InOrder(e, prio) => InOrder(EnqueueAll(e, q, prio), prio)
    BY <1>1, EnqueueAllProperties
  <2>. QED  BY <1>1, <2>1, <2>2
<1>3. q # << >> => ToSet(q) # {}
  <2>1. q # << >> => 1 \in DOMAIN q
    BY EmptySeq, LenProperties
  <2>. QED  BY <2>1 DEF ToSet
<1>. QED
  BY <1>1, <1>2, <1>3

-----------------------------------------------------------------------------
(***************************************************************************)
(* Without and Only                                                        *)
(***************************************************************************)

KeepOrSkip(s, x, Q) == IF x \in Q THEN s ELSE Append(s, x)

SkipMaps(X, q, Q, L) ==
  \A n \in 1 .. L : \A s \in X : KeepOrSkip(s, q[n], Q) \in X

SkipRound(e, q, Q, L, f) ==
  [n \in 0 .. L |-> IF n = 0 THEN e
                    ELSE IF q[n] \in Q THEN f[n - 1] ELSE Append(f[n - 1], q[n])]

(* The recursive function in Without exists. *)
LEMMA SkipRoundsExist ==
  ASSUME NEW X, NEW e, e \in X, NEW L, L \in Nat, NEW q, NEW Q, SkipMaps(X, q, Q, L)
  PROVE  \E f : f = SkipRound(e, q, Q, L, f)
<1>. DEFINE step == [n \in 1 .. L |-> [s \in X |-> KeepOrSkip(s, q[n], Q)]]
<1>1. step \in [1 .. L -> [X -> X]]
  BY DEF SkipMaps
<1>2. PICK f \in [0 .. L -> X] :
        f[0] = e /\ \A n \in 1 .. L : f[n] = step[n][f[n - 1]]
  <2>. HIDE DEF step
  <2>. QED  BY <1>1, LoopExists
<1>3. \A n \in 1 .. L : n - 1 \in 0 .. L
  OBVIOUS
<1>4. \A n \in 1 .. L : f[n] = KeepOrSkip(f[n - 1], q[n], Q)
  BY <1>2, <1>3
<1>5. f = [n \in 0 .. L |-> IF n = 0 THEN e ELSE KeepOrSkip(f[n - 1], q[n], Q)]
  BY <1>2, <1>4
<1>. QED
  BY <1>5, Zenon DEF KeepOrSkip, SkipRound

(* The loop of Without, one value per member of q. *)
LEMMA WithoutRounds ==
  ASSUME NEW S, NEW q \in Seq(S), NEW Q
  PROVE  \E f : /\ f[0] = << >>
                /\ \A n \in 1 .. Len(q) : f[n] = KeepOrSkip(f[n - 1], q[n], Q)
                /\ Without(q, Q) = f[Len(q)]
<1>1. /\ Len(q) \in Nat
      /\ \A n \in 1 .. Len(q) : q[n] \in S
  BY LenProperties, ElementOfSeq
<1>2. SkipMaps(Seq(S), q, Q, Len(q))
  BY <1>1, AppendProperties DEF SkipMaps, KeepOrSkip
<1>. DEFINE Round(f) == SkipRound(<< >>, q, Q, Len(q), f)
<1>3. \E f : f = Round(f)
  <2>. DEFINE e == << >>
  <2>2. e \in Seq(S)
    OBVIOUS
  <2>. HIDE DEF e
  <2>3. \E f : f = SkipRound(e, q, Q, Len(q), f)
    BY <1>1, <1>2, <2>2, SkipRoundsExist
  <2>. QED  BY <2>3, Zenon DEF e
<1>4. PICK f : f = Round(f) /\ Without(q, Q) = f[Len(q)]
  BY <1>3 DEF Without, SkipRound
<1>5. \A n \in 0 .. Len(q) :
        f[n] = IF n = 0 THEN << >> ELSE KeepOrSkip(f[n - 1], q[n], Q)
  <2>1. \A n \in 0 .. Len(q) :
          Round(f)[n] = IF n = 0 THEN << >> ELSE KeepOrSkip(f[n - 1], q[n], Q)
    BY DEF KeepOrSkip, SkipRound
  <2>2. \A n \in 0 .. Len(q) : f[n] = Round(f)[n]
    <3>. HIDE DEF Round
    <3>. QED  BY <1>4
  <2>. QED  BY <2>1, <2>2, Zenon
<1>6. 0 \in 0 .. Len(q) /\ \A n \in 1 .. Len(q) : n \in 0 .. Len(q) /\ n # 0
  BY <1>1
<1>. HIDE DEF Round
<1>. QED
  BY <1>4, <1>5, <1>6

(* A process that joins the end of a queue. *)
LEMMA AppendMember ==
  ASSUME NEW S, NEW q \in Seq(S), NEW p \in S
  PROVE  /\ Append(q, p) \in Seq(S)
         /\ Append(q, p) # << >>
         /\ ToSet(Append(q, p)) = ToSet(q) \cup {p}
         /\ NoRepeat(q) /\ p \notin ToSet(q) => NoRepeat(Append(q, p))
<1>. DEFINE r == Append(q, p)
<1>1. /\ r \in Seq(S) /\ Len(r) = Len(q) + 1 /\ Len(q) \in Nat
      /\ DOMAIN q = 1 .. Len(q) /\ DOMAIN r = 1 .. Len(q) + 1
      /\ \A i \in 1 .. Len(q) : r[i] = q[i]
      /\ r[Len(q) + 1] = p
  BY AppendProperties, LenProperties
<1>. HIDE DEF r
<1>2. r # << >>
  BY <1>1
<1>3. ToSet(r) = ToSet(q) \cup {p}
  BY <1>1 DEF ToSet
<1>4. ASSUME NoRepeat(q), p \notin ToSet(q)  PROVE NoRepeat(r)
  <2>1. \A i \in 1 .. Len(q) : q[i] # p
    BY <1>1, <1>4 DEF ToSet
  <2>. QED  BY <1>1, <1>4, <2>1 DEF NoRepeat
<1>. QED
  BY <1>1, <1>2, <1>3, <1>4 DEF r

(* The same, at the end of an ordered queue. *)
LEMMA AppendInOrder ==
  ASSUME NEW S, NEW q \in Seq(S), NEW p \in S, NEW prio \in [S -> Int],
         InOrder(q, prio), \A x \in ToSet(q) : prio[x] >= prio[p]
  PROVE  InOrder(Append(q, p), prio)
<1>. DEFINE r == Append(q, p)
<1>1. /\ Len(q) \in Nat
      /\ DOMAIN q = 1 .. Len(q) /\ DOMAIN r = 1 .. Len(q) + 1
      /\ \A i \in 1 .. Len(q) : r[i] = q[i]
      /\ r[Len(q) + 1] = p
  BY AppendProperties, LenProperties
<1>. HIDE DEF r
<1>2. \A i, j \in 1 .. Len(q) : i < j => prio[q[i]] >= prio[q[j]]
  BY <1>1 DEF InOrder
<1>3. \A i \in 1 .. Len(q) : prio[q[i]] >= prio[p]
  BY <1>1 DEF ToSet
<1>4. SUFFICES ASSUME NEW i \in 1 .. Len(q) + 1, NEW j \in 1 .. Len(q) + 1, i < j
               PROVE  prio[r[i]] >= prio[r[j]]
  BY <1>1 DEF InOrder, r
<1>5. i \in 1 .. Len(q) /\ r[i] = q[i]
  BY <1>1, <1>4
<1>6. CASE j = Len(q) + 1
  BY <1>1, <1>3, <1>5, <1>6
<1>7. CASE j \in 1 .. Len(q)
  BY <1>1, <1>2, <1>4, <1>5, <1>7
<1>. QED
  BY <1>1, <1>6, <1>7

(* Removing the processes of Q from a queue removes just these, and leaves  *)
(* the others in order.                                                     *)
LEMMA WithoutProperties ==
  ASSUME NEW S, NEW q \in Seq(S), NEW Q, NEW prio \in [S -> Int]
  PROVE  /\ Without(q, Q) \in Seq(S)
         /\ ToSet(Without(q, Q)) = ToSet(q) \ Q
         /\ NoRepeat(q) => NoRepeat(Without(q, Q))
         /\ InOrder(q, prio) => InOrder(Without(q, Q), prio)
<1>1. /\ Len(q) \in Nat /\ DOMAIN q = 1 .. Len(q)
      /\ \A n \in 1 .. Len(q) : q[n] \in S
  BY LenProperties, ElementOfSeq
<1>2. PICK f : /\ f[0] = << >>
               /\ \A n \in 1 .. Len(q) : f[n] = KeepOrSkip(f[n - 1], q[n], Q)
               /\ Without(q, Q) = f[Len(q)]
  BY WithoutRounds
<1>. DEFINE first(n) == {q[m] : m \in 1 .. n}
            Good(n) == /\ f[n] \in Seq(S)
                       /\ ToSet(f[n]) = first(n) \ Q
                       /\ NoRepeat(q) => NoRepeat(f[n])
                       /\ InOrder(q, prio) => InOrder(f[n], prio)
            T == {n \in 0 .. Len(q) : Good(n)}
<1>3. Good(0)
  <2>. DEFINE e == << >>
  <2>1. e \in Seq(S) /\ ToSet(e) = {} /\ NoRepeat(e) /\ InOrder(e, prio)
    BY DEF ToSet, NoRepeat, InOrder
  <2>2. f[0] = e
    BY <1>2
  <2>3. first(0) = {}
    OBVIOUS
  <2>. HIDE DEF e, first
  <2>. QED  BY <2>1, <2>2, <2>3
<1>4. ASSUME NEW n \in 1 .. Len(q), Good(n - 1)  PROVE Good(n)
  <2>. DEFINE r == f[n - 1]
              x == q[n]
              new == f[n]
  <2>1. x \in S /\ r \in Seq(S) /\ new = KeepOrSkip(r, x, Q)
    BY <1>1, <1>2, <1>4
  <2>2. first(n) = first(n - 1) \cup {x}
    <3>1. 1 .. n = (1 .. n - 1) \cup {n}
      BY <1>1
    <3>. QED  BY <3>1
  <2>3. NoRepeat(q) => x \notin first(n - 1)
    <3>1. ASSUME NoRepeat(q), NEW m \in 1 .. n - 1, q[m] = q[n]  PROVE FALSE
      <4>1. m \in DOMAIN q /\ n \in DOMAIN q /\ m # n
        BY <1>1
      <4>. QED  BY <3>1, <4>1 DEF NoRepeat
    <3>. QED  BY <3>1
  <2>4. InOrder(q, prio) => \A y \in first(n - 1) : prio[y] >= prio[x]
    <3>1. ASSUME InOrder(q, prio), NEW m \in 1 .. n - 1  PROVE prio[q[m]] >= prio[q[n]]
      <4>1. m \in DOMAIN q /\ n \in DOMAIN q /\ m < n
        BY <1>1
      <4>. QED  BY <3>1, <4>1 DEF InOrder
    <3>. QED  BY <3>1
  <2>5. /\ ToSet(r) = first(n - 1) \ Q
        /\ NoRepeat(q) => NoRepeat(r)
        /\ InOrder(q, prio) => InOrder(r, prio)
    BY <1>4
  <2>. SUFFICES /\ new \in Seq(S)
                /\ ToSet(new) = first(n) \ Q
                /\ NoRepeat(q) => NoRepeat(new)
                /\ InOrder(q, prio) => InOrder(new, prio)
    OBVIOUS
  <2>. HIDE DEF first, r, x, new
  <2>6. CASE x \in Q
    <3>1. new = r
      BY <2>1, <2>6 DEF KeepOrSkip
    <3>. QED  BY <3>1, <2>1, <2>2, <2>5, <2>6
  <2>7. CASE x \notin Q
    <3>1. new = Append(r, x)
      BY <2>1, <2>7 DEF KeepOrSkip
    <3>2. /\ Append(r, x) \in Seq(S)
          /\ ToSet(Append(r, x)) = ToSet(r) \cup {x}
          /\ NoRepeat(r) /\ x \notin ToSet(r) => NoRepeat(Append(r, x))
      BY <2>1, AppendMember
    <3>3. NoRepeat(q) => NoRepeat(new)
      BY <3>1, <3>2, <2>3, <2>5
    <3>4. ASSUME InOrder(q, prio)  PROVE InOrder(new, prio)
      <4>1. InOrder(r, prio) /\ \A y \in ToSet(r) : prio[y] >= prio[x]
        BY <3>4, <2>4, <2>5
      <4>2. InOrder(Append(r, x), prio)
        BY <2>1, <4>1, AppendInOrder
      <4>. QED  BY <3>1, <4>2
    <3>. QED  BY <3>1, <3>2, <3>3, <3>4, <2>2, <2>5, <2>7
  <2>. QED  BY <2>6, <2>7
<1>5. T = 0 .. Len(q)
  <2>. HIDE DEF Good
  <2>1. 0 \in T /\ \A n \in 1 .. Len(q) : n - 1 \in T => n \in T
    BY <1>1, <1>3, <1>4
  <2>2. T \in SUBSET (0 .. Len(q))
    OBVIOUS
  <2>. HIDE DEF T
  <2>. QED  BY <1>1, <2>1, <2>2, UpTo
<1>6. Good(Len(q))
  <2>. HIDE DEF Good
  <2>1. Len(q) \in T
    <3>. HIDE DEF T
    <3>. QED  BY <1>1, <1>5
  <2>. QED  BY <2>1
<1>7. first(Len(q)) = ToSet(q)
  BY <1>1 DEF ToSet
<1>. QED
  BY <1>2, <1>6, <1>7

(* The part of WithoutProperties that no priority matters to. *)
LEMMA WithoutMembers ==
  ASSUME NEW S, NEW q \in Seq(S), NEW Q
  PROVE  /\ Without(q, Q) \in Seq(S)
         /\ ToSet(Without(q, Q)) = ToSet(q) \ Q
         /\ NoRepeat(q) => NoRepeat(Without(q, Q))
<1>. DEFINE prio == [s \in S |-> 0]
<1>1. prio \in [S -> Int]
  OBVIOUS
<1>. HIDE DEF prio
<1>2. /\ Without(q, Q) \in Seq(S)
      /\ ToSet(Without(q, Q)) = ToSet(q) \ Q
      /\ NoRepeat(q) => NoRepeat(Without(q, Q))
      /\ InOrder(q, prio) => InOrder(Without(q, Q), prio)
  BY <1>1, WithoutProperties
<1>. QED
  BY <1>2

(* A queue without members is empty. *)
LEMMA NoMembers ==
  ASSUME NEW S, NEW q \in Seq(S), ToSet(q) = {}
  PROVE  q = << >>
<1>1. q # << >> => 1 \in DOMAIN q
  BY EmptySeq, LenProperties
<1>. QED
  BY <1>1 DEF ToSet

(* Only picks the members it names. *)
LEMMA OnlyProperties ==
  ASSUME NEW S, NEW q \in Seq(S), NEW Q
  PROVE  /\ Only(q, Q) \in Seq(S)
         /\ ToSet(Only(q, Q)) = ToSet(q) \cap Q
         /\ NoRepeat(q) => NoRepeat(Only(q, Q))
<1>. DEFINE R == ToSet(q) \ Q
<1>1. ToSet(q) \ R = ToSet(q) \cap Q
  OBVIOUS
<1>2. Only(q, Q) = Without(q, R)
  BY DEF Only
<1>. HIDE DEF R
<1>3. /\ Without(q, R) \in Seq(S)
      /\ ToSet(Without(q, R)) = ToSet(q) \ R
      /\ NoRepeat(q) => NoRepeat(Without(q, R))
  BY WithoutMembers
<1>. QED
  BY <1>1, <1>2, <1>3

(* pop(0) of a queue that is not empty. *)
LEMMA PopFront ==
  ASSUME NEW S, NEW q \in Seq(S), q # << >>, NEW prio \in [S -> Int]
  PROVE  /\ Head(q) \in S /\ Head(q) \in ToSet(q)
         /\ Tail(q) \in Seq(S)
         /\ ToSet(q) = ToSet(Tail(q)) \cup {Head(q)}
         /\ NoRepeat(q) => NoRepeat(Tail(q)) /\ Head(q) \notin ToSet(Tail(q))
         /\ InOrder(q, prio) => /\ InOrder(Tail(q), prio)
                                /\ \A x \in ToSet(q) : prio[Head(q)] >= prio[x]
<1>. DEFINE t == Tail(q)
            L == Len(q)
<1>1. /\ L \in Nat \ {0} /\ DOMAIN q = 1 .. L
      /\ Head(q) = q[1] /\ 1 \in 1 .. L
      /\ t \in Seq(S) /\ Len(t) = L - 1 /\ DOMAIN t = 1 .. L - 1
      /\ \A i \in 1 .. L - 1 : t[i] = q[i + 1] /\ i + 1 \in 1 .. L
      /\ \A i \in 1 .. L : q[i] \in S /\ prio[q[i]] \in Int
  BY HeadTailProperties, LenProperties, EmptySeq, ElementOfSeq
<1>. HIDE DEF t, L
<1>2. Head(q) \in S /\ Head(q) \in ToSet(q)
  BY <1>1 DEF ToSet
<1>3. ToSet(q) = ToSet(t) \cup {Head(q)}
  <2>1. \A i \in 1 .. L : i = 1 \/ (i - 1 \in 1 .. L - 1 /\ q[i] = t[i - 1])
    BY <1>1
  <2>2. ToSet(q) = {q[i] : i \in 1 .. L} /\ ToSet(t) = {t[i] : i \in 1 .. L - 1}
    BY <1>1 DEF ToSet
  <2>3. \A i \in 1 .. L : q[i] \in ToSet(t) \cup {Head(q)}
    BY <1>1, <2>1, <2>2
  <2>4. \A i \in 1 .. L - 1 : t[i] \in ToSet(q)
    BY <1>1, <2>2
  <2>5. ToSet(q) \subseteq ToSet(t) \cup {Head(q)}
    BY <2>2, <2>3
  <2>6. ToSet(t) \subseteq ToSet(q)
    BY <2>2, <2>4
  <2>. QED  BY <1>2, <2>5, <2>6
<1>4. ASSUME NoRepeat(q)  PROVE NoRepeat(t) /\ Head(q) \notin ToSet(t)
  <2>1. \A i, j \in 1 .. L : q[i] = q[j] => i = j
    BY <1>1, <1>4 DEF NoRepeat
  <2>2. \A i, j \in 1 .. L - 1 : t[i] = t[j] => i = j
    <3>1. SUFFICES ASSUME NEW i \in 1 .. L - 1, NEW j \in 1 .. L - 1, t[i] = t[j]
                   PROVE  i = j
      OBVIOUS
    <3>2. i + 1 = j + 1
      BY <1>1, <2>1, <3>1
    <3>. QED  BY <3>2
  <2>3. \A i \in 1 .. L - 1 : t[i] # q[1]
    BY <1>1, <2>1
  <2>. QED  BY <1>1, <2>2, <2>3 DEF NoRepeat, ToSet
<1>5. ASSUME InOrder(q, prio)
      PROVE  InOrder(t, prio) /\ \A x \in ToSet(q) : prio[Head(q)] >= prio[x]
  <2>1. \A i, j \in 1 .. L : i < j => prio[q[i]] >= prio[q[j]]
    BY <1>1, <1>5 DEF InOrder
  <2>2. \A i, j \in 1 .. L - 1 : i < j => prio[t[i]] >= prio[t[j]]
    <3>1. SUFFICES ASSUME NEW i \in 1 .. L - 1, NEW j \in 1 .. L - 1, i < j
                   PROVE  prio[t[i]] >= prio[t[j]]
      OBVIOUS
    <3>2. i + 1 \in 1 .. L /\ j + 1 \in 1 .. L /\ i + 1 < j + 1
      BY <1>1, <3>1
    <3>. QED  BY <1>1, <2>1, <3>1, <3>2
  <2>3. \A i \in 1 .. L : prio[q[1]] >= prio[q[i]]
    <3>1. SUFFICES ASSUME NEW i \in 1 .. L  PROVE prio[q[1]] >= prio[q[i]]
      OBVIOUS
    <3>2. CASE i = 1
      BY <1>1, <3>2
    <3>3. CASE i # 1
      BY <1>1, <2>1, <3>3
    <3>. QED  BY <3>2, <3>3
  <2>. QED  BY <1>1, <2>2, <2>3 DEF InOrder, ToSet
<1>. QED
  BY <1>1, <1>2, <1>3, <1>4, <1>5 DEF t

-----------------------------------------------------------------------------
(***************************************************************************)
(* The order of some members of a queue                                    *)
(***************************************************************************)

(* The members of U that q holds stand in the order of pos. *)
InTurn(q, U, pos) ==
  \A m, n \in DOMAIN q : m < n /\ q[m] \in U /\ q[n] \in U => pos[q[m]] < pos[q[n]]

(* A process that is enqueued leaves the others in turn, and joins them in *)
(* turn when it is the last of them and none of them is weaker.            *)
LEMMA EnqueueInTurn ==
  ASSUME NEW S, NEW q \in Seq(S), NEW p \in S, NEW prio \in [S -> Int], NEW U, NEW pos,
         InTurn(q, U, pos),
         p \in U => /\ InOrder(q, prio)
                    /\ \A s \in ToSet(q) : s \in U => prio[s] >= prio[p] /\ pos[s] < pos[p]
  PROVE  InTurn(Enqueue(q, p, prio), U, pos)
<1>. DEFINE r == Enqueue(q, p, prio)
<1>1. PICK k \in 1 .. Len(q) + 1 :
        /\ r \in Seq(S) /\ Len(r) = Len(q) + 1
        /\ \A i \in 1 .. Len(q) + 1 :
             r[i] = IF i < k THEN q[i] ELSE IF i = k THEN p ELSE q[i - 1]
        /\ \A i \in 1 .. k - 1 : prio[q[i]] >= prio[p]
        /\ k <= Len(q) => prio[q[k]] < prio[p]
  BY EnqueuePosition
<1>. HIDE DEF r
<1>2. /\ Len(q) \in Nat /\ DOMAIN q = 1 .. Len(q) /\ DOMAIN r = 1 .. Len(q) + 1
      /\ \A i \in 1 .. Len(q) : q[i] \in S /\ prio[q[i]] \in Int /\ q[i] \in ToSet(q)
      /\ prio[p] \in Int
  BY <1>1, LenProperties, ElementOfSeq DEF ToSet
<1>3. ASSUME NEW i \in 1 .. Len(q) + 1
      PROVE  /\ i < k => i \in 1 .. Len(q) /\ r[i] = q[i]
             /\ i = k => r[i] = p
             /\ i > k => i - 1 \in 1 .. Len(q) /\ i - 1 \in k .. Len(q) /\ r[i] = q[i - 1]
             /\ i < k \/ i = k \/ i > k
  <2>1. r[i] = IF i < k THEN q[i] ELSE IF i = k THEN p ELSE q[i - 1]
    BY <1>1
  <2>2. /\ i < k => i \in 1 .. Len(q)
        /\ i > k => i - 1 \in 1 .. Len(q) /\ i - 1 \in k .. Len(q) /\ ~ (i < k) /\ i # k
        /\ i = k => ~ (i < k)
        /\ i < k \/ i = k \/ i > k
    BY <1>2
  <2>. QED  BY <2>1, <2>2
<1>4. SUFFICES ASSUME NEW m \in 1 .. Len(q) + 1, NEW n \in 1 .. Len(q) + 1, m < n,
                      r[m] \in U, r[n] \in U
               PROVE  pos[r[m]] < pos[r[n]]
  BY <1>2 DEF InTurn, r
<1>5. \A i, j \in 1 .. Len(q) : i < j /\ q[i] \in U /\ q[j] \in U => pos[q[i]] < pos[q[j]]
  BY <1>2 DEF InTurn
<1>6. CASE n < k
  <2>1. m < k
    BY <1>4, <1>6
  <2>. QED  BY <1>3, <1>4, <1>5, <1>6, <2>1
<1>7. CASE n = k
  <2>1. m < k
    BY <1>4, <1>7
  <2>2. m \in 1 .. Len(q) /\ r[m] = q[m] /\ r[n] = p
    BY <1>3, <1>7, <2>1
  <2>. QED  BY <1>2, <1>4, <2>2
<1>8. CASE n > k
  <2>1. n - 1 \in 1 .. Len(q) /\ n - 1 \in k .. Len(q) /\ r[n] = q[n - 1]
    BY <1>3, <1>8
  <2>2. CASE m < k
    <3>1. m \in 1 .. Len(q) /\ r[m] = q[m] /\ m < n - 1
      BY <1>3, <1>8, <2>2
    <3>. QED  BY <1>4, <1>5, <2>1, <3>1
  <2>3. CASE m > k
    <3>1. m - 1 \in 1 .. Len(q) /\ r[m] = q[m - 1] /\ m - 1 < n - 1
      BY <1>3, <1>4, <2>3
    <3>. QED  BY <1>4, <1>5, <2>1, <3>1
  <2>4. CASE m = k
    <3>1. p \in U /\ k \in 1 .. Len(q) /\ q[n - 1] \in U
      BY <1>3, <1>4, <2>1, <2>4
    <3>2. n - 1 = k \/ k < n - 1
      BY <2>1
    <3>3. prio[q[n - 1]] >= prio[p] /\ prio[q[k]] < prio[p]
      BY <1>1, <1>2, <2>1, <3>1
    <3>4. k < n - 1 => prio[q[k]] >= prio[q[n - 1]]
      BY <1>2, <2>1, <3>1 DEF InOrder
    <3>5. prio[q[n - 1]] \in Int /\ prio[q[k]] \in Int /\ prio[p] \in Int
      BY <1>2, <2>1, <3>1
    <3>. HIDE DEF InOrder
    <3>. QED  BY <3>2, <3>3, <3>4, <3>5
  <2>. QED  BY <1>3, <2>2, <2>3, <2>4
<1>. QED
  BY <1>3, <1>6, <1>7, <1>8

LEMMA EnqueueAllInTurn ==
  ASSUME NEW S, NEW q \in Seq(S), NEW ps \in Seq(S), NEW prio \in [S -> Int], NEW U, NEW pos,
         InTurn(q, U, pos), InOrder(q, prio) \/ ToSet(ps) \cap U = {},
         \A n \in DOMAIN ps : ps[n] \in U =>
           \A s \in ToSet(q) \cup {ps[m] : m \in 1 .. n - 1} :
             s \in U => prio[s] >= prio[ps[n]] /\ pos[s] < pos[ps[n]]
  PROVE  InTurn(EnqueueAll(q, ps, prio), U, pos)
<1>1. /\ Len(ps) \in Nat /\ DOMAIN ps = 1 .. Len(ps)
      /\ \A n \in 1 .. Len(ps) : ps[n] \in S
  BY LenProperties, ElementOfSeq
<1>2. PICK f : /\ f[0] = q
               /\ \A n \in 1 .. Len(ps) : f[n] = Enqueue(f[n - 1], ps[n], prio)
               /\ EnqueueAll(q, ps, prio) = f[Len(ps)]
  BY EnqueueAllRounds
<1>. DEFINE first(n) == {ps[m] : m \in 1 .. n}
            Good(n) == /\ f[n] \in Seq(S)
                       /\ ToSet(f[n]) = ToSet(q) \cup first(n)
                       /\ InTurn(f[n], U, pos)
                       /\ InOrder(q, prio) => InOrder(f[n], prio)
            T == {n \in 0 .. Len(ps) : Good(n)}
<1>3. Good(0)
  <2>1. first(0) = {}
    OBVIOUS
  <2>. HIDE DEF first
  <2>. QED  BY <1>2, <2>1
<1>4. ASSUME NEW n \in 1 .. Len(ps), Good(n - 1)  PROVE Good(n)
  <2>. DEFINE r == f[n - 1]
              e == ps[n]
  <2>1. e \in S /\ r \in Seq(S) /\ f[n] = Enqueue(r, e, prio)
    BY <1>1, <1>2, <1>4
  <2>2. first(n) = first(n - 1) \cup {e}
    <3>1. 1 .. n = (1 .. n - 1) \cup {n}
      BY <1>1
    <3>. QED  BY <3>1
  <2>3. e \in U => /\ InOrder(q, prio)
                   /\ \A s \in ToSet(q) \cup first(n - 1) :
                        s \in U => prio[s] >= prio[e] /\ pos[s] < pos[e]
    BY <1>1 DEF ToSet
  <2>4. /\ ToSet(r) = ToSet(q) \cup first(n - 1)
        /\ InTurn(r, U, pos) /\ (InOrder(q, prio) => InOrder(r, prio))
    BY <1>4
  <2>. HIDE DEF first, r, e
  <2>5. /\ Enqueue(r, e, prio) \in Seq(S)
        /\ ToSet(Enqueue(r, e, prio)) = ToSet(r) \cup {e}
        /\ InOrder(r, prio) => InOrder(Enqueue(r, e, prio), prio)
    BY <2>1, EnqueueProperties
  <2>6. InTurn(Enqueue(r, e, prio), U, pos)
    BY <2>1, <2>3, <2>4, EnqueueInTurn
  <2>. QED  BY <2>1, <2>2, <2>4, <2>5, <2>6
<1>5. T = 0 .. Len(ps)
  <2>. HIDE DEF Good
  <2>1. 0 \in T /\ \A n \in 1 .. Len(ps) : n - 1 \in T => n \in T
    BY <1>1, <1>3, <1>4
  <2>2. T \in SUBSET (0 .. Len(ps))
    OBVIOUS
  <2>. HIDE DEF T
  <2>. QED  BY <1>1, <2>1, <2>2, UpTo
<1>6. Good(Len(ps))
  <2>. HIDE DEF Good
  <2>1. Len(ps) \in T
    <3>. HIDE DEF T
    <3>. QED  BY <1>1, <1>5
  <2>. QED  BY <2>1
<1>. QED
  BY <1>2, <1>6

LEMMA AppendInTurn ==
  ASSUME NEW S, NEW q \in Seq(S), NEW p \in S, NEW U, NEW pos, InTurn(q, U, pos),
         p \in U => \A s \in ToSet(q) : s \in U => pos[s] < pos[p]
  PROVE  InTurn(Append(q, p), U, pos)
<1>. DEFINE r == Append(q, p)
<1>1. /\ Len(q) \in Nat
      /\ DOMAIN q = 1 .. Len(q) /\ DOMAIN r = 1 .. Len(q) + 1
      /\ \A i \in 1 .. Len(q) : r[i] = q[i] /\ q[i] \in ToSet(q)
      /\ r[Len(q) + 1] = p
  BY AppendProperties, LenProperties DEF ToSet
<1>. HIDE DEF r
<1>2. SUFFICES ASSUME NEW m \in 1 .. Len(q) + 1, NEW n \in 1 .. Len(q) + 1, m < n,
                      r[m] \in U, r[n] \in U
               PROVE  pos[r[m]] < pos[r[n]]
  BY <1>1 DEF InTurn, r
<1>3. m \in 1 .. Len(q) /\ r[m] = q[m]
  BY <1>1, <1>2
<1>4. CASE n = Len(q) + 1
  BY <1>1, <1>2, <1>3, <1>4
<1>5. CASE n \in 1 .. Len(q)
  BY <1>1, <1>2, <1>3, <1>5 DEF InTurn
<1>. QED
  BY <1>1, <1>4, <1>5

(* Those that are left of a queue stand as they did. *)
LEMMA WithoutInTurn ==
  ASSUME NEW S, NEW q \in Seq(S), NEW Q, NEW U, NEW pos, InTurn(q, U, pos)
  PROVE  InTurn(Without(q, Q), U, pos)
<1>1. /\ Len(q) \in Nat /\ DOMAIN q = 1 .. Len(q)
      /\ \A n \in 1 .. Len(q) : q[n] \in S
  BY LenProperties, ElementOfSeq
<1>2. PICK f : /\ f[0] = << >>
               /\ \A n \in 1 .. Len(q) : f[n] = KeepOrSkip(f[n - 1], q[n], Q)
               /\ Without(q, Q) = f[Len(q)]
  BY WithoutRounds
<1>. DEFINE first(n) == {q[m] : m \in 1 .. n}
            Good(n) == /\ f[n] \in Seq(S)
                       /\ ToSet(f[n]) \subseteq first(n)
                       /\ InTurn(f[n], U, pos)
            T == {n \in 0 .. Len(q) : Good(n)}
<1>3. Good(0)
  <2>. DEFINE e == << >>
  <2>1. e \in Seq(S) /\ ToSet(e) = {} /\ InTurn(e, U, pos)
    BY DEF ToSet, InTurn
  <2>2. f[0] = e
    BY <1>2
  <2>. HIDE DEF e, first
  <2>. QED  BY <2>1, <2>2
<1>4. ASSUME NEW n \in 1 .. Len(q), Good(n - 1)  PROVE Good(n)
  <2>. DEFINE r == f[n - 1]
              x == q[n]
  <2>1. x \in S /\ r \in Seq(S) /\ f[n] = KeepOrSkip(r, x, Q)
    BY <1>1, <1>2, <1>4
  <2>2. first(n) = first(n - 1) \cup {x}
    <3>1. 1 .. n = (1 .. n - 1) \cup {n}
      BY <1>1
    <3>. QED  BY <3>1
  <2>3. \A y \in first(n - 1) : y \in U /\ x \in U => pos[y] < pos[x]
    <3>1. ASSUME NEW m \in 1 .. n - 1, q[m] \in U, q[n] \in U  PROVE pos[q[m]] < pos[q[n]]
      <4>1. m \in DOMAIN q /\ n \in DOMAIN q /\ m < n
        BY <1>1
      <4>. QED  BY <3>1, <4>1 DEF InTurn
    <3>. QED  BY <3>1
  <2>4. ToSet(r) \subseteq first(n - 1) /\ InTurn(r, U, pos)
    BY <1>4
  <2>. HIDE DEF first, r, x
  <2>5. CASE x \in Q
    <3>1. f[n] = r
      BY <2>1, <2>5 DEF KeepOrSkip
    <3>. QED  BY <2>1, <2>2, <2>4, <3>1
  <2>6. CASE x \notin Q
    <3>1. f[n] = Append(r, x)
      BY <2>1, <2>6 DEF KeepOrSkip
    <3>2. Append(r, x) \in Seq(S) /\ ToSet(Append(r, x)) = ToSet(r) \cup {x}
      BY <2>1, AppendMember
    <3>3. InTurn(Append(r, x), U, pos)
      BY <2>1, <2>3, <2>4, AppendInTurn
    <3>. QED  BY <2>2, <2>4, <3>1, <3>2, <3>3
  <2>. QED  BY <2>5, <2>6
<1>5. T = 0 .. Len(q)
  <2>. HIDE DEF Good
  <2>1. 0 \in T /\ \A n \in 1 .. Len(q) : n - 1 \in T => n \in T
    BY <1>1, <1>3, <1>4
  <2>2. T \in SUBSET (0 .. Len(q))
    OBVIOUS
  <2>. HIDE DEF T
  <2>. QED  BY <1>1, <2>1, <2>2, UpTo
<1>6. Good(Len(q))
  <2>. HIDE DEF Good
  <2>1. Len(q) \in T
    <3>. HIDE DEF T
    <3>. QED  BY <1>1, <1>5
  <2>. QED  BY <2>1
<1>. QED
  BY <1>2, <1>6

(* Who stands before all others of U is the first to leave. *)
LEMMA FirstInTurn ==
  ASSUME NEW S, NEW q \in Seq(S), q # << >>, NEW U, NEW pos, InTurn(q, U, pos)
  PROVE  /\ InTurn(Tail(q), U, pos)
         /\ Head(q) \in U => \A s \in ToSet(q) : s \in U => s = Head(q) \/ pos[Head(q)] < pos[s]
<1>. DEFINE t == Tail(q)
            L == Len(q)
<1>1. /\ L \in Nat \ {0} /\ DOMAIN q = 1 .. L
      /\ Head(q) = q[1] /\ 1 \in 1 .. L
      /\ DOMAIN t = 1 .. L - 1
      /\ \A i \in 1 .. L - 1 : t[i] = q[i + 1] /\ i + 1 \in 1 .. L
  BY HeadTailProperties, LenProperties, EmptySeq
<1>. HIDE DEF t, L
<1>2. InTurn(t, U, pos)
  <2>1. ASSUME NEW m \in 1 .. L - 1, NEW n \in 1 .. L - 1, m < n, t[m] \in U, t[n] \in U
        PROVE  pos[t[m]] < pos[t[n]]
    <3>1. m + 1 \in DOMAIN q /\ n + 1 \in DOMAIN q /\ m + 1 < n + 1
          /\ t[m] = q[m + 1] /\ t[n] = q[n + 1]
      BY <1>1, <2>1
    <3>. QED  BY <2>1, <3>1 DEF InTurn
  <2>. QED  BY <1>1, <2>1 DEF InTurn
<1>3. ASSUME Head(q) \in U, NEW s \in ToSet(q), s \in U  PROVE s = Head(q) \/ pos[Head(q)] < pos[s]
  <2>1. PICK n \in DOMAIN q : q[n] = s
    BY DEF ToSet
  <2>2. n = 1 \/ 1 < n
    BY <1>1
  <2>. QED  BY <1>1, <1>3, <2>1, <2>2 DEF InTurn
<1>. QED
  BY <1>2, <1>3 DEF t

=============================================================================
