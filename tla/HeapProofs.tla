----------------------------- MODULE HeapProofs -----------------------------
(***************************************************************************)
(* Theorems of HeapAllocator: its block list tiles the heap and agrees     *)
(* with the table of allocations, first fit is exact, a granted growth is  *)
(* enough, and the allocator implements HeapService.                       *)
(***************************************************************************)
EXTENDS HeapAllocator, PriorityQueueProofs

-----------------------------------------------------------------------------
(***************************************************************************)
(* Lists of blocks                                                         *)
(***************************************************************************)

(* The first byte behind a block. *)
End(block) == block.start + block.size

(* The blocks of bs follow each other from address a to address b. *)
Tiles(bs, a, b) ==
  /\ bs \in Seq(Block) /\ bs # << >>
  /\ bs[1].start = a
  /\ \A i \in 1 .. Len(bs) - 1 : bs[i + 1].start = End(bs[i])
  /\ End(bs[Len(bs)]) = b

(* The allocations the first n blocks of bs stand for. *)
UsedUpTo(bs, n) == {<<bs[i].start, bs[i].size>> : i \in {j \in 1 .. n : ~ bs[j].free}}

UsedIn(bs) == UsedUpTo(bs, Len(bs))

LEMMA UsedMember ==
  ASSUME NEW bs, NEW n, NEW x
  PROVE  x \in UsedUpTo(bs, n)
           <=> \E i \in 1 .. n : ~ bs[i].free /\ x = <<bs[i].start, bs[i].size>>
BY DEF UsedUpTo

(* No two free blocks are adjacent. *)
Alternates(bs) == \A i \in 1 .. Len(bs) - 1 : ~ (bs[i].free /\ bs[i + 1].free)

LEMMA TilesTypes ==
  ASSUME NEW bs, NEW a, NEW b, Tiles(bs, a, b)
  PROVE  /\ Len(bs) \in Nat \ {0} /\ DOMAIN bs = 1 .. Len(bs)
         /\ \A i \in 1 .. Len(bs) : bs[i] \in Block
         /\ Last(bs) = bs[Len(bs)]
<1>1. bs \in Seq(Block) /\ bs # << >>
  BY DEF Tiles
<1>. QED
  BY <1>1, LenProperties, ElementOfSeq, EmptySeq DEF Last

LEMMA BlockFields ==
  ASSUME NEW c \in Block
  PROVE  /\ c.start \in Nat /\ c.size \in Nat /\ c.size > 0 /\ c.free \in BOOLEAN
         /\ End(c) \in Nat /\ c.start < End(c)
BY DEF Block, End

(* A block behind the others. *)
LEMMA TilesAppend ==
  ASSUME NEW bs, NEW a, NEW b, Tiles(bs, a, b), NEW c \in Block, c.start = b
  PROVE  /\ Tiles(Append(bs, c), a, End(c))
         /\ UsedIn(Append(bs, c)) = UsedIn(bs) \cup (IF c.free THEN {} ELSE {<<c.start, c.size>>})
         /\ Alternates(bs) /\ ~ (Last(bs).free /\ c.free) => Alternates(Append(bs, c))
         /\ Last(Append(bs, c)) = c
<1>. DEFINE r == Append(bs, c)
            L == Len(bs)
<1>1. /\ bs \in Seq(Block) /\ L \in Nat \ {0} /\ Last(bs) = bs[L]
      /\ \A i \in 1 .. L : bs[i] \in Block
  BY TilesTypes DEF Tiles
<1>2. /\ r \in Seq(Block) /\ Len(r) = L + 1 /\ r[L + 1] = c
      /\ \A i \in 1 .. L : r[i] = bs[i]
  BY <1>1, AppendProperties
<1>3. r # << >> /\ Last(r) = c
  BY <1>1, <1>2, EmptySeq DEF Last
<1>. HIDE DEF r
<1>4. \A i \in 1 .. L : i = L \/ (i \in 1 .. L - 1 /\ i + 1 \in 1 .. L)
  BY <1>1
<1>5. Tiles(r, a, End(c))
  <2>1. r[1].start = a
    BY <1>1, <1>2 DEF Tiles
  <2>2. ASSUME NEW i \in 1 .. L PROVE r[i + 1].start = End(r[i])
    <3>1. CASE i = L
      BY <1>1, <1>2, <3>1 DEF Tiles
    <3>2. CASE i \in 1 .. L - 1 /\ i + 1 \in 1 .. L
      BY <1>2, <3>2 DEF Tiles
    <3>. QED
      BY <1>4, <3>1, <3>2
  <2>3. Len(r) - 1 = L
    BY <1>1, <1>2
  <2>. QED
    BY <1>1, <1>2, <1>3, <2>1, <2>2, <2>3 DEF Tiles
<1>6. UsedIn(r) = UsedIn(bs) \cup (IF c.free THEN {} ELSE {<<c.start, c.size>>})
  <2>1. 1 .. L + 1 = (1 .. L) \cup {L + 1}
    BY <1>1
  <2>. QED
    BY <1>1, <1>2, <2>1 DEF UsedIn, UsedUpTo
<1>7. ASSUME Alternates(bs), ~ (Last(bs).free /\ c.free) PROVE Alternates(r)
  <2>1. ASSUME NEW i \in 1 .. L PROVE ~ (r[i].free /\ r[i + 1].free)
    <3>1. CASE i = L
      BY <1>1, <1>2, <1>7, <3>1
    <3>2. CASE i \in 1 .. L - 1 /\ i + 1 \in 1 .. L
      BY <1>2, <1>7, <3>2 DEF Alternates
    <3>. QED
      BY <1>4, <3>1, <3>2
  <2>2. Len(r) - 1 = L
    BY <1>1, <1>2
  <2>. QED
    BY <2>1, <2>2 DEF Alternates
<1>. QED
  BY <1>3, <1>5, <1>6, <1>7 DEF r

(* The last block grows by s bytes. *)
GrownLast(bs, s) == [bs EXCEPT ![Len(bs)].size = @ + s]

LEMMA TilesGrow ==
  ASSUME NEW bs, NEW a, NEW b, Tiles(bs, a, b), Last(bs).free, NEW s \in Nat,
         NEW r, r = GrownLast(bs, s)
  PROVE  /\ Tiles(r, a, b + s) /\ UsedIn(r) = UsedIn(bs)
         /\ Alternates(bs) => Alternates(r)
         /\ Len(r) = Len(bs) /\ Last(r).free
         /\ Last(r).start = Last(bs).start /\ Last(r).size = Last(bs).size + s
<1>. DEFINE L == Len(bs)
            c == [bs[L] EXCEPT !.size = @ + s]
<1>1. /\ bs \in Seq(Block) /\ L \in Nat \ {0} /\ Last(bs) = bs[L] /\ DOMAIN bs = 1 .. L
      /\ \A i \in 1 .. L : bs[i] \in Block
  BY TilesTypes DEF Tiles
<1>2. /\ c \in Block /\ c.start = bs[L].start /\ c.size = bs[L].size + s /\ c.free
      /\ End(c) = End(bs[L]) + s
  <2>1. bs[L] \in Block /\ bs[L].free
    BY <1>1
  <2>2. bs[L].start \in Nat /\ bs[L].size \in Nat \ {0} /\ bs[L].free \in BOOLEAN
    BY <2>1 DEF Block
  <2>3. c.start = bs[L].start /\ c.size = bs[L].size + s /\ c.free = bs[L].free
    BY <2>1 DEF Block
  <2>4. c \in Block
    <3>1. bs[L].size + s \in Nat \ {0}
      BY <2>2
    <3>. QED
      BY <2>1, <3>1 DEF Block
  <2>5. bs[L].start + (bs[L].size + s) = bs[L].start + bs[L].size + s
    BY <2>2
  <2>. QED
    BY <2>1, <2>3, <2>4, <2>5 DEF End
<1>3. r = [bs EXCEPT ![L] = c]
  BY <1>1 DEF GrownLast
<1>. HIDE DEF c
<1>4. /\ r \in Seq(Block) /\ Len(r) = L /\ r[L] = c
      /\ \A i \in 1 .. L : r[i] = IF i = L THEN c ELSE bs[i]
  <2>1. L \in 1 .. L
    BY <1>1
  <2>. QED
    BY <1>1, <1>2, <1>3, <2>1, ExceptSeq
<1>5. r # << >> /\ Last(r) = c
  BY <1>1, <1>4, EmptySeq DEF Last
<1>. HIDE DEF L
<1>6. \A i \in 1 .. L : r[i].start = bs[i].start /\ (r[i].free <=> bs[i].free)
                        /\ (i # L => r[i] = bs[i])
  BY <1>1, <1>2, <1>4
<1>7. \A i \in 1 .. L - 1 : i \in 1 .. L /\ i + 1 \in 1 .. L /\ i # L
  BY <1>1
<1>8. Tiles(r, a, b + s)
  <2>1. r[1].start = a
    BY <1>1, <1>6 DEF Tiles
  <2>2. \A i \in 1 .. L - 1 : r[i + 1].start = End(r[i])
    BY <1>6, <1>7 DEF Tiles, L
  <2>. QED
    BY <1>2, <1>4, <1>5, <2>1, <2>2 DEF Tiles, L
<1>9. UsedIn(r) = UsedIn(bs)
  <2>1. bs[L].free
    BY <1>1
  <2>2. \A i \in 1 .. L : ~ bs[i].free => r[i] = bs[i]
    BY <1>6, <2>1
  <2>3. ASSUME NEW x PROVE x \in UsedUpTo(r, L) <=> x \in UsedUpTo(bs, L)
    <3>1. x \in UsedUpTo(r, L) <=> \E i \in 1 .. L : ~ r[i].free /\ x = <<r[i].start, r[i].size>>
      BY UsedMember
    <3>2. x \in UsedUpTo(bs, L)
            <=> \E i \in 1 .. L : ~ bs[i].free /\ x = <<bs[i].start, bs[i].size>>
      BY UsedMember
    <3>3. \A i \in 1 .. L : (~ r[i].free <=> ~ bs[i].free)
                           /\ (~ bs[i].free => <<r[i].start, r[i].size>> = <<bs[i].start, bs[i].size>>)
      BY <1>6, <2>2
    <3>. QED
      BY <3>1, <3>2, <3>3
  <2>. QED
    BY <1>4, <2>3 DEF UsedIn, L
<1>10. Alternates(bs) => Alternates(r)
  BY <1>4, <1>6, <1>7 DEF Alternates, L
<1>. QED
  BY <1>1, <1>2, <1>4, <1>5, <1>8, <1>9, <1>10 DEF L

-----------------------------------------------------------------------------
(***************************************************************************)
(* _coalesce                                                               *)
(***************************************************************************)

(* One round of the loop of _coalesce: block c is merged into the last     *)
(* block of done or follows it.                                            *)
Merged(done, c) ==
  IF done # << >> /\ Last(done).free /\ c.free THEN GrownLast(done, c.size)
  ELSE Append(done, c)

MergeRound(e, bs, L, f) ==
  [n \in 0 .. L |-> IF n = 0 THEN e
                    ELSE LET done == f[n - 1]
                         IN  IF done # << >> /\ Last(done).free /\ bs[n].free
                             THEN [done EXCEPT ![Len(done)].size = @ + bs[n].size]
                             ELSE Append(done, bs[n])]

MergeMaps(X, bs, L) == \A n \in 1 .. L : \A m \in X : Merged(m, bs[n]) \in X

LEMMA GrownLastType ==
  ASSUME NEW bs \in Seq(Block), bs # << >>, NEW s \in Nat
  PROVE  GrownLast(bs, s) \in Seq(Block)
<1>. DEFINE L == Len(bs)
            c == [bs[L] EXCEPT !.size = @ + s]
<1>1. L \in 1 .. L /\ bs[L] \in Block
  <2>1. L \in Nat /\ L # 0
    BY LenProperties, EmptySeq
  <2>. QED
    BY <2>1, ElementOfSeq
<1>2. c \in Block
  <2>1. bs[L].size + s \in Nat \ {0}
    BY <1>1 DEF Block
  <2>. QED
    BY <1>1, <2>1 DEF Block
<1>3. GrownLast(bs, s) = [bs EXCEPT ![L] = c]
  BY DEF GrownLast
<1>. HIDE DEF c
<1>. QED
  BY <1>1, <1>2, <1>3, ExceptSeq

LEMMA MergeRoundsExist ==
  ASSUME NEW X, NEW e \in X, NEW L \in Nat, NEW bs, MergeMaps(X, bs, L)
  PROVE  \E f : f = MergeRound(e, bs, L, f)
<1>. DEFINE step == [n \in 1 .. L |-> [m \in X |-> Merged(m, bs[n])]]
<1>1. step \in [1 .. L -> [X -> X]]
  BY DEF MergeMaps
<1>2. PICK f \in [0 .. L -> X] : f[0] = e /\ \A n \in 1 .. L : f[n] = step[n][f[n - 1]]
  <2>. HIDE DEF step
  <2>. QED  BY <1>1, LoopExists
<1>3. \A n \in 1 .. L : n - 1 \in 0 .. L
  OBVIOUS
<1>4. \A n \in 1 .. L : f[n] = Merged(f[n - 1], bs[n])
  BY <1>2, <1>3
<1>5. f = [n \in 0 .. L |-> IF n = 0 THEN e ELSE Merged(f[n - 1], bs[n])]
  BY <1>2, <1>4
<1>. QED
  BY <1>5, Zenon DEF Merged, GrownLast, MergeRound

(* The loop, one value per block. *)
LEMMA CoalesceRounds ==
  ASSUME NEW bs \in Seq(Block)
  PROVE  \E f : /\ f[0] = << >>
                /\ \A n \in 1 .. Len(bs) : f[n] = Merged(f[n - 1], bs[n])
                /\ Coalesce(bs) = f[Len(bs)]
<1>1. /\ Len(bs) \in Nat
      /\ \A n \in 1 .. Len(bs) : bs[n] \in Block
  BY LenProperties, ElementOfSeq
<1>2. MergeMaps(Seq(Block), bs, Len(bs))
  <2>1. ASSUME NEW n \in 1 .. Len(bs), NEW m \in Seq(Block)
        PROVE  Merged(m, bs[n]) \in Seq(Block)
    <3>1. bs[n] \in Block /\ bs[n].size \in Nat
      BY <1>1 DEF Block
    <3>2. CASE m # << >> /\ Last(m).free /\ bs[n].free
      BY <3>1, <3>2, GrownLastType DEF Merged
    <3>3. CASE ~ (m # << >> /\ Last(m).free /\ bs[n].free)
      BY <3>1, <3>3, AppendProperties DEF Merged
    <3>. QED
      BY <3>2, <3>3
  <2>. QED
    BY <2>1 DEF MergeMaps
<1>. DEFINE Round(f) == MergeRound(<< >>, bs, Len(bs), f)
<1>3. \E f : f = Round(f)
  <2>. DEFINE e == << >>
  <2>2. e \in Seq(Block)
    OBVIOUS
  <2>. HIDE DEF e
  <2>3. \E f : f = MergeRound(e, bs, Len(bs), f)
    BY <1>1, <1>2, <2>2, MergeRoundsExist
  <2>. QED  BY <2>3, Zenon DEF e
<1>4. PICK f : f = Round(f) /\ Coalesce(bs) = f[Len(bs)]
  BY <1>3, Zenon DEF Coalesce, MergeRound
<1>5. \A n \in 0 .. Len(bs) :
        f[n] = IF n = 0 THEN << >> ELSE Merged(f[n - 1], bs[n])
  <2>1. \A n \in 0 .. Len(bs) :
          Round(f)[n] = IF n = 0 THEN << >> ELSE Merged(f[n - 1], bs[n])
    BY Zenon DEF Merged, GrownLast, MergeRound
  <2>2. \A n \in 0 .. Len(bs) : f[n] = Round(f)[n]
    <3>. HIDE DEF Round
    <3>. QED  BY <1>4
  <2>. QED  BY <2>1, <2>2, Zenon
<1>6. 0 \in 0 .. Len(bs) /\ \A n \in 1 .. Len(bs) : n \in 0 .. Len(bs) /\ n # 0
  BY <1>1
<1>. HIDE DEF Round
<1>. QED
  BY <1>4, <1>5, <1>6

(* Merging keeps what the blocks stand for, and leaves no two free blocks  *)
(* side by side; the free bytes at the end only become more.               *)
LEMMA CoalesceProperties ==
  ASSUME NEW bs, NEW a, NEW b, Tiles(bs, a, b), NEW r, r = Coalesce(bs)
  PROVE  /\ Tiles(r, a, b) /\ UsedIn(r) = UsedIn(bs) /\ Alternates(r)
         /\ Last(bs).free => Last(r).free /\ Last(r).size >= Last(bs).size
<1>. DEFINE L == Len(bs)
<1>1. /\ bs \in Seq(Block) /\ L \in Nat \ {0} /\ Last(bs) = bs[L]
      /\ \A i \in 1 .. L : bs[i] \in Block
  BY TilesTypes DEF Tiles
<1>2. PICK f : /\ f[0] = << >>
               /\ \A n \in 1 .. L : f[n] = Merged(f[n - 1], bs[n])
               /\ r = f[L]
  BY <1>1, CoalesceRounds
<1>3. /\ bs[1].start = a /\ End(bs[L]) = b
      /\ \A n \in 2 .. L : n - 1 \in 1 .. L /\ bs[n].start = End(bs[n - 1])
  <2>1. ASSUME NEW n \in 2 .. L PROVE n - 1 \in 1 .. L /\ bs[n].start = End(bs[n - 1])
    <3>1. n - 1 \in 1 .. L - 1 /\ (n - 1) + 1 = n
      BY <1>1
    <3>2. bs[(n - 1) + 1].start = End(bs[n - 1])
      BY <3>1 DEF Tiles
    <3>. QED
      BY <1>1, <3>1, <3>2
  <2>. QED
    BY <2>1 DEF Tiles
<1>. HIDE DEF L
<1>. DEFINE Good(n) == /\ Tiles(f[n], a, End(bs[n])) /\ UsedIn(f[n]) = UsedUpTo(bs, n)
                       /\ Alternates(f[n]) /\ (Last(f[n]).free <=> bs[n].free)
                       /\ Last(f[n]).start <= bs[n].start
            T == {0} \cup {n \in 1 .. L : Good(n)}
<1>4. ASSUME NEW n \in 1 .. L, n = 1 \/ Good(n - 1) PROVE Good(n)
  <2>. DEFINE c == bs[n]
              d == f[n - 1]
              e == f[n]
  <2>1. /\ c \in Block /\ c.start \in Nat /\ c.size \in Nat /\ c.free \in BOOLEAN
        /\ e = Merged(d, c)
    BY <1>1, <1>2 DEF Block
  <2>2. UsedUpTo(bs, n) = UsedUpTo(bs, n - 1) \cup (IF c.free THEN {} ELSE {<<c.start, c.size>>})
    <3>1. 1 .. n = (1 .. n - 1) \cup {n}
      BY <1>1
    <3>. QED
      BY <3>1 DEF UsedUpTo
  <2>3. CASE n = 1
    <3>0. d = << >>
      <4>1. n - 1 = 0
        BY <2>3
      <4>. QED
        BY <1>2, <4>1
    <3>. HIDE DEF c, d, e
    <3>1. e = Append(<< >>, c)
      BY <2>1, <3>0 DEF Merged
    <3>2. /\ e \in Seq(Block) /\ Len(e) = 1 /\ e[1] = c /\ e # << >> /\ Last(e) = c
      <4>1. e = <<c>>
        BY <3>1
      <4>. QED
        BY <2>1, <4>1 DEF Last
    <3>3. UsedUpTo(bs, 0) = {}
      BY DEF UsedUpTo
    <3>4. UsedIn(e) = IF c.free THEN {} ELSE {<<c.start, c.size>>}
      <4>1. 1 .. 1 = {1}
        OBVIOUS
      <4>. QED
        BY <3>2, <4>1 DEF UsedIn, UsedUpTo
    <3>5. Tiles(e, a, End(c)) /\ Alternates(e)
      BY <1>3, <2>3, <3>2 DEF Tiles, Alternates, c
    <3>6. UsedIn(e) = UsedUpTo(bs, n)
      BY <2>2, <2>3, <3>3, <3>4
    <3>7. c.start <= c.start
      BY <2>1
    <3>. QED
      BY <3>2, <3>5, <3>6, <3>7 DEF c, e
  <2>4. CASE n # 1
    <3>1. /\ Tiles(d, a, End(bs[n - 1])) /\ UsedIn(d) = UsedUpTo(bs, n - 1)
          /\ Alternates(d) /\ (Last(d).free <=> bs[n - 1].free)
          /\ Last(d).start <= bs[n - 1].start
      BY <1>4, <2>4
    <3>2. n - 1 \in 1 .. L /\ c.start = End(bs[n - 1])
      BY <1>1, <1>3, <2>4
    <3>3. d # << >>
      BY <3>1 DEF Tiles
    <3>4. /\ bs[n - 1].start \in Nat /\ bs[n - 1].start <= End(bs[n - 1])
          /\ Last(d) \in Block /\ Last(d).start \in Nat
      <4>1. bs[n - 1] \in Block
        BY <1>1, <3>2
      <4>2. /\ Len(d) \in Nat \ {0} /\ Last(d) = d[Len(d)]
            /\ \A i \in 1 .. Len(d) : d[i] \in Block
        BY <3>1, TilesTypes
      <4>3. Last(d) \in Block
        BY <4>2
      <4>4. /\ bs[n - 1].start \in Nat /\ End(bs[n - 1]) \in Nat
            /\ bs[n - 1].start < End(bs[n - 1])
        BY <4>1, BlockFields
      <4>5. Last(d).start \in Nat
        BY <4>3, BlockFields
      <4>. QED  BY <4>3, <4>4, <4>5
    <3>5. End(c) = End(bs[n - 1]) + c.size
      BY <3>2 DEF End
    <3>. HIDE DEF c, d, e
    <3>6. CASE Last(d).free /\ c.free
      <4>1. e = GrownLast(d, c.size)
        BY <2>1, <3>3, <3>6 DEF Merged
      <4>2. /\ Tiles(e, a, End(bs[n - 1]) + c.size) /\ UsedIn(e) = UsedIn(d)
            /\ Alternates(e) /\ Last(e).free /\ Last(e).start = Last(d).start
        BY <2>1, <3>1, <3>6, <4>1, TilesGrow
      <4>3. Last(e).start <= c.start
        BY <2>1, <3>1, <3>2, <3>4, <4>2
      <4>. QED
        BY <2>2, <3>1, <3>5, <3>6, <4>2, <4>3 DEF c, e
    <3>7. CASE ~ (Last(d).free /\ c.free)
      <4>1. e = Append(d, c)
        BY <2>1, <3>7 DEF Merged
      <4>2. /\ Tiles(e, a, End(c)) /\ Alternates(e) /\ Last(e) = c
            /\ UsedIn(e) = UsedIn(d) \cup (IF c.free THEN {} ELSE {<<c.start, c.size>>})
        BY <2>1, <3>1, <3>2, <3>7, <4>1, TilesAppend
      <4>3. c.start <= c.start
        BY <2>1
      <4>. QED
        BY <2>2, <3>1, <4>2, <4>3 DEF c, e
    <3>. QED
      BY <3>6, <3>7
  <2>. QED
    BY <2>3, <2>4
<1>5. T = 0 .. L
  <2>. HIDE DEF Good
  <2>1. T \in SUBSET (0 .. L) /\ 0 \in T
    BY <1>1
  <2>2. ASSUME NEW n \in 1 .. L, n - 1 \in T PROVE n \in T
    <3>1. n = 1 \/ Good(n - 1)
      BY <2>2
    <3>. QED
      BY <1>4, <3>1
  <2>. HIDE DEF T
  <2>. QED  BY <1>1, <2>1, <2>2, UpTo
<1>6. Good(L)
  <2>. HIDE DEF Good
  <2>1. L \in T /\ L # 0
    <3>. HIDE DEF T
    <3>. QED  BY <1>1, <1>5
  <2>. QED  BY <2>1
<1>7. Tiles(r, a, b) /\ UsedIn(r) = UsedIn(bs) /\ Alternates(r)
  BY <1>2, <1>3, <1>6 DEF UsedIn, L
<1>8. ASSUME Last(bs).free PROVE Last(r).free /\ Last(r).size >= Last(bs).size
  <2>1. Last(r).free /\ Last(r).start <= bs[L].start
    BY <1>1, <1>2, <1>6, <1>8
  <2>2. End(Last(r)) = End(bs[L]) /\ Last(r) \in Block /\ bs[L] \in Block
    <3>1. Len(r) \in 1 .. Len(r) /\ Last(r) = r[Len(r)] /\ r[Len(r)] \in Block
      BY <1>7, TilesTypes
    <3>2. End(r[Len(r)]) = b
      BY <1>7 DEF Tiles
    <3>3. L \in 1 .. L
      BY <1>1
    <3>. QED
      BY <1>1, <1>3, <3>1, <3>2, <3>3
  <2>. QED
    BY <1>1, <2>1, <2>2 DEF End, Block
<1>. QED
  BY <1>7, <1>8

-----------------------------------------------------------------------------
(***************************************************************************)
(* _first_fit and free                                                     *)
(***************************************************************************)

(* Blocks that only change whether they are free. *)
LEMMA SameExtents ==
  ASSUME NEW bs, NEW a, NEW b, Tiles(bs, a, b), NEW r \in Seq(Block), Len(r) = Len(bs),
         \A i \in 1 .. Len(bs) : r[i].start = bs[i].start /\ r[i].size = bs[i].size
  PROVE  Tiles(r, a, b)
<1>. DEFINE L == Len(bs)
<1>1. L \in Nat \ {0}
  BY TilesTypes
<1>2. r # << >>
  BY <1>1, EmptySeq
<1>3. \A i \in 1 .. L : r[i].start = bs[i].start /\ End(r[i]) = End(bs[i])
  BY DEF End
<1>. HIDE DEF L
<1>4. L \in 1 .. L /\ 1 \in 1 .. L /\ \A i \in 1 .. L - 1 : i \in 1 .. L /\ i + 1 \in 1 .. L
  BY <1>1
<1>5. r[1].start = a /\ End(r[L]) = b
  BY <1>3, <1>4 DEF Tiles, L
<1>6. \A i \in 1 .. L - 1 : r[i + 1].start = End(r[i])
  BY <1>3, <1>4 DEF Tiles, L
<1>. QED
  BY <1>2, <1>5, <1>6 DEF Tiles, L

(* What first fit leaves is one block in use and, behind it, the rest.     *)
LEMMA CarvedBlocks ==
  ASSUME NEW bs, NEW a, NEW b, Tiles(bs, a, b), NEW i \in 1 .. Len(bs),
         NEW size \in Nat \ {0}, bs[i].size >= size
  PROVE  /\ Cut(bs, i, size) \in Block
         /\ bs[i].size > size => Rest(bs, i, size) \in Block
         /\ End(Cut(bs, i, size)) = bs[i].start + size
         /\ End(Rest(bs, i, size)) = End(bs[i])
<1>1. bs[i] \in Block
  BY TilesTypes
<1>2. Cut(bs, i, size) \in Block /\ End(Cut(bs, i, size)) = bs[i].start + size
  BY <1>1 DEF Cut, Block, End
<1>3. ASSUME bs[i].size > size PROVE Rest(bs, i, size) \in Block
  <2>1. bs[i].start + size \in Nat /\ bs[i].size - size \in Nat \ {0}
    BY <1>1, <1>3 DEF Block
  <2>. QED
    BY <2>1 DEF Rest, Block
<1>4. End(Rest(bs, i, size)) = End(bs[i])
  BY <1>1 DEF Rest, End, Block
<1>. QED
  BY <1>2, <1>3, <1>4

(* First fit keeps the blocks a tiling: it takes the first size bytes of a *)
(* free block, and nothing else.                                           *)
LEMMA CarvedWhole ==
  ASSUME NEW bs, NEW a, NEW b, Tiles(bs, a, b), NEW i \in 1 .. Len(bs), bs[i].free,
         NEW size \in Nat \ {0}, bs[i].size = size,
         NEW r, r = Carved(bs, i, size)
  PROVE  /\ Tiles(r, a, b) /\ UsedIn(r) = UsedIn(bs) \cup {<<bs[i].start, size>>}
         /\ Alternates(bs) => Alternates(r)
<1>. DEFINE L == Len(bs)
            c == Cut(bs, i, size)
<1>1. /\ bs \in Seq(Block) /\ L \in Nat \ {0} /\ bs[i] \in Block /\ bs[i].size >= size
      /\ ~ (bs[i].size > size)
  BY TilesTypes, BlockFields DEF Tiles
<1>2. c \in Block /\ ~ c.free /\ c.start = bs[i].start /\ c.size = size
  BY <1>1, CarvedBlocks DEF Cut
<1>3. r = [bs EXCEPT ![i] = c]
  BY <1>1 DEF Carved
<1>. HIDE DEF c
<1>4. /\ r \in Seq(Block) /\ Len(r) = L
      /\ \A j \in 1 .. L : r[j] = IF j = i THEN c ELSE bs[j]
  BY <1>1, <1>2, <1>3, ExceptSeq
<1>5. \A j \in 1 .. L : /\ r[j].start = bs[j].start /\ r[j].size = bs[j].size
                        /\ j # i => (r[j].free <=> bs[j].free)
                        /\ j = i => bs[j].free /\ ~ r[j].free
  BY <1>2, <1>4
<1>6. Tiles(r, a, b)
  BY <1>4, <1>5, SameExtents
<1>7. ASSUME NEW x
      PROVE  x \in UsedUpTo(r, L) <=> x \in UsedUpTo(bs, L) \/ x = <<bs[i].start, size>>
  <2>1. x \in UsedUpTo(r, L) <=> \E j \in 1 .. L : ~ r[j].free /\ x = <<r[j].start, r[j].size>>
    BY UsedMember
  <2>2. x \in UsedUpTo(bs, L)
          <=> \E j \in 1 .. L : ~ bs[j].free /\ x = <<bs[j].start, bs[j].size>>
    BY UsedMember
  <2>3. \A j \in 1 .. L : /\ <<r[j].start, r[j].size>> = <<bs[j].start, bs[j].size>>
                          /\ ~ r[j].free <=> ~ bs[j].free \/ j = i
    BY <1>5
  <2>. QED
    BY <2>1, <2>2, <2>3
<1>8. UsedIn(r) = UsedIn(bs) \cup {<<bs[i].start, size>>}
  BY <1>4, <1>7 DEF UsedIn
<1>9. ASSUME Alternates(bs) PROVE Alternates(r)
  <2>1. \A j \in 1 .. L - 1 : j \in 1 .. L /\ j + 1 \in 1 .. L
    BY <1>1
  <2>2. \A j \in 1 .. L : r[j].free => bs[j].free
    BY <1>5
  <2>. QED
    BY <1>4, <1>9, <2>1, <2>2 DEF Alternates
<1>. QED
  BY <1>6, <1>8, <1>9

LEMMA InsertedBlock ==
  ASSUME NEW u \in Seq(Block), NEW d \in Block, NEW k \in 1 .. Len(u) + 1
  PROVE  \A j \in 1 .. Len(u) + 1 :
           /\ j < k => InsertAt(u, k, d)[j] = u[j]
           /\ j = k => InsertAt(u, k, d)[j] = d
           /\ j > k => InsertAt(u, k, d)[j] = u[j - 1]
BY ONLY u \in Seq(Block), d \in Block, k \in 1 .. Len(u) + 1, InsertAtProperties

LEMMA CarvedSplit ==
  ASSUME NEW bs, NEW a, NEW b, Tiles(bs, a, b), NEW i \in 1 .. Len(bs), bs[i].free,
         NEW size \in Nat \ {0}, bs[i].size > size,
         NEW r, r = Carved(bs, i, size)
  PROVE  /\ Tiles(r, a, b) /\ UsedIn(r) = UsedIn(bs) \cup {<<bs[i].start, size>>}
         /\ Alternates(bs) => Alternates(r)
<1>. DEFINE L == Len(bs)
            c == Cut(bs, i, size)
            d == Rest(bs, i, size)
            u == [bs EXCEPT ![i] = c]
<1>1. /\ bs \in Seq(Block) /\ L \in Nat \ {0} /\ bs[i] \in Block /\ bs[i].size >= size
  BY TilesTypes, BlockFields DEF Tiles
<1>2. /\ c \in Block /\ ~ c.free /\ c.start = bs[i].start /\ c.size = size
      /\ d \in Block /\ d.free /\ d.start = End(c) /\ End(d) = End(bs[i])
  BY <1>1, CarvedBlocks DEF Cut, Rest
<1>3. r = InsertAt(u, i + 1, d)
  BY DEF Carved
<1>. HIDE DEF c, d
<1>4. /\ u \in Seq(Block) /\ Len(u) = L
      /\ \A j \in 1 .. L : u[j] = IF j = i THEN c ELSE bs[j]
  BY <1>1, <1>2, ExceptSeq
<1>. HIDE DEF u
<1>5. i + 1 \in 1 .. Len(u) + 1
  BY <1>1, <1>4
<1>. DEFINE k == i + 1
<1>. HIDE DEF k
<1>6. /\ r \in Seq(Block) /\ Len(r) = L + 1
      /\ \A j \in 1 .. L + 1 :
           /\ j < k => r[j] = u[j]
           /\ j = k => r[j] = d
           /\ j > k => r[j] = u[j - 1]
  <2>1. k \in 1 .. Len(u) + 1 /\ r = InsertAt(u, k, d)
    BY <1>3, <1>5 DEF k
  <2>2. k \in 1 .. Len(u) + 1 /\ u \in Seq(Block) /\ d \in Block
    BY <1>2, <1>4, <2>1
  <2>3. InsertAt(u, k, d) \in Seq(Block) /\ Len(InsertAt(u, k, d)) = Len(u) + 1
    BY ONLY <2>2, InsertAtProperties
  <2>4. \A j \in 1 .. Len(u) + 1 :
          /\ j < k => InsertAt(u, k, d)[j] = u[j]
          /\ j = k => InsertAt(u, k, d)[j] = d
          /\ j > k => InsertAt(u, k, d)[j] = u[j - 1]
    BY <2>2, InsertedBlock
  <2>. QED
    BY <1>4, <2>1, <2>3, <2>4
<1>7. /\ \A j \in 1 .. i - 1 : r[j] = bs[j]
      /\ r[i] = c /\ r[i + 1] = d
      /\ \A j \in i + 1 .. L : r[j + 1] = bs[j]
  <2>0. k = i + 1 /\ i \in 1 .. L /\ L \in Nat /\ k \in Int
    BY <1>1 DEF k
  <2>. HIDE DEF L
  <2>1. ASSUME NEW j \in 1 .. i - 1 PROVE r[j] = bs[j]
    <3>1. j \in 1 .. L + 1 /\ j < k /\ j \in 1 .. L /\ j # i
      BY <2>0
    <3>2. r[j] = u[j]
      BY ONLY <1>6, <3>1
    <3>3. u[j] = bs[j]
      BY ONLY <1>4, <3>1
    <3>. QED
      BY <3>2, <3>3
  <2>2. r[i] = c /\ r[i + 1] = d
    <3>1. i \in 1 .. L + 1 /\ i < k /\ k \in 1 .. L + 1
      BY <2>0
    <3>2. r[i] = u[i] /\ r[k] = d
      BY ONLY <1>6, <3>1
    <3>3. u[i] = c
      BY ONLY <1>4, <2>0
    <3>. QED
      BY <2>0, <3>2, <3>3
  <2>3. ASSUME NEW j \in i + 1 .. L PROVE r[j + 1] = bs[j]
    <3>1. j + 1 \in 1 .. L + 1 /\ j + 1 > k /\ j \in 1 .. L /\ j # i /\ (j + 1) - 1 = j
      BY <2>0
    <3>2. r[j + 1] = u[(j + 1) - 1]
      BY ONLY <1>6, <3>1
    <3>3. u[j] = bs[j]
      BY ONLY <1>4, <3>1
    <3>. QED
      BY <3>1, <3>2, <3>3
  <2>. QED
    BY <2>1, <2>2, <2>3
<1>8. /\ bs[1].start = a /\ End(bs[L]) = b
      /\ \A j \in 1 .. L - 1 : bs[j + 1].start = End(bs[j])
  BY DEF Tiles
<1>. HIDE DEF L
<1>9. i \in 1 .. L /\ L \in Nat
  BY <1>1 DEF L
<1>10. Tiles(r, a, b)
  <2>1. ASSUME NEW j \in 1 .. L PROVE r[j + 1].start = End(r[j])
    <3>1. CASE j < i - 1
      <4>1. j \in 1 .. i - 1 /\ j + 1 \in 1 .. i - 1 /\ j \in 1 .. L - 1
        BY <1>9, <3>1
      <4>. QED
        BY <1>7, <1>8, <4>1
    <3>2. CASE j = i - 1
      <4>1. j \in 1 .. i - 1 /\ j + 1 = i /\ j \in 1 .. L - 1
        BY <1>9, <3>2
      <4>. QED
        BY <1>2, <1>7, <1>8, <4>1
    <3>3. CASE j = i
      BY <1>2, <1>7, <3>3
    <3>4. CASE j = i + 1
      <4>1. j \in i + 1 .. L /\ i \in 1 .. L - 1
        BY <1>9, <3>4
      <4>. QED
        BY <1>2, <1>7, <1>8, <3>4, <4>1
    <3>5. CASE j > i + 1
      <4>1. /\ j \in i + 1 .. L /\ j - 1 \in i + 1 .. L /\ j - 1 \in 1 .. L - 1
            /\ (j - 1) + 1 = j
        BY <1>9, <3>5
      <4>2. bs[(j - 1) + 1].start = End(bs[j - 1])
        BY <1>8, <4>1
      <4>3. r[j + 1] = bs[j] /\ r[(j - 1) + 1] = bs[j - 1]
        BY <1>7, <4>1
      <4>. QED
        BY <4>1, <4>2, <4>3
    <3>. QED
      BY <1>9, <3>1, <3>2, <3>3, <3>4, <3>5
  <2>2. r[1].start = a
    <3>1. CASE i = 1
      BY <1>2, <1>7, <1>8, <3>1
    <3>2. CASE i # 1
      <4>1. 1 \in 1 .. i - 1
        BY <1>9, <3>2
      <4>. QED
        BY <1>7, <1>8, <4>1
    <3>. QED
      BY <3>1, <3>2
  <2>3. End(r[L + 1]) = b
    <3>1. CASE i = L
      BY <1>2, <1>7, <1>8, <3>1
    <3>2. CASE i # L
      <4>1. L \in i + 1 .. L
        BY <1>9, <3>2
      <4>. QED
        BY <1>7, <1>8, <4>1
    <3>. QED
      BY <3>1, <3>2
  <2>4. r # << >> /\ Len(r) - 1 = L
    BY <1>6, <1>9, EmptySeq DEF L
  <2>5. Len(r) = L + 1
    BY <1>6 DEF L
  <2>. QED
    BY <1>6, <2>1, <2>2, <2>3, <2>4, <2>5 DEF Tiles
<1>11. UsedIn(r) = UsedIn(bs) \cup {<<bs[i].start, size>>}
  <2>1. ASSUME NEW x
        PROVE  x \in UsedUpTo(r, L + 1) <=> x \in UsedUpTo(bs, L) \/ x = <<bs[i].start, size>>
    <3>1. x \in UsedUpTo(r, L + 1)
            <=> \E j \in 1 .. L + 1 : ~ r[j].free /\ x = <<r[j].start, r[j].size>>
      BY UsedMember
    <3>2. x \in UsedUpTo(bs, L)
            <=> \E j \in 1 .. L : ~ bs[j].free /\ x = <<bs[j].start, bs[j].size>>
      BY UsedMember
    <3>3. ASSUME NEW j \in 1 .. L + 1, ~ r[j].free, x = <<r[j].start, r[j].size>>
          PROVE  \/ x = <<bs[i].start, size>>
                 \/ \E m \in 1 .. L : ~ bs[m].free /\ x = <<bs[m].start, bs[m].size>>
      <4>1. j \in 1 .. i - 1 \/ j = i \/ j = i + 1 \/ j - 1 \in i + 1 .. L
        BY <1>9
      <4>2. CASE j \in 1 .. i - 1
        <5>1. j \in 1 .. L
          BY <1>9, <4>2
        <5>. QED
          BY <1>7, <3>3, <4>2, <5>1
      <4>3. CASE j = i
        BY <1>2, <1>7, <3>3, <4>3
      <4>4. CASE j = i + 1
        BY <1>2, <1>7, <3>3, <4>4
      <4>5. CASE j - 1 \in i + 1 .. L
        <5>1. j - 1 \in 1 .. L /\ (j - 1) + 1 = j
          BY <1>9, <4>5
        <5>2. r[j] = bs[j - 1]
          BY <1>7, <4>5, <5>1
        <5>. QED
          BY <3>3, <5>1, <5>2
      <4>. QED
        BY <4>1, <4>2, <4>3, <4>4, <4>5
    <3>4. ASSUME NEW m \in 1 .. L, ~ bs[m].free, x = <<bs[m].start, bs[m].size>>
          PROVE  \E j \in 1 .. L + 1 : ~ r[j].free /\ x = <<r[j].start, r[j].size>>
      <4>1. m # i
        BY <3>4
      <4>2. m \in 1 .. i - 1 \/ m \in i + 1 .. L
        BY <1>9, <4>1
      <4>3. m \in 1 .. L + 1 /\ m + 1 \in 1 .. L + 1
        BY <1>9
      <4>. QED
        BY <1>7, <3>4, <4>2, <4>3
    <3>5. ASSUME x = <<bs[i].start, size>>
          PROVE  \E j \in 1 .. L + 1 : ~ r[j].free /\ x = <<r[j].start, r[j].size>>
      <4>1. i \in 1 .. L + 1
        BY <1>9
      <4>. QED
        BY <1>2, <1>7, <3>5, <4>1
    <3>. QED
      BY <3>1, <3>2, <3>3, <3>4, <3>5
  <2>. QED
    BY <1>6, <2>1 DEF UsedIn, L
<1>12. ASSUME Alternates(bs) PROVE Alternates(r)
  <2>1. \A j \in 1 .. L - 1 : ~ (bs[j].free /\ bs[j + 1].free)
    BY <1>12 DEF Alternates, L
  <2>2. ASSUME NEW j \in 1 .. L PROVE ~ (r[j].free /\ r[j + 1].free)
    <3>1. CASE j < i - 1
      <4>1. j \in 1 .. i - 1 /\ j + 1 \in 1 .. i - 1 /\ j \in 1 .. L - 1
        BY <1>9, <3>1
      <4>. QED
        BY <1>7, <2>1, <4>1
    <3>2. CASE j = i - 1 \/ j = i
      BY <1>2, <1>7, <1>9, <3>2
    <3>4. CASE j = i + 1
      <4>1. j \in i + 1 .. L /\ i \in 1 .. L - 1
        BY <1>9, <3>4
      <4>. QED
        BY <1>7, <2>1, <3>4, <4>1
    <3>5. CASE j > i + 1
      <4>1. /\ j \in i + 1 .. L /\ j - 1 \in i + 1 .. L /\ j - 1 \in 1 .. L - 1
            /\ (j - 1) + 1 = j
        BY <1>9, <3>5
      <4>2. ~ (bs[j - 1].free /\ bs[(j - 1) + 1].free)
        BY <2>1, <4>1
      <4>3. r[j + 1] = bs[j] /\ r[(j - 1) + 1] = bs[j - 1]
        BY <1>7, <4>1
      <4>. QED
        BY <4>1, <4>2, <4>3
    <3>. QED
      BY <1>9, <3>1, <3>2, <3>4, <3>5
  <2>3. Len(r) - 1 = L
    BY <1>6, <1>9 DEF L
  <2>. QED
    BY <2>2, <2>3 DEF Alternates
<1>. QED
  BY <1>10, <1>11, <1>12

LEMMA CarvedProperties ==
  ASSUME NEW bs, NEW a, NEW b, Tiles(bs, a, b), NEW i \in 1 .. Len(bs), bs[i].free,
         NEW size \in Nat \ {0}, bs[i].size >= size,
         NEW r, r = Carved(bs, i, size)
  PROVE  /\ Tiles(r, a, b) /\ UsedIn(r) = UsedIn(bs) \cup {<<bs[i].start, size>>}
         /\ Alternates(bs) => Alternates(r)
<1>1. bs[i].size \in Nat
  BY TilesTypes, BlockFields
<1>2. bs[i].size = size \/ bs[i].size > size
  BY <1>1
<1>. QED
  BY <1>2, CarvedWhole, CarvedSplit

(* The blocks lie in the heap in the order of the list, none over another. *)
LEMMA BlocksInOrder ==
  ASSUME NEW bs, NEW a, NEW b, Tiles(bs, a, b)
  PROVE  /\ a \in Nat /\ b \in Nat
         /\ \A i \in 1 .. Len(bs) : a <= bs[i].start /\ End(bs[i]) <= b
         /\ \A i, j \in 1 .. Len(bs) : i < j => End(bs[i]) <= bs[j].start
         /\ \A i, j \in 1 .. Len(bs) : bs[i].start = bs[j].start => i = j
<1>. DEFINE L == Len(bs)
            Above(n) == \A i \in 1 .. n - 1 : End(bs[i]) <= bs[n].start
            T == {0} \cup {n \in 1 .. L : Above(n)}
<1>1. /\ L \in Nat \ {0} /\ bs[1].start = a /\ End(bs[L]) = b
      /\ \A i \in 1 .. L : /\ bs[i].start \in Nat /\ End(bs[i]) \in Nat
                           /\ bs[i].start < End(bs[i])
      /\ \A i \in 1 .. L - 1 : bs[i + 1].start = End(bs[i])
  BY TilesTypes, BlockFields DEF Tiles
<1>. HIDE DEF L
<1>2. ASSUME NEW n \in 1 .. L, n = 1 \/ Above(n - 1) PROVE Above(n)
  <2>1. SUFFICES ASSUME NEW i \in 1 .. n - 1 PROVE End(bs[i]) <= bs[n].start
    OBVIOUS
  <2>2. /\ n - 1 \in 1 .. L - 1 /\ n - 1 \in 1 .. L /\ (n - 1) + 1 = n /\ i \in 1 .. L
        /\ i \in 1 .. (n - 1) - 1 \/ i = n - 1
    BY <1>1
  <2>3. bs[(n - 1) + 1].start = End(bs[n - 1])
    BY <1>1, <2>2
  <2>4. CASE i = n - 1
    BY <1>1, <2>2, <2>3, <2>4
  <2>5. CASE i \in 1 .. (n - 1) - 1
    <3>1. End(bs[i]) <= bs[n - 1].start
      BY <1>2, <2>5
    <3>. QED
      BY <1>1, <2>2, <2>3, <3>1
  <2>. QED
    BY <2>2, <2>4, <2>5
<1>3. T = 0 .. L
  <2>. HIDE DEF Above
  <2>1. T \in SUBSET (0 .. L) /\ 0 \in T
    BY <1>1
  <2>2. ASSUME NEW n \in 1 .. L, n - 1 \in T PROVE n \in T
    <3>1. n = 1 \/ Above(n - 1)
      BY <2>2
    <3>. QED
      BY <1>2, <3>1
  <2>. HIDE DEF T
  <2>. QED
    BY <1>1, <2>1, <2>2, UpTo
<1>4. \A n \in 1 .. L : Above(n)
  <2>. HIDE DEF Above
  <2>1. \A n \in 1 .. L : n \in T /\ n # 0
    BY <1>1, <1>3
  <2>. QED
    BY <2>1
<1>5. ASSUME NEW i \in 1 .. L, NEW j \in 1 .. L, i < j PROVE End(bs[i]) <= bs[j].start
  <2>1. i \in 1 .. j - 1
    BY <1>5
  <2>. QED
    BY <1>4, <2>1
<1>. HIDE DEF Above, T
<1>6. ASSUME NEW i \in 1 .. L PROVE a <= bs[i].start /\ End(bs[i]) <= b
  <2>1. 1 \in 1 .. L /\ L \in 1 .. L /\ (i = 1 \/ 1 < i) /\ (i = L \/ i < L)
    BY <1>1
  <2>2. a <= bs[i].start
    <3>1. CASE i = 1
      BY <1>1, <2>1, <3>1
    <3>2. CASE 1 < i
      <4>1. End(bs[1]) <= bs[i].start
        BY <1>5, <2>1, <3>2
      <4>. QED
        BY <1>1, <2>1, <4>1
    <3>. QED
      BY <2>1, <3>1, <3>2
  <2>3. End(bs[i]) <= b
    <3>1. CASE i = L
      BY <1>1, <2>1, <3>1
    <3>2. CASE i < L
      <4>1. End(bs[i]) <= bs[L].start
        BY <1>5, <2>1, <3>2
      <4>. QED
        BY <1>1, <2>1, <4>1
    <3>. QED
      BY <2>1, <3>1, <3>2
  <2>. QED
    BY <2>2, <2>3
<1>7. ASSUME NEW i \in 1 .. L, NEW j \in 1 .. L, bs[i].start = bs[j].start PROVE i = j
  <2>1. i < j \/ j < i \/ i = j
    OBVIOUS
  <2>2. ~ (i < j)
    <3>. SUFFICES ASSUME i < j PROVE FALSE
      OBVIOUS
    <3>1. End(bs[i]) <= bs[j].start
      BY <1>5
    <3>. QED
      BY <1>1, <1>7, <3>1
  <2>3. ~ (j < i)
    <3>. SUFFICES ASSUME j < i PROVE FALSE
      OBVIOUS
    <3>1. End(bs[j]) <= bs[i].start
      BY <1>5
    <3>. QED
      BY <1>1, <1>7, <3>1
  <2>. QED
    BY <2>1, <2>2, <2>3
<1>8. a \in Nat /\ b \in Nat
  <2>1. 1 \in 1 .. L /\ L \in 1 .. L
    BY <1>1
  <2>. QED
    BY <1>1, <2>1
<1>. QED
  BY <1>5, <1>6, <1>7, <1>8 DEF L

(* Every byte of the heap lies in a block. *)
LEMMA LocateByte ==
  ASSUME NEW bs, NEW a, NEW b, Tiles(bs, a, b), NEW x \in Int, a <= x, x < b
  PROVE  \E i \in 1 .. Len(bs) : bs[i].start <= x /\ x < End(bs[i])
<1>. DEFINE L == Len(bs)
            T == {i \in 1 .. L : x < End(bs[i])}
<1>1. /\ L \in Nat \ {0} /\ bs[1].start = a /\ End(bs[L]) = b
      /\ \A i \in 1 .. L : End(bs[i]) \in Nat /\ bs[i].start \in Nat
      /\ \A i \in 1 .. L - 1 : bs[i + 1].start = End(bs[i])
  BY TilesTypes, BlockFields DEF Tiles
<1>. HIDE DEF L
<1>2. T \in SUBSET Nat /\ L \in T
  BY <1>1
<1>3. PICK i \in T : \A j \in T : i <= j
  <2>. HIDE DEF T
  <2>. QED
    BY <1>2, LeastMember
<1>4. i \in 1 .. L /\ x < End(bs[i])
  BY <1>3
<1>5. bs[i].start <= x
  <2>1. CASE i = 1
    BY <1>1, <2>1
  <2>2. CASE i # 1
    <3>1. i - 1 \in 1 .. L - 1 /\ i - 1 \in 1 .. L /\ (i - 1) + 1 = i /\ ~ (i <= i - 1)
      BY <1>1, <1>4, <2>2
    <3>2. bs[(i - 1) + 1].start = End(bs[i - 1])
      BY <1>1, <3>1
    <3>3. ~ (x < End(bs[i - 1]))
      BY <1>3, <3>1
    <3>. QED
      BY <1>1, <3>1, <3>2, <3>3
  <2>. QED
    BY <2>1, <2>2
<1>. QED
  BY <1>4, <1>5 DEF L

(* free gives back the one block of the allocation and leaves the others.  *)
LEMMA FreedProperties ==
  ASSUME NEW bs, NEW a, NEW b, Tiles(bs, a, b), NEW x \in UsedIn(bs),
         NEW r, r = Freed(bs, x[1])
  PROVE  Tiles(r, a, b) /\ UsedIn(r) = UsedIn(bs) \ {x}
<1>. DEFINE L == Len(bs)
<1>1. /\ bs \in Seq(Block) /\ L \in Nat \ {0} /\ DOMAIN bs = 1 .. L
      /\ \A i \in 1 .. L : bs[i] \in Block
  BY TilesTypes DEF Tiles
<1>2. PICK i \in 1 .. L : ~ bs[i].free /\ x = <<bs[i].start, bs[i].size>>
  BY UsedMember DEF UsedIn
<1>3. \A j \in 1 .. L : bs[j].start = x[1] <=> j = i
  <2>1. x[1] = bs[i].start
    BY <1>2
  <2>. QED
    BY <2>1, BlocksInOrder
<1>4. \A c \in Block : /\ Marked(c) \in Block /\ Marked(c).free
                       /\ Marked(c).start = c.start /\ Marked(c).size = c.size
  BY DEF Marked, Block
<1>5. r = [j \in 1 .. L |-> IF bs[j].start = x[1] THEN Marked(bs[j]) ELSE bs[j]]
  BY <1>1 DEF Freed
<1>6. \A j \in 1 .. L : r[j] = IF j = i THEN Marked(bs[j]) ELSE bs[j]
  BY <1>3, <1>5
<1>7. /\ \A j \in 1 .. L : /\ r[j] \in Block
                           /\ r[j].start = bs[j].start /\ r[j].size = bs[j].size
                           /\ j # i => (r[j].free <=> bs[j].free)
      /\ r[i].free
  BY <1>1, <1>4, <1>6
<1>8. r \in Seq(Block) /\ Len(r) = L
  <2>1. r \in [1 .. L -> Block]
    BY <1>5, <1>7
  <2>. QED
    BY <1>1, <2>1, SeqDef, LenProperties
<1>9. Tiles(r, a, b)
  BY <1>7, <1>8, SameExtents
<1>10. ASSUME NEW y PROVE y \in UsedUpTo(r, L) <=> y \in UsedUpTo(bs, L) /\ y # x
  <2>1. y \in UsedUpTo(r, L) <=> \E j \in 1 .. L : ~ r[j].free /\ y = <<r[j].start, r[j].size>>
    BY UsedMember
  <2>2. y \in UsedUpTo(bs, L)
          <=> \E j \in 1 .. L : ~ bs[j].free /\ y = <<bs[j].start, bs[j].size>>
    BY UsedMember
  <2>3. ASSUME NEW j \in 1 .. L
        PROVE  /\ <<r[j].start, r[j].size>> = <<bs[j].start, bs[j].size>>
               /\ ~ r[j].free <=> ~ bs[j].free /\ j # i
               /\ <<bs[j].start, bs[j].size>> = x <=> j = i
    <3>1. j # i => <<bs[j].start, bs[j].size>> # x
      <4>1. j # i => bs[j].start # x[1]
        BY <1>3
      <4>2. <<bs[j].start, bs[j].size>>[1] = bs[j].start
        OBVIOUS
      <4>. QED
        BY <4>1, <4>2
    <3>. QED
      BY <1>2, <1>7, <3>1
  <2>. QED
    BY <2>1, <2>2, <2>3
<1>11. UsedIn(r) = UsedIn(bs) \ {x}
  BY <1>8, <1>10 DEF UsedIn
<1>. QED
  BY <1>9, <1>11

-----------------------------------------------------------------------------
(***************************************************************************)
(* Growing the heap                                                        *)
(***************************************************************************)

(* The pages _grow_heap asks for cover what is missing, with less than a   *)
(* page to spare.                                                          *)
LEMMA PagesCover ==
  ASSUME NEW missing \in Nat \ {0}, NEW P \in Nat \ {0},
         NEW pages, pages = (missing + P - 1) \div P
  PROVE  /\ pages \in Nat \ {0} /\ pages * P \in Nat \ {0}
         /\ pages * P >= missing /\ (pages - 1) * P < missing
<1>. DEFINE n == missing + P - 1
<1>1. n \in Nat /\ n >= P
  OBVIOUS
<1>2. pages = n \div P
  OBVIOUS
<1>. HIDE DEF n
<1>3. pages \in Nat /\ pages * P <= n /\ n < pages * P + P
  BY <1>1, <1>2
<1>4. pages # 0
  <2>1. ASSUME pages = 0 PROVE FALSE
    <3>1. pages * P = 0
      BY <2>1
    <3>. QED
      BY <1>1, <1>3, <3>1
  <2>. QED
    BY <2>1
<1>5. pages * P \in Nat /\ (pages - 1) * P = pages * P - P
  BY <1>3
<1>. DEFINE m == pages * P
<1>6. m \in Nat /\ m <= n /\ n < m + P
  BY <1>3, <1>5
<1>7. (pages - 1) * P = m - P
  BY <1>5
<1>. HIDE DEF m
<1>8. m >= missing /\ m - P < missing /\ m # 0
  BY <1>6 DEF n
<1>. QED
  BY <1>3, <1>4, <1>6, <1>7, <1>8 DEF m

(* The free bytes at the end of the blocks. *)
LEMMA TrailingFreeProperties ==
  ASSUME NEW bs, NEW a, NEW b, Tiles(bs, a, b)
  PROVE  /\ TrailingFree(bs) \in Nat
         /\ TrailingFree(bs) > 0 <=> Last(bs).free
         /\ Last(bs).free => TrailingFree(bs) = Last(bs).size
<1>1. bs # << >>
  BY DEF Tiles
<1>2. Last(bs).size \in Nat /\ Last(bs).size > 0
  <2>1. Len(bs) \in 1 .. Len(bs) /\ Last(bs) = bs[Len(bs)] /\ bs[Len(bs)] \in Block
    BY TilesTypes
  <2>. QED
    BY <2>1, BlockFields
<1>. QED
  BY <1>1, <1>2 DEF TrailingFree

LEMMA ExtendedProperties ==
  ASSUME NEW bs, NEW a, Tiles(bs, a, heapEnd), NEW growth \in Nat \ {0},
         NEW r, r = Extended(bs, growth)
  PROVE  /\ Tiles(r, a, heapEnd + growth) /\ UsedIn(r) = UsedIn(bs)
         /\ Alternates(bs) => Alternates(r)
         /\ Last(r).free /\ Last(r).size = TrailingFree(bs) + growth
<1>1. /\ TrailingFree(bs) \in Nat
      /\ TrailingFree(bs) > 0 <=> Last(bs).free
      /\ Last(bs).free => TrailingFree(bs) = Last(bs).size
  BY TrailingFreeProperties
<1>2. CASE Last(bs).free
  <2>1. r = GrownLast(bs, growth)
    BY <1>1, <1>2 DEF Extended, GrownLast
  <2>2. growth \in Nat
    OBVIOUS
  <2>3. /\ Tiles(r, a, heapEnd + growth) /\ UsedIn(r) = UsedIn(bs)
        /\ Alternates(bs) => Alternates(r)
        /\ Last(r).free /\ Last(r).size = Last(bs).size + growth
    BY <1>2, <2>1, <2>2, TilesGrow
  <2>. QED
    BY <1>1, <1>2, <2>3
<1>3. CASE ~ Last(bs).free
  <2>. DEFINE c == [start |-> heapEnd, size |-> growth, free |-> TRUE]
  <2>1. heapEnd \in Nat
    BY BlocksInOrder
  <2>2. c \in Block /\ c.start = heapEnd /\ End(c) = heapEnd + growth /\ c.free /\ c.size = growth
    BY <2>1 DEF Block, End
  <2>3. r = Append(bs, c)
    BY <1>1, <1>3 DEF Extended
  <2>. HIDE DEF c
  <2>4. /\ Tiles(r, a, End(c))
        /\ UsedIn(r) = UsedIn(bs) \cup (IF c.free THEN {} ELSE {<<c.start, c.size>>})
        /\ Alternates(bs) => Alternates(r)
        /\ Last(r) = c
    BY <1>3, <2>2, <2>3, TilesAppend
  <2>5. TrailingFree(bs) = 0
    BY <1>1, <1>3
  <2>. QED
    BY <2>2, <2>4, <2>5
<1>. QED
  BY <1>2, <1>3

(* Where nothing fits, the free bytes at the end are too few.              *)
LEMMA TrailingTooSmall ==
  ASSUME NEW bs, NEW a, NEW b, Tiles(bs, a, b), NEW size \in Nat \ {0},
         Fitting(bs, size) = {}
  PROVE  TrailingFree(bs) < size
<1>1. /\ TrailingFree(bs) \in Nat
      /\ TrailingFree(bs) > 0 <=> Last(bs).free
      /\ Last(bs).free => TrailingFree(bs) = Last(bs).size
  BY TrailingFreeProperties
<1>2. /\ DOMAIN bs = 1 .. Len(bs) /\ Len(bs) \in 1 .. Len(bs) /\ Last(bs) = bs[Len(bs)]
  BY TilesTypes
<1>3. ~ (bs[Len(bs)].free /\ bs[Len(bs)].size >= size)
  BY <1>2 DEF Fitting
<1>. QED
  BY <1>1, <1>2, <1>3

(* The pages _grow_heap asks for make room for the allocation.             *)
LEMMA GrowthFits ==
  ASSUME NEW a, Tiles(blocks, a, heapEnd), NEW size \in Nat \ {0},
         PageSize \in Nat \ {0}, TooSmall(size),
         NEW merged, merged = Coalesce(blocks),
         NEW pages, pages = PagesNeeded(merged, size),
         NEW r, r = Coalesce(Extended(merged, pages * PageSize))
  PROVE  /\ pages \in Nat /\ pages * PageSize \in Nat \ {0}
         /\ (pages - 1) * PageSize < size - TrailingFree(merged)
         /\ Tiles(r, a, heapEnd + pages * PageSize) /\ UsedIn(r) = UsedIn(blocks)
         /\ Alternates(r) /\ Fitting(r, size) # {}
<1>1. Tiles(merged, a, heapEnd) /\ UsedIn(merged) = UsedIn(blocks)
  BY CoalesceProperties
<1>2. TrailingFree(merged) \in Nat /\ TrailingFree(merged) < size
  BY <1>1, TrailingTooSmall, TrailingFreeProperties DEF TooSmall
<1>. DEFINE missing == size - TrailingFree(merged)
            growth == pages * PageSize
            e == Extended(merged, growth)
<1>3. missing \in Nat \ {0} /\ pages = (missing + PageSize - 1) \div PageSize
  BY <1>2 DEF PagesNeeded
<1>. HIDE DEF missing
<1>4. /\ pages \in Nat /\ growth \in Nat \ {0}
      /\ growth >= missing /\ (pages - 1) * PageSize < missing
  BY <1>3, PagesCover
<1>5. r = Coalesce(e)
  OBVIOUS
<1>6. growth = pages * PageSize
  OBVIOUS
<1>. HIDE DEF growth
<1>7. /\ Tiles(e, a, heapEnd + growth) /\ UsedIn(e) = UsedIn(merged)
      /\ Last(e).free /\ Last(e).size = TrailingFree(merged) + growth
  BY <1>1, <1>4, ExtendedProperties
<1>. HIDE DEF e
<1>8. /\ Tiles(r, a, heapEnd + growth) /\ UsedIn(r) = UsedIn(e) /\ Alternates(r)
      /\ Last(r).free /\ Last(r).size >= Last(e).size
  BY <1>5, <1>7, CoalesceProperties
<1>9. Fitting(r, size) # {}
  <2>1. /\ DOMAIN r = 1 .. Len(r) /\ Len(r) \in 1 .. Len(r) /\ Last(r) = r[Len(r)]
        /\ r[Len(r)].size \in Nat
    BY <1>8, TilesTypes, BlockFields
  <2>2. Last(e).size >= size
    BY <1>2, <1>4, <1>7 DEF missing
  <2>3. Last(r).size >= size
    BY <1>2, <1>4, <1>7, <1>8, <2>1, <2>2
  <2>. QED
    BY <1>8, <2>1, <2>3 DEF Fitting
<1>. QED
  BY <1>1, <1>4, <1>6, <1>7, <1>8, <1>9 DEF missing

-----------------------------------------------------------------------------
(***************************************************************************)
(* The invariant                                                           *)
(***************************************************************************)

HeapInv ==
  /\ Tiles(blocks, HeapStart, heapEnd)
  /\ active = UsedIn(blocks)
  /\ Alternates(blocks)
  /\ heapEnd <= MaxEnd
  /\ result \in Nat \cup {None}

LEMMA SizesAreSizes == \A size \in Sizes : size \in Nat \ {0}
BY HeapAssumption

(* What first fit in the blocks bs does to the records, and where it       *)
(* finds its block: in the first that is free and large enough.            *)
LEMMA TakeProperties ==
  ASSUME NEW bs, NEW e, Tiles(bs, HeapStart, e), UsedIn(bs) = active,
         NEW size \in Nat \ {0}, Take(bs, size)
  PROVE  /\ Tiles(blocks', HeapStart, e) /\ active' = UsedIn(blocks')
         /\ Alternates(bs) => Alternates(blocks')
         /\ active' = active \cup {<<result', size>>}
         /\ \E i \in 1 .. Len(bs) : /\ bs[i].free /\ bs[i].size >= size
                                    /\ result' = bs[i].start
                                    /\ \A j \in Fitting(bs, size) : i <= j
<1>. DEFINE F == Fitting(bs, size)
            i == Min(F)
<1>1. DOMAIN bs = 1 .. Len(bs)
  BY TilesTypes
<1>2. F \in SUBSET Nat /\ F # {}
  BY <1>1 DEF Fitting, Take
<1>3. i \in F /\ \A j \in F : i <= j
  <2>. HIDE DEF F
  <2>. QED
    BY <1>2, MinOfNaturals
<1>4. i \in 1 .. Len(bs) /\ bs[i].free /\ bs[i].size >= size
  BY <1>1, <1>3 DEF Fitting
<1>5. /\ blocks' = Carved(bs, i, size) /\ result' = bs[i].start
      /\ active' = active \cup {<<bs[i].start, size>>}
  BY DEF Take
<1>. HIDE DEF i
<1>6. /\ Tiles(blocks', HeapStart, e) /\ UsedIn(blocks') = UsedIn(bs) \cup {<<bs[i].start, size>>}
      /\ Alternates(bs) => Alternates(blocks')
  BY <1>4, <1>5, CarvedProperties
<1>. QED
  BY <1>3, <1>4, <1>5, <1>6

LEMMA InitHeap == Init => HeapInv
<1>. SUFFICES ASSUME Init PROVE HeapInv
  OBVIOUS
<1>. DEFINE c == [start |-> HeapStart, size |-> InitialSize, free |-> TRUE]
<1>1. c \in Block /\ c.start = HeapStart /\ End(c) = HeapStart + InitialSize /\ c.free
  BY HeapAssumption DEF Block, End
<1>2. blocks = <<c>> /\ heapEnd = HeapStart + InitialSize /\ active = {} /\ result = None
  BY DEF Init
<1>. HIDE DEF c
<1>3. blocks \in Seq(Block) /\ Len(blocks) = 1 /\ blocks[1] = c /\ blocks # << >>
  BY <1>1, <1>2
<1>4. Tiles(blocks, HeapStart, heapEnd) /\ Alternates(blocks)
  BY <1>1, <1>2, <1>3 DEF Tiles, Alternates
<1>5. UsedIn(blocks) = {}
  <2>1. \A j \in 1 .. 1 : blocks[j].free
    BY <1>1, <1>3
  <2>. QED
    BY <1>3, <2>1 DEF UsedIn, UsedUpTo
<1>. QED
  BY <1>2, <1>4, <1>5, HeapAssumption DEF HeapInv

(* In an allocation without growth, first fit works on blocks that tile    *)
(* the same heap and stand for the same allocations.                       *)
LEMMA AllocFitsTakes ==
  ASSUME HeapInv, NEW size \in Sizes, AllocFits(size)
  PROVE  \E bs : /\ Tiles(bs, HeapStart, heapEnd) /\ UsedIn(bs) = active
                 /\ Alternates(bs) /\ Take(bs, size)
<1>1. CASE Fitting(blocks, size) # {}
  BY <1>1 DEF AllocFits, HeapInv
<1>2. CASE Fitting(blocks, size) = {}
  <2>1. /\ Tiles(Coalesce(blocks), HeapStart, heapEnd) /\ UsedIn(Coalesce(blocks)) = active
        /\ Alternates(Coalesce(blocks))
    BY CoalesceProperties DEF HeapInv
  <2>2. Take(Coalesce(blocks), size)
    BY <1>2 DEF AllocFits
  <2>. QED
    BY <2>1, <2>2
<1>. QED
  BY <1>1, <1>2

LEMMA AllocGrowsTakes ==
  ASSUME HeapInv, NEW size \in Sizes, AllocGrows(size)
  PROVE  \E bs : /\ Tiles(bs, HeapStart, heapEnd') /\ UsedIn(bs) = active
                 /\ Alternates(bs) /\ Take(bs, size)
                 /\ heapEnd \in Nat /\ heapEnd' \in heapEnd .. MaxEnd
<1>. DEFINE merged == Coalesce(blocks)
            pages == PagesNeeded(merged, size)
            growth == pages * PageSize
            bs == Coalesce(Extended(merged, growth))
<1>1. /\ TooSmall(size) /\ heapEnd + growth <= MaxEnd /\ heapEnd' = heapEnd + growth
      /\ Take(bs, size)
  BY DEF AllocGrows
<1>2. /\ pages \in Nat /\ growth \in Nat \ {0}
      /\ Tiles(bs, HeapStart, heapEnd + growth) /\ UsedIn(bs) = UsedIn(blocks)
      /\ Alternates(bs)
  <2>1. PageSize \in Nat \ {0} /\ size \in Nat \ {0} /\ Tiles(blocks, HeapStart, heapEnd)
    BY HeapAssumption, SizesAreSizes DEF HeapInv
  <2>. QED
    BY <1>1, <2>1, GrowthFits
<1>3. heapEnd \in Nat
  BY BlocksInOrder DEF HeapInv
<1>. HIDE DEF growth, bs
<1>4. heapEnd' \in heapEnd .. MaxEnd
  BY <1>1, <1>2, <1>3, HeapAssumption
<1>. QED
  BY <1>1, <1>2, <1>3, <1>4 DEF HeapInv

LEMMA TakeKeepsHeap ==
  ASSUME NEW bs, Tiles(bs, HeapStart, heapEnd'), UsedIn(bs) = active, Alternates(bs),
         NEW size \in Sizes, Take(bs, size), heapEnd' <= MaxEnd
  PROVE  HeapInv'
<1>1. size \in Nat \ {0}
  BY SizesAreSizes
<1>2. /\ Tiles(blocks', HeapStart, heapEnd') /\ active' = UsedIn(blocks')
      /\ Alternates(blocks')
      /\ \E i \in 1 .. Len(bs) : result' = bs[i].start
  BY <1>1, TakeProperties
<1>3. result' \in Nat
  BY <1>2, TilesTypes, BlockFields
<1>. QED
  BY <1>2, <1>3 DEF HeapInv

LEMMA StepKeepsHeap ==
  ASSUME HeapInv, [Next]_vars
  PROVE  HeapInv'
<1>1. ASSUME NEW size \in Sizes, AllocFits(size) PROVE HeapInv'
  <2>1. heapEnd' = heapEnd /\ heapEnd' <= MaxEnd
    BY <1>1 DEF AllocFits, HeapInv
  <2>. QED
    BY <1>1, <2>1, AllocFitsTakes, TakeKeepsHeap
<1>2. ASSUME NEW size \in Sizes, AllocGrows(size) PROVE HeapInv'
  <2>1. PICK bs : /\ Tiles(bs, HeapStart, heapEnd') /\ UsedIn(bs) = active
                  /\ Alternates(bs) /\ Take(bs, size)
                  /\ heapEnd \in Nat /\ heapEnd' \in heapEnd .. MaxEnd
    BY <1>2, AllocGrowsTakes
  <2>2. heapEnd' <= MaxEnd
    BY <2>1
  <2>. QED
    BY <2>1, <2>2, TakeKeepsHeap
<1>3. ASSUME NEW size \in Sizes, AllocFails(size) PROVE HeapInv'
  <2>1. /\ blocks' = Coalesce(blocks) /\ result' = None
        /\ active' = active /\ heapEnd' = heapEnd
    BY <1>3 DEF AllocFails
  <2>2. /\ Tiles(blocks', HeapStart, heapEnd) /\ UsedIn(blocks') = active
        /\ Alternates(blocks')
    BY <2>1, CoalesceProperties DEF HeapInv
  <2>. QED
    BY <2>1, <2>2 DEF HeapInv
<1>4. ASSUME NEW x \in active, Free(x) PROVE HeapInv'
  <2>. DEFINE bs == Freed(blocks, x[1])
  <2>1. /\ blocks' = Coalesce(bs) /\ active' = active \ {x}
        /\ heapEnd' = heapEnd /\ result' = result
    BY <1>4 DEF Free
  <2>2. Tiles(bs, HeapStart, heapEnd) /\ UsedIn(bs) = active \ {x}
    BY FreedProperties DEF HeapInv
  <2>. HIDE DEF bs
  <2>3. /\ Tiles(blocks', HeapStart, heapEnd) /\ UsedIn(blocks') = active \ {x}
        /\ Alternates(blocks')
    BY <2>1, <2>2, CoalesceProperties
  <2>. QED
    BY <2>1, <2>3 DEF HeapInv
<1>5. CASE UNCHANGED vars
  BY <1>5 DEF HeapInv, vars, Tiles, UsedIn, UsedUpTo, Alternates
<1>. QED
  BY <1>1, <1>2, <1>3, <1>4, <1>5 DEF Next

LEMMA HeapInvHolds == Spec => []HeapInv
<1>1. HeapInv /\ [Next]_vars => HeapInv'
  BY StepKeepsHeap
<1>. QED
  BY InitHeap, <1>1, PTL DEF Spec

-----------------------------------------------------------------------------
(***************************************************************************)
(* Theorems                                                                *)
(***************************************************************************)

LEMMA UsedTypes ==
  ASSUME NEW bs, NEW a, NEW b, Tiles(bs, a, b), NEW x \in UsedIn(bs)
  PROVE  /\ x \in Nat \X (Nat \ {0}) /\ x[1] \in Nat /\ x[2] \in Nat \ {0}
         /\ \E i \in 1 .. Len(bs) : /\ ~ bs[i].free
                                    /\ x[1] = bs[i].start /\ x[1] + x[2] = End(bs[i])
<1>1. PICK i \in 1 .. Len(bs) : ~ bs[i].free /\ x = <<bs[i].start, bs[i].size>>
  BY UsedMember DEF UsedIn
<1>2. bs[i].start \in Nat /\ bs[i].size \in Nat \ {0}
  BY TilesTypes, BlockFields
<1>. QED
  BY <1>1, <1>2 DEF End

(* The records of the heap stay of the right form: addresses and positive   *)
(* sizes.                                                                   *)
THEOREM HeapTypes == Spec => []TypeOK
<1>1. HeapInv => TypeOK
  <2>. SUFFICES ASSUME HeapInv PROVE TypeOK
    OBVIOUS
  <2>1. active \in SUBSET (Nat \X (Nat \ {0}))
    BY UsedTypes DEF HeapInv
  <2>2. heapEnd \in Nat
    BY BlocksInOrder DEF HeapInv
  <2>. QED
    BY <2>1, <2>2 DEF TypeOK, HeapInv, Tiles
<1>. QED
  BY HeapInvHolds, <1>1, PTL

(* The block list tiles the heap, the table of allocations is its used     *)
(* blocks, and no two free blocks are adjacent, after any sequence of      *)
(* alloc and free.                                                         *)
THEOREM HeapStaysConsistent == Spec => []HeapConsistent
<1>1. HeapInv => HeapConsistent
  <2>. SUFFICES ASSUME HeapInv PROVE HeapConsistent
    OBVIOUS
  <2>1. Tiles(blocks, HeapStart, heapEnd) /\ active = UsedIn(blocks) /\ Alternates(blocks)
    BY DEF HeapInv
  <2>2. DOMAIN blocks = 1 .. Len(blocks) /\ Last(blocks) = blocks[Len(blocks)]
    BY <2>1, TilesTypes
  <2>3. BlocksTileHeap
    BY <2>1, <2>2 DEF BlocksTileHeap, Tiles, End
  <2>4. ActiveAreUsedBlocks
    <3>. DEFINE Used == {<<b.start, b.size>> : b \in {c \in ToSet(blocks) : ~ c.free}}
    <3>1. \A c : c \in ToSet(blocks) <=> \E i \in 1 .. Len(blocks) : c = blocks[i]
      BY <2>2 DEF ToSet
    <3>2. ASSUME NEW x PROVE x \in active <=> x \in Used
      <4>1. x \in active
              <=> \E i \in 1 .. Len(blocks) : ~ blocks[i].free
                                              /\ x = <<blocks[i].start, blocks[i].size>>
        BY <2>1, UsedMember DEF UsedIn
      <4>2. x \in Used <=> \E c \in ToSet(blocks) : ~ c.free /\ x = <<c.start, c.size>>
        OBVIOUS
      <4>. HIDE DEF Used
      <4>. QED
        BY <3>1, <4>1, <4>2
    <3>. QED
      BY <3>2 DEF ActiveAreUsedBlocks
  <2>5. NoAdjacentFree
    BY <2>1 DEF NoAdjacentFree, Alternates
  <2>. QED
    BY <2>3, <2>4, <2>5 DEF HeapConsistent
<1>. QED
  BY HeapInvHolds, <1>1, PTL

(* The pages _grow_heap asks for are enough for the allocation, and one    *)
(* fewer would not be.                                                     *)
THEOREM GrowthIsExact == Spec => []GrowthSuffices
<1>1. HeapInv => GrowthSuffices
  <2>. SUFFICES ASSUME HeapInv, NEW size \in Sizes, TooSmall(size)
                PROVE  LET merged == Coalesce(blocks)
                           pages  == PagesNeeded(merged, size)
                       IN  /\ Fitting(Coalesce(Extended(merged, pages * PageSize)), size) # {}
                           /\ (pages - 1) * PageSize < size - TrailingFree(merged)
    BY DEF GrowthSuffices
  <2>1. PageSize \in Nat \ {0} /\ size \in Nat \ {0} /\ Tiles(blocks, HeapStart, heapEnd)
    BY HeapAssumption, SizesAreSizes DEF HeapInv
  <2>. QED
    BY <2>1, GrowthFits
<1>. QED
  BY HeapInvHolds, <1>1, PTL

(* The bytes of a free block belong to no allocation. *)
LEMMA FreeIsVacant ==
  ASSUME NEW bs, NEW a, NEW b, Tiles(bs, a, b), UsedIn(bs) = active,
         NEW i \in 1 .. Len(bs), bs[i].free, NEW size \in Nat, size <= bs[i].size
  PROVE  Vacant(bs[i].start, bs[i].start + size)
<1>1. bs[i].start \in Nat /\ bs[i].size \in Nat /\ End(bs[i]) = bs[i].start + bs[i].size
  BY TilesTypes, BlockFields DEF End
<1>2. ASSUME NEW x \in active PROVE x[1] + x[2] <= bs[i].start \/ bs[i].start + size <= x[1]
  <2>1. PICK j \in 1 .. Len(bs) : /\ ~ bs[j].free
                                  /\ x[1] = bs[j].start /\ x[1] + x[2] = End(bs[j])
    BY UsedTypes
  <2>2. j < i \/ i < j
    <3>1. j # i
      BY <2>1
    <3>. QED
      BY <3>1
  <2>3. bs[j].start \in Nat /\ End(bs[j]) \in Nat
    BY TilesTypes, BlockFields
  <2>4. CASE j < i
    BY <2>1, <2>4, BlocksInOrder
  <2>5. CASE i < j
    <3>1. End(bs[i]) <= bs[j].start
      BY <2>5, BlocksInOrder
    <3>. QED
      BY <1>1, <2>1, <2>3, <3>1
  <2>. QED
    BY <2>2, <2>4, <2>5
<1>. QED
  BY <1>2 DEF Vacant

(* Where no block that starts at p or below fits, an allocation lies in    *)
(* the size bytes from p on.                                               *)
LEMMA NothingBelowFits ==
  ASSUME NEW bs, NEW a, NEW b, Tiles(bs, a, b), UsedIn(bs) = active, Alternates(bs),
         NEW size \in Nat \ {0}, NEW p \in Int, a <= p, p + size <= b,
         \A i \in Fitting(bs, size) : ~ (bs[i].start <= p)
  PROVE  ~ Vacant(p, p + size)
<1>. DEFINE L == Len(bs)
<1>1. /\ L \in Nat \ {0} /\ DOMAIN bs = 1 .. L
      /\ \A i \in 1 .. L : /\ bs[i].start \in Nat /\ bs[i].size \in Nat
                           /\ bs[i].size > 0 /\ End(bs[i]) = bs[i].start + bs[i].size
      /\ a \in Nat /\ b \in Nat /\ End(bs[L]) = b
      /\ \A i \in 1 .. L - 1 : bs[i + 1].start = End(bs[i])
      /\ \A i \in 1 .. L - 1 : ~ (bs[i].free /\ bs[i + 1].free)
  BY TilesTypes, BlockFields, BlocksInOrder DEF Tiles, End, Alternates
<1>2. PICK i \in 1 .. L : bs[i].start <= p /\ p < End(bs[i])
  <2>1. p < b
    BY <1>1
  <2>. QED
    BY <2>1, LocateByte
<1>. HIDE DEF L
<1>3. \A k \in 1 .. L : ~ bs[k].free => <<bs[k].start, bs[k].size>> \in active
  BY UsedMember DEF UsedIn, L
<1>4. ASSUME NEW k \in 1 .. L, ~ bs[k].free, bs[k].start < p + size, p < End(bs[k])
      PROVE  ~ Vacant(p, p + size)
  <2>. DEFINE x == <<bs[k].start, bs[k].size>>
  <2>1. x \in active /\ x[1] = bs[k].start /\ x[1] + x[2] = End(bs[k])
    BY <1>1, <1>3, <1>4
  <2>. HIDE DEF x
  <2>2. ~ (x[1] + x[2] <= p) /\ ~ (p + size <= x[1])
    BY <1>1, <1>4, <2>1
  <2>. QED
    BY <2>1, <2>2 DEF Vacant
<1>5. CASE ~ bs[i].free
  <2>1. bs[i].start < p + size
    BY <1>1, <1>2
  <2>. QED
    BY <1>2, <1>4, <1>5, <2>1
<1>6. CASE bs[i].free
  <2>1. bs[i].size < size
    <3>1. ~ (bs[i].size >= size)
      BY <1>1, <1>2, <1>6 DEF Fitting
    <3>. QED
      BY <1>1, <3>1
  <2>2. End(bs[i]) < p + size
    BY <1>1, <1>2, <2>1
  <2>3. i # L
    BY <1>1, <2>2
  <2>4. i \in 1 .. L - 1 /\ i + 1 \in 1 .. L
    BY <1>1, <2>3
  <2>5. bs[i + 1].start = End(bs[i]) /\ ~ bs[i + 1].free
    BY <1>1, <1>6, <2>4
  <2>6. bs[i + 1].start < p + size /\ p < End(bs[i + 1])
    <3>1. bs[i + 1].start < p + size
      BY <2>2, <2>5
    <3>2. /\ p < bs[i + 1].start /\ bs[i + 1].start \in Nat
          /\ End(bs[i + 1]) = bs[i + 1].start + bs[i + 1].size
          /\ bs[i + 1].size \in Nat /\ bs[i + 1].size > 0
      BY <1>1, <1>2, <2>4, <2>5
    <3>. DEFINE c == bs[i + 1]
    <3>. HIDE DEF c
    <3>3. p < c.start /\ c.start \in Nat /\ End(c) = c.start + c.size /\ c.size \in Nat /\ c.size > 0
      BY <3>2 DEF c
    <3>4. p < End(c)
      BY <3>3
    <3>. QED
      BY <3>1, <3>4 DEF c
  <2>. QED
    BY <1>4, <2>4, <2>5, <2>6
<1>. QED
  BY <1>5, <1>6

(* alloc refuses only what no run of vacant bytes holds, and gives the     *)
(* lowest address that any holds it at.                                    *)
THEOREM FirstFitHolds == Spec => FirstFitIsExact
<1>. DEFINE Exact ==
       \A size \in Sizes :
         /\ AllocFails(size) =>
              \A a \in HeapStart..(heapEnd - size) : ~Vacant(a, a + size)
         /\ AllocFits(size) =>
              /\ Vacant(result', result' + size)
              /\ \A a \in HeapStart..(result' - 1) : ~Vacant(a, a + size)
<1>1. HeapInv => Exact
  <2>. SUFFICES ASSUME HeapInv, NEW size \in Sizes
                PROVE  /\ AllocFails(size) =>
                            \A a \in HeapStart..(heapEnd - size) : ~Vacant(a, a + size)
                       /\ AllocFits(size) =>
                            /\ Vacant(result', result' + size)
                            /\ \A a \in HeapStart..(result' - 1) : ~Vacant(a, a + size)
    OBVIOUS
  <2>1. /\ size \in Nat \ {0} /\ HeapStart \in Nat /\ heapEnd \in Nat
        /\ Tiles(blocks, HeapStart, heapEnd) /\ UsedIn(blocks) = active /\ Alternates(blocks)
    BY SizesAreSizes, HeapAssumption, BlocksInOrder DEF HeapInv
  <2>2. ASSUME AllocFails(size), NEW a \in HeapStart..(heapEnd - size)
        PROVE  ~Vacant(a, a + size)
    <3>1. Fitting(blocks, size) = {}
      BY <2>2 DEF AllocFails, TooSmall
    <3>2. a \in Int /\ HeapStart <= a /\ a + size <= heapEnd
      BY <2>1
    <3>. QED
      BY <2>1, <3>1, <3>2, NothingBelowFits
  <2>3. ASSUME AllocFits(size)
        PROVE  /\ Vacant(result', result' + size)
               /\ \A a \in HeapStart..(result' - 1) : ~Vacant(a, a + size)
    <3>1. PICK bs : /\ Tiles(bs, HeapStart, heapEnd) /\ UsedIn(bs) = active
                    /\ Alternates(bs) /\ Take(bs, size)
      BY <2>3, AllocFitsTakes
    <3>2. PICK i \in 1 .. Len(bs) : /\ bs[i].free /\ bs[i].size >= size
                                    /\ result' = bs[i].start
                                    /\ \A j \in Fitting(bs, size) : i <= j
      BY <2>1, <3>1, TakeProperties
    <3>3. /\ bs[i].size \in Nat /\ bs[i].start \in Nat /\ size <= bs[i].size
          /\ bs[i].start + bs[i].size <= heapEnd
      <4>1. bs[i].size \in Nat /\ bs[i].start \in Nat
        BY <3>1, TilesTypes, BlockFields
      <4>2. End(bs[i]) <= heapEnd
        BY <3>1, BlocksInOrder
      <4>. QED
        BY <2>1, <3>2, <4>1, <4>2 DEF End
    <3>4. Vacant(result', result' + size)
      BY <2>1, <3>1, <3>2, <3>3, FreeIsVacant
    <3>5. ASSUME NEW a \in HeapStart..(result' - 1) PROVE ~Vacant(a, a + size)
      <4>1. a \in Int /\ HeapStart <= a /\ a < bs[i].start
        BY <2>1, <3>2, <3>3
      <4>2. a + size <= heapEnd
        BY <2>1, <3>3, <4>1
      <4>3. ASSUME NEW j \in Fitting(bs, size) PROVE ~ (bs[j].start <= a)
        <5>1. j \in 1 .. Len(bs) /\ i <= j
          BY <3>1, <3>2, TilesTypes DEF Fitting
        <5>2. bs[i].start <= bs[j].start /\ bs[j].start \in Nat
          <6>1. /\ bs[j].start \in Nat
                /\ End(bs[i]) \in Nat /\ bs[i].start < End(bs[i])
            BY <3>1, <5>1, TilesTypes, BlockFields
          <6>2. CASE i = j
            BY <3>3, <6>2
          <6>3. CASE i < j
            <7>1. End(bs[i]) <= bs[j].start
              BY <3>1, <5>1, <6>3, BlocksInOrder
            <7>. QED
              BY <3>3, <6>1, <7>1
          <6>. QED
            BY <5>1, <6>1, <6>2, <6>3
        <5>. QED
          BY <3>3, <4>1, <5>2
      <4>. QED
        BY <2>1, <3>1, <4>1, <4>2, <4>3, NothingBelowFits
    <3>. QED
      BY <3>4, <3>5
  <2>. QED
    BY <2>2, <2>3
<1>2. Spec => [][Exact]_vars
  <2>. HIDE DEF Exact
  <2>. QED
    BY HeapInvHolds, <1>1, PTL
<1>. QED
  BY <1>2 DEF FirstFitIsExact

(* What an allocation takes lies in the heap, apart from the others.       *)
LEMMA TakeAllocates ==
  ASSUME NEW bs, Tiles(bs, HeapStart, heapEnd'), UsedIn(bs) = active,
         NEW size \in Sizes, Take(bs, size),
         heapEnd \in Nat, heapEnd' \in heapEnd .. MaxEnd
  PROVE  Service!Next
<1>1. size \in Nat \ {0} /\ HeapStart \in Nat /\ MaxEnd \in Nat
  BY SizesAreSizes, HeapAssumption
<1>2. PICK i \in 1 .. Len(bs) : bs[i].free /\ bs[i].size >= size /\ result' = bs[i].start
  BY <1>1, TakeProperties
<1>3. active' = active \cup {<<result', size>>}
  BY <1>1, TakeProperties
<1>4. /\ bs[i].start \in Nat /\ bs[i].size \in Nat /\ End(bs[i]) = bs[i].start + bs[i].size
      /\ HeapStart <= bs[i].start /\ End(bs[i]) <= heapEnd' /\ heapEnd' \in Nat
  BY TilesTypes, BlockFields, BlocksInOrder DEF End
<1>5. Vacant(result', result' + size)
  BY <1>1, <1>2, <1>4, FreeIsVacant
<1>6. \A x \in active : Service!Apart(result', size, x[1], x[2])
  BY <1>5 DEF Vacant, Service!Apart
<1>7. result' \in Nat /\ HeapStart <= result' /\ result' + size <= heapEnd' /\ result' <= MaxEnd
  BY <1>1, <1>2, <1>4
<1>8. result' \in HeapStart .. MaxEnd
  BY <1>1, <1>7
<1>9. Service!Allocate(result', size)
  BY <1>3, <1>6, <1>7 DEF Service!Allocate
<1>. QED
  BY <1>8, <1>9 DEF Service!Next

(* The allocator is a heap as HeapService promises it: an address is given *)
(* only where no allocation in use is, and inside the heap.                *)
THEOREM HeapImplementsService == Spec => ImplementsHeapService
<1>1. Init => Service!Init
  BY DEF Init, Service!Init
<1>2. HeapInv /\ [Next]_vars => [Service!Next]_Service!heapServiceVars
  <2>. SUFFICES ASSUME HeapInv, [Next]_vars
                PROVE  [Service!Next]_Service!heapServiceVars
    OBVIOUS
  <2>1. ASSUME NEW size \in Sizes, AllocFits(size) PROVE Service!Next
    <3>1. heapEnd' = heapEnd /\ heapEnd \in Nat /\ heapEnd <= MaxEnd
      BY <2>1, BlocksInOrder DEF AllocFits, HeapInv
    <3>2. heapEnd' \in heapEnd .. MaxEnd
      BY <3>1, HeapAssumption
    <3>3. PICK bs : Tiles(bs, HeapStart, heapEnd) /\ UsedIn(bs) = active /\ Take(bs, size)
      BY <2>1, AllocFitsTakes
    <3>. QED
      BY <3>1, <3>2, <3>3, TakeAllocates
  <2>2. ASSUME NEW size \in Sizes, AllocGrows(size) PROVE Service!Next
    BY <2>2, AllocGrowsTakes, TakeAllocates
  <2>3. ASSUME NEW size \in Sizes, AllocFails(size) PROVE UNCHANGED Service!heapServiceVars
    BY <2>3 DEF AllocFails, Service!heapServiceVars
  <2>4. ASSUME NEW x \in active, Free(x) PROVE Service!Next
    BY <2>4 DEF Free, Service!Release, Service!Next
  <2>5. CASE UNCHANGED vars
    BY <2>5 DEF vars, Service!heapServiceVars
  <2>. QED
    BY <2>1, <2>2, <2>3, <2>4, <2>5 DEF Next
<1>. QED
  BY HeapInvHolds, <1>1, <1>2, PTL DEF Spec, ImplementsHeapService, Service!Spec

=============================================================================
