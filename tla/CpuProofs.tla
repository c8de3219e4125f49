----------------------------- MODULE CpuProofs -----------------------------
(***************************************************************************)
(* What Cpu promises, whatever the programs, the size of words and pages   *)
(* and the answers of the kernel are.                                      *)
(*                                                                         *)
(* First the words: quotients and remainders, bytes written and read back. *)
(* Then the instructions, each of which takes a state of a process to a    *)
(* state of a process, and what the loader leaves in its memory.  With     *)
(* these, context switches are invisible, by where the context of each     *)
(* process is: in the CPU while it runs, in its PCB while it does not, and *)
(* of no process between two slices.  On top of that, the four properties  *)
(* of what a process computes: its types, the source it reads, the         *)
(* registers it names, the stack it keeps.                                 *)
(*                                                                         *)
(* Of PriorityQueueProofs it takes counting up to a bound and the loops.   *)
(***************************************************************************)
EXTENDS Cpu, PriorityQueueProofs

(* A record with the fields of the state of a process and no others.       *)
IsMachine(s) ==
  s = [reg |-> s.reg, zero |-> s.zero, sign |-> s.sign, mem |-> s.mem]

IsContext(c) == c = [reg |-> c.reg, zero |-> c.zero, sign |-> c.sign]

-----------------------------------------------------------------------------
(***************************************************************************)
(* Quotients and remainders                                                *)
(***************************************************************************)

LEMMA Division ==
  ASSUME NEW x \in Int, NEW b \in Nat \ {0}
  PROVE  /\ x \div b \in Int /\ x % b \in 0..(b - 1)
         /\ x = b * (x \div b) + (x % b)
OBVIOUS

LEMMA Divided ==
  ASSUME NEW x \in Int, NEW b \in Nat \ {0}, NEW q \in Int, NEW r \in 0..(b - 1),
         x = b * q + r
  PROVE  x \div b = q /\ x % b = r
<1>. DEFINE d == (x \div b) - q
<1>1. /\ x \div b \in Int /\ x % b \in 0..(b - 1) /\ d \in Int
      /\ x = b * (x \div b) + (x % b)
  BY Division
<1>2. b * d = r - (x % b)
  BY <1>1
<1>3. -b < b * d /\ b * d < b
  BY <1>1, <1>2
<1>4. ASSUME d >= 1 PROVE FALSE
  BY <1>1, <1>3, <1>4
<1>5. ASSUME d <= -1 PROVE FALSE
  BY <1>1, <1>3, <1>5
<1>6. d = 0
  BY <1>1, <1>4, <1>5
<1>. QED
  BY <1>1, <1>6

(* A quotient, as a term that the provers find. *)
Over(x, b) == x \div b

(* Digits may be taken off several at a time. *)
LEMMA DividedTwice ==
  ASSUME NEW x \in Int, NEW b \in Nat \ {0}, NEW c \in Nat \ {0}
  PROVE  Over(Over(x, b), c) = Over(x, b * c)
<1>. DEFINE q == x \div b
            p == q \div c
            r == x % b
            s == q % c
<1>1. q \in Int /\ r \in 0..(b - 1) /\ x = b * q + r
  BY Division
<1>2. p \in Int /\ s \in 0..(c - 1) /\ q = c * p + s
  BY <1>1, Division
<1>. HIDE DEF q, p, r, s
<1>3. b * c \in Nat \ {0}
  OBVIOUS
<1>4. x = (b * c) * p + (b * s + r)
  BY <1>1, <1>2
<1>5. b * s + r \in 0..(b * c - 1)
  <2>1. b * s \in Nat /\ b * s <= b * (c - 1)
    BY <1>2
  <2>2. b * (c - 1) = b * c - b
    OBVIOUS
  <2>. QED  BY <1>1, <2>1, <2>2
<1>6. x \div (b * c) = p
  BY <1>2, <1>3, <1>4, <1>5, Divided
<1>. QED
  BY <1>6 DEF p, q, Over

-----------------------------------------------------------------------------
(***************************************************************************)
(* Words                                                                   *)
(***************************************************************************)

LEMMA PowerDef ==
  /\ Power[0] = 1
  /\ \A n \in 1..WordBytes : Power[n] = Base * Power[n - 1]
  /\ \A n \in 0..WordBytes : Power[n] \in Nat \ {0}
<1>. DEFINE W == WordBytes
            X == Nat \ {0}
            step == [n \in 1..W |-> [x \in X |-> Base * x]]
            Round(f) == [n \in 0..W |-> IF n = 0 THEN 1 ELSE Base * f[n - 1]]
<1>1. W \in Nat /\ Base \in Nat \ {0}
  BY WordAssumption
<1>2. step \in [1..W -> [X -> X]]
  BY <1>1
<1>3. PICK f \in [0..W -> X] : f[0] = 1 /\ \A n \in 1..W : f[n] = step[n][f[n - 1]]
  <2>1. 1 \in X /\ W \in Nat
    BY <1>1
  <2>. HIDE DEF step, X, W
  <2>. QED  BY ONLY <1>2, <2>1, LoopExists
<1>4. \A n \in 1..W : f[n] = Base * f[n - 1]
  <2>1. \A n \in 1..W : n - 1 \in 0..W
    BY <1>1
  <2>. QED  BY <1>3, <2>1
<1>5. f = Round(f)
  BY <1>1, <1>3, <1>4
<1>6. Power = Round(Power)
  BY <1>5 DEF Power
<1>7. Power[0] = 1 /\ \A n \in 1..W : Power[n] = Base * Power[n - 1]
  <2>1. \A n \in 0..W : Power[n] = Round(Power)[n]
    BY <1>6
  <2>2. \A n \in 0..W : Round(Power)[n] = IF n = 0 THEN 1 ELSE Base * Power[n - 1]
    OBVIOUS
  <2>. HIDE DEF Round
  <2>. QED  BY <1>1, <2>1, <2>2
<1>8. \A n \in 0..W : Power[n] \in Nat \ {0}
  <2>. DEFINE T == {n \in 0..W : Power[n] \in Nat \ {0}}
  <2>1. 0 \in T /\ \A n \in 1..W : n - 1 \in T => n \in T
    <3>1. \A x \in Nat \ {0} : Base * x \in Nat \ {0}
      BY <1>1
    <3>2. 0 \in T
      BY <1>1, <1>7
    <3>3. ASSUME NEW n \in 1..W, n - 1 \in T  PROVE n \in T
      <4>1. Power[n] = Base * Power[n - 1] /\ Power[n - 1] \in Nat \ {0} /\ n \in 0..W
        BY <1>1, <1>7, <3>3
      <4>. QED  BY <3>1, <4>1
    <3>. QED  BY <3>2, <3>3
  <2>. HIDE DEF T
  <2>2. T = 0..W
    BY <1>1, <2>1, UpTo DEF T
  <2>. QED  BY <2>2 DEF T
<1>. QED
  BY <1>7, <1>8

LEMMA WordCountType == WordCount \in Nat \ {0} /\ WordBytes \in Nat \ {0} /\ Base \in Nat \ {0}
BY WordAssumption, PowerDef DEF WordCount

LEMMA BytesOfWords ==
  ASSUME NEW v \in Int, NEW n \in 0..(WordBytes - 1)
  PROVE  WordByte(v, n) \in Byte
<1>1. v % WordCount \in Int /\ Power[WordBytes - 1 - n] \in Nat \ {0}
  BY WordCountType, PowerDef, Division
<1>2. (v % WordCount) \div Power[WordBytes - 1 - n] \in Int
  BY <1>1, Division
<1>. QED
  BY <1>2, WordCountType, Division DEF WordByte, Byte

(* read_int, one byte per round. *)
LEMMA ReadRounds ==
  ASSUME NEW m, NEW a \in Int, \A n \in 0..(WordBytes - 1) : m[a + n] \in Int
  PROVE  \E f \in [0..WordBytes -> Int] :
           /\ f[0] = 0
           /\ \A n \in 1..WordBytes : f[n] = Base * f[n - 1] + m[a + n - 1]
           /\ Word(m, a) = Signed(f[WordBytes])
<1>. DEFINE W == WordBytes
            step == [n \in 1..W |-> [x \in Int |-> Base * x + m[a + n - 1]]]
            Round(f) == [n \in 0..W |-> IF n = 0 THEN 0 ELSE Base * f[n - 1] + m[a + n - 1]]
            read == CHOOSE f : f = Round(f)
<1>1. W \in Nat /\ Base \in Nat
  BY WordAssumption
<1>2. step \in [1..W -> [Int -> Int]]
  <2>1. \A n \in 1..W : n - 1 \in 0..(W - 1) /\ a + (n - 1) = a + n - 1
    BY <1>1
  <2>2. \A n \in 1..W : m[a + n - 1] \in Int
    BY <2>1
  <2>. QED  BY <1>1, <2>2
<1>3. PICK f \in [0..W -> Int] : f[0] = 0 /\ \A n \in 1..W : f[n] = step[n][f[n - 1]]
  <2>. DEFINE X == Int
              start == 0
  <2>1. start \in X /\ W \in Nat
    BY <1>1
  <2>2. step \in [1..W -> [X -> X]]
    BY <1>2
  <2>. HIDE DEF step, W, X, start
  <2>3. \E f \in [0..W -> X] : f[0] = start /\ \A n \in 1..W : f[n] = step[n][f[n - 1]]
    BY ONLY <2>1, <2>2, LoopExists
  <2>. QED  BY <2>3 DEF X, start
<1>4. \A n \in 1..W : n - 1 \in 0..W /\ f[n] = Base * f[n - 1] + m[a + n - 1]
  <2>1. \A n \in 1..W : n - 1 \in 0..W
    BY <1>1
  <2>. QED  BY <1>3, <2>1
<1>5. f = Round(f)
  BY <1>1, <1>3, <1>4
<1>6. read = Round(read)
  BY <1>5
<1>7. Word(m, a) = Signed(read[W])
  BY DEF Word
<1>. HIDE DEF read
<1>8. /\ read[0] = 0
      /\ \A n \in 1..W : read[n] = Base * read[n - 1] + m[a + n - 1]
  <2>1. \A n \in 0..W : read[n] = Round(read)[n]
    BY <1>6
  <2>2. \A n \in 0..W : Round(read)[n] = IF n = 0 THEN 0 ELSE Base * read[n - 1] + m[a + n - 1]
    OBVIOUS
  <2>. HIDE DEF Round
  <2>. QED  BY <1>1, <2>1, <2>2
<1>9. \A n \in 0..W : read[n] = f[n]
  <2>. DEFINE T == {n \in 0..W : read[n] = f[n]}
  <2>1. 0 \in T /\ \A n \in 1..W : n - 1 \in T => n \in T
    BY <1>1, <1>3, <1>4, <1>8
  <2>. HIDE DEF T
  <2>2. T = 0..W
    BY <1>1, <2>1, UpTo DEF T
  <2>. QED  BY <2>2 DEF T
<1>10. Word(m, a) = Signed(f[W])
  BY <1>1, <1>7, <1>9
<1>. QED
  BY <1>3, <1>4, <1>10

LEMMA WordIsInt ==
  ASSUME NEW m, NEW a \in Int, \A n \in 0..(WordBytes - 1) : m[a + n] \in Int
  PROVE  Word(m, a) \in Int
<1>1. PICK f \in [0..WordBytes -> Int] : Word(m, a) = Signed(f[WordBytes])
  BY ReadRounds
<1>. QED
  BY <1>1, WordCountType, Division DEF Signed

(* A word is its bytes and nothing else. *)
LEMMA SameBytes ==
  ASSUME NEW m, NEW o, NEW a \in Int,
         \A n \in 0..(WordBytes - 1) : m[a + n] \in Int /\ o[a + n] = m[a + n]
  PROVE  Word(o, a) = Word(m, a)
<1>1. PICK f \in [0..WordBytes -> Int] :
        /\ f[0] = 0
        /\ \A n \in 1..WordBytes : f[n] = Base * f[n - 1] + m[a + n - 1]
        /\ Word(m, a) = Signed(f[WordBytes])
  BY ReadRounds
<1>2. PICK g \in [0..WordBytes -> Int] :
        /\ g[0] = 0
        /\ \A n \in 1..WordBytes : g[n] = Base * g[n - 1] + o[a + n - 1]
        /\ Word(o, a) = Signed(g[WordBytes])
  <2>1. \A n \in 0..(WordBytes - 1) : o[a + n] \in Int
    OBVIOUS
  <2>. QED  BY <2>1, ReadRounds
<1>3. \A n \in 1..WordBytes : o[a + n - 1] = m[a + n - 1]
  <2>1. \A n \in 1..WordBytes : n - 1 \in 0..(WordBytes - 1) /\ a + (n - 1) = a + n - 1
    BY WordCountType
  <2>. QED  BY <2>1
<1>. DEFINE T == {n \in 0..WordBytes : g[n] = f[n]}
<1>4. 0 \in T /\ \A n \in 1..WordBytes : n - 1 \in T => n \in T
  <2>1. \A n \in 1..WordBytes : g[n - 1] = f[n - 1] => g[n] = f[n]
    BY <1>1, <1>2, <1>3
  <2>. QED  BY <1>1, <1>2, <2>1, WordCountType
<1>. HIDE DEF T
<1>5. T = 0..WordBytes
  BY <1>4, WordCountType, UpTo DEF T
<1>6. g[WordBytes] = f[WordBytes]
  <2>1. WordBytes \in T
    BY <1>5, WordCountType
  <2>. QED  BY <2>1 DEF T
<1>. QED
  BY <1>1, <1>2, <1>6

(* What write_int writes, read_int reads: the value, as two's complement.  *)
LEMMA WordOfBytes ==
  ASSUME NEW m, NEW a \in Int, NEW v \in Int,
         \A n \in 0..(WordBytes - 1) : m[a + n] = WordByte(v, n)
  PROVE  Word(m, a) = Signed(v % WordCount)
<1>. DEFINE W == WordBytes
            x == v % WordCount
            digits(n) == x \div Power[W - n]
<1>1. W \in Nat \ {0} /\ Base \in Nat \ {0} /\ x \in 0..(WordCount - 1) /\ WordCount \in Nat
  BY WordCountType, Division
<1>. HIDE DEF x
<1>2. \A n \in 0..(W - 1) : m[a + n] \in Int
  BY BytesOfWords, WordCountType DEF Byte
<1>3. PICK f \in [0..W -> Int] :
        /\ f[0] = 0
        /\ \A n \in 1..W : f[n] = Base * f[n - 1] + m[a + n - 1]
        /\ Word(m, a) = Signed(f[W])
  BY <1>2, ReadRounds
<1>4. digits(0) = 0 /\ digits(W) = x
  <2>1. W - 0 = W /\ W - W = 0 /\ Power[W] = WordCount /\ Power[0] = 1
    BY <1>1, PowerDef DEF WordCount
  <2>2. x \div WordCount = 0
    BY <1>1, WordCountType, Divided
  <2>3. x \div 1 = x
    BY <1>1
  <2>. QED  BY <2>1, <2>2, <2>3
<1>5. ASSUME NEW n \in 1..W PROVE digits(n) = Base * digits(n - 1) + m[a + n - 1]
  <2>. DEFINE k == W - n
              P == Power[k]
              Q == Power[k + 1]
              y == x \div P
  <2>1. /\ k \in 0..W /\ k + 1 \in 1..W /\ (k + 1) - 1 = k /\ W - (n - 1) = k + 1
        /\ n - 1 \in 0..(W - 1) /\ a + (n - 1) = a + n - 1 /\ W - 1 - (n - 1) = k
    BY <1>1
  <2>2. P \in Nat \ {0} /\ Q = Base * P
    BY <2>1, PowerDef
  <2>3. m[a + n - 1] = y % Base
    <3>1. m[a + (n - 1)] = WordByte(v, n - 1)
      BY <2>1
    <3>2. WordByte(v, n - 1) = (x \div Power[k]) % Base
      BY <2>1 DEF WordByte, x
    <3>. QED  BY <2>1, <3>1, <3>2
  <2>4. digits(n) = y /\ digits(n - 1) = x \div Q
    BY <2>1
  <2>5. x \in Int /\ Base \in Nat \ {0}
    BY <1>1
  <2>. HIDE DEF k, P, Q, digits
  <2>6. Over(Over(x, P), Base) = Over(x, P * Base)
    BY ONLY <2>2, <2>5, DividedTwice
  <2>7. P * Base = Q
    BY <2>2, <2>5
  <2>8. y \in Int /\ y \div Base = x \div Q
    BY <2>2, <2>5, <2>6, <2>7, Division DEF Over
  <2>. HIDE DEF y
  <2>9. y = Base * (y \div Base) + (y % Base)
    BY ONLY <2>5, <2>8, Division
  <2>. QED  BY <2>3, <2>4, <2>8, <2>9
<1>6. f[W] = x
  <2>. DEFINE T == {n \in 0..W : f[n] = digits(n)}
  <2>. HIDE DEF digits
  <2>1. 0 \in T /\ \A n \in 1..W : n - 1 \in T => n \in T
    BY <1>1, <1>3, <1>4, <1>5
  <2>. HIDE DEF T
  <2>2. T = 0..W
    BY <1>1, <2>1, UpTo DEF T
  <2>. QED  BY <1>1, <1>4, <2>2 DEF T
<1>. QED
  BY <1>3, <1>6 DEF x

LEMMA SignedFits ==
  ASSUME NEW v \in Int, -(WordCount \div 2) <= v, v < WordCount \div 2
  PROVE  Signed(v % WordCount) = v
<1>. DEFINE h == WordCount \div 2
<1>1. WordCount \in Nat \ {0} /\ h \in Nat /\ h + h <= WordCount
  BY WordCountType
<1>2. CASE v >= 0
  <2>1. v % WordCount = v
    BY <1>1, <1>2, Divided
  <2>. QED  BY <2>1 DEF Signed
<1>3. CASE v < 0
  <2>1. v + WordCount \in 0..(WordCount - 1) /\ v = WordCount * (-1) + (v + WordCount)
    BY <1>1, <1>3
  <2>2. v % WordCount = v + WordCount
    BY <1>1, <2>1, Divided
  <2>. QED  BY <1>1, <2>2 DEF Signed
<1>. QED
  BY <1>2, <1>3

-----------------------------------------------------------------------------
(***************************************************************************)
(* Instructions                                                            *)
(***************************************************************************)

LEMMA ChangesKeepMachines ==
  ASSUME NEW s, IsMachine(s)
  PROVE  /\ IsMachine(Down(s)) /\ IsMachine(Up(s))
         /\ \A n, v : IsMachine(With(s, n, v))
         /\ \A a, v : IsMachine(PutWord(s, a, v))
         /\ \A x, y : IsMachine(Compared(s, x, y))
         /\ \A a : IsMachine(GoTo(s, a))
<1>1. IsMachine(Down(s)) /\ IsMachine(Up(s))
  BY DEF IsMachine, Down, Up
<1>2. ASSUME NEW n, NEW v PROVE IsMachine(With(s, n, v))
  BY DEF IsMachine, With
<1>3. ASSUME NEW a, NEW v PROVE IsMachine(PutWord(s, a, v))
  BY DEF IsMachine, PutWord
<1>4. ASSUME NEW x, NEW y PROVE IsMachine(Compared(s, x, y))
  <2>1. \A b : IsMachine([s EXCEPT !.zero = b])
    BY DEF IsMachine
  <2>2. \A t, c : IsMachine(t) => IsMachine([t EXCEPT !.sign = c])
    BY DEF IsMachine
  <2>3. IsMachine([s EXCEPT !.zero = (x = y)])
    BY <2>1, Zenon
  <2>. QED
    BY <2>2, <2>3, Zenon DEF Compared
<1>5. ASSUME NEW a PROVE IsMachine(GoTo(s, a))
  BY DEF IsMachine, GoTo
<1>. QED
  BY <1>1, <1>2, <1>3, <1>4, <1>5

LEMMA PushedIsMachine ==
  ASSUME NEW s, IsMachine(s), NEW v
  PROVE  IsMachine(Pushed(s, v))
<1>1. IsMachine(Down(s))
  BY ChangesKeepMachines
<1>. QED
  BY <1>1, ChangesKeepMachines DEF Pushed

LEMMA ComputedIsMachine ==
  ASSUME NEW s, IsMachine(s), NEW i
  PROVE  IsMachine(Computed(s, i))
<1>1. \A v : IsMachine(Pushed(s, v))
  BY PushedIsMachine
<1>2. \A n, v : IsMachine(With(s, n, v)) /\ IsMachine(PutWord(s, n, v))
                /\ IsMachine(Compared(s, n, v))
  BY ChangesKeepMachines
<1>3. \A n, v : IsMachine(Up(With(s, n, v))) /\ IsMachine(Up(PutWord(s, n, v)))
  BY <1>2, ChangesKeepMachines
<1>. QED
  BY <1>1, <1>2, <1>3 DEF Computed

LEMMA JumpedIsMachine ==
  ASSUME NEW s, IsMachine(s), NEW i, Taken(s, i.op)
  PROVE  IsMachine(Jumped(s, i))
<1>1. \A a : IsMachine(GoTo(s, a))
  BY ChangesKeepMachines
<1>2. \A a : IsMachine(GoTo(Up(s), a))
  BY ChangesKeepMachines
<1>3. \A v, a : IsMachine(GoTo(Pushed(s, v), a))
  BY PushedIsMachine, ChangesKeepMachines
<1>. QED
  BY <1>1, <1>2, <1>3 DEF Jumped, Taken

LEMMA ExecutedIsMachine ==
  ASSUME NEW s, IsMachine(s), NEW i, NEW v
  PROVE  IsMachine(Executed(s, i, v))
<1>1. CASE Taken(s, i.op)
  BY <1>1, JumpedIsMachine DEF Executed
<1>2. CASE ~ Taken(s, i.op)
  <2>1. IsMachine(Answered(s, i, v))
    BY ChangesKeepMachines DEF Answered
  <2>2. IsMachine(Computed(s, i))
    BY ComputedIsMachine
  <2>3. \A t : IsMachine(t) => IsMachine(Advanced(t))
    BY ChangesKeepMachines DEF Advanced
  <2>. QED
    BY <1>2, <2>1, <2>2, <2>3 DEF Executed
<1>. QED
  BY <1>1, <1>2

-----------------------------------------------------------------------------
(***************************************************************************)
(* The types of what instructions leave                                    *)
(***************************************************************************)

(* The state of a process whose memory ends at top.                        *)
Typed(s, top) ==
  /\ s.reg \in [Registers -> Int]
  /\ s.zero \in BOOLEAN /\ s.sign \in BOOLEAN
  /\ s.mem \in [0..(top - 1) -> Byte]

LEMMA RegistersAre ==
  /\ IP \in Registers /\ PID \in Registers /\ SP \in Registers /\ Global \in Registers
  /\ IP # SP /\ InstructionSize \in Nat /\ InstructionSize = 3 * WordBytes
  /\ \A n : Indexable(n) => Index(n) \in Registers
BY WordCountType DEF IP, PID, SP, Global, Registers, InstructionSize, Indexable, Index

LEMMA MappedBytes ==
  ASSUME NEW top \in Int, NEW m \in [0..(top - 1) -> Byte], NEW a \in Int, Mapped(m, a)
  PROVE  \A n \in 0..(WordBytes - 1) : a + n \in 0..(top - 1) /\ m[a + n] \in Int
<1>1. \A n \in 0..(WordBytes - 1) : a + n \in a..(a + WordBytes - 1)
  BY WordCountType
<1>2. \A n \in 0..(WordBytes - 1) : a + n \in 0..(top - 1)
  BY <1>1 DEF Mapped
<1>3. \A n \in 0..(WordBytes - 1) : m[a + n] \in Byte
  BY <1>2
<1>4. Byte \subseteq Int
  BY DEF Byte
<1>. HIDE DEF Byte
<1>. QED
  BY <1>2, <1>3, <1>4

LEMMA MappedWord ==
  ASSUME NEW top \in Int, NEW m \in [0..(top - 1) -> Byte], NEW a \in Int, Mapped(m, a)
  PROVE  Word(m, a) \in Int
BY MappedBytes, WordIsInt

LEMMA StoredType ==
  ASSUME NEW top \in Int, NEW m \in [0..(top - 1) -> Byte], NEW a \in Int, NEW v \in Int
  PROVE  Stored(m, a, v) \in [0..(top - 1) -> Byte]
<1>1. ASSUME NEW b \in 0..(top - 1), b \in a..(a + WordBytes - 1)
      PROVE  WordByte(v, b - a) \in Byte
  <2>1. b - a \in 0..(WordBytes - 1)
    BY <1>1, WordCountType
  <2>. QED  BY <2>1, BytesOfWords
<1>2. \A b \in 0..(top - 1) : m[b] \in Byte
  OBVIOUS
<1>. DEFINE new(b) == IF b \in a..(a + WordBytes - 1) THEN WordByte(v, b - a) ELSE m[b]
<1>3. \A b \in 0..(top - 1) : new(b) \in Byte
  BY <1>1, <1>2
<1>4. Stored(m, a, v) = [b \in 0..(top - 1) |-> new(b)]
  BY DEF Stored
<1>. HIDE DEF new
<1>. QED
  BY <1>3, <1>4

LEMMA ChangesTyped ==
  ASSUME NEW top \in Int, NEW s, Typed(s, top)
  PROVE  /\ \A n, v : v \in Int => Typed(With(s, n, v), top)
         /\ \A a \in Int, v \in Int : Typed(PutWord(s, a, v), top)
         /\ \A x, y : Typed(Compared(s, x, y), top)
         /\ \A a \in Int : Typed(GoTo(s, a), top)
         /\ Typed(Down(s), top) /\ Typed(Up(s), top)
         /\ \A n : Indexable(n) => Reg(s, n) \in Int
<1>0. \A f \in [Registers -> Int] : \A n : \A v \in Int : [f EXCEPT ![n] = v] \in [Registers -> Int]
  OBVIOUS
<1>. DEFINE new(f) == [s EXCEPT !.reg = f]
<1>a. ASSUME NEW f \in [Registers -> Int] PROVE Typed(new(f), top)
  BY DEF Typed
<1>1. ASSUME NEW n, NEW v \in Int PROVE Typed(With(s, n, v), top)
  <2>. DEFINE f == [s.reg EXCEPT ![Index(n)] = v]
  <2>1. f \in [Registers -> Int]
    BY <1>0 DEF Typed
  <2>2. With(s, n, v) = new(f)
    BY DEF With
  <2>. HIDE DEF f, new
  <2>. QED  BY <1>a, <2>1, <2>2
<1>2. ASSUME NEW a \in Int, NEW v \in Int PROVE Typed(PutWord(s, a, v), top)
  BY StoredType DEF Typed, PutWord
<1>3. ASSUME NEW x, NEW y PROVE Typed(Compared(s, x, y), top)
  <2>1. (x = y) \in BOOLEAN /\ (x < y) \in BOOLEAN
    OBVIOUS
  <2>2. /\ Compared(s, x, y).reg = s.reg /\ Compared(s, x, y).mem = s.mem
    BY DEF Compared
  <2>. QED  BY <2>1, <2>2 DEF Typed, Compared
<1>4. ASSUME NEW a \in Int PROVE Typed(GoTo(s, a), top)
  <2>. DEFINE f == [s.reg EXCEPT ![IP] = a]
  <2>1. f \in [Registers -> Int]
    BY <1>0 DEF Typed
  <2>2. GoTo(s, a) = new(f)
    BY DEF GoTo
  <2>. HIDE DEF f, new
  <2>. QED  BY <1>a, <2>1, <2>2
<1>5. Typed(Down(s), top) /\ Typed(Up(s), top)
  <2>. DEFINE f == [s.reg EXCEPT ![SP] = @ - WordBytes]
              g == [s.reg EXCEPT ![SP] = @ + WordBytes]
  <2>1. s.reg[SP] - WordBytes \in Int /\ s.reg[SP] + WordBytes \in Int
    BY RegistersAre, WordCountType DEF Typed
  <2>2. f \in [Registers -> Int] /\ g \in [Registers -> Int]
    BY <1>0, <2>1 DEF Typed
  <2>3. Down(s) = new(f) /\ Up(s) = new(g)
    BY DEF Down, Up
  <2>. HIDE DEF f, g, new
  <2>. QED  BY <1>a, <2>2, <2>3
<1>6. ASSUME NEW n, Indexable(n) PROVE Reg(s, n) \in Int
  BY <1>6, RegistersAre DEF Typed, Reg
<1>. QED
  BY <1>1, <1>2, <1>3, <1>4, <1>5, <1>6

LEMMA FetchedTyped ==
  ASSUME NEW top \in Int, NEW s, Typed(s, top), Fetchable(s)
  PROVE  /\ Fetched(s).a1 \in Int /\ Fetched(s).a2 \in Int
         /\ s.reg[IP] \in 0..(top - InstructionSize)
<1>1. s.reg[IP] \in Int
  BY RegistersAre DEF Typed
<1>2. \A k \in 0..2 : Mapped(s.mem, s.reg[IP] + k * WordBytes)
  BY DEF Fetchable
<1>3. Mapped(s.mem, s.reg[IP]) /\ Mapped(s.mem, s.reg[IP] + WordBytes)
      /\ Mapped(s.mem, s.reg[IP] + 2 * WordBytes)
  <2>1. /\ s.reg[IP] + 0 * WordBytes = s.reg[IP]
        /\ s.reg[IP] + 1 * WordBytes = s.reg[IP] + WordBytes
    BY <1>1, WordCountType
  <2>. QED  BY <1>2, <2>1
<1>4. s.mem \in [0..(top - 1) -> Byte]
  BY DEF Typed
<1>. DEFINE ip == s.reg[IP]
<1>5. Word(s.mem, ip + WordBytes) \in Int /\ Word(s.mem, ip + 2 * WordBytes) \in Int
  BY <1>1, <1>3, <1>4, WordCountType, MappedWord
<1>6. s.reg[IP] + 0 \in 0..(top - 1) /\ s.reg[IP] + 2 * WordBytes + (WordBytes - 1) \in 0..(top - 1)
  <2>1. 0 \in 0..(WordBytes - 1) /\ WordBytes - 1 \in 0..(WordBytes - 1)
        /\ s.reg[IP] + 2 * WordBytes \in Int
    BY <1>1, WordCountType
  <2>. QED  BY <1>1, <1>3, <1>4, <2>1, MappedBytes
<1>. QED
  BY <1>1, <1>5, <1>6, WordCountType, RegistersAre DEF Fetched

LEMMA Addresses ==
  ASSUME NEW s, NEW i
  PROVE  /\ i.op \in {"MOVMR", "MOVMM"} => FirstAddress(s, i) = {Reg(s, i.a2)}
         /\ i.op \in {"POPR", "POPM", "RET"} => FirstAddress(s, i) = {s.reg[SP]}
         /\ i.op \in Pushes => FirstAddress(s, i) = {Down(s).reg[SP]}
         /\ i.op = "CALLM" => NextAddress(s, i) = {Reg(Down(s), i.a1)}
<1>1. CASE i.op \in {"MOVMR", "MOVMM"}
  BY <1>1 DEF FirstAddress, NextAddress, Pops, Pushes
<1>2. CASE i.op \in {"POPR", "POPM", "RET"}
  BY <1>2 DEF FirstAddress, NextAddress, Pops, Pushes
<1>3. CASE i.op \in Pushes
  BY <1>3 DEF FirstAddress, NextAddress, Pops, Pushes
<1>4. CASE i.op \notin {"MOVMR", "MOVMM", "POPR", "POPM", "RET", "CALLM"} \cup Pushes
  BY <1>4
<1>. QED
  BY <1>1, <1>2, <1>3, <1>4 DEF Pushes

(* What Works says of the instruction i that is fetched.                   *)
Sound(s, i) ==
  /\ i.a1 \in Int /\ i.a2 \in Int
  /\ First(i) /\ (i.op \in {"JLT", "JGT", "JE"} => Taken(s, i.op)) => Indexable(i.a1)
  /\ Second(i) => Indexable(i.a2)
  /\ \A a \in FirstAddress(s, i) : Mapped(s.mem, a)
  /\ \A a \in NextAddress(s, i) : Mapped(s.mem, a)

LEMMA WorksMeans ==
  ASSUME NEW top \in Int, NEW s, Typed(s, top), Works(s)
  PROVE  Sound(s, Fetched(s))
<1>. DEFINE i == Fetched(s)
<1>1. Fault(s, i) = "none" /\ i.a1 \in Int /\ i.a2 \in Int
  BY FetchedTyped DEF Works
<1>. HIDE DEF i
<1>2. /\ ~ (BadFirst(s, i) /\ i.op \notin LateFirst) /\ ~ BadSecond(i)
      /\ \A a \in FirstAddress(s, i) : Mapped(s.mem, a)
      /\ ~ BadFirst(s, i)
      /\ \A a \in NextAddress(s, i) : Mapped(s.mem, a)
  BY <1>1 DEF Fault
<1>3. /\ First(i) /\ (i.op \in {"JLT", "JGT", "JE"} => Taken(s, i.op)) => Indexable(i.a1)
      /\ Second(i) => Indexable(i.a2)
  BY <1>2 DEF BadFirst, BadSecond
<1>. QED
  BY <1>1, <1>2, <1>3 DEF Sound, i

LEMMA PushedTyped ==
  ASSUME NEW top \in Int, NEW s, Typed(s, top), NEW v \in Int
  PROVE  Typed(Pushed(s, v), top)
<1>1. Typed(Down(s), top)
  BY ChangesTyped
<1>2. Down(s).reg[SP] \in Int
  BY <1>1, RegistersAre DEF Typed
<1>. QED
  BY <1>1, <1>2, ChangesTyped DEF Pushed

LEMMA ComputedTyped ==
  ASSUME NEW top \in Int, NEW s, Typed(s, top), NEW i, Sound(s, i)
  PROVE  Typed(Computed(s, i), top)
<1>1. /\ \A n, v : v \in Int => Typed(With(s, n, v), top)
      /\ \A a \in Int, v \in Int : Typed(PutWord(s, a, v), top)
      /\ \A x, y : Typed(Compared(s, x, y), top)
      /\ \A v \in Int : Typed(Pushed(s, v), top)
  BY ChangesTyped, PushedTyped
<1>2. i.op \in {"INCR", "ADDI", "ADDR", "MOVRM", "MOVMM", "POPM"} => Reg(s, i.a1) \in Int
  <2>1. i.op \in {"INCR", "ADDI", "ADDR", "MOVRM", "MOVMM", "POPM"} => Indexable(i.a1)
    BY DEF Sound, First
  <2>. QED  BY <2>1, ChangesTyped
<1>3. i.op \in {"ADDR", "MOVR", "MOVMR", "MOVRM", "MOVMM"} => Reg(s, i.a2) \in Int
  <2>1. i.op \in {"ADDR", "MOVR", "MOVMR", "MOVRM", "MOVMM"} => Indexable(i.a2)
    BY DEF Sound, Second
  <2>. QED  BY <2>1, ChangesTyped
<1>4. i.op \in {"MOVMR", "MOVMM"} => Word(s.mem, Reg(s, i.a2)) \in Int
  <2>1. i.op \in {"MOVMR", "MOVMM"} => Mapped(s.mem, Reg(s, i.a2))
    BY Addresses DEF Sound
  <2>. QED  BY <1>3, <2>1, MappedWord DEF Typed
<1>5. i.op \in {"POPR", "POPM"} => Word(s.mem, s.reg[SP]) \in Int
  <2>1. i.op \in {"POPR", "POPM"} => Mapped(s.mem, s.reg[SP])
    BY Addresses DEF Sound
  <2>2. s.reg[SP] \in Int
    BY RegistersAre DEF Typed
  <2>. QED  BY <2>1, <2>2, MappedWord DEF Typed
<1>6. i.op = "PUSHR" => Reg(Down(s), i.a1) \in Int
  <2>1. i.op = "PUSHR" => Indexable(i.a1)
    BY DEF Sound, First
  <2>2. Typed(Down(s), top)
    BY ChangesTyped
  <2>. QED  BY <2>1, <2>2, ChangesTyped
<1>7. i.a1 \in Int /\ i.a2 \in Int
  BY DEF Sound
<1>8. CASE i.op \in {"INCR", "ADDI", "ADDR", "MOVI", "MOVR", "MOVMR"}
  <2>1. i.op = "INCR" => Reg(s, i.a1) + 1 \in Int
    BY <1>2
  <2>2. i.op = "ADDI" => Reg(s, i.a1) + i.a2 \in Int
    BY <1>2, <1>7
  <2>3. i.op = "ADDR" => Reg(s, i.a1) + Reg(s, i.a2) \in Int
    BY <1>2, <1>3
  <2>. QED  BY <1>1, <1>3, <1>4, <1>7, <1>8, <2>1, <2>2, <2>3 DEF Computed
<1>9. CASE i.op \in {"MOVRM", "MOVMM", "PUSHR", "PUSHI"}
  BY <1>1, <1>2, <1>3, <1>4, <1>6, <1>7, <1>9 DEF Computed
<1>10. CASE i.op = "POPR"
  <2>. DEFINE t == With(s, i.a1, Word(s.mem, s.reg[SP]))
  <2>1. Typed(t, top)
    BY <1>1, <1>5, <1>10
  <2>2. Computed(s, i) = Up(t)
    BY <1>10 DEF Computed
  <2>. HIDE DEF t
  <2>. QED  BY <2>1, <2>2, ChangesTyped
<1>11. CASE i.op = "POPM"
  <2>. DEFINE t == PutWord(s, Reg(s, i.a1), Word(s.mem, s.reg[SP]))
  <2>1. Typed(t, top)
    BY <1>1, <1>2, <1>5, <1>11
  <2>2. Computed(s, i) = Up(t)
    BY <1>11 DEF Computed
  <2>. HIDE DEF t
  <2>. QED  BY <2>1, <2>2, ChangesTyped
<1>12. CASE i.op \in {"CMPI", "CMPR"}
  BY <1>1, <1>12 DEF Computed
<1>13. CASE i.op \notin {"INCR", "ADDI", "ADDR", "MOVI", "MOVR", "MOVMR", "MOVRM", "MOVMM",
                         "PUSHR", "PUSHI", "POPR", "POPM", "CMPI", "CMPR"}
  BY <1>13 DEF Computed
<1>. QED
  BY <1>8, <1>9, <1>10, <1>11, <1>12, <1>13

LEMMA JumpedTyped ==
  ASSUME NEW top \in Int, NEW s, Typed(s, top), NEW i, Sound(s, i), Taken(s, i.op)
  PROVE  Typed(Jumped(s, i), top)
<1>. DEFINE ip == s.reg[IP]
            p == Pushed(s, ip + InstructionSize)
            x == Reg(p, i.a1)
            back == Word(s.mem, s.reg[SP])
<1>1. ip \in Int /\ i.a1 \in Int /\ ip + InstructionSize \in Int
  BY RegistersAre DEF Typed, Sound
<1>2. Typed(p, top) /\ Typed(Up(s), top)
  BY <1>1, PushedTyped, ChangesTyped
<1>2a. p.reg[IP] \in Int
  <2>. HIDE DEF p
  <2>. QED  BY <1>2, RegistersAre DEF Typed
<1>3. \A t, a : Typed(t, top) /\ a \in Int => Typed(GoTo(t, a), top)
  BY ChangesTyped
<1>4. i.op \in {"JMP", "JLT", "JGT", "JE"} => Reg(s, i.a1) \in Int
  <2>1. i.op \in {"JMP", "JLT", "JGT", "JE"} => Indexable(i.a1)
    BY DEF Sound, First
  <2>. QED  BY <2>1, ChangesTyped
<1>5. i.op \in {"CALL", "CALLM"} => x \in Int
  <2>1. i.op \in {"CALL", "CALLM"} => Indexable(i.a1)
    BY DEF Sound, First
  <2>. HIDE DEF p
  <2>. QED  BY <1>2, <2>1, ChangesTyped
<1>6. i.op = "CALLM" => Word(p.mem, x) \in Int
  <2>1. i.op = "CALLM" => Mapped(s.mem, Reg(Down(s), i.a1))
    BY Addresses DEF Sound
  <2>2. x = Reg(Down(s), i.a1) /\ DOMAIN p.mem = DOMAIN s.mem
    BY DEF Pushed, PutWord, Stored, Reg, Down
  <2>3. i.op = "CALLM" => Mapped(p.mem, x)
    BY <2>1, <2>2 DEF Mapped
  <2>4. p.mem \in [0..(top - 1) -> Byte]
    BY <1>2 DEF Typed
  <2>. HIDE DEF p, x
  <2>. QED  BY <1>5, <2>3, <2>4, MappedWord
<1>7. i.op = "RET" => back \in Int
  <2>1. i.op = "RET" => Mapped(s.mem, s.reg[SP])
    BY Addresses DEF Sound
  <2>2. s.reg[SP] \in Int /\ s.mem \in [0..(top - 1) -> Byte]
    BY RegistersAre DEF Typed
  <2>. QED  BY <2>1, <2>2, MappedWord
<1>8. CASE i.op \in {"JMP", "JLT", "JGT", "JE", "JMPI", "JLTI", "JGTI", "JEI",
                     "JMPA", "JLTA", "JGTA", "JEA"}
  <2>1. ip + i.a1 \in Int
    BY <1>1
  <2>2. i.op \in {"JMP", "JLT", "JGT", "JE"} => ip + Reg(s, i.a1) \in Int
    BY <1>1, <1>4
  <2>3. \/ i.op \in {"JMP", "JLT", "JGT", "JE"} /\ Jumped(s, i) = GoTo(s, ip + Reg(s, i.a1))
        \/ Jumped(s, i) = GoTo(s, ip + i.a1)
        \/ Jumped(s, i) = GoTo(s, i.a1)
    BY <1>8 DEF Jumped
  <2>. QED  BY <1>1, <1>3, <2>1, <2>2, <2>3
<1>9. CASE i.op \in {"CALL", "CALLM"}
  <2>1. Jumped(s, i) = GoTo(p, p.reg[IP] + (IF i.op = "CALL" THEN x ELSE Word(p.mem, x)))
    BY <1>9 DEF Jumped
  <2>. HIDE DEF p, x
  <2>2. p.reg[IP] + (IF i.op = "CALL" THEN x ELSE Word(p.mem, x)) \in Int
    BY <1>2a, <1>5, <1>6, <1>9
  <2>. QED  BY <1>2, <1>3, <2>1, <2>2
<1>10. CASE i.op = "RET"
  <2>1. Jumped(s, i) = GoTo(Up(s), back)
    BY <1>10 DEF Jumped
  <2>. QED  BY <1>2, <1>3, <1>7, <1>10, <2>1
<1>. QED
  BY <1>8, <1>9, <1>10 DEF Taken

LEMMA ExecutedTyped ==
  ASSUME NEW top \in Int, NEW s, Typed(s, top), Works(s), NEW v \in Int
  PROVE  Typed(Executed(s, Fetched(s), v), top)
<1>. DEFINE i == Fetched(s)
<1>1. Sound(s, i)
  BY WorksMeans
<1>. HIDE DEF i
<1>2. CASE Taken(s, i.op)
  BY <1>1, <1>2, JumpedTyped DEF Executed, i
<1>3. CASE ~ Taken(s, i.op)
  <2>1. Typed(Answered(s, i, v), top)
    BY ChangesTyped DEF Answered
  <2>2. Typed(Computed(s, i), top)
    BY <1>1, ComputedTyped
  <2>3. \A t : Typed(t, top) => Typed(Advanced(t), top)
    <3>. SUFFICES ASSUME NEW t, Typed(t, top) PROVE Typed(Advanced(t), top)
      OBVIOUS
    <3>1. t.reg[IP] + InstructionSize \in Int
      BY RegistersAre DEF Typed
    <3>. QED  BY <3>1, ChangesTyped DEF Advanced
  <2>4. Executed(s, i, v) = Advanced(IF i.op \in KernelCalls THEN Answered(s, i, v)
                                     ELSE Computed(s, i))
    BY <1>3 DEF Executed
  <2>5. Typed(IF i.op \in KernelCalls THEN Answered(s, i, v) ELSE Computed(s, i), top)
    BY <2>1, <2>2
  <2>. QED  BY <2>3, <2>4, <2>5 DEF i
<1>. QED
  BY <1>2, <1>3

-----------------------------------------------------------------------------
(***************************************************************************)
(* What the loader leaves                                                  *)
(***************************************************************************)

LEMMA PagedType ==
  ASSUME NEW size \in Nat
  PROVE  Paged(size) \in Nat \ {0}
<1>. DEFINE q == (size + PageSize - 1) \div PageSize
<1>1. PageSize \in Nat \ {0} /\ size + PageSize - 1 \in Int
  BY LayoutAssumption
<1>2. q \in Int
  BY <1>1, Division
<1>. HIDE DEF q
<1>3. \E x \in {1, q} : \A y \in {1, q} : x >= y
  BY <1>2
<1>4. Max({1, q}) \in {1, q} /\ Max({1, q}) >= 1
  BY <1>3 DEF Max
<1>5. Max({1, q}) \in Nat \ {0}
  BY <1>2, <1>4
<1>6. Paged(size) = Max({1, q}) * PageSize
  BY DEF Paged, q
<1>. QED
  BY <1>1, <1>5, <1>6

LEMMA LayoutTypes ==
  ASSUME NEW lines \in Seq(SourceLine)
  PROVE  /\ CodeSize(lines) \in Nat /\ GlobalStart(lines) \in Nat
         /\ StackTop(lines) \in Nat
<1>1. Len(lines) \in Nat
  BY LenProperties
<1>2. CodeSize(lines) \in Nat
  BY <1>1, RegistersAre DEF CodeSize
<1>3. /\ Paged(CodeSize(lines)) \in Nat /\ Paged(GlobalSize) \in Nat
      /\ Paged(HeapSize) \in Nat /\ Paged(StackSize) \in Nat
  BY <1>2, LayoutAssumption, PagedType
<1>. QED
  BY <1>2, <1>3 DEF GlobalStart, HeapStart, StackBase, StackTop

LEMMA ArgumentType ==
  ASSUME NEW l \in SourceLine, NEW k \in Int
  PROVE  /\ Argument(l, k) \in Int
         /\ k \in DOMAIN l.args => l.args[k] \in Operand
<1>1. l.args \in Seq(Operand)
  BY DEF SourceLine
<1>2. k \in DOMAIN l.args => l.args[k] \in Operand
  BY <1>1, ElementOfSeq
<1>3. k \in DOMAIN l.args => l.args[k].val \in Int
  BY <1>2 DEF Operand
<1>. QED
  BY <1>2, <1>3 DEF Argument

(* The words _parse_line makes of a line.                                  *)
LEMMA AssembledWords ==
  ASSUME NEW l \in SourceLine, Assembles(l)
  PROVE  /\ Assembled(l)[1] \in DOMAIN Opcodes /\ Opcodes[Assembled(l)[1]] = Variant(l)
         /\ Assembled(l)[2] = Argument(l, 1) /\ Assembled(l)[3] = Argument(l, 2)
         /\ \A k \in 1..3 : Assembled(l)[k] \in Int
<1>. DEFINE code == CHOOSE n \in DOMAIN Opcodes : Opcodes[n] = Variant(l)
<1>1. code \in DOMAIN Opcodes /\ Opcodes[code] = Variant(l)
  BY DEF Assembles
<1>2. Assembled(l) = <<code, Argument(l, 1), Argument(l, 2)>>
  BY DEF Assembled
<1>. HIDE DEF code
<1>3. code \in Int /\ Argument(l, 1) \in Int /\ Argument(l, 2) \in Int
  BY <1>1, OpcodesAssumption, ArgumentType
<1>. QED
  BY <1>1, <1>2, <1>3

(* Byte j of word k of line n is at this address.                          *)
LEMMA WhereWordsAre ==
  ASSUME NEW lines, NEW n \in Nat \ {0}, NEW k \in 0..2, NEW j \in 0..(WordBytes - 1),
         NEW a \in Int, a = (n - 1) * InstructionSize + k * WordBytes + j
  PROVE  CodeByte(lines, a) = WordByte(Assembled(lines[n])[k + 1], j)
<1>. DEFINE m == 3 * (n - 1) + k
<1>1. m \in Nat /\ m \div 3 + 1 = n /\ (m % 3) + 1 = k + 1
  OBVIOUS
<1>2. a = WordBytes * m + j
  BY WordCountType, RegistersAre
<1>. HIDE DEF m
<1>3. a \div WordBytes = m /\ a % WordBytes = j
  <2>1. WordBytes \in Nat \ {0} /\ m \in Int
    BY <1>1, WordCountType
  <2>. QED  BY ONLY <1>2, <2>1, a \in Int, j \in 0..(WordBytes - 1), Divided, Zenon
<1>. QED
  BY <1>1, <1>3 DEF CodeByte, CodeWord

LEMMA CodeBytes ==
  ASSUME NEW lines \in Seq(SourceLine), Loads(lines), NEW a \in 0..(CodeSize(lines) - 1)
  PROVE  CodeByte(lines, a) \in Byte
<1>. DEFINE m == a \div WordBytes
            n == m \div 3 + 1
            k == (m % 3) + 1
<1>1. Len(lines) \in Nat /\ DOMAIN lines = 1..Len(lines)
  BY LenProperties
<1>2. a \in Nat /\ a < WordBytes * (3 * Len(lines))
  BY <1>1, WordCountType, RegistersAre DEF CodeSize
<1>3. m \in Int /\ a % WordBytes \in 0..(WordBytes - 1) /\ a = WordBytes * m + (a % WordBytes)
  BY <1>2, WordCountType, Division
<1>. HIDE DEF m
<1>4. m >= 0 /\ m < 3 * Len(lines)
  <2>1. ASSUME m <= -1 PROVE FALSE
    <3>1. WordBytes * m <= WordBytes * (-1)
      BY <1>3, <2>1, WordCountType
    <3>. QED  BY <1>2, <1>3, <3>1, WordCountType
  <2>2. ASSUME m >= 3 * Len(lines) PROVE FALSE
    <3>1. WordBytes * m >= WordBytes * (3 * Len(lines))
      BY <1>1, <1>3, <2>2, WordCountType
    <3>. QED  BY <1>1, <1>2, <1>3, <3>1, WordCountType
  <2>. QED  BY <1>1, <1>3, <2>1, <2>2
<1>5. n \in DOMAIN lines /\ k \in 1..3
  BY <1>1, <1>3, <1>4
<1>6. lines[n] \in SourceLine /\ Assembles(lines[n])
  BY <1>5, ElementOfSeq DEF Loads
<1>7. CodeWord(lines, m) = Assembled(lines[n])[k]
  BY DEF CodeWord
<1>. HIDE DEF n, k
<1>8. CodeWord(lines, m) \in Int
  BY <1>5, <1>6, <1>7, AssembledWords
<1>. QED
  BY <1>3, <1>8, BytesOfWords DEF CodeByte, m

LEMMA StartTyped ==
  ASSUME NEW lines \in Seq(SourceLine), Loads(lines), NEW pid \in Int, NEW before \in Byte
  PROVE  Typed(StartMachine(lines, pid, before), StackTop(lines))
<1>1. CodeSize(lines) \in Nat /\ GlobalStart(lines) \in Nat /\ StackTop(lines) \in Nat
  BY LayoutTypes
<1>2. StartRegisters(lines, pid) \in [Registers -> Int]
  BY <1>1 DEF StartRegisters
<1>3. 0 \in Byte
  BY WordCountType, WordAssumption DEF Byte
<1>4. ASSUME NEW a \in 0..(StackTop(lines) - 1), a < CodeSize(lines)
      PROVE  CodeByte(lines, a) \in Byte
  <2>1. a \in 0..(CodeSize(lines) - 1)
    BY <1>1, <1>4
  <2>. QED  BY <2>1, CodeBytes
<1>5. StartMemory(lines, before) \in [0..(StackTop(lines) - 1) -> Byte]
  BY <1>3, <1>4 DEF StartMemory
<1>. QED
  BY <1>2, <1>5 DEF StartMachine, Typed

(* fetch undoes what _parse_line and _write_instructions did: at a line    *)
(* that is still in memory it finds what the loader assembled of it.       *)
LEMMA FetchedFromLine ==
  ASSUME NEW lines \in Seq(SourceLine), Loads(lines), NEW n \in DOMAIN lines, NEW s,
         s.reg[IP] = (n - 1) * InstructionSize,
         \A a \in s.reg[IP]..(s.reg[IP] + InstructionSize - 1) : s.mem[a] = CodeByte(lines, a)
  PROVE  /\ Fetched(s).op = Variant(lines[n])
         /\ Fetched(s).a1 = Signed(Argument(lines[n], 1) % WordCount)
         /\ Fetched(s).a2 = Signed(Argument(lines[n], 2) % WordCount)
<1>. DEFINE l == lines[n]
            first == s.reg[IP]
            word(k) == Assembled(l)[k + 1]
<1>1. n \in Nat \ {0} /\ l \in SourceLine /\ Assembles(l)
  <2>1. DOMAIN lines = 1..Len(lines) /\ Len(lines) \in Nat
    BY LenProperties
  <2>. QED  BY <2>1, ElementOfSeq DEF Loads
<1>2. first \in Int /\ first = (n - 1) * InstructionSize
  BY <1>1, RegistersAre
<1>3. /\ word(0) \in DOMAIN Opcodes /\ Opcodes[word(0)] = Variant(l)
      /\ word(1) = Argument(l, 1) /\ word(2) = Argument(l, 2)
      /\ \A k \in 0..2 : word(k) \in Int
  BY <1>1, AssembledWords
<1>4. ASSUME NEW k \in 0..2
      PROVE  Word(s.mem, first + k * WordBytes) = Signed(word(k) % WordCount)
  <2>. DEFINE at == first + k * WordBytes
  <2>1. at \in Int
    BY <1>2, WordCountType
  <2>2. ASSUME NEW j \in 0..(WordBytes - 1) PROVE s.mem[at + j] = WordByte(word(k), j)
    <3>1. at + j \in first..(first + InstructionSize - 1)
      <4>. DEFINE y == k * WordBytes
      <4>1. y \in 0..(2 * WordBytes) /\ WordBytes \in Nat
        BY WordCountType
      <4>2. first \in Int /\ InstructionSize = 3 * WordBytes
        BY <1>2, RegistersAre
      <4>3. at = first + y /\ j \in 0..(WordBytes - 1)
        BY <2>2
      <4>. HIDE DEF at, y, first
      <4>4. /\ at = first + y /\ j \in 0..(WordBytes - 1) /\ first \in Int
            /\ y \in 0..(2 * WordBytes) /\ WordBytes \in Nat /\ InstructionSize = 3 * WordBytes
        BY <4>1, <4>2, <4>3
      <4>. QED  BY ONLY <4>4
    <3>2. at + j \in Int /\ at + j = (n - 1) * InstructionSize + k * WordBytes + j
      BY <1>2, <2>1
    <3>. HIDE DEF first, at
    <3>3. CodeByte(lines, at + j) = WordByte(word(k), j)
      BY <1>1, <3>2, WhereWordsAre
    <3>. QED  BY <3>1, <3>3 DEF first
  <2>3. word(k) \in Int
    BY <1>3
  <2>. HIDE DEF at, word, first
  <2>4. Word(s.mem, at) = Signed(word(k) % WordCount)
    BY ONLY <2>1, <2>2, <2>3, WordOfBytes
  <2>. QED  BY <2>4 DEF at
<1>5. /\ Word(s.mem, first) = Signed(word(0) % WordCount)
      /\ Word(s.mem, first + WordBytes) = Signed(word(1) % WordCount)
      /\ Word(s.mem, first + 2 * WordBytes) = Signed(word(2) % WordCount)
  <2>1. first + 0 * WordBytes = first /\ first + 1 * WordBytes = first + WordBytes
    BY <1>2, WordCountType
  <2>. HIDE DEF first, word
  <2>. QED  BY <1>4, <2>1
<1>6. Signed(word(0) % WordCount) = word(0)
  <2>1. word(0) \in 0..(WordCount \div 2 - 1) /\ WordCount \div 2 \in Nat
    <3>1. WordCount \div 2 \in Nat
      BY WordCountType
    <3>. HIDE DEF word
    <3>. QED  BY <1>3, <3>1, OpcodesAssumption
  <2>. HIDE DEF word
  <2>2. word(0) \in Int /\ -(WordCount \div 2) <= word(0) /\ word(0) < WordCount \div 2
    BY <2>1
  <2>. QED  BY <2>2, SignedFits
<1>. HIDE DEF word
<1>7. Fetched(s).op = Opcodes[word(0)]
  BY <1>3, <1>5, <1>6 DEF Fetched
<1>. QED
  BY <1>3, <1>5, <1>7 DEF Fetched

-----------------------------------------------------------------------------
(***************************************************************************)
(* Where the context of a process is                                       *)
(***************************************************************************)

(* A process runs in the phase "run" and in no other but the end, and the  *)
(* CPU and every PCB hold a context.                                       *)
ContextsInPlace ==
  /\ phase = "pick" => running = None
  /\ IsContext(cpu)
  /\ DOMAIN pcb = Procs /\ DOMAIN memory = Procs
  /\ pcb = [p \in Procs |-> pcb[p]] /\ memory = [p \in Procs |-> memory[p]]
  /\ \A p \in Procs : IsContext(pcb[p])

LEMMA InitInPlace == Init => ContextsInPlace
BY DEF Init, ContextsInPlace, IsContext, ContextOf

LEMMA MachineIsMachine == \A p \in Procs : IsMachine(Machine(p))
BY DEF IsMachine, Machine

LEMMA SwitchKeepsPlaces ==
  ASSUME ContextsInPlace, NEW p \in Procs, NEW gone, SwitchTo(p, gone)
  PROVE  ContextsInPlace'
BY DEF ContextsInPlace, SwitchTo, Saved

LEMMA StepKeepsPlaces ==
  ASSUME ContextsInPlace, [Next]_vars
  PROVE  ContextsInPlace'
<1>1. ASSUME NEW p \in Procs, Dispatch(p) PROVE ContextsInPlace'
  BY <1>1 DEF ContextsInPlace, Dispatch, Restored
<1>2. ASSUME NEW p \in Procs, SwitchOut(p) PROVE ContextsInPlace'
  BY <1>2, SwitchKeepsPlaces DEF SwitchOut
<1>3. ASSUME NEW p \in Procs, NEW v, Execute(p, v) PROVE ContextsInPlace'
  <2>1. IsContext(cpu')
    BY <1>3 DEF Execute, ContextOf, IsContext
  <2>. QED
    BY <1>3, <2>1 DEF ContextsInPlace, Execute, Steps
<1>4. ASSUME NEW p \in Procs, Block(p) PROVE ContextsInPlace'
  BY <1>4, SwitchKeepsPlaces DEF Block
<1>5. ASSUME NEW p \in Procs, End(p) PROVE ContextsInPlace'
  BY <1>5, SwitchKeepsPlaces DEF End
<1>6. ASSUME NEW p \in Procs, Crash(p) PROVE ContextsInPlace'
  BY <1>6 DEF ContextsInPlace, Crash
<1>7. CASE UNCHANGED vars
  BY <1>7 DEF ContextsInPlace, vars
<1>. QED
  BY <1>1, <1>2, <1>3, <1>4, <1>5, <1>6, <1>7 DEF Next

(* A switch moves a context and changes no process.                        *)
LEMMA SwitchChangesNoMachine ==
  ASSUME ContextsInPlace, NEW p \in Procs, NEW gone, running = p, SwitchTo(p, gone)
  PROVE  UNCHANGED <<source, [q \in Procs |-> Machine(q)]>>
<1>1. ASSUME NEW q \in Procs PROVE Machine(q)' = Machine(q)
  BY NoneAssumption DEF ContextsInPlace, SwitchTo, Saved, Machine
<1>. QED
  BY <1>1 DEF SwitchTo

LEMMA DispatchChangesNoMachine ==
  ASSUME ContextsInPlace, NEW p \in Procs, Dispatch(p)
  PROVE  UNCHANGED <<source, [q \in Procs |-> Machine(q)]>>
<1>1. ASSUME NEW q \in Procs PROVE Machine(q)' = Machine(q)
  BY NoneAssumption DEF ContextsInPlace, Dispatch, Restored, Machine
<1>. QED
  BY <1>1 DEF Dispatch

(* An instruction changes the process that executes it, and no other.      *)
LEMMA ExecuteIsAStep ==
  ASSUME ContextsInPlace, NEW p \in Procs, NEW v, Execute(p, v)
  PROVE  Own!Step(p)
<1>. DEFINE t == After(Machine(p), v)
<1>1. IsMachine(t)
  BY MachineIsMachine, ExecutedIsMachine DEF After
<1>2. v \in Answers
  BY AnswersAssumption DEF Execute, AnswersTo
<1>3. /\ running = p /\ running' = p
      /\ cpu' = [reg |-> t.reg, zero |-> t.zero, sign |-> t.sign]
      /\ memory' = [memory EXCEPT ![p] = t.mem]
      /\ pcb' = pcb /\ source' = source
      /\ Works(Machine(p))
  BY DEF Execute, Steps, ContextOf
<1>. HIDE DEF t
<1>4. Machine(p)' = t
  BY <1>1, <1>3 DEF Machine, ContextsInPlace, IsMachine
<1>5. ASSUME NEW q \in Procs, q # p PROVE Machine(q)' = Machine(q)
  BY <1>3, <1>5 DEF Machine, ContextsInPlace
<1>6. [q \in Procs |-> Machine(q)]' = [[q \in Procs |-> Machine(q)] EXCEPT ![p] = t]
  BY <1>4, <1>5
<1>7. [q \in Procs |-> Machine(q)][p] = Machine(p)
  OBVIOUS
<1>. QED
  BY <1>2, <1>3, <1>6, <1>7 DEF t, Own!Step

LEMMA InitIsOwnInit == Init => Own!Init
<1>. SUFFICES ASSUME Init PROVE Own!Init
  OBVIOUS
<1>1. ASSUME NEW p \in Procs
      PROVE  Machine(p) = StartsAs(p, source[p])
  <2>. DEFINE s == StartsAs(p, source[p])
  <2>1. IsMachine(s)
    BY DEF StartsAs, StartMachine, IsMachine
  <2>2. pcb[p] = ContextOf(s) /\ memory[p] = s.mem /\ running # p
    BY NoneAssumption DEF Init
  <2>. HIDE DEF s
  <2>3. Machine(p) = [reg |-> s.reg, zero |-> s.zero, sign |-> s.sign, mem |-> s.mem]
    BY <2>2 DEF Machine, ContextOf
  <2>. QED
    BY <2>1, <2>3 DEF IsMachine, s
<1>. QED
  BY <1>1 DEF Init, Own!Init

LEMMA StepIsOwnStep ==
  ASSUME ContextsInPlace, [Next]_vars
  PROVE  [Own!Next]_<<source, [p \in Procs |-> Machine(p)]>>
<1>. DEFINE Same == UNCHANGED <<source, [p \in Procs |-> Machine(p)]>>
<1>1. ASSUME NEW p \in Procs, Dispatch(p) PROVE Same
  BY <1>1, DispatchChangesNoMachine
<1>2. ASSUME NEW p \in Procs, SwitchOut(p) PROVE Same
  BY <1>2, SwitchChangesNoMachine DEF SwitchOut
<1>3. ASSUME NEW p \in Procs, NEW v, Execute(p, v) PROVE Own!Next
  BY <1>3, ExecuteIsAStep DEF Own!Next
<1>4. ASSUME NEW p \in Procs, Block(p) PROVE Same
  BY <1>4, SwitchChangesNoMachine DEF Block, Steps
<1>5. ASSUME NEW p \in Procs, End(p) PROVE Same
  BY <1>5, SwitchChangesNoMachine DEF End, Steps
<1>6. ASSUME NEW p \in Procs, Crash(p) PROVE Same
  BY <1>6 DEF Crash, Machine
<1>7. CASE UNCHANGED vars
  BY <1>7 DEF vars, Machine
<1>. QED
  BY <1>1, <1>2, <1>3, <1>4, <1>5, <1>6, <1>7 DEF Next

(* Whatever the programs are and however the kernel interleaves them, each *)
(* process computes as if restore_cpu_state and save_cpu_state (pcb.py)    *)
(* were not there and the CPU were its own: no register, flag or byte of   *)
(* it changes but by its own instructions, each executed once.             *)
THEOREM SwitchesAreInvisible == Spec => ImplementsOwnCpu
<1>1. Init => ContextsInPlace
  BY InitInPlace
<1>2. ContextsInPlace /\ [Next]_vars => ContextsInPlace'
  BY StepKeepsPlaces
<1>3. Init => Own!Init
  BY InitIsOwnInit
<1>4. ContextsInPlace /\ [Next]_vars
        => [Own!Next]_<<source, [p \in Procs |-> Machine(p)]>>
  BY StepIsOwnStep
<1>. QED
  BY <1>1, <1>2, <1>3, <1>4, PTL DEF Spec, ImplementsOwnCpu, Own!Spec

-----------------------------------------------------------------------------
(***************************************************************************)
(* Types, and what the CPU reads                                           *)
(***************************************************************************)

(* The programs are the loader's, and stay what they are.                  *)
SourceInv == source \in Programs /\ \A p \in Procs : Loads(source[p])

LEMMA SourceKept == ASSUME SourceInv, [Next]_vars PROVE SourceInv'
BY DEF SourceInv, Next, Dispatch, SwitchOut, SwitchTo, Execute, Block, End, Crash, vars

LEMMA SourceTypes ==
  ASSUME SourceInv, NEW p \in Procs
  PROVE  /\ source[p] \in Seq(SourceLine) /\ Loads(source[p])
         /\ StackTop(source[p]) \in Nat /\ StackTop(source[p]) < WordCount \div 2
<1>1. source[p] \in Seq(SourceLine)
  BY ValuesAssumption DEF SourceInv
<1>. QED
  BY <1>1, AddressAssumption, LayoutTypes DEF SourceInv

LEMMA MachineTyped ==
  ASSUME TypeOK, NEW p \in Procs
  PROVE  Typed(Machine(p), StackTop(source[p]))
BY DEF TypeOK, Context, Machine, Typed

LEMMA InitTypes == Init => SourceInv /\ TypeOK
<1>. SUFFICES ASSUME Init PROVE SourceInv /\ TypeOK
  OBVIOUS
<1>1. SourceInv
  BY DEF Init, SourceInv
<1>2. ASSUME NEW p \in Procs PROVE Typed(StartsAs(p, source[p]), StackTop(source[p]))
  <2>1. Pid[p] \in Int /\ Leftover \in Byte
    BY ValuesAssumption
  <2>. QED  BY <1>1, <2>1, SourceTypes, StartTyped DEF StartsAs
<1>3. \A p \in Procs : /\ pcb[p] = ContextOf(StartsAs(p, source[p]))
                       /\ memory[p] = StartsAs(p, source[p]).mem
  BY DEF Init
<1>4. pcb \in [Procs -> Context]
  <2>1. \A p \in Procs : ContextOf(StartsAs(p, source[p])) \in Context
    BY <1>2 DEF Typed, ContextOf, Context
  <2>2. pcb = [p \in Procs |-> ContextOf(StartsAs(p, source[p]))]
    BY DEF Init
  <2>. QED  BY <2>1, <2>2
<1>5. \A p \in Procs : memory[p] \in [0..(StackTop(source[p]) - 1) -> Byte]
  BY <1>2, <1>3 DEF Typed
<1>6. cpu \in Context
  BY DEF Init, Context
<1>. QED
  BY <1>1, <1>4, <1>5, <1>6 DEF Init, TypeOK

LEMMA SwitchKeepsTypes ==
  ASSUME TypeOK, NEW p \in Procs, NEW gone \in SUBSET Procs, SwitchTo(p, gone)
  PROVE  TypeOK'
<1>1. pcb' \in [Procs -> Context]
  BY DEF TypeOK, SwitchTo, Saved
<1>. QED
  BY <1>1 DEF TypeOK, SwitchTo

LEMMA ExecuteTyped ==
  ASSUME SourceInv, TypeOK, NEW p \in Procs, NEW v, Execute(p, v)
  PROVE  Typed(After(Machine(p), v), StackTop(source[p])) /\ v \in Int
<1>. DEFINE top == StackTop(source[p])
<1>1. v \in Int
  BY AnswersAssumption DEF Execute, AnswersTo
<1>2. Typed(Machine(p), top) /\ Works(Machine(p))
  BY MachineTyped DEF Execute
<1>3. top \in Int
  BY SourceTypes
<1>. QED
  BY <1>1, <1>2, <1>3, ExecutedTyped DEF After

LEMMA StepKeepsTypes ==
  ASSUME ContextsInPlace, SourceInv, TypeOK, [Next]_vars
  PROVE  TypeOK'
<1>1. ASSUME NEW p \in Procs, Dispatch(p) PROVE TypeOK'
  BY <1>1 DEF TypeOK, Dispatch, Restored
<1>2. ASSUME NEW p \in Procs, SwitchOut(p) PROVE TypeOK'
  BY <1>2, SwitchKeepsTypes DEF SwitchOut
<1>3. ASSUME NEW p \in Procs, NEW v, Execute(p, v) PROVE TypeOK'
  <2>. DEFINE t == After(Machine(p), v)
  <2>1. Typed(t, StackTop(source[p]))
    BY <1>3, ExecuteTyped
  <2>. HIDE DEF t
  <2>2. /\ cpu' = ContextOf(t) /\ memory' = [memory EXCEPT ![p] = t.mem]
        /\ switchReason' \in {"none", "quantum", "sleep"}
        /\ UNCHANGED <<phase, running, pcb, ended, source>>
    BY <1>3 DEF Execute, t
  <2>3. cpu' \in Context
    BY <2>1, <2>2 DEF Typed, ContextOf, Context
  <2>4. \A q \in Procs : memory'[q] \in [0..(StackTop(source[q]) - 1) -> Byte]
    BY <2>1, <2>2 DEF TypeOK, Typed, ContextsInPlace
  <2>. QED  BY <2>2, <2>3, <2>4 DEF TypeOK
<1>4. ASSUME NEW p \in Procs, Block(p) PROVE TypeOK'
  BY <1>4, SwitchKeepsTypes DEF Block
<1>5. ASSUME NEW p \in Procs, End(p) PROVE TypeOK'
  BY <1>5, SwitchKeepsTypes DEF End
<1>6. ASSUME NEW p \in Procs, Crash(p) PROVE TypeOK'
  BY <1>6 DEF TypeOK, Crash
<1>7. CASE UNCHANGED vars
  BY <1>7 DEF TypeOK, vars
<1>. QED
  BY <1>1, <1>2, <1>3, <1>4, <1>5, <1>6, <1>7 DEF Next

CpuInv == ContextsInPlace /\ SourceInv /\ TypeOK

LEMMA CpuInvHolds == Spec => []CpuInv
<1>1. Init => CpuInv
  BY InitInPlace, InitTypes DEF CpuInv
<1>2. CpuInv /\ [Next]_vars => CpuInv'
  <2>. SUFFICES ASSUME CpuInv, [Next]_vars PROVE CpuInv'
    OBVIOUS
  <2>1. ContextsInPlace /\ SourceInv /\ TypeOK
    BY DEF CpuInv
  <2>2. ContextsInPlace' /\ SourceInv' /\ TypeOK'
    BY <2>1, StepKeepsPlaces, SourceKept, StepKeepsTypes
  <2>. QED  BY <2>2 DEF CpuInv
<1>. QED
  BY <1>1, <1>2, PTL DEF Spec

(* No instruction that fetch and step (cpu.py) let through makes anything  *)
(* but integers of the registers, bytes of the memory and truth values of  *)
(* the flags of its process, and its memory keeps its addresses: every     *)
(* word it loads is mapped, every register it names is there.              *)
THEOREM CpuTypes == Spec => []TypeOK
<1>1. CpuInv => TypeOK
  BY DEF CpuInv
<1>. QED
  BY <1>1, CpuInvHolds, PTL

(* Any program that load takes is executed as it is written: what fetch    *)
(* (cpu.py) reads of a line that is still in memory are the opcode,        *)
(* with or without an I, and the two arguments that _parse_line            *)
(* (os_loader.py) found in it.                                             *)
THEOREM TheCpuReadsTheSource == Spec => []CpuReadsTheSource
<1>1. CpuInv => CpuReadsTheSource
  <2>. SUFFICES ASSUME CpuInv, NEW p \in Procs, NEW n \in DOMAIN source[p], AtLine(p, n)
                PROVE  LET l == source[p][n]
                           i == Fetched(Machine(p))
                           immediate == /\ l.args # << >>
                                        /\ l.args[1].kind \in {"immediate", "character"}
                           number(k) == IF k \in DOMAIN l.args THEN l.args[k].val ELSE 0
                       IN  /\ i.op = IF l.op \in DOMAIN WithI /\ immediate
                                     THEN WithI[l.op] ELSE l.op
                           /\ i.a1 = Signed(number(1) % WordCount)
                           /\ i.a2 = Signed(number(2) % WordCount)
    BY DEF CpuReadsTheSource
  <2>. DEFINE s == Machine(p)
  <2>1. source[p] \in Seq(SourceLine) /\ Loads(source[p])
    BY SourceTypes DEF CpuInv
  <2>2. /\ s.reg[IP] = (n - 1) * InstructionSize
        /\ \A a \in s.reg[IP]..(s.reg[IP] + InstructionSize - 1) :
             s.mem[a] = CodeByte(source[p], a)
    BY DEF AtLine, Machine
  <2>. HIDE DEF s
  <2>3. /\ Fetched(s).op = Variant(source[p][n])
        /\ Fetched(s).a1 = Signed(Argument(source[p][n], 1) % WordCount)
        /\ Fetched(s).a2 = Signed(Argument(source[p][n], 2) % WordCount)
    BY <2>1, <2>2, FetchedFromLine
  <2>. QED
    BY <2>3 DEF s, Variant, IsImmediate, Argument
<1>. QED
  BY <1>1, CpuInvHolds, PTL

-----------------------------------------------------------------------------
(***************************************************************************)
(* Registers that are named                                                *)
(***************************************************************************)

(* The I form of a mnemonic takes no register first, and one of them takes *)
(* one second.                                                             *)
LEMMA Immediates ==
  ASSUME NEW x \in DOMAIN WithI
  PROVE  /\ WithI[x] \in {"JMPI", "JLTI", "JGTI", "JEI", "ACQUIRELOCKI", "RELEASELOCKI",
                          "SIGNALEVENTI", "WAITEVENTI", "MAPSHAREDMEMI",
                          "TERMINATEPROCESSI", "SETPRIORITYI"}
         /\ WithI[x] = "MAPSHAREDMEMI" => x = "MAPSHAREDMEM"
BY DEF WithI

(* A missing operand and a register are read as they are written, and      *)
(* there is such a register.                                               *)
LEMMA NamedRegister ==
  ASSUME NEW l \in SourceLine, Assembles(l), NEW k \in {1, 2},
         k \in DOMAIN l.args => l.args[k].kind = "register"
  PROVE  Indexable(Signed(Argument(l, k) % WordCount))
<1>1. Argument(l, k) \in 0..14
  BY DEF Argument, Assembles, GoodOperand
<1>2. 14 < WordCount \div 2 /\ WordCount \div 2 \in Nat
  <2>1. 14 \in Registers /\ WordCount \div 2 \in Nat
    BY WordCountType DEF Registers
  <2>. QED  BY <2>1, OpcodesAssumption
<1>3. Signed(Argument(l, k) % WordCount) = Argument(l, k)
  <2>. DEFINE v == Argument(l, k)
  <2>1. v \in Int /\ -(WordCount \div 2) <= v /\ v < WordCount \div 2
    BY <1>1, <1>2
  <2>. HIDE DEF v
  <2>2. Signed(v % WordCount) = v
    BY <2>1, SignedFits
  <2>. QED  BY <2>2 DEF v
<1>. QED
  BY <1>1, <1>3 DEF Indexable

LEMMA ZeroReadsZero == Signed(0 % WordCount) = 0
<1>. DEFINE v == 0
<1>1. v \in Int /\ -(WordCount \div 2) <= v /\ v < WordCount \div 2
  <2>1. 14 \in Registers /\ WordCount \div 2 \in Nat
    BY WordCountType DEF Registers
  <2>. QED  BY <2>1, OpcodesAssumption
<1>. HIDE DEF v
<1>2. Signed(v % WordCount) = v
  BY <1>1, SignedFits
<1>. QED
  BY <1>2 DEF v

(* A line that is well written names registers that there are.             *)
LEMMA WellWrittenNames ==
  ASSUME NEW l \in SourceLine, Assembles(l), WellWritten(l), NEW s, NEW i,
         i.op = Variant(l),
         i.a1 = Signed(Argument(l, 1) % WordCount),
         i.a2 = Signed(Argument(l, 2) % WordCount)
  PROVE  ~ BadFirst(s, i) /\ ~ BadSecond(i)
<1>. DEFINE w == [op |-> l.op, a1 |-> Argument(l, 1), a2 |-> Argument(l, 2)]
<1>1. /\ i.op = l.op \/ (l.op \in DOMAIN WithI /\ i.op = WithI[l.op])
      /\ i.a1 # 0 => w.a1 # 0
      /\ i.a2 # 0 => w.a2 # 0
  BY ZeroReadsZero DEF Variant
<1>2. ASSUME First(i), ~ Indexable(i.a1) PROVE FALSE
  <2>1. 1 \in DOMAIN l.args /\ l.args[1].kind # "register"
    BY <1>2, NamedRegister
  <2>2. CASE l.op \in DOMAIN WithI
    <3>1. l.args[1].kind \in {"immediate", "character"}
      BY <2>1, <2>2, ArgumentType DEF WellWritten, Operand
    <3>2. i.op = WithI[l.op]
      BY <2>1, <2>2, <3>1 DEF Variant, IsImmediate
    <3>. QED  BY <1>2, <2>2, <3>2, Immediates DEF First
  <2>3. CASE l.op \notin DOMAIN WithI
    <3>1. First(w)
      BY <1>1, <1>2, <2>3 DEF First
    <3>. QED  BY <2>1, <2>3, <3>1 DEF WellWritten
  <2>. QED  BY <2>2, <2>3
<1>3. ASSUME Second(i), ~ Indexable(i.a2) PROVE FALSE
  <2>1. 2 \in DOMAIN l.args /\ l.args[2].kind # "register"
    BY <1>3, NamedRegister
  <2>2. Second(w) \/ l.op = "MAPSHAREDMEM"
    BY <1>1, <1>3, Immediates DEF Second
  <2>. QED  BY <2>1, <2>2 DEF WellWritten
<1>. QED
  BY <1>2, <1>3 DEF BadFirst, BadSecond

(* The run loop stops for nothing but an exception of the process that has *)
(* the CPU, whose state stays what it was.                                 *)
CrashInv == \A p \in Procs : phase = "crashed" /\ running = p => Fails(p, "raise")

LEMMA CrashHolds == Spec => []CrashInv
<1>1. Init => CrashInv
  BY DEF Init, CrashInv
<1>2. CrashInv /\ [Next]_vars => CrashInv'
  <2>. SUFFICES ASSUME CrashInv, [Next]_vars, NEW p \in Procs,
                       phase' = "crashed", running' = p
                PROVE  Fails(p, "raise")'
    BY DEF CrashInv
  <2>1. CASE UNCHANGED vars
    BY <2>1 DEF CrashInv, vars, Fails, Machine
  <2>2. CASE \E q \in Procs : Crash(q)
    BY <2>2 DEF Crash, Steps, Fails, Machine
  <2>3. CASE Next /\ ~ \E q \in Procs : Crash(q)
    BY <2>3 DEF Next, Dispatch, SwitchOut, SwitchTo, Execute, Steps, Block, End
  <2>. QED  BY <2>1, <2>2, <2>3
<1>. QED
  BY <1>1, <1>2, PTL DEF Spec

(* A program that names registers where step (cpu.py) looks for them never *)
(* ends the kernel with an IndexError, whatever it computes: if run() ends *)
(* at a line of such a program, a value did not fit in a word or the       *)
(* kernel refused a number: of a lock, an event, a size, or of a shared    *)
(* region that there is not or that there was no room for.  Nothing is     *)
(* assumed of the other operands, nor of how many there are.               *)
THEOREM NamedRegistersExist == Spec => []RegistersExist
<1>1. CpuInv /\ CrashInv => RegistersExist
  <2>. SUFFICES ASSUME CpuInv, CrashInv, NEW p \in Procs, NEW n \in DOMAIN source[p],
                       phase = "crashed", running = p, AtLine(p, n),
                       WellWritten(source[p][n])
                PROVE  \/ Unfit(Machine(p), Fetched(Machine(p)))
                       \/ Refused(Machine(p), Fetched(Machine(p)))
    BY DEF RegistersExist
  <2>. DEFINE s == Machine(p)
              i == Fetched(s)
              l == source[p][n]
  <2>1. source[p] \in Seq(SourceLine) /\ Loads(source[p])
    BY SourceTypes DEF CpuInv
  <2>2. /\ s.reg[IP] = (n - 1) * InstructionSize
        /\ \A a \in s.reg[IP]..(s.reg[IP] + InstructionSize - 1) :
             s.mem[a] = CodeByte(source[p], a)
    BY DEF AtLine, Machine
  <2>3. l \in SourceLine /\ Assembles(l)
    BY <2>1, ElementOfSeq DEF Loads
  <2>4. Fault(s, i) = "raise"
    BY DEF CrashInv, Fails
  <2>. HIDE DEF s
  <2>5. /\ i.op = Variant(l)
        /\ i.a1 = Signed(Argument(l, 1) % WordCount)
        /\ i.a2 = Signed(Argument(l, 2) % WordCount)
    BY <2>1, <2>2, FetchedFromLine
  <2>. HIDE DEF i, l
  <2>6. WellWritten(l)
    BY DEF l
  <2>7. ~ BadFirst(s, i) /\ ~ BadSecond(i)
    BY <2>3, <2>5, <2>6, WellWrittenNames
  <2>8. Unfit(s, i) \/ Refused(s, i)
    BY <2>4, <2>7 DEF Fault
  <2>. QED
    BY <2>8 DEF s, i
<1>. QED
  BY <1>1, CpuInvHolds, CrashHolds, PTL

-----------------------------------------------------------------------------
(***************************************************************************)
(* Stacks                                                                  *)
(***************************************************************************)

(* The words between SP and the end of the memory.                         *)
Depth(top, s) == (top - s.reg[SP]) \div WordBytes

Aligned(top, s) ==
  top - s.reg[SP] = Depth(top, s) * WordBytes /\ Depth(top, s) >= 0

WordAt(top, s, n) == Word(s.mem, top - n * WordBytes)

StackOf(top, s) ==
  IF Aligned(top, s) THEN [n \in 1..Depth(top, s) |-> WordAt(top, s, n)] ELSE << >>

LEMMA StackIs ==
  ASSUME NEW p
  PROVE  Stack(p) = StackOf(StackTop(source[p]), Machine(p))
BY DEF Stack, StackOf, Aligned, Depth, WordAt, Machine

(* SP one word lower is one word more.                                     *)
LEMMA OneDeeper ==
  ASSUME NEW top \in Int, NEW s, NEW t, s.reg[SP] \in Int,
         t.reg[SP] = s.reg[SP] - WordBytes
  PROVE  /\ Depth(top, s) \in Int /\ Depth(top, t) = Depth(top, s) + 1
         /\ top - t.reg[SP] = Depth(top, t) * WordBytes
              <=> top - s.reg[SP] = Depth(top, s) * WordBytes
<1>. DEFINE x == top - s.reg[SP]
            y == top - t.reg[SP]
            W == WordBytes
            d == x \div W
            e == y \div W
            r == x % W
<1>1. x \in Int /\ y \in Int /\ W \in Nat \ {0} /\ y = x + W
  BY WordCountType
<1>. HIDE DEF x, y, W
<1>2. d \in Int /\ r \in 0..(W - 1) /\ x = W * d + r
  BY <1>1, Division
<1>. HIDE DEF d, r
<1>3. d + 1 \in Int /\ y = W * (d + 1) + r
  BY <1>1, <1>2
<1>4. y \div W = d + 1
  <2>. DEFINE c == d + 1
  <2>1. y \in Int /\ W \in Nat \ {0} /\ c \in Int /\ r \in 0..(W - 1) /\ y = W * c + r
    BY <1>1, <1>2, <1>3
  <2>. HIDE DEF c
  <2>2. y \div W = c
    BY ONLY <2>1, Divided, Zenon
  <2>. QED  BY <2>2 DEF c
<1>5. y = (d + 1) * W <=> x = d * W
  BY <1>1, <1>2
<1>6. Depth(top, s) = d /\ Depth(top, t) = e
  BY DEF Depth, x, y, W, d
<1>7. e = d + 1
  BY <1>4
<1>. QED
  BY <1>2, <1>5, <1>6, <1>7 DEF x, y, W

LEMMA OnTheStack ==
  ASSUME NEW top \in Int, NEW s, s.reg[SP] \in Nat, Aligned(top, s),
         s.mem \in [0..(top - 1) -> Byte], NEW n \in 1..Depth(top, s)
  PROVE  /\ top - n * WordBytes \in Int
         /\ \A j \in 0..(WordBytes - 1) : /\ top - n * WordBytes + j \in s.reg[SP]..(top - 1)
                                          /\ s.mem[top - n * WordBytes + j] \in Int
         /\ WordAt(top, s, n) \in Int
<1>. DEFINE a == top - n * WordBytes
            d == Depth(top, s)
            low == s.reg[SP]
<1>1. d \in Nat /\ n \in 1..d /\ low = top - d * WordBytes /\ WordBytes \in Nat \ {0}
  <2>1. d \in Int
    BY WordCountType DEF Depth
  <2>. HIDE DEF d
  <2>2. d >= 0 /\ top - low = d * WordBytes
    BY DEF Aligned, d
  <2>. QED  BY <2>1, <2>2, WordCountType DEF d
<1>. HIDE DEF d, low
<1>2. a \in Int /\ a >= low /\ a + WordBytes <= top
  <2>1. /\ n * WordBytes \in Int /\ d * WordBytes \in Int
        /\ n * WordBytes <= d * WordBytes /\ WordBytes <= n * WordBytes
    BY <1>1
  <2>. QED  BY <1>1, <2>1
<1>3. low \in Nat
  BY DEF low
<1>. HIDE DEF a
<1>4. \A j \in 0..(WordBytes - 1) : a + j \in low..(top - 1) /\ a + j \in 0..(top - 1)
  BY <1>1, <1>2, <1>3
<1>5. \A j \in 0..(WordBytes - 1) : s.mem[a + j] \in Int
  BY <1>4, WordCountType DEF Byte
<1>6. Word(s.mem, a) \in Int
  BY <1>2, <1>5, WordIsInt
<1>. QED
  BY <1>2, <1>4, <1>5, <1>6 DEF a, low, WordAt

LEMMA StackWords ==
  ASSUME NEW top \in Int, NEW s, s.reg[SP] \in Nat, Aligned(top, s),
         s.mem \in [0..(top - 1) -> Byte]
  PROVE  /\ StackOf(top, s) \in Seq(Int) /\ Len(StackOf(top, s)) = Depth(top, s)
         /\ Depth(top, s) \in Nat
         /\ \A n \in 1..Depth(top, s) : StackOf(top, s)[n] = WordAt(top, s, n)
<1>. DEFINE d == Depth(top, s)
            e(n) == WordAt(top, s, n)
<1>1. d \in Nat
  BY WordCountType DEF Depth, Aligned
<1>2. \A n \in 1..d : e(n) \in Int
  BY OnTheStack
<1>3. StackOf(top, s) = [n \in 1..d |-> e(n)]
  BY DEF StackOf
<1>. HIDE DEF d, e
<1>4. [n \in 1..d |-> e(n)] \in Seq(Int)
  BY <1>1, <1>2, IsASeq
<1>5. Len(StackOf(top, s)) = d
  BY <1>1, <1>3
<1>6. \A n \in 1..d : StackOf(top, s)[n] = e(n)
  BY <1>3
<1>. QED
  BY <1>1, <1>3, <1>4, <1>5, <1>6 DEF d, e

(* One word more and the others as they were: what a push does, or, read   *)
(* from t to s, a pop.                                                     *)
LEMMA OneWordMore ==
  ASSUME NEW top \in Int, NEW s, NEW t, s.reg[SP] \in Int,
         t.reg[SP] = s.reg[SP] - WordBytes, t.reg[SP] \in Nat,
         s.mem \in [0..(top - 1) -> Byte], t.mem \in [0..(top - 1) -> Byte],
         \A a \in s.reg[SP]..(top - 1) : t.mem[a] = s.mem[a],
         StackOf(top, t) # StackOf(top, s)
  PROVE  /\ Front(StackOf(top, t)) = StackOf(top, s)
         /\ Last(StackOf(top, t)) = Word(t.mem, t.reg[SP])
<1>. DEFINE d == Depth(top, s)
            e == Depth(top, t)
            q == StackOf(top, t)
            o == StackOf(top, s)
<1>1. d \in Int /\ e = d + 1
      /\ (top - t.reg[SP] = e * WordBytes <=> top - s.reg[SP] = d * WordBytes)
  BY OneDeeper
<1>2. Aligned(top, t)
  <2>1. Aligned(top, s) => Aligned(top, t)
    BY <1>1 DEF Aligned
  <2>. QED  BY <2>1 DEF StackOf
<1>3. Aligned(top, s)
  <2>1. ASSUME d < 0 PROVE FALSE
    <3>1. e = 0
      BY <1>1, <1>2, <2>1 DEF Aligned
    <3>2. ~ Aligned(top, s)
      BY <1>1, <2>1 DEF Aligned
    <3>3. q = [n \in 1..e |-> WordAt(top, t, n)] /\ o = << >>
      BY <1>2, <3>2 DEF StackOf
    <3>4. q = << >>
      <4>1. [n \in 1..0 |-> WordAt(top, t, n)] = << >>
        OBVIOUS
      <4>. HIDE DEF q, e
      <4>. QED  BY <3>1, <3>3, <4>1
    <3>. QED  BY <3>3, <3>4
  <2>. QED  BY <1>1, <1>2, <2>1 DEF Aligned
<1>4. s.reg[SP] \in Nat
  BY WordCountType
<1>5. /\ q \in Seq(Int) /\ Len(q) = d + 1 /\ d \in Nat
      /\ \A n \in 1..(d + 1) : q[n] = WordAt(top, t, n)
  <2>1. d \in Nat
    BY <1>1, <1>3 DEF Aligned
  <2>2. /\ q \in Seq(Int) /\ Len(q) = e /\ e \in Nat
        /\ \A n \in 1..e : q[n] = WordAt(top, t, n)
    BY <1>2, StackWords
  <2>. HIDE DEF d, e, q
  <2>. QED  BY <1>1, <2>1, <2>2
<1>6. /\ o \in Seq(Int) /\ Len(o) = d
      /\ \A n \in 1..d : o[n] = WordAt(top, s, n)
  BY <1>3, <1>4, StackWords
<1>7. ASSUME NEW n \in 1..d PROVE WordAt(top, t, n) = WordAt(top, s, n)
  <2>. DEFINE a == top - n * WordBytes
  <2>1. /\ a \in Int
        /\ \A j \in 0..(WordBytes - 1) : /\ a + j \in s.reg[SP]..(top - 1)
                                         /\ s.mem[a + j] \in Int
    BY <1>3, <1>4, OnTheStack
  <2>. HIDE DEF a
  <2>2. \A j \in 0..(WordBytes - 1) : s.mem[a + j] \in Int /\ t.mem[a + j] = s.mem[a + j]
    BY <2>1
  <2>3. Word(t.mem, a) = Word(s.mem, a)
    BY <2>1, <2>2, SameBytes
  <2>. QED  BY <2>3 DEF a, WordAt
<1>8. WordAt(top, t, d + 1) = Word(t.mem, t.reg[SP])
  <2>1. top - t.reg[SP] = (d + 1) * WordBytes
    BY <1>1, <1>2 DEF Aligned
  <2>. DEFINE y == (d + 1) * WordBytes
  <2>2. y \in Int
    BY <1>5, WordCountType
  <2>. HIDE DEF y, d
  <2>3. top - y = t.reg[SP]
    BY <2>1, <2>2 DEF y
  <2>. QED  BY <2>3 DEF y, WordAt
<1>. HIDE DEF d, e, q, o
<1>9. Front(q) = SubSeq(q, 1, d)
  BY <1>5 DEF Front
<1>10. SubSeq(q, 1, d) = o
  <2>1. \A n \in 1..d : q[n] \in Int
    BY <1>5, ElementOfSeq
  <2>2. /\ SubSeq(q, 1, d) \in Seq(Int)
        /\ Len(SubSeq(q, 1, d)) = IF 1 <= d THEN d - 1 + 1 ELSE 0
        /\ \A n \in 1..(d - 1 + 1) : SubSeq(q, 1, d)[n] = q[1 + n - 1]
    BY <1>5, <2>1, SubSeqProperties
  <2>3. Len(SubSeq(q, 1, d)) = Len(o)
    BY <1>5, <1>6, <2>2
  <2>4. \A n \in 1..Len(SubSeq(q, 1, d)) : SubSeq(q, 1, d)[n] = o[n]
    BY <1>5, <1>6, <1>7, <2>2, <2>3
  <2>. QED  BY <1>6, <2>2, <2>3, <2>4, SeqEqual
<1>11. Last(q) = WordAt(top, t, d + 1)
  BY <1>5 DEF Last
<1>. QED
  BY <1>8, <1>9, <1>10, <1>11 DEF q, o

(* What the changes that instructions are made of do to memory and SP.     *)
LEMMA ChangesTell ==
  ASSUME NEW top \in Int, NEW s, Typed(s, top)
  PROVE  /\ \A n, v : /\ With(s, n, v).mem = s.mem
                      /\ \A r \in Registers : With(s, n, v).reg[r]
                                              = IF r = Index(n) THEN v ELSE s.reg[r]
         /\ \A a : /\ GoTo(s, a).mem = s.mem
                   /\ \A r \in Registers : GoTo(s, a).reg[r] = IF r = IP THEN a ELSE s.reg[r]
         /\ \A x, y : Compared(s, x, y).mem = s.mem /\ Compared(s, x, y).reg = s.reg
         /\ Up(s).mem = s.mem /\ Down(s).mem = s.mem
         /\ \A r \in Registers :
              /\ Up(s).reg[r] = IF r = SP THEN s.reg[r] + WordBytes ELSE s.reg[r]
              /\ Down(s).reg[r] = IF r = SP THEN s.reg[r] - WordBytes ELSE s.reg[r]
<1>. DEFINE new(f) == [s EXCEPT !.reg = f]
<1>1. \A f : new(f).mem = s.mem /\ new(f).reg = f
  BY DEF Typed
<1>. DEFINE put(n, v) == [s.reg EXCEPT ![n] = v]
<1>2. \A n, v : \A r \in Registers : put(n, v)[r] = IF r = n THEN v ELSE s.reg[r]
  BY DEF Typed
<1>3. /\ \A n, v : With(s, n, v) = new(put(Index(n), v))
      /\ \A a : GoTo(s, a) = new(put(IP, a))
      /\ Up(s) = new(put(SP, s.reg[SP] + WordBytes))
      /\ Down(s) = new(put(SP, s.reg[SP] - WordBytes))
  BY DEF With, GoTo, Up, Down
<1>4. \A x, y : Compared(s, x, y).mem = s.mem /\ Compared(s, x, y).reg = s.reg
  BY DEF Compared
<1>. HIDE DEF new, put
<1>5. \A n, v : /\ With(s, n, v).mem = s.mem
                /\ \A r \in Registers : With(s, n, v).reg[r]
                                        = IF r = Index(n) THEN v ELSE s.reg[r]
  BY <1>1, <1>2, <1>3
<1>6. \A a : /\ GoTo(s, a).mem = s.mem
             /\ \A r \in Registers : GoTo(s, a).reg[r] = IF r = IP THEN a ELSE s.reg[r]
  BY <1>1, <1>2, <1>3
<1>7. /\ Up(s).mem = s.mem /\ Down(s).mem = s.mem
      /\ \A r \in Registers :
           /\ Up(s).reg[r] = IF r = SP THEN s.reg[r] + WordBytes ELSE s.reg[r]
           /\ Down(s).reg[r] = IF r = SP THEN s.reg[r] - WordBytes ELSE s.reg[r]
  BY <1>1, <1>2, <1>3
<1>. QED
  BY <1>4, <1>5, <1>6, <1>7

LEMMA AdvancedTells ==
  ASSUME NEW top \in Int, NEW s, Typed(s, top)
  PROVE  /\ Advanced(s).mem = s.mem
         /\ \A r \in Registers : Advanced(s).reg[r]
                                 = s.reg[r] + (IF r = IP THEN InstructionSize ELSE 0)
<1>1. \A r \in Registers : s.reg[r] \in Int
  BY DEF Typed
<1>. QED
  BY <1>1, ChangesTell, RegistersAre DEF Advanced

(* Nothing but a push, a pop or what names SP or stores in memory changes  *)
(* SP or a byte.                                                           *)
LEMMA OthersKeepStacks ==
  ASSUME NEW top \in Int, NEW s, Typed(s, top), NEW i, Sound(s, i), NEW v \in Int,
         i.op \notin Pushes \cup Pops, ~ Outside(i)
  PROVE  Executed(s, i, v).mem = s.mem /\ Executed(s, i, v).reg[SP] = s.reg[SP]
<1>. DEFINE Same(t) == t.mem = s.mem /\ t.reg[SP] = s.reg[SP]
<1>1. Index(i.a1) # SP /\ Index(i.a2) # SP /\ i.op \notin {"MOVRM", "MOVMM", "POPM"}
  BY DEF Outside
<1>2. /\ \A w : Same(With(s, i.a1, w)) /\ Same(With(s, i.a2, w))
      /\ \A a : Same(GoTo(s, a))
      /\ \A x, y : Same(Compared(s, x, y))
      /\ Same(s)
  BY <1>1, ChangesTell, RegistersAre
<1>. HIDE DEF Same
<1>3. CASE Taken(s, i.op)
  <2>1. i.op \in {"JMP", "JLT", "JGT", "JE", "JMPI", "JLTI", "JGTI", "JEI",
                  "JMPA", "JLTA", "JGTA", "JEA"}
    BY <1>3 DEF Taken, Pushes, Pops
  <2>2. Same(Jumped(s, i))
    BY <1>2, <2>1 DEF Jumped
  <2>. QED  BY <1>3, <2>2 DEF Same, Executed
<1>4. CASE ~ Taken(s, i.op)
  <2>. DEFINE u == IF i.op \in KernelCalls THEN Answered(s, i, v) ELSE Computed(s, i)
  <2>1. Same(Answered(s, i, v))
    BY <1>2 DEF Answered
  <2>2. Same(Computed(s, i))
    BY <1>1, <1>2 DEF Computed, Pushes, Pops
  <2>3. Same(u) /\ Typed(u, top)
    <3>1. Typed(Answered(s, i, v), top)
      BY ChangesTyped DEF Answered
    <3>2. Typed(Computed(s, i), top)
      BY ComputedTyped
    <3>. QED  BY <2>1, <2>2, <3>1, <3>2
  <2>4. Executed(s, i, v) = Advanced(u)
    BY <1>4 DEF Executed
  <2>. HIDE DEF u
  <2>5. s.reg[SP] \in Int
    BY RegistersAre DEF Typed
  <2>. QED  BY <2>3, <2>4, <2>5, AdvancedTells, RegistersAre DEF Same
<1>. QED
  BY <1>3, <1>4

LEMMA PushedTells ==
  ASSUME NEW top \in Int, NEW s, Typed(s, top), NEW v \in Int,
         Mapped(s.mem, Down(s).reg[SP])
  PROVE  /\ Pushed(s, v).reg[SP] = s.reg[SP] - WordBytes /\ Pushed(s, v).reg[SP] \in Nat
         /\ Pushed(s, v).reg[IP] = s.reg[IP]
         /\ \A a \in s.reg[SP]..(top - 1) : Pushed(s, v).mem[a] = s.mem[a]
         /\ Word(Pushed(s, v).mem, Pushed(s, v).reg[SP]) = Signed(v % WordCount)
<1>. DEFINE m == s.mem
            a == s.reg[SP] - WordBytes
            o == Stored(m, a, v)
<1>1. /\ s.reg[SP] \in Int /\ a \in Int /\ a + WordBytes = s.reg[SP]
      /\ m \in [0..(top - 1) -> Byte] /\ WordBytes \in Nat \ {0}
  BY RegistersAre, WordCountType DEF Typed
<1>2. /\ Down(s).reg[SP] = a /\ Down(s).reg[IP] = s.reg[IP] /\ Down(s).mem = m
  BY ChangesTell, RegistersAre
<1>3. /\ Pushed(s, v).reg = Down(s).reg /\ Pushed(s, v).mem = o
  <2>1. Typed(Down(s), top)
    BY ChangesTyped
  <2>2. Pushed(s, v) = [Down(s) EXCEPT !.mem = Stored(@, a, v)]
    BY <1>2 DEF Pushed, PutWord
  <2>. QED  BY <1>2, <2>1, <2>2 DEF Typed
<1>4. Mapped(m, a)
  BY <1>2
<1>. HIDE DEF a, m
<1>5. \A n \in 0..(WordBytes - 1) : a + n \in 0..(top - 1)
  BY <1>1, <1>4, MappedBytes
<1>6. a \in Nat
  BY <1>1, <1>5
<1>7. DOMAIN o = 0..(top - 1) /\ \A b \in 0..(top - 1) :
        o[b] = IF b \in a..(a + WordBytes - 1) THEN WordByte(v, b - a) ELSE m[b]
  BY <1>1 DEF Stored
<1>. HIDE DEF o
<1>8. \A b \in s.reg[SP]..(top - 1) : o[b] = m[b]
  <2>1. \A b \in s.reg[SP]..(top - 1) : b \in 0..(top - 1) /\ b \notin a..(a + WordBytes - 1)
    BY <1>1, <1>6
  <2>. QED  BY <1>7, <2>1
<1>9. \A n \in 0..(WordBytes - 1) : o[a + n] = WordByte(v, n)
  <2>1. \A n \in 0..(WordBytes - 1) : a + n \in a..(a + WordBytes - 1) /\ (a + n) - a = n
    BY <1>1
  <2>. QED  BY <1>5, <1>7, <2>1
<1>10. Word(o, a) = Signed(v % WordCount)
  BY <1>1, <1>9, WordOfBytes
<1>. QED
  BY <1>2, <1>3, <1>6, <1>8, <1>10 DEF a, m

LEMMA PushesPush ==
  ASSUME NEW top \in Int, NEW s, Typed(s, top), NEW i, Sound(s, i), NEW v \in Int,
         i.op \in Pushes
  PROVE  \E w \in Int :
           /\ Executed(s, i, v).mem = Pushed(s, w).mem
           /\ Executed(s, i, v).reg[SP] = Pushed(s, w).reg[SP]
           /\ i.op \in {"CALL", "CALLM"} => w = s.reg[IP] + InstructionSize
<1>1. CASE i.op \in {"PUSHR", "PUSHI"}
  <2>. DEFINE w == IF i.op = "PUSHR" THEN Reg(Down(s), i.a1) ELSE i.a1
              u == Pushed(s, w)
  <2>1. w \in Int
    <3>1. i.op = "PUSHR" => Indexable(i.a1)
      BY DEF Sound, First
    <3>2. Typed(Down(s), top)
      BY ChangesTyped
    <3>. QED  BY <3>1, <3>2, ChangesTyped DEF Sound
  <2>2. Executed(s, i, v) = Advanced(u)
    BY <1>1 DEF Executed, Taken, KernelCalls, AnsweredIn1, AnsweredIn2, Computed
  <2>3. Typed(u, top)
    BY <2>1, PushedTyped
  <2>4. u.reg[SP] \in Int
    BY <2>3, RegistersAre DEF Typed
  <2>. HIDE DEF w
  <2>5. Advanced(u).mem = u.mem /\ Advanced(u).reg[SP] = u.reg[SP]
    <3>. HIDE DEF u
    <3>. QED  BY <2>3, <2>4, AdvancedTells, RegistersAre
  <2>. QED  BY <1>1, <2>1, <2>2, <2>5
<1>2. CASE i.op \in {"CALL", "CALLM"}
  <2>. DEFINE w == s.reg[IP] + InstructionSize
              p == Pushed(s, w)
              a == p.reg[IP] + (IF i.op = "CALL" THEN Reg(p, i.a1)
                                ELSE Word(p.mem, Reg(p, i.a1)))
  <2>1. w \in Int
    BY RegistersAre DEF Typed
  <2>2. Executed(s, i, v) = GoTo(p, a)
    BY <1>2 DEF Executed, Taken, Jumped
  <2>3. Typed(p, top)
    BY <2>1, PushedTyped
  <2>4. GoTo(p, a).mem = p.mem /\ GoTo(p, a).reg[SP] = p.reg[SP]
    <3>. HIDE DEF p, a
    <3>. QED  BY <2>3, ChangesTell, RegistersAre
  <2>. HIDE DEF a
  <2>. QED  BY <2>1, <2>2, <2>4
<1>. QED
  BY <1>1, <1>2 DEF Pushes

LEMMA PopsPop ==
  ASSUME NEW top \in Int, NEW s, Typed(s, top), NEW i, Sound(s, i), NEW v \in Int,
         i.op \in Pops, ~ Outside(i)
  PROVE  /\ Executed(s, i, v).mem = s.mem
         /\ Executed(s, i, v).reg[SP] = s.reg[SP] + WordBytes
         /\ s.reg[SP] \in Nat
         /\ i.op = "RET" => Executed(s, i, v).reg[IP] = Word(s.mem, s.reg[SP])
         /\ i.op = "POPR" =>
              Executed(s, i, v).reg[Index(i.a1)]
                = Word(s.mem, s.reg[SP]) + (IF Index(i.a1) = IP THEN InstructionSize ELSE 0)
<1>. DEFINE x == Word(s.mem, s.reg[SP])
<1>1. i.op \in {"POPR", "RET"} /\ Index(i.a1) # SP
  BY DEF Outside, Pops
<1>2. s.reg[SP] \in Int /\ s.mem \in [0..(top - 1) -> Byte] /\ Mapped(s.mem, s.reg[SP])
  BY <1>1, Addresses, RegistersAre DEF Sound, Typed
<1>3. s.reg[SP] \in Nat /\ x \in Int
  <2>1. 0 \in 0..(WordBytes - 1)
    BY WordCountType
  <2>2. s.reg[SP] + 0 \in 0..(top - 1)
    BY <1>2, <2>1, MappedBytes
  <2>3. s.reg[SP] \in Nat
    BY <1>2, <2>2
  <2>. QED  BY <1>2, <2>3, MappedWord
<1>. HIDE DEF x
<1>4. CASE i.op = "POPR"
  <2>. DEFINE t == With(s, i.a1, x)
              u == Up(t)
  <2>1. Executed(s, i, v) = Advanced(u)
    BY <1>4 DEF Executed, Taken, KernelCalls, AnsweredIn1, AnsweredIn2, Computed, x
  <2>2. Typed(t, top)
    BY <1>3, ChangesTyped
  <2>3. /\ t.mem = s.mem /\ t.reg[SP] = s.reg[SP]
        /\ \A r \in Registers : r = Index(i.a1) => t.reg[r] = x
    BY <1>1, ChangesTell, RegistersAre
  <2>. HIDE DEF t
  <2>4. Typed(u, top)
    BY <2>2, ChangesTyped
  <2>5. /\ u.mem = s.mem /\ u.reg[SP] = s.reg[SP] + WordBytes
        /\ \A r \in Registers : r = Index(i.a1) => u.reg[r] = x
    BY <1>1, <2>2, <2>3, ChangesTell, RegistersAre
  <2>. HIDE DEF u
  <2>6. Index(i.a1) \in Registers
    BY <1>4, RegistersAre DEF Sound, First
  <2>7. u.reg[SP] \in Int
    BY <2>4, RegistersAre DEF Typed
  <2>8. /\ Advanced(u).mem = u.mem /\ Advanced(u).reg[SP] = u.reg[SP]
        /\ Advanced(u).reg[Index(i.a1)]
             = u.reg[Index(i.a1)] + (IF Index(i.a1) = IP THEN InstructionSize ELSE 0)
    BY <2>4, <2>6, <2>7, AdvancedTells, RegistersAre
  <2>. QED  BY <1>3, <1>4, <2>1, <2>5, <2>6, <2>8 DEF x
<1>5. CASE i.op = "RET"
  <2>. DEFINE u == Up(s)
  <2>1. Executed(s, i, v) = GoTo(u, x)
    BY <1>5 DEF Executed, Taken, Jumped, x
  <2>2. Typed(u, top) /\ u.mem = s.mem /\ u.reg[SP] = s.reg[SP] + WordBytes
    <3>1. Typed(Up(s), top)
      BY ChangesTyped
    <3>2. SP \in Registers
      BY RegistersAre
    <3>3. Up(s).mem = s.mem /\ Up(s).reg[SP] = s.reg[SP] + WordBytes
      BY <3>2, ChangesTell
    <3>. QED  BY <3>1, <3>3
  <2>. HIDE DEF u
  <2>3. /\ GoTo(u, x).mem = u.mem /\ GoTo(u, x).reg[SP] = u.reg[SP]
        /\ GoTo(u, x).reg[IP] = x
    BY <2>2, ChangesTell, RegistersAre
  <2>. QED  BY <1>3, <1>5, <2>1, <2>2, <2>3 DEF x
<1>. QED
  BY <1>1, <1>4, <1>5

(* What an instruction of any kind does to the stack of its process.       *)
LEMMA ExecutedKeepsStack ==
  ASSUME NEW top \in Nat, top < WordCount \div 2, NEW s, Typed(s, top), Works(s),
         NEW v \in Int, NEW i, i = Fetched(s), NEW t, t = Executed(s, i, v),
         StackOf(top, t) # StackOf(top, s), ~ Outside(i)
  PROVE  \/ /\ i.op \in Pushes
            /\ Front(StackOf(top, t)) = StackOf(top, s)
            /\ i.op \in {"CALL", "CALLM"}
                 => Last(StackOf(top, t)) = s.reg[IP] + InstructionSize
         \/ /\ i.op \in Pops
            /\ StackOf(top, t) = Front(StackOf(top, s))
            /\ i.op = "RET" => t.reg[IP] = Last(StackOf(top, s))
            /\ i.op = "POPR" =>
                 t.reg[Index(i.a1)] = Last(StackOf(top, s)) + (IF Index(i.a1) = IP
                                                               THEN InstructionSize ELSE 0)
<1>1. Sound(s, i)
  BY WorksMeans
<1>2. Typed(t, top)
  BY ExecutedTyped
<1>3. /\ s.reg[SP] \in Int /\ t.reg[SP] \in Int
      /\ s.mem \in [0..(top - 1) -> Byte] /\ t.mem \in [0..(top - 1) -> Byte]
  BY <1>2, RegistersAre DEF Typed
<1>4. CASE i.op \notin Pushes \cup Pops
  <2>1. t.mem = s.mem /\ t.reg[SP] = s.reg[SP]
    BY <1>1, <1>4, OthersKeepStacks
  <2>2. StackOf(top, t) = StackOf(top, s)
    BY <2>1 DEF StackOf, Aligned, Depth, WordAt
  <2>. QED  BY <2>2
<1>5. CASE i.op \in Pushes
  <2>1. PICK w \in Int : /\ t.mem = Pushed(s, w).mem
                         /\ t.reg[SP] = Pushed(s, w).reg[SP]
                         /\ i.op \in {"CALL", "CALLM"} => w = s.reg[IP] + InstructionSize
    BY <1>1, <1>5, PushesPush
  <2>2. Mapped(s.mem, Down(s).reg[SP])
    BY <1>1, <1>5, Addresses DEF Sound
  <2>3. /\ t.reg[SP] = s.reg[SP] - WordBytes /\ t.reg[SP] \in Nat
        /\ \A a \in s.reg[SP]..(top - 1) : t.mem[a] = s.mem[a]
        /\ Word(t.mem, t.reg[SP]) = Signed(w % WordCount)
    BY <2>1, <2>2, PushedTells
  <2>4. /\ Front(StackOf(top, t)) = StackOf(top, s)
        /\ Last(StackOf(top, t)) = Signed(w % WordCount)
    BY <1>3, <2>3, OneWordMore
  <2>5. i.op \in {"CALL", "CALLM"} => Signed(w % WordCount) = s.reg[IP] + InstructionSize
    <3>1. s.reg[IP] \in 0..(top - InstructionSize)
      BY FetchedTyped DEF Works
    <3>2. /\ i.op \in {"CALL", "CALLM"} => 0 <= w /\ w <= top
          /\ WordCount \div 2 \in Nat
      BY <2>1, <3>1, RegistersAre, WordCountType
    <3>3. i.op \in {"CALL", "CALLM"} => -(WordCount \div 2) <= w /\ w < WordCount \div 2
      BY <3>2
    <3>. QED  BY <2>1, <3>3, SignedFits
  <2>. QED  BY <1>5, <2>4, <2>5
<1>6. CASE i.op \in Pops
  <2>1. /\ t.mem = s.mem /\ t.reg[SP] = s.reg[SP] + WordBytes /\ s.reg[SP] \in Nat
        /\ i.op = "RET" => t.reg[IP] = Word(s.mem, s.reg[SP])
        /\ i.op = "POPR" =>
             t.reg[Index(i.a1)]
               = Word(s.mem, s.reg[SP]) + (IF Index(i.a1) = IP THEN InstructionSize ELSE 0)
    BY <1>1, <1>6, PopsPop
  <2>2. /\ s.reg[SP] = t.reg[SP] - WordBytes
        /\ \A a \in t.reg[SP]..(top - 1) : s.mem[a] = t.mem[a]
        /\ StackOf(top, s) # StackOf(top, t) /\ top \in Int
    BY <1>3, <2>1, WordCountType
  <2>3. /\ Front(StackOf(top, s)) = StackOf(top, t)
        /\ Last(StackOf(top, s)) = Word(s.mem, s.reg[SP])
    BY ONLY <1>3, <2>1, <2>2, OneWordMore, ZenonT(30)
  <2>. QED  BY <1>6, <2>1, <2>3
<1>. QED
  BY <1>4, <1>5, <1>6

(* A step that is no instruction of p leaves it the memory it has.         *)
LEMMA StackKept ==
  ASSUME NEW p \in Procs, Machine(p)' = Machine(p), source' = source
  PROVE  Stack(p)' = Stack(p)
<1>1. memory[p]' = memory[p]
  BY DEF Machine
<1>. QED
  BY <1>1 DEF Stack, Machine

(* Whatever the programs are and whoever else runs, the stack that PUSHR,  *)
(* PUSHI, CALL, POPR and RET of CPU.step (cpu.py) keep at SP is a stack:   *)
(* only its own process touches it, a pop takes what was pushed last, and  *)
(* RET goes behind the CALL it returns from.  What it needs is that no     *)
(* other instruction of the program names SP or stores on the stack, and   *)
(* that the addresses of a process fit in a word.                          *)
THEOREM TheStackIsAStack == Spec => StackIsAStack
<1>. DEFINE Kept(p) ==
       LET i == Fetched(Machine(p))
           old == Machine(p).reg
           new == (Machine(p).reg)'
       IN  Stack(p)' # Stack(p) /\ ~Outside(i) =>
             \/ /\ i.op \in Pushes
                /\ Front(Stack(p)') = Stack(p)
                /\ i.op \in {"CALL", "CALLM"} => Last(Stack(p)') = old[IP] + InstructionSize
             \/ /\ i.op \in Pops
                /\ Stack(p)' = Front(Stack(p))
                /\ i.op = "RET" => new[IP] = Last(Stack(p))
                /\ i.op = "POPR" =>
                     new[Index(i.a1)] = Last(Stack(p)) + (IF Index(i.a1) = IP
                                                          THEN InstructionSize ELSE 0)
<1>1. CpuInv /\ [Next]_vars => \A p \in Procs : Kept(p)
  <2>. SUFFICES ASSUME CpuInv, [Next]_vars, NEW p \in Procs PROVE Kept(p)
    OBVIOUS
  <2>1. ContextsInPlace /\ SourceInv /\ TypeOK
    BY DEF CpuInv
  <2>2. ASSUME Machine(p)' = Machine(p), source' = source PROVE Kept(p)
    BY <2>2, StackKept
  <2>3. ASSUME UNCHANGED <<source, [q \in Procs |-> Machine(q)]>> PROVE Kept(p)
    <3>1. [q \in Procs |-> Machine(q)]'[p] = [q \in Procs |-> Machine(q)][p]
      BY <2>3
    <3>. QED  BY <2>2, <2>3, <3>1
  <2>4. ASSUME NEW v, Execute(p, v) PROVE Kept(p)
    <3>. DEFINE s == Machine(p)
                t == After(s, v)
                i == Fetched(s)
                top == StackTop(source[p])
    <3>1. Machine(p)' = t /\ source' = source
      <4>1. IsMachine(t)
        BY MachineIsMachine, ExecutedIsMachine DEF After
      <4>2. /\ running = p /\ running' = p
            /\ cpu' = [reg |-> t.reg, zero |-> t.zero, sign |-> t.sign]
            /\ memory' = [memory EXCEPT ![p] = t.mem]
            /\ source' = source
        BY <2>4 DEF Execute, Steps, ContextOf
      <4>. HIDE DEF t
      <4>. QED  BY <2>1, <4>1, <4>2 DEF Machine, ContextsInPlace, IsMachine
    <3>2. top \in Nat /\ top < WordCount \div 2 /\ Typed(s, top) /\ Works(s) /\ v \in Int
      <4>1. Works(Machine(p))
        BY <2>4 DEF Execute
      <4>. QED  BY <2>1, <2>4, <4>1, SourceTypes, MachineTyped, ExecuteTyped
    <3>3. t = Executed(s, i, v)
      BY DEF After
    <3>4. Stack(p) = StackOf(top, s) /\ Stack(p)' = StackOf(top, t)
      <4>1. memory[p]' = t.mem /\ memory[p] = s.mem
        BY <3>1 DEF Machine
      <4>. HIDE DEF t
      <4>. QED  BY <3>1, <4>1 DEF Stack, StackOf, Aligned, Depth, WordAt
    <3>5. (Machine(p).reg)' = t.reg
      BY <3>1
    <3>. HIDE DEF s, t, i, top
    <3>6. ASSUME StackOf(top, t) # StackOf(top, s), ~ Outside(i)
          PROVE  \/ /\ i.op \in Pushes
                    /\ Front(StackOf(top, t)) = StackOf(top, s)
                    /\ i.op \in {"CALL", "CALLM"}
                         => Last(StackOf(top, t)) = s.reg[IP] + InstructionSize
                 \/ /\ i.op \in Pops
                    /\ StackOf(top, t) = Front(StackOf(top, s))
                    /\ i.op = "RET" => t.reg[IP] = Last(StackOf(top, s))
                    /\ i.op = "POPR" =>
                         t.reg[Index(i.a1)]
                           = Last(StackOf(top, s)) + (IF Index(i.a1) = IP
                                                      THEN InstructionSize ELSE 0)
      BY <3>2, <3>3, <3>6, ExecutedKeepsStack DEF i
    <3>. QED  BY <3>4, <3>5, <3>6 DEF s, i
  <2>. HIDE DEF Kept
  <2>5. ASSUME NEW q \in Procs, NEW v, Execute(q, v), q # p PROVE Kept(p)
    <3>1. /\ running = q /\ running' = q /\ pcb' = pcb /\ source' = source
          /\ memory' = [memory EXCEPT ![q] = After(Machine(q), v).mem]
      BY <2>5 DEF Execute, Steps
    <3>2. Machine(p)' = Machine(p)
      BY <2>1, <2>5, <3>1 DEF Machine, ContextsInPlace
    <3>. QED  BY <2>2, <3>1, <3>2
  <2>6. ASSUME NEW q \in Procs, Dispatch(q) PROVE Kept(p)
    BY <2>1, <2>3, <2>6, DispatchChangesNoMachine
  <2>7. ASSUME NEW q \in Procs, SwitchOut(q) \/ Block(q) \/ End(q) PROVE Kept(p)
    BY <2>1, <2>3, <2>7, SwitchChangesNoMachine DEF SwitchOut, Block, End, Steps
  <2>8. ASSUME NEW q \in Procs, Crash(q) PROVE Kept(p)
    BY <2>2, <2>8 DEF Crash, Machine
  <2>9. CASE UNCHANGED vars
    BY <2>2, <2>9 DEF vars, Machine
  <2>. QED
    BY <2>4, <2>5, <2>6, <2>7, <2>8, <2>9 DEF Next
<1>. QED
  BY <1>1, CpuInvHolds, PTL DEF StackIsAStack, Spec

=============================================================================
