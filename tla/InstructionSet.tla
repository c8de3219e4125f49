--------------------------- MODULE InstructionSet ---------------------------
(***************************************************************************)
(* The instructions of the MidOS machine (opcodes.py, CPU.step of cpu.py)  *)
(* and the words they load and store (read_int and write_int of            *)
(* physical_memory.py), as functions of the state of one process: its      *)
(* registers, its two flags and its memory, a function from its virtual    *)
(* addresses to bytes.  A register is a Python integer and has no width; a *)
(* word of memory has.                                                     *)
(*                                                                         *)
(* A definition named X_Slip, just before X, is X with one plausible slip  *)
(* of the code; it is used by nothing and shows what X guards.             *)
(***************************************************************************)
EXTENDS Integers, Sequences, FiniteSetsExt

CONSTANTS
  Base,       \* how many values a byte has: 256
  WordBytes,  \* the bytes of a word: 4
  Regions     \* the shared regions there was room for, the keys of
              \* _shared_region_start_page

ASSUME WordAssumption == Base \in Nat \ {0, 1} /\ WordBytes \in Nat \ {0}
ASSUME RegionsAssumption == Regions \subseteq 1..10

Byte == 0..(Base - 1)

(* INSTRUCTION_SIZE: an opcode and two arguments. *)
InstructionSize == 3 * WordBytes

(* The registers with a role, and those that there are (cpu.registers). *)
IP == 11
PID == 12
SP == 13
Global == 14
Registers == 0..14

(* The opcode n is the n-th of these. *)
Opcodes ==
  <<"INCR", "ADDI", "ADDR", "MOVI", "MOVR", "MOVMR", "MOVRM", "MOVMM",
    "PUSHR", "PUSHI", "PRINTR", "POPR", "POPM", "PRINTM", "PRINTCR", "PRINTCM",
    "JMP", "JMPI", "JMPA", "CMPI", "CMPR", "JLT", "JLTI", "JLTA",
    "JGT", "JGTI", "JGTA", "JE", "JEI", "JEA", "CALL", "CALLM", "RET", "EXIT",
    "SLEEP", "INPUT", "INPUTC", "SETPRIORITY", "SETPRIORITYI",
    "ACQUIRELOCK", "ACQUIRELOCKI", "RELEASELOCK", "RELEASELOCKI",
    "SIGNALEVENT", "SIGNALEVENTII", "WAITEVENT", "WAITEVENTI",
    "MAPSHAREDMEM", "MAPSHAREDMEMI", "ALLOC", "FREEMEMORY",
    "TERMINATEPROCESS", "TERMINATEPROCESSI">>

-----------------------------------------------------------------------------
(***************************************************************************)
(* Words                                                                   *)
(***************************************************************************)

(* Base to the power n. *)
Power[n \in 0..WordBytes] == IF n = 0 THEN 1 ELSE Base * Power[n - 1]

WordCount == Power[WordBytes]

(* Any other value makes to_bytes raise OverflowError. *)
Storable(v) == v >= -(WordCount \div 2) /\ v < WordCount

WordByte_Unmasked(v, n) == (v % WordCount) \div Power[WordBytes - 1 - n]

(* The n-th byte, from 0, of a word, the most significant one first. *)
WordByte(v, n) == (v % WordCount) \div Power[WordBytes - 1 - n] % Base

(* write_int: the memory m with v stored at address a. *)
Stored(m, a, v) ==
  [b \in DOMAIN m |-> IF b \in a..(a + WordBytes - 1) THEN WordByte(v, b - a) ELSE m[b]]

(* The two's complement a word is read as. *)
Signed(u) == IF u < WordCount \div 2 THEN u ELSE u - WordCount

(* read_int, one byte after the other. *)
Word(m, a) ==
  LET read[n \in 0..WordBytes] == IF n = 0 THEN 0 ELSE Base * read[n - 1] + m[a + n - 1]
  IN  Signed(read[WordBytes])

Mapped(m, a) == a..(a + WordBytes - 1) \subseteq DOMAIN m

(* A word tells opcodes and registers apart, and from negative numbers.    *)
ASSUME OpcodesAssumption ==
  DOMAIN Opcodes \cup Registers \subseteq 0..(WordCount \div 2 - 1)

-----------------------------------------------------------------------------
(***************************************************************************)
(* Instructions.  s is the state of the process, a record of reg, zero,    *)
(* sign and mem; i is what fetch returns, a record of op, a1 and a2.       *)
(***************************************************************************)

Fetchable(s) == \A k \in 0..2 : Mapped(s.mem, s.reg[IP] + k * WordBytes)

Fetched(s) ==
  LET code == Word(s.mem, s.reg[IP])
  IN  [op |-> IF code \in DOMAIN Opcodes THEN Opcodes[code] ELSE "unknown",
       a1 |-> Word(s.mem, s.reg[IP] + WordBytes),
       a2 |-> Word(s.mem, s.reg[IP] + 2 * WordBytes)]

(* A Python list may be indexed from its end. *)
Indexable(n) == n \in -15..14

Index(n) == IF n < 0 THEN n + 15 ELSE n

Reg(s, n) == s.reg[Index(n)]

With(s, n, v) == [s EXCEPT !.reg[Index(n)] = v]

(* The jumps on a flag are taken or not; the others always are. *)
Taken(s, op) ==
  \/ op \in {"JMP", "JMPI", "JMPA", "CALL", "CALLM", "RET"}
  \/ op \in {"JLT", "JLTI", "JLTA"} /\ s.sign
  \/ op \in {"JGT", "JGTI", "JGTA"} /\ ~s.sign /\ ~s.zero
  \/ op \in {"JE", "JEI", "JEA"} /\ s.zero

(* The instructions whose first argument is the number of a register, and  *)
(* those whose second is.                                                  *)
First(i) ==
  \/ i.op \in {"INCR", "ADDI", "ADDR", "MOVI", "MOVR", "MOVMR", "MOVRM", "MOVMM",
               "PUSHR", "POPR", "POPM", "PRINTR", "PRINTM", "PRINTCR", "PRINTCM",
               "CMPI", "CMPR", "JMP", "JLT", "JGT", "JE", "CALL", "CALLM",
               "INPUT", "INPUTC", "SETPRIORITY", "ACQUIRELOCK", "RELEASELOCK",
               "SIGNALEVENT", "WAITEVENT", "MAPSHAREDMEM", "ALLOC", "FREEMEMORY",
               "TERMINATEPROCESS"}
  \/ i.op = "SLEEP" /\ i.a1 # 0

Second(i) ==
  \/ i.op \in {"ADDR", "MOVR", "MOVMR", "MOVRM", "MOVMM", "CMPR", "MAPSHAREDMEM", "ALLOC"}
  \/ i.op = "MAPSHAREDMEMI" /\ i.a2 # 0

(* The numbers an instruction asks the kernel for, of a lock, event,       *)
(* region, process, size, address, priority or time, and the instructions  *)
(* whose register the kernel's answer, or what is typed in, goes to.       *)
Asked(s, i) ==
  IF i.op = "SLEEP" THEN IF i.a1 # 0 THEN Reg(s, i.a1) ELSE i.a2
  ELSE IF First(i) THEN Reg(s, i.a1) ELSE i.a1

AnsweredIn1 == {"INPUT", "INPUTC"}
AnsweredIn2 == {"MAPSHAREDMEM", "MAPSHAREDMEMI", "ALLOC"}

KernelCalls ==
  AnsweredIn1 \cup AnsweredIn2 \cup
  {"SLEEP", "SETPRIORITY", "SETPRIORITYI", "ACQUIRELOCK", "ACQUIRELOCKI",
   "RELEASELOCK", "RELEASELOCKI", "SIGNALEVENT", "SIGNALEVENTII", "WAITEVENT",
   "WAITEVENTI", "FREEMEMORY", "TERMINATEPROCESS", "TERMINATEPROCESSI"}

(* Those that return without an answer, or not at once. *)
Blocking == {"ACQUIRELOCK", "ACQUIRELOCKI", "WAITEVENT", "WAITEVENTI"}

Numbered == Blocking \cup {"RELEASELOCK", "RELEASELOCKI", "SIGNALEVENT", "SIGNALEVENTII"}

-----------------------------------------------------------------------------
(***************************************************************************)
(* What goes wrong                                                         *)
(***************************************************************************)

Down(s) == [s EXCEPT !.reg[SP] = @ - WordBytes]

Up_Twice(s) == [s EXCEPT !.reg[SP] = @ + 2 * WordBytes]

Up(s) == [s EXCEPT !.reg[SP] = @ + WordBytes]

Pushes == {"PUSHR", "PUSHI", "CALL", "CALLM"}
Pops == {"POPR", "POPM", "RET"}

(* The address of the word that is accessed first, and of the one after.   *)
FirstAddress(s, i) ==
  CASE i.op \in {"MOVMR", "MOVMM"} -> {Reg(s, i.a2)}
    [] i.op \in {"MOVRM", "PRINTM", "PRINTCM"} -> {Reg(s, i.a1)}
    [] i.op \in Pops -> {s.reg[SP]}
    [] i.op \in Pushes -> {Down(s).reg[SP]}
    [] OTHER -> {}

NextAddress(s, i) ==
  CASE i.op \in {"MOVMM", "POPM"} -> {Reg(s, i.a1)}
    [] i.op = "CALLM" -> {Reg(Down(s), i.a1)}
    [] OTHER -> {}

(* A value that is stored and may not fit. *)
Unfit(s, i) ==
  \/ i.op = "MOVRM" /\ ~Storable(Reg(s, i.a2))
  \/ i.op = "PUSHR" /\ ~Storable(Reg(Down(s), i.a1))

(* The registers that are not looked at before memory is. *)
LateFirst == {"MOVMR", "POPR", "POPM", "CALL", "CALLM"}

(* The arguments that name no register, which raises IndexError; a jump    *)
(* that is not taken does not look at its register.                        *)
BadFirst(s, i) ==
  /\ First(i) /\ ~Indexable(i.a1)
  /\ i.op \in {"JLT", "JGT", "JE"} => Taken(s, i.op)

BadSecond(i) == Second(i) /\ ~Indexable(i.a2)

(* A region there is not, a ValueError, or one that the memory was too     *)
(* small for, a KeyError.                                                  *)
NoRegion(s, i) ==
  i.op \in {"MAPSHAREDMEM", "MAPSHAREDMEMI"} /\ Asked(s, i) \notin Regions

(* A number the kernel answers with an exception: of a region, or a        *)
(* ValueError for a lock, an event or a size that cannot be.               *)
Refused(s, i) ==
  \/ NoRegion(s, i)
  \/ i.op \in Numbered /\ Asked(s, i) \notin 1..10
  \/ i.op = "ALLOC" /\ Asked(s, i) <= 0

(* How step ends: "error" is MemoryError or RuntimeError, which end the    *)
(* process, "raise" is IndexError, OverflowError, ValueError or KeyError,  *)
(* which nothing catches.                                                  *)
Fault(s, i) ==
  LET early == \/ BadFirst(s, i) /\ i.op \notin LateFirst
               \/ BadSecond(i) \/ Unfit(s, i) \/ Refused(s, i)
  IN  IF i.op = "unknown" THEN "error"
      ELSE IF early THEN "raise"
      ELSE IF \E a \in FirstAddress(s, i) : ~Mapped(s.mem, a) THEN "error"
      ELSE IF BadFirst(s, i) THEN "raise"
      ELSE IF \E a \in NextAddress(s, i) : ~Mapped(s.mem, a) THEN "error"
      ELSE "none"

-----------------------------------------------------------------------------
(***************************************************************************)
(* What an instruction does, when nothing goes wrong                       *)
(***************************************************************************)

PutWord(s, a, v) == [s EXCEPT !.mem = Stored(@, a, v)]

Pushed(s, v) == PutWord(Down(s), Down(s).reg[SP], v)

Compared(s, x, y) == [s EXCEPT !.zero = (x = y), !.sign = (x < y)]

(* Arithmetic, moves, the stack, comparisons. *)
Computed(s, i) ==
  CASE i.op = "INCR"  -> With(s, i.a1, Reg(s, i.a1) + 1)
    [] i.op = "ADDI"  -> With(s, i.a1, Reg(s, i.a1) + i.a2)
    [] i.op = "ADDR"  -> With(s, i.a1, Reg(s, i.a1) + Reg(s, i.a2))
    [] i.op = "MOVI"  -> With(s, i.a1, i.a2)
    [] i.op = "MOVR"  -> With(s, i.a1, Reg(s, i.a2))
    [] i.op = "MOVMR" -> With(s, i.a1, Word(s.mem, Reg(s, i.a2)))
    [] i.op = "MOVRM" -> PutWord(s, Reg(s, i.a1), Reg(s, i.a2))
    [] i.op = "MOVMM" -> PutWord(s, Reg(s, i.a1), Word(s.mem, Reg(s, i.a2)))
    [] i.op = "PUSHR" -> Pushed(s, Reg(Down(s), i.a1))
    [] i.op = "PUSHI" -> Pushed(s, i.a1)
    [] i.op = "POPR"  -> Up(With(s, i.a1, Word(s.mem, s.reg[SP])))
    [] i.op = "POPM"  -> Up(PutWord(s, Reg(s, i.a1), Word(s.mem, s.reg[SP])))
    [] i.op = "CMPI"  -> Compared(s, Reg(s, i.a1), i.a2)
    [] i.op = "CMPR"  -> Compared(s, Reg(s, i.a1), Reg(s, i.a2))
    [] OTHER -> s

GoTo(s, a) == [s EXCEPT !.reg[IP] = a]

(* The jumps and the subroutines. *)
Jumped(s, i) ==
  CASE i.op \in {"JMP", "JLT", "JGT", "JE"} -> GoTo(s, s.reg[IP] + Reg(s, i.a1))
    [] i.op \in {"JMPI", "JLTI", "JGTI", "JEI"} -> GoTo(s, s.reg[IP] + i.a1)
    [] i.op \in {"JMPA", "JLTA", "JGTA", "JEA"} -> GoTo(s, i.a1)
    [] i.op \in {"CALL", "CALLM"} ->
         LET p == Pushed(s, s.reg[IP] + InstructionSize)
             x == Reg(p, i.a1)
         IN  GoTo(p, p.reg[IP] + (IF i.op = "CALL" THEN x ELSE Word(p.mem, x)))
    [] i.op = "RET" -> GoTo(Up(s), Word(s.mem, s.reg[SP]))

(* The kernel, or the user, answers v. *)
Answered(s, i, v) ==
  CASE i.op \in AnsweredIn1 -> With(s, i.a1, v)
    [] i.op \in AnsweredIn2 /\ Second(i) -> With(s, i.a2, v)
    [] OTHER -> s

Advanced(s) == GoTo(s, s.reg[IP] + InstructionSize)

(* The state an instruction that returns leaves, v being the answer to it. *)
Executed(s, i, v) ==
  IF Taken(s, i.op) THEN Jumped(s, i)
  ELSE Advanced(IF i.op \in KernelCalls THEN Answered(s, i, v) ELSE Computed(s, i))

=============================================================================
