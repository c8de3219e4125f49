----------------------------- MODULE Assembler -----------------------------
(***************************************************************************)
(* What the loader makes of an assembly program (os_loader.py): the        *)
(* instructions of its lines, the memory and the registers its process     *)
(* starts with.  A program is a sequence of lines; a line is a mnemonic in *)
(* upper case and the operands written after it, an operand its kind (a    *)
(* register "r", a number behind # or $, a character behind @, a bare      *)
(* number) and its number.  Comments, commas and blank lines are gone.     *)
(*                                                                         *)
(* A definition named X_Slip, just before X, is X with one plausible slip  *)
(* of the code; it is used by nothing and shows what X guards.             *)
(***************************************************************************)
EXTENDS InstructionSet

CONSTANTS
  PageSize,    \* page_size
  GlobalSize,  \* GLOBAL_DATA_SIZE
  HeapSize,    \* HEAP_SIZE
  StackSize    \* INITIAL_STACK

ASSUME LayoutAssumption ==
  /\ PageSize \in Nat \ {0}
  /\ GlobalSize \in Nat /\ HeapSize \in Nat /\ StackSize \in Nat

(***************************************************************************)
(* The parser                                                              *)
(***************************************************************************)

Operand == [kind: {"register", "immediate", "character", "number"}, val: Int]

SourceLine == [op: STRING, args: Seq(Operand)]

(* imm_variants and what an I behind them gives, which for SIGNALEVENT is  *)
(* no opcode.                                                              *)
WithI ==
  [JMP |-> "JMPI", JLT |-> "JLTI", JGT |-> "JGTI", JE |-> "JEI",
   ACQUIRELOCK |-> "ACQUIRELOCKI", RELEASELOCK |-> "RELEASELOCKI",
   SIGNALEVENT |-> "SIGNALEVENTI", WAITEVENT |-> "WAITEVENTI",
   MAPSHAREDMEM |-> "MAPSHAREDMEMI", TERMINATEPROCESS |-> "TERMINATEPROCESSI",
   SETPRIORITY |-> "SETPRIORITYI"]

IsImmediate_NoCharacter(o) == o.kind = "immediate"

IsImmediate(o) == o.kind \in {"immediate", "character"}

(* _resolve_variant.  A mnemonic that ends in I or A is none of imm_variants *)
Variant(l) ==
  IF l.op \in DOMAIN WithI /\ l.args # << >> /\ IsImmediate(l.args[1])
  THEN WithI[l.op] ELSE l.op

(* _parse_operand raises ValueError for another register.                  *)
GoodOperand(o) == o.kind = "register" => o.val \in 1..14

(* _parse_line finds an opcode and can read the two operands it looks at;  *)
(* otherwise _parse raises SyntaxError.                                    *)
Assembles(l) ==
  /\ \E n \in DOMAIN Opcodes : Opcodes[n] = Variant(l)
  /\ \A k \in DOMAIN l.args \cap {1, 2} : GoodOperand(l.args[k])

(* The number in argument k of the instruction: a missing operand is 0. *)
Argument(l, k) == IF k \in DOMAIN l.args THEN l.args[k].val ELSE 0

(* _parse_line: an opcode and two arguments. *)
Assembled(l) ==
  <<CHOOSE n \in DOMAIN Opcodes : Opcodes[n] = Variant(l), Argument(l, 1), Argument(l, 2)>>

(* load finishes: _write_int of an argument that does not fit in a word    *)
(* raises OverflowError, when the pages are already taken.                 *)
Loads(lines) ==
  \A n \in DOMAIN lines :
    Assembles(lines[n]) /\ \A k \in 1..2 : Storable(Argument(lines[n], k))

-----------------------------------------------------------------------------
(***************************************************************************)
(* The layout of a process: code, globals, heap and stack, each in pages   *)
(* of its own.                                                             *)
(***************************************************************************)

(* _pages_needed, in bytes. *)
Paged(size) == Max({1, (size + PageSize - 1) \div PageSize}) * PageSize

CodeSize(lines) == Len(lines) * InstructionSize
GlobalStart(lines) == Paged(CodeSize(lines))
HeapStart(lines) == GlobalStart(lines) + Paged(GlobalSize)
StackBase(lines) == HeapStart(lines) + Paged(HeapSize)
StackTop(lines) == StackBase(lines) + Paged(StackSize)

CodeWord(lines, n) == Assembled(lines[n \div 3 + 1])[(n % 3) + 1]

CodeByte_LittleEndian(lines, a) ==
  WordByte(CodeWord(lines, a \div WordBytes), WordBytes - 1 - (a % WordBytes))

(* _write_instructions and _write_int. *)
CodeByte(lines, a) == WordByte(CodeWord(lines, a \div WordBytes), a % WordBytes)

(* What load leaves in the memory of the process; the bytes that are       *)
(* neither code nor globals are what their frames held before.             *)
StartMemory(lines, before) ==
  [a \in 0..(StackTop(lines) - 1) |->
     IF a < CodeSize(lines) THEN CodeByte(lines, a)
     ELSE IF a \in GlobalStart(lines)..(GlobalStart(lines) + GlobalSize - 1) THEN 0
     ELSE before]

StartRegisters(lines, pid) ==
  [r \in Registers |-> CASE r = PID    -> pid
                         [] r = SP     -> StackTop(lines)
                         [] r = Global -> GlobalStart(lines)
                         [] OTHER      -> 0]

(* The state a process starts in, as InstructionSet has it. *)
StartMachine(lines, pid, before) ==
  [reg |-> StartRegisters(lines, pid), zero |-> FALSE, sign |-> FALSE,
   mem |-> StartMemory(lines, before)]

=============================================================================
