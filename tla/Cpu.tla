-------------------------------- MODULE Cpu --------------------------------
(***************************************************************************)
(* The CPU of cpu.py and its context switches (save_cpu_state and          *)
(* restore_cpu_state of pcb.py): several processes, each loaded from an    *)
(* assembly program, take turns on one set of registers and flags.  What   *)
(* Scheduler leaves out is here, the data; what it decides is free here:   *)
(* which process is picked, when a quantum is over, whether a lock or an   *)
(* event blocks, what a kernel call answers.                               *)
(*                                                                         *)
(* The memory of a process is what VirtualMemory promises, without shared  *)
(* regions and the pages a heap grows by: bytes that hold what it last     *)
(* stored in them.                                                         *)
(*                                                                         *)
(* A definition named X_Slip, just before X, is X with one plausible slip  *)
(* of the code; it is used by nothing and shows what X guards.             *)
(***************************************************************************)
EXTENDS Assembler, SequencesExt

CONSTANTS
  Procs,     \* the processes that were loaded
  Pid,       \* [Procs -> Nat]: pcb.pid
  Programs,  \* functions on Procs: the programs that may have been loaded together
  Leftover,  \* what a byte that load does not write holds
  Answers,   \* what the kernel, or the user, may answer
  MaxValue,  \* bound: no register goes beyond it, up or down
  None       \* Python's None

ASSUME NoneAssumption == None \notin Procs
ASSUME AnswersAssumption == 0 \in Answers /\ Answers \subseteq Int
ASSUME ValuesAssumption ==
  /\ Pid \in [Procs -> Nat] /\ Leftover \in Byte /\ MaxValue \in Nat
  /\ \A f \in Programs : \A p \in Procs : f[p] \in Seq(SourceLine)

(* The address behind a process fits in a word: the stack may hold any of  *)
(* its addresses.                                                          *)
ASSUME AddressAssumption ==
  \A f \in Programs : \A p \in Procs : StackTop(f[p]) < WordCount \div 2

VARIABLES
  phase,         \* where the run loop is: "pick", "run", or "crashed" when an
                 \* exception escaped it
  running,       \* cpu.current_pcb
  switchReason,  \* cpu.switch_reason, "none" for Python's None
  cpu,           \* cpu.registers, cpu.zero_flag, cpu.sign_flag
  pcb,           \* the same fields of each PCB
  memory,        \* the virtual memory of each process
  ended,         \* the processes that exited or were ended by an error
  source         \* the program each process was loaded from

vars == <<phase, running, switchReason, cpu, pcb, memory, ended, source>>

Context == [reg: [Registers -> Int], zero: BOOLEAN, sign: BOOLEAN]

TypeOK ==
  /\ phase \in {"pick", "run", "crashed"}
  /\ running \in Procs \cup {None}
  /\ switchReason \in {"none", "quantum", "sleep"}
  /\ cpu \in Context
  /\ pcb \in [Procs -> Context]
  /\ \A p \in Procs : memory[p] \in [0..(StackTop(source[p]) - 1) -> Byte]
  /\ ended \subseteq Procs

ContextOf(s) == [reg |-> s.reg, zero |-> s.zero, sign |-> s.sign]

(* A process as its instructions see it, whether it has the CPU or not. *)
Machine(p) ==
  LET c == IF running = p THEN cpu ELSE pcb[p]
  IN  [reg |-> c.reg, zero |-> c.zero, sign |-> c.sign, mem |-> memory[p]]

StartsAs(p, lines) == StartMachine(lines, Pid[p], Leftover)

(* Every process is loaded: a program that load fails on is none of them.   *)
Init ==
  /\ source \in {f \in Programs : \A p \in Procs : Loads(f[p])}
  /\ LET start == [p \in Procs |-> StartsAs(p, source[p])]
     IN  /\ pcb = [p \in Procs |-> ContextOf(start[p])]
         /\ memory = [p \in Procs |-> start[p].mem]
  /\ cpu = [reg |-> [r \in Registers |-> 0], zero |-> FALSE, sign |-> FALSE]
  /\ phase = "pick" /\ running = None /\ switchReason = "none"
  /\ ended = {}

-----------------------------------------------------------------------------
(***************************************************************************)
(* Context switches                                                        *)
(***************************************************************************)

Restored_KeepsFlags(p) == [cpu EXCEPT !.reg = pcb[p].reg]

(* restore_cpu_state. *)
Restored(p) == pcb[p]

(* save_cpu_state. *)
Saved(p) == [pcb EXCEPT ![p] = cpu]

Dispatch(p) ==
  /\ phase = "pick"
  /\ p \notin ended
  /\ cpu' = Restored(p)
  /\ running' = p
  /\ phase' = "run"
  /\ UNCHANGED <<switchReason, pcb, memory, ended, source>>

(* context_switch_out, and the end of the slice. *)
SwitchTo(p, gone) ==
  /\ pcb' = Saved(p)
  /\ running' = None
  /\ phase' = "pick"
  /\ switchReason' = "none"
  /\ ended' = ended \cup gone
  /\ UNCHANGED <<cpu, memory, source>>

SwitchOut(p) ==
  /\ phase = "run" /\ running = p
  /\ switchReason # "none"
  /\ SwitchTo(p, {})

-----------------------------------------------------------------------------
(***************************************************************************)
(* CPU.step                                                                *)
(***************************************************************************)

Steps(p) == phase = "run" /\ running = p /\ switchReason = "none"

Works(s) == Fetchable(s) /\ Fault(s, Fetched(s)) = "none"

After(s, v) == Executed(s, Fetched(s), v)

(* The instruction of p is fetched and fails as f says. *)
Fails(p, f) == Fetchable(Machine(p)) /\ Fault(Machine(p), Fetched(Machine(p))) = f

Op(p) == Fetched(Machine(p)).op

(* What may answer an instruction; most ask nothing. *)
AnswersTo(op) == IF op \in AnsweredIn1 \cup AnsweredIn2 THEN Answers ELSE {0}

(* An instruction that returns True; the tick it costs may be the last of  *)
(* the quantum, and SLEEP gives up the CPU.                                *)
Execute(p, v) ==
  LET t == After(Machine(p), v)
  IN  /\ Steps(p) /\ Works(Machine(p))
      /\ Op(p) # "EXIT"
      /\ v \in AnswersTo(Op(p))
      /\ \A r \in Registers : t.reg[r] \in -MaxValue..MaxValue
      /\ cpu' = ContextOf(t)
      /\ memory' = [memory EXCEPT ![p] = t.mem]
      /\ switchReason' \in IF Op(p) = "SLEEP" THEN {"sleep"} ELSE {"none", "quantum"}
      /\ UNCHANGED <<phase, running, pcb, ended, source>>

(* ACQUIRELOCK or WAITEVENT blocks: the context is saved inside step, before *)
(* IP is advanced, and nothing is left to do when the slice ends.           *)
Block(p) ==
  /\ Steps(p) /\ Works(Machine(p))
  /\ Op(p) \in Blocking
  /\ SwitchTo(p, {})

(* EXIT, or MemoryError or RuntimeError from the fetch or the instruction. *)
(* What the part of an instruction before its error did, SP moved or some  *)
(* bytes of a word stored, is not kept: the process is gone, its memory    *)
(* with it.                                                                *)
End(p) ==
  /\ Steps(p)
  /\ \/ ~Fetchable(Machine(p))
     \/ Fails(p, "error")
     \/ Works(Machine(p)) /\ Op(p) = "EXIT"
  /\ SwitchTo(p, {p})

(* Any other exception leaves run(). *)
Crash(p) ==
  /\ Steps(p) /\ Fails(p, "raise")
  /\ phase' = "crashed"
  /\ UNCHANGED <<running, switchReason, cpu, pcb, memory, ended, source>>

Next ==
  \E p \in Procs :
    \/ Dispatch(p) \/ SwitchOut(p)
    \/ \E v \in Answers : Execute(p, v)
    \/ Block(p) \/ End(p) \/ Crash(p)

Spec == Init /\ [][Next]_vars

-----------------------------------------------------------------------------
(***************************************************************************)
(* Properties                                                              *)
(***************************************************************************)

(* Each process computes as if the CPU were its own: neither a switch nor   *)
(* what others execute in between changes its registers, flags or memory,   *)
(* and an instruction that blocked has had no effect when it is executed    *)
(* again.                                                                   *)
Own == INSTANCE OwnCpu WITH machine <- [p \in Procs |-> Machine(p)]

ImplementsOwnCpu == Own!Spec

(* The line of its program that process p is about to execute, if it has    *)
(* not written over it.                                                     *)
AtLine(p, n) ==
  LET first == (n - 1) * InstructionSize
  IN  /\ n \in DOMAIN source[p]
      /\ Machine(p).reg[IP] = first
      /\ \A a \in first..(first + InstructionSize - 1) :
           memory[p][a] = CodeByte(source[p], a)

(* The CPU executes what was written: fetch undoes what _parse_line and     *)
(* _write_instructions did.  Of a mnemonic with two forms it is the I form  *)
(* that a number or a character after it selects; a number in the upper     *)
(* half of a word, which load accepts, reads as a negative one.             *)
CpuReadsTheSource ==
  \A p \in Procs : \A n \in DOMAIN source[p] : AtLine(p, n) =>
    LET l == source[p][n]
        i == Fetched(Machine(p))
        immediate == l.args # << >> /\ l.args[1].kind \in {"immediate", "character"}
        number(k) == IF k \in DOMAIN l.args THEN l.args[k].val ELSE 0
    IN  /\ i.op = IF l.op \in DOMAIN WithI /\ immediate THEN WithI[l.op] ELSE l.op
        /\ i.a1 = Signed(number(1) % WordCount)
        /\ i.a2 = Signed(number(2) % WordCount)

(* The kinds of operand that an instruction interprets as they are written: *)
(* a register where it names one, and in the place the loader looks at      *)
(* anything that it tells apart.                                            *)
WellWritten(l) ==
  LET i == [op |-> l.op, a1 |-> Argument(l, 1), a2 |-> Argument(l, 2)]
  IN  /\ 1 \in DOMAIN l.args =>
           IF l.op \in DOMAIN WithI THEN l.args[1].kind # "number"
           ELSE First(i) => l.args[1].kind = "register"
      /\ 2 \in DOMAIN l.args /\ (Second(i) \/ l.op = "MAPSHAREDMEM") =>
           l.args[2].kind = "register"

(* A program that names registers where the CPU takes them never makes it   *)
(* look for one that is not there, which ends the kernel with an IndexError *)
(* (cpu.py:101 and the like): what is left are values that do not fit in a  *)
(* word and numbers the kernel refuses, that of a shared region it had no   *)
(* room for among them.                                                     *)
RegistersExist ==
  \A p \in Procs : \A n \in DOMAIN source[p] :
    phase = "crashed" /\ running = p /\ AtLine(p, n) /\ WellWritten(source[p][n]) =>
      LET s == Machine(p)
      IN  Unfit(s, Fetched(s)) \/ Refused(s, Fetched(s))

(* The words on the stack of a process, the last one pushed at the end, as  *)
(* long as SP is where pushes and pops from the top can have left it.       *)
Stack(p) ==
  LET top == StackTop(source[p])
      depth == (top - Machine(p).reg[SP]) \div WordBytes
  IN  IF top - Machine(p).reg[SP] = depth * WordBytes /\ depth >= 0
      THEN [n \in 1..depth |-> Word(memory[p], top - n * WordBytes)]
      ELSE << >>

(* Instructions that may change the stack from outside: they store in       *)
(* memory or name SP.                                                       *)
Outside(i) == i.op \in {"MOVRM", "MOVMM", "POPM"} \/ SP \in {Index(i.a1), Index(i.a2)}

(* The stack is a stack: a push adds one word on top and touches none below *)
(* it, a pop takes off the last one and delivers it, RET returns behind the *)
(* CALL that pushed its address, and nothing else, no switch and no other   *)
(* process, moves a word of it.  What is popped into IP is an address that  *)
(* IP is then advanced from.                                                *)
StackIsAStack ==
  [][\A p \in Procs :
       LET i == Fetched(Machine(p))
           old == Machine(p).reg
           new == (Machine(p).reg)'
       IN  Stack(p)' # Stack(p) /\ ~Outside(i) =>
             \/ /\ i.op \in Pushes
                /\ Front(Stack(p)') = Stack(p)
                /\ i.op \in {"CALL", "CALLM"} => Last(Stack(p)') = old[IP] + InstructionSize
             \/ /\ i.op \in Pops
                /\ Stack(p)' = Front(Stack(p))
                /\ i.op = "RET" => new[IP] = Last(Stack(p))
                /\ i.op = "POPR" =>
                     new[Index(i.a1)] = Last(Stack(p)) + (IF Index(i.a1) = IP
                                                          THEN InstructionSize ELSE 0)]_vars

=============================================================================
