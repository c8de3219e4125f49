------------------------------- MODULE MCCpu -------------------------------
(***************************************************************************)
(* Instances of Cpu for TLC: words of two bytes of sixteen values, which   *)
(* keeps what a width does (a value that does not fit, one that reads back *)
(* negative, a byte order) and little else; pages of two words.            *)
(***************************************************************************)
EXTENDS Cpu

CONSTANTS p1, p2

r(n) == [kind |-> "register", val |-> n]
n(v) == [kind |-> "immediate", val |-> v]
c(v) == [kind |-> "character", val |-> v]
bare(v) == [kind |-> "number", val |-> v]

Line(op, args) == [op |-> op, args |-> args]

Exit == Line("EXIT", << >>)

(* Every instruction, as programs write it.  r2 is 0 until something is    *)
(* put there, r14 the first address of the globals, r13 that of the stack. *)
Usual ==
  {Line(op, <<r(1)>>) : op \in {"INCR", "PRINTR", "PRINTCR", "INPUT", "INPUTC"}}
    \cup {Line(op, <<r(1), n(v)>>) : op \in {"ADDI", "MOVI", "CMPI"}, v \in {3, -1}}
    \cup {Line(op, <<r(1), r(13)>>) : op \in {"ADDR", "MOVR", "CMPR"}}
    \cup {Line(op, <<r(1), r(14)>>) : op \in {"MOVMR", "MAPSHAREDMEM", "ALLOC"}}
    \cup {Line("MOVRM", <<r(14), r(1)>>), Line("MOVMM", <<r(14), r(2)>>)}
    \cup {Line(op, <<r(14)>>) : op \in {"PRINTM", "PRINTCM", "CALLM", "FREEMEMORY"}}
    \cup {Line(op, <<r(14)>>) : op \in {"PUSHR", "POPM"}}
    \cup {Line("PUSHI", <<n(-2)>>), Line("POPR", <<r(1)>>), Line("RET", << >>)}
    \cup {Line("POPR", <<r(11)>>)}
    \cup {Line(op, <<r(1)>>) : op \in {"JMP", "JLT", "JGT", "JE", "CALL"}}
    \cup {Line(op, <<n(6)>>) : op \in {"JMP", "JLT", "JGT", "JE"}}
    \cup {Line(op, <<n(0)>>) : op \in {"JMPA", "JLTA", "JGTA", "JEA"}}
    \cup {Line("SLEEP", <<r(1)>>), Line("SLEEP", <<bare(0), n(2)>>)}
    \cup {Line(op, <<r(1)>>) : op \in {"SETPRIORITY", "TERMINATEPROCESS"}}
    \cup {Line(op, <<n(2)>>) : op \in {"SETPRIORITY", "TERMINATEPROCESS"}}
    \cup {Line(op, <<r(1)>>) : op \in {"ACQUIRELOCK", "RELEASELOCK", "SIGNALEVENT",
                                        "WAITEVENT"}}
    \cup {Line(op, <<n(1)>>) : op \in {"ACQUIRELOCK", "RELEASELOCK", "WAITEVENT",
                                        "SIGNALEVENTII"}}
    \cup {Line("MAPSHAREDMEM", <<n(1), r(2)>>), Line("MAPSHAREDMEM", <<n(1)>>)}

(* What the loader takes and the CPU may not: numbers without a sign, a    *)
(* character for a jump or an address, more than a word, numbers where     *)
(* registers belong, and numbers behind SIGNALEVENT.                       *)
Odd ==
  {Line("PUSHI", <<n(200)>>), Line("MOVI", <<r(1), n(256)>>),
   Line("JMP", <<c(18)>>), Line("SETPRIORITY", <<c(2)>>), Line("JMP", <<bare(20)>>),
   Line("INCR", <<n(20)>>), Line("MOVR", <<r(1), n(-1)>>), Line("SLEEP", <<n(2)>>),
   Line("SIGNALEVENT", <<n(1)>>), Line("MOVMR", <<r(1), r(13)>>),
   Line("PUSHR", <<r(13)>>), Line("POPR", <<r(13)>>), Line("CALL", <<r(13)>>),
   Line("MOVI", <<r(11), n(6)>>), Line("WAITEVENT", <<c(11)>>),
   Line("MOVI", <<r(15), n(0)>>)}

(* A comparison and the jump it is for; a call and its return, a loop, a    *)
(* value that doubles until it does not fit, a program that overwrites its  *)
(* own code, one that pushes until it does.                                 *)
Comparing == <<Line("CMPI", <<r(1), n(1)>>), Line("JLT", <<n(6)>>), Exit>>

Subroutine ==
  <<Line("MOVI", <<r(1), n(12)>>), Line("CALL", <<r(1)>>), Exit,
    Line("PUSHI", <<n(3)>>), Line("POPR", <<r(2)>>), Line("RET", << >>)>>

Counting ==
  <<Line("INCR", <<r(1)>>), Line("CMPI", <<r(1), n(2)>>), Line("JLT", <<n(-12)>>),
    Line("PUSHR", <<r(1)>>), Line("JGT", <<n(6)>>), Exit>>

Doubling ==
  <<Line("MOVI", <<r(1), n(100)>>), Line("ADDR", <<r(1), r(1)>>),
    Line("MOVRM", <<r(14), r(1)>>), Line("JMP", <<n(-12)>>)>>

Overwriting ==
  <<Line("MOVI", <<r(1), n(34)>>), Line("MOVRM", <<r(2), r(1)>>), Line("JMPA", <<n(0)>>)>>

Pushing == <<Line("PUSHI", <<n(1)>>), Line("JMP", <<n(-6)>>)>>

(* What a program has done before the instruction in question. *)
Before ==
  {Line("MOVI", <<r(1), n(-1)>>), Line("MOVI", <<r(1), n(6)>>),
   Line("CMPI", <<r(1), n(0)>>), Line("CMPI", <<r(1), n(3)>>),
   Line("CMPR", <<r(13), r(14)>>), Line("PUSHR", <<r(14)>>),
   Line("MOVRM", <<r(14), r(14)>>), Line("WAITEVENT", <<n(1)>>)}

(* One of these runs beside Comparing. *)
Mixed == {<<l, m, Exit>> : l \in Before, m \in Usual}
           \cup {<<m, Exit>> : m \in Usual \cup Odd}
           \cup {Subroutine, Counting, Doubling, Overwriting, Pushing}

Pairs == {(p1 :> lines) @@ (p2 :> Comparing) : lines \in Mixed}

Pids == (p1 :> 2) @@ (p2 :> 3)

=============================================================================
