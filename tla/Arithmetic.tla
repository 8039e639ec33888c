------------------------------- MODULE Arithmetic -------------------------------
(***************************************************************************)
(* The numbers behind one operator: what the end of each handler of        *)
(* generate_expression emits (src/generator/generator.cpp), executed on    *)
(* words of any width.  Module ExprGen says which values an operator is    *)
(* applied to; this one says which bits come out.                          *)
(*                                                                         *)
(* A word is a number below Words, the signed numbers are -Half..Half-1.   *)
(* The left side is in RAX, the right side on top of the stack, and RDX    *)
(* and RCX hold anything.  An operand of a prefix operator is the left     *)
(* side.  MOD, for which nothing is emitted, and the prefix NOT, for which *)
(* NEG is, are not among the operators.                                    *)
(***************************************************************************)
EXTENDS Integers, Sequences

CONSTANTS
  Half,   \* 2^63 on the machine: how many words stand for numbers below zero
  Bytes,  \* 2^8 on the machine: how many values the register AL has
  Left,   \* the left sides, words
  Right,  \* the right sides, words
  Before  \* the words that RDX and RCX may hold before

Words == 2 * Half
Word  == 0..(Words - 1)

ASSUME WidthAssumption ==
  /\ Half \in Nat /\ Bytes \in Nat
  /\ 1 < Bytes /\ Bytes <= Half
  /\ Left \subseteq Word /\ Right \subseteq Word /\ Before \subseteq Word

Comparisons == {"EQ", "NEQ", "LT", "LTE", "GT", "GTE"}
Operators   == Comparisons \cup {"ADD", "SUB", "MUL", "DIV", "MINUS"}

VARIABLES
  op, left, right,  \* the expression
  pc,               \* the instruction in Emitted(op)
  regs,             \* RAX, RCX and RDX
  flags,            \* zero, sign and overflow
  trapped           \* a divide error

vars == <<op, left, right, pc, regs, flags, trapped>>

-----------------------------------------------------------------------------
(* What is emitted.                                                        *)

Instr(o, dst, src) == [op |-> o, dst |-> dst, src |-> src]

Pops(r) == Instr("POP", r, r)

\* Mutant of pull_comparison_result: as if the right side were in RAX.
pull_comparison_result_swapped(o) ==
  [EQ |-> "SETE", NEQ |-> "SETNE", LT |-> "SETG", LTE |-> "SETGE", GT |-> "SETL",
   GTE |-> "SETLE"][o]

\* The instruction that brings the comparison to the lowest byte of RAX.
pull_comparison_result(o) ==
  [EQ |-> "SETE", NEQ |-> "SETNE", LT |-> "SETL", LTE |-> "SETLE", GT |-> "SETG",
   GTE |-> "SETGE"][o]

\* An Equality or a Comparison; the byte is widened to all of RAX.
CompareCode(o) ==
  <<Pops("RDX"), Instr("CMP", "RAX", "RDX"), Instr(pull_comparison_result(o), "AL", "AL"),
    Instr("MOVZX", "RAX", "AL")>>

\* A Term, or a Factor that multiplies.
RingCode(o) ==
  <<Pops("RDX"), Instr([ADD |-> "ADD", SUB |-> "SUB", MUL |-> "IMUL"][o], "RAX", "RDX")>>

\* Mutant of DivCode: RDX is not cleared.
DivCodeKeepingRDX == <<Pops("RCX"), Instr("IDIV", "RCX", "RCX")>>

DivCode == <<Instr("XOR", "RDX", "RDX"), Pops("RCX"), Instr("IDIV", "RCX", "RCX")>>

\* The end of a handler, from the pop of the right side on.
Emitted(o) ==
  CASE o \in Comparisons -> CompareCode(o)
    [] o \in {"ADD", "SUB", "MUL"} -> RingCode(o)
    [] o = "DIV" -> DivCode
    [] o = "MINUS" -> <<Instr("NEG", "RAX", "RAX")>>

-----------------------------------------------------------------------------
(* Words.                                                                  *)

Signed(w) == IF w < Half THEN w ELSE w - Words
Wrap(n)   == n % Words
Negative(w) == w >= Half

\* The quotient of whole numbers, towards zero.
Quotient(n, d) ==
  LET Abs(x) == IF x < 0 THEN -x ELSE x
      q      == Abs(n) \div Abs(d)
  IN  IF (n < 0) = (d < 0) THEN q ELSE -q

\* RDX:RAX as one signed number.
Dividend == Signed(regs.RDX) * Words + regs.RAX

-----------------------------------------------------------------------------
(* The machine.                                                            *)

Init ==
  /\ op \in Operators /\ left \in Left
  /\ right \in IF op = "MINUS" THEN {0} ELSE Right
  /\ pc = 1
  /\ regs \in [RAX : {left}, RCX : Before, RDX : Before]
  /\ flags = [zero |-> FALSE, sign |-> FALSE, overflow |-> FALSE]
  /\ trapped = FALSE

I == Emitted(op)[pc]
Fetched(o) == pc <= Len(Emitted(op)) /\ ~trapped /\ I.op = o
Writes(w) == regs' = [regs EXCEPT ![I.dst] = w] /\ pc' = pc + 1
Unchanged == UNCHANGED <<op, left, right, trapped>>

Pop == Fetched("POP") /\ Writes(right) /\ Unchanged /\ UNCHANGED flags

Xor == Fetched("XOR") /\ I.dst = I.src /\ Writes(0) /\ Unchanged /\ UNCHANGED flags

Add == Fetched("ADD") /\ Writes(Wrap(regs[I.dst] + regs[I.src])) /\ Unchanged /\ UNCHANGED flags

Sub == Fetched("SUB") /\ Writes(Wrap(regs[I.dst] - regs[I.src])) /\ Unchanged /\ UNCHANGED flags

Imul == /\ Fetched("IMUL")
        /\ Writes(Wrap(Signed(regs[I.dst]) * Signed(regs[I.src])))
        /\ Unchanged /\ UNCHANGED flags

Neg == Fetched("NEG") /\ Writes(Wrap(-regs[I.dst])) /\ Unchanged /\ UNCHANGED flags

\* A divide error when there is no quotient, or none that is a word.
Divisor == Signed(regs[I.src])
Fits    == Divisor # 0 /\ Quotient(Dividend, Divisor) \in (-Half)..(Half - 1)

Idiv ==
  /\ Fetched("IDIV")
  /\ trapped' = ~Fits
  /\ IF Fits
     THEN regs' = [regs EXCEPT !.RAX = Wrap(Quotient(Dividend, Divisor)),
                               !.RDX = Wrap(Dividend - Divisor * Quotient(Dividend, Divisor))]
     ELSE UNCHANGED regs
  /\ pc' = pc + 1
  /\ UNCHANGED <<op, left, right, flags>>

\* The flags of a subtraction.
Cmp ==
  /\ Fetched("CMP")
  /\ LET a == regs[I.dst]
         b == regs[I.src]
         difference == Wrap(a - b)
     IN  flags' = [zero     |-> difference = 0,
                   sign     |-> Negative(difference),
                   overflow |-> Negative(a) # Negative(b) /\ Negative(difference) # Negative(a)]
  /\ pc' = pc + 1
  /\ Unchanged /\ UNCHANGED regs

Condition(o) ==
  CASE o = "SETE"  -> flags.zero
    [] o = "SETNE" -> ~flags.zero
    [] o = "SETL"  -> flags.sign # flags.overflow
    [] o = "SETGE" -> flags.sign = flags.overflow
    [] o = "SETLE" -> flags.zero \/ flags.sign # flags.overflow
    [] o = "SETG"  -> ~flags.zero /\ flags.sign = flags.overflow

\* Only the lowest byte of RAX is written.
Setcc ==
  /\ \E o \in {"SETE", "SETNE", "SETL", "SETGE", "SETLE", "SETG"} :
       /\ Fetched(o)
       /\ regs' = [regs EXCEPT !.RAX = (@ - (@ % Bytes)) + (IF Condition(o) THEN 1 ELSE 0)]
  /\ pc' = pc + 1
  /\ Unchanged /\ UNCHANGED flags

Movzx == Fetched("MOVZX") /\ Writes(regs.RAX % Bytes) /\ Unchanged /\ UNCHANGED flags

Next == Pop \/ Xor \/ Add \/ Sub \/ Imul \/ Neg \/ Idiv \/ Cmp \/ Setcc \/ Movzx

Spec == Init /\ [][Next]_vars

-----------------------------------------------------------------------------
(* Properties.                                                             *)

Done == ~trapped /\ pc > Len(Emitted(op))

Holds(o, a, b) == CASE o = "EQ" -> a = b  [] o = "NEQ" -> a # b
                    [] o = "LT" -> a < b  [] o = "LTE" -> a <= b
                    [] o = "GT" -> a > b  [] o = "GTE" -> a >= b

\* What the operator means for signed numbers, before it is wrapped to a word.
Meaning(o, a, b) ==
  CASE o \in Comparisons -> IF Holds(o, a, b) THEN 1 ELSE 0
    [] o = "ADD" -> a + b
    [] o = "SUB" -> a - b
    [] o = "MUL" -> a * b
    [] o = "DIV" -> Quotient(a, b)
    [] o = "MINUS" -> -a

\* Every operator computes what it means for signed numbers, up to overflow, whatever was in
\* the registers and however the numbers overflow in between; a division, if the dividend is
\* not negative: RDX is cleared, not filled with its sign.
ResultIsRight ==
  Done /\ (op = "DIV" => ~Negative(left)) =>
    regs.RAX = Wrap(Meaning(op, Signed(left), Signed(right)))

\* Only a division by zero or of a negative number stops the program.
TrapsOnlyWhereItMust ==
  trapped => op = "DIV" /\ (right = 0 \/ Negative(left))
================================================================================
