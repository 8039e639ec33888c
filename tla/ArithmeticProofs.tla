---------------------------- MODULE ArithmeticProofs ----------------------------
(***************************************************************************)
(* The operators of module Arithmetic are right for words of every width,  *)
(* those of the machine, of 64 bits, included.                             *)
(***************************************************************************)
EXTENDS Arithmetic, TLAPS

-----------------------------------------------------------------------------
(* Division with remainder.                                                *)

\* Dividend, divisor, quotient and remainder.
LEMMA DivMod ==
  ASSUME NEW n \in Int, NEW d \in Nat, d > 0
  PROVE  /\ n = d * (n \div d) + (n % d)
         /\ n \div d \in Int
         /\ n % d \in 0..(d - 1)
  OBVIOUS

\* There is only one remainder.
LEMMA OneRemainder ==
  ASSUME NEW d \in Nat, d > 0, NEW q \in Int, NEW r \in 0..(d - 1)
  PROVE  (d * q + r) % d = r
  OBVIOUS

\* A multiple of the divisor more leaves the remainder.
LEMMA ModAfterTurn ==
  ASSUME NEW n \in Int, NEW d \in Nat, d > 0
  PROVE  (n + d) % d = n % d
<1>1. PICK q \in Int : q = n \div d
  BY DivMod
<1>2. n % d \in 0..(d - 1)
  BY DivMod
<1>3. n + d = d * (q + 1) + (n % d) /\ q + 1 \in Int
  BY <1>1, DivMod
<1>4. (d * (q + 1) + (n % d)) % d = n % d
  BY <1>2, <1>3, OneRemainder
<1> QED BY <1>3, <1>4

\* Clearing the lowest byte and setting its lowest bit is seen in the lowest byte only.
LEMMA LowestByte ==
  ASSUME NEW n \in Nat, NEW d \in Nat, d > 1, NEW bit \in {0, 1}
  PROVE  /\ (n - (n % d)) + bit \in Nat
         /\ ((n - (n % d)) + bit) % d = bit
<1>1. ((n - (n % d)) + bit) % d = bit
  OBVIOUS
<1>2. n % d <= n /\ n % d \in Int
  OBVIOUS
<1> QED BY <1>1, <1>2

\* A quotient of numbers that are not negative is no larger than the dividend.
LEMMA QuotientBound ==
  ASSUME NEW n \in Nat, NEW d \in Nat, d > 0
  PROVE  n \div d \in 0..n
  OBVIOUS

-----------------------------------------------------------------------------
(* Words.                                                                  *)

LEMMA WordsFacts ==
  /\ Words \in Nat /\ Half \in Nat /\ Bytes \in Nat
  /\ Words = 2 * Half /\ Half > 1 /\ Bytes > 1
  BY WidthAssumption DEF Words

\* What is a word already is not changed, and one turn more or less changes nothing.
LEMMA WrapFacts ==
  /\ \A n \in Int : Wrap(n) \in Word
  /\ \A n \in Word : Wrap(n) = n
  /\ \A n \in Int : Wrap(n + Words) = Wrap(n)
<1>1. \A n \in Int : Wrap(n) \in Word
  BY WordsFacts, DivMod DEF Wrap, Word
<1>2. \A n \in Word : Wrap(n) = n
  <2> SUFFICES ASSUME NEW n \in Word PROVE Wrap(n) = n
    OBVIOUS
  <2>1. n = Words * 0 + n /\ n \in 0..(Words - 1)
    BY WordsFacts DEF Word
  <2> QED BY <2>1, WordsFacts, OneRemainder DEF Wrap
<1>3. \A n \in Int : Wrap(n + Words) = Wrap(n)
  BY WordsFacts, ModAfterTurn DEF Wrap
<1> QED BY <1>1, <1>2, <1>3

\* A word and the number it stands for, and numbers one turn apart.
LEMMA SignedFacts ==
  ASSUME NEW a \in Word
  PROVE  /\ Signed(a) \in Int
         /\ a = Signed(a) \/ a = Signed(a) + Words
         /\ Negative(a) <=> Signed(a) < 0
         /\ ~Negative(a) => Signed(a) = a
         /\ Signed(a) \in (-Half)..(Half - 1)
         /\ Signed(a) = 0 <=> a = 0
  BY WordsFacts DEF Signed, Negative, Word

\* Adding, subtracting and negating words is adding, subtracting and negating the numbers
\* they stand for, but for whole turns.
LEMMA RingOfWords ==
  ASSUME NEW a \in Word, NEW b \in Word
  PROVE  /\ Wrap(a + b) = Wrap(Signed(a) + Signed(b))
         /\ Wrap(a - b) = Wrap(Signed(a) - Signed(b))
         /\ Wrap(-a) = Wrap(-Signed(a))
<1> DEFINE x == Signed(a)
           y == Signed(b)
<1>1. x \in Int /\ y \in Int /\ Words \in Int /\ a \in Int /\ b \in Int
  BY SignedFacts, WordsFacts DEF Word
<1>2. (a = x \/ a = x + Words) /\ (b = y \/ b = y + Words)
  BY SignedFacts
<1> HIDE DEF x, y
<1>3. Wrap(a + b) = Wrap(x + y)
  <2>1. CASE a = x /\ b = y
    BY <2>1
  <2>2. CASE a = x + Words /\ b = y + Words
    <3>1. a + b = (x + y + Words) + Words
      BY <1>1, <2>2
    <3>2. x + y + Words \in Int /\ x + y \in Int
      BY <1>1
    <3>3. Wrap((x + y + Words) + Words) = Wrap(x + y + Words)
      BY <3>2, WrapFacts
    <3>4. Wrap((x + y) + Words) = Wrap(x + y)
      BY <3>2, WrapFacts
    <3> QED BY <3>1, <3>3, <3>4
  <2>3. CASE (a = x + Words /\ b = y) \/ (a = x /\ b = y + Words)
    <3>1. a + b = (x + y) + Words /\ x + y \in Int
      BY <1>1, <2>3
    <3> QED BY <3>1, WrapFacts
  <2> QED BY <1>2, <2>1, <2>2, <2>3
<1>4. Wrap(a - b) = Wrap(x - y)
  <2>1. CASE a - b = x - y
    BY <2>1
  <2>2. CASE a = x + Words /\ b = y
    <3>1. a - b = (x - y) + Words /\ x - y \in Int
      BY <1>1, <2>2
    <3> QED BY <3>1, WrapFacts
  <2>3. CASE a = x /\ b = y + Words
    <3>1. x - y = (a - b) + Words /\ a - b \in Int
      BY <1>1, <2>3
    <3> QED BY <3>1, WrapFacts
  <2> QED BY <1>1, <1>2, <2>1, <2>2, <2>3
<1>5. Wrap(-a) = Wrap(-x)
  <2>1. CASE a = x
    BY <2>1
  <2>2. CASE a = x + Words
    <3>1. -x = (-a) + Words /\ -a \in Int
      BY <1>1, <2>2
    <3> QED BY <3>1, WrapFacts
  <2> QED BY <1>2, <2>1, <2>2
<1> QED BY <1>3, <1>4, <1>5 DEF x, y

-----------------------------------------------------------------------------
(* Comparisons.                                                            *)

\* What CMP finds out about two words: the zero flag is equality of the numbers, and the sign
\* and the overflow flag differ where the left one is less.
LEMMA FlagsOfDifference ==
  ASSUME NEW a \in Word, NEW b \in Word
  PROVE  LET difference == Wrap(a - b)
             overflow == Negative(a) # Negative(b) /\ Negative(difference) # Negative(a)
         IN  /\ difference = 0 <=> Signed(a) = Signed(b)
             /\ Negative(difference) # overflow <=> Signed(a) < Signed(b)
<1>1. a \in Int /\ b \in Int
  BY WordsFacts DEF Word
<1>2. Wrap(a - b) = IF a >= b THEN a - b ELSE (a - b) + Words
  <2>1. CASE a >= b
    <3>1. a - b \in Word
      BY <2>1, WordsFacts DEF Word
    <3> QED BY <2>1, <3>1, WrapFacts
  <2>2. CASE ~(a >= b)
    <3>1. (a - b) + Words \in Word /\ a - b \in Int
      BY <2>2, WordsFacts DEF Word
    <3>2. Wrap((a - b) + Words) = Wrap(a - b) /\ Wrap((a - b) + Words) = (a - b) + Words
      BY <3>1, WrapFacts
    <3> QED BY <2>2, <3>2
  <2> QED BY <2>1, <2>2
<1> QED BY <1>1, <1>2, WordsFacts DEF Negative, Signed, Word

-----------------------------------------------------------------------------
(* The invariant: what an operator has reached after each instruction.     *)

Compared == IF Holds(op, Signed(left), Signed(right)) THEN 1 ELSE 0

CompareInv ==
  /\ pc \in 1..5
  /\ pc \in 1..3 => regs["RAX"] = left
  /\ pc = 2 => regs["RDX"] = right
  /\ pc = 3 => /\ flags.sign \in BOOLEAN /\ flags.overflow \in BOOLEAN
               /\ flags.zero <=> Signed(left) = Signed(right)
               /\ flags.sign # flags.overflow <=> Signed(left) < Signed(right)
  /\ pc = 4 => regs["RAX"] \in Nat /\ regs["RAX"] % Bytes = Compared
  /\ pc = 5 => regs["RAX"] = Compared

RingInv ==
  /\ pc \in 1..3
  /\ pc \in 1..2 => regs["RAX"] = left
  /\ pc = 2 => regs["RDX"] = right
  /\ pc = 3 => regs["RAX"] = Wrap(Meaning(op, Signed(left), Signed(right)))

\* What a division leaves, or why it stops the program.
DivOutcome ==
  IF trapped THEN right = 0 \/ Negative(left)
  ELSE ~Negative(left) => regs["RAX"] = Wrap(Quotient(Signed(left), Signed(right)))

DivInv ==
  /\ pc \in 1..4
  /\ pc \in 1..3 => regs["RAX"] = left /\ ~trapped
  /\ pc \in 2..3 => regs["RDX"] = 0
  /\ pc = 3 => regs["RCX"] = right
  /\ pc = 4 => DivOutcome

MinusInv ==
  /\ pc \in 1..2
  /\ pc = 1 => regs["RAX"] = left
  /\ pc = 2 => regs["RAX"] = Wrap(-Signed(left))

Names == {"RAX", "RCX", "RDX"}

Inv ==
  /\ op \in Operators /\ left \in Word /\ right \in Word /\ trapped \in BOOLEAN
  /\ regs = [r \in Names |-> regs[r]]
  /\ op # "DIV" => ~trapped
  /\ op \in Comparisons => CompareInv
  /\ op \in {"ADD", "SUB", "MUL"} => RingInv
  /\ op = "DIV" => DivInv
  /\ op = "MINUS" => MinusInv

-----------------------------------------------------------------------------
(* The code of each kind of operator, and the instruction at hand.         *)

LEMMA CodeOfComparison ==
  ASSUME op \in Comparisons
  PROVE  /\ Len(Emitted(op)) = 4
         /\ Emitted(op)[1] = Pops("RDX")
         /\ Emitted(op)[2] = Instr("CMP", "RAX", "RDX")
         /\ Emitted(op)[3] = Instr(pull_comparison_result(op), "AL", "AL")
         /\ Emitted(op)[4] = Instr("MOVZX", "RAX", "AL")
<1>1. Emitted(op) = CompareCode(op)
  BY DEF Emitted, Comparisons
<1> QED BY <1>1 DEF CompareCode

LEMMA CodeOfRing ==
  ASSUME op \in {"ADD", "SUB", "MUL"}
  PROVE  /\ Len(Emitted(op)) = 2
         /\ Emitted(op)[1] = Pops("RDX")
         /\ op = "ADD" => Emitted(op)[2] = Instr("ADD", "RAX", "RDX")
         /\ op = "SUB" => Emitted(op)[2] = Instr("SUB", "RAX", "RDX")
         /\ op = "MUL" => Emitted(op)[2] = Instr("IMUL", "RAX", "RDX")
<1>1. Emitted(op) = RingCode(op)
  BY DEF Emitted, Comparisons
<1> QED BY <1>1 DEF RingCode

LEMMA CodeOfDiv ==
  ASSUME op = "DIV"
  PROVE  /\ Len(Emitted(op)) = 3
         /\ Emitted(op)[1] = Instr("XOR", "RDX", "RDX")
         /\ Emitted(op)[2] = Pops("RCX")
         /\ Emitted(op)[3] = Instr("IDIV", "RCX", "RCX")
<1>1. Emitted(op) = DivCode
  BY DEF Emitted, Comparisons
<1> QED BY <1>1 DEF DivCode

LEMMA CodeOfMinus ==
  ASSUME op = "MINUS"
  PROVE  Len(Emitted(op)) = 1 /\ Emitted(op)[1] = Instr("NEG", "RAX", "RAX")
<1>1. Emitted(op) = <<Instr("NEG", "RAX", "RAX")>>
  BY DEF Emitted, Comparisons
<1> QED BY <1>1

\* A step executes the instruction at hand.
LEMMA OneStep ==
  ASSUME Next
  PROVE  /\ pc <= Len(Emitted(op)) /\ ~trapped
         /\ I.op = "POP" => Pop
         /\ I.op = "XOR" => Xor
         /\ I.op = "ADD" => Add
         /\ I.op = "SUB" => Sub
         /\ I.op = "IMUL" => Imul
         /\ I.op = "NEG" => Neg
         /\ I.op = "IDIV" => Idiv
         /\ I.op = "CMP" => Cmp
         /\ I.op \in {"SETE", "SETNE", "SETL", "SETGE", "SETLE", "SETG"} => Setcc
         /\ I.op = "MOVZX" => Movzx
  BY DEF Next, Fetched, Pop, Xor, Add, Sub, Imul, Neg, Idiv, Cmp, Setcc, Movzx
-----------------------------------------------------------------------------
(* The steps of a comparison.                                              *)

\* After CMP the condition that is asked for is the comparison of the numbers.
LEMMA ConditionHolds ==
  ASSUME op \in Comparisons, left \in Word, right \in Word, CompareInv, pc = 3
  PROVE  /\ pull_comparison_result(op) \in
              {"SETE", "SETNE", "SETL", "SETGE", "SETLE", "SETG"}
         /\ Condition(pull_comparison_result(op)) <=> Holds(op, Signed(left), Signed(right))
<1>1. /\ flags.sign \in BOOLEAN /\ flags.overflow \in BOOLEAN
      /\ flags.zero <=> Signed(left) = Signed(right)
      /\ flags.sign # flags.overflow <=> Signed(left) < Signed(right)
  BY DEF CompareInv
<1>2. Signed(left) \in Int /\ Signed(right) \in Int
  BY SignedFacts
<1> DEFINE x == Signed(left)
           y == Signed(right)
<1> HIDE DEF x, y
<1>3. CASE op = "EQ"
  BY <1>1, <1>3 DEF pull_comparison_result, Condition, Holds
<1>4. CASE op = "NEQ"
  BY <1>1, <1>4 DEF pull_comparison_result, Condition, Holds
<1>5. CASE op = "LT"
  BY <1>1, <1>5 DEF pull_comparison_result, Condition, Holds
<1>6. CASE op = "GTE"
  <2>1. flags.sign = flags.overflow <=> ~(Signed(left) < Signed(right))
    BY <1>1
  <2>2. Signed(left) >= Signed(right) <=> ~(Signed(left) < Signed(right))
    BY <1>2
  <2>3. Holds(op, Signed(left), Signed(right)) <=> Signed(left) >= Signed(right)
    BY <1>6 DEF Holds
  <2>4. pull_comparison_result(op) = "SETGE"
    BY <1>6 DEF pull_comparison_result
  <2>5. Condition("SETGE") <=> flags.sign = flags.overflow
    BY DEF Condition
  <2> QED BY <2>1, <2>2, <2>3, <2>4, <2>5
<1>7. CASE op = "LTE"
  <2>1. Signed(left) <= Signed(right) <=> Signed(left) = Signed(right) \/ Signed(left) < Signed(right)
    BY <1>2
  <2>2. Holds(op, Signed(left), Signed(right)) <=> Signed(left) <= Signed(right)
    BY <1>7 DEF Holds
  <2>3. pull_comparison_result(op) = "SETLE"
    BY <1>7 DEF pull_comparison_result
  <2>4. Condition("SETLE") <=> flags.zero \/ flags.sign # flags.overflow
    BY DEF Condition
  <2> QED BY <1>1, <2>1, <2>2, <2>3, <2>4
<1>8. CASE op = "GT"
  <2>1. Signed(left) > Signed(right) <=> Signed(left) # Signed(right) /\ ~(Signed(left) < Signed(right))
    BY <1>2
  <2>2. Holds(op, Signed(left), Signed(right)) <=> Signed(left) > Signed(right)
    BY <1>8 DEF Holds
  <2>3. pull_comparison_result(op) = "SETG"
    BY <1>8 DEF pull_comparison_result
  <2>4. Condition("SETG") <=> ~flags.zero /\ flags.sign = flags.overflow
    BY DEF Condition
  <2> QED BY <1>1, <2>1, <2>2, <2>3, <2>4
<1> QED BY <1>3, <1>4, <1>5, <1>6, <1>7, <1>8 DEF Comparisons

LEMMA CompareStep ==
  ASSUME op \in Comparisons, left \in Word, right \in Word, CompareInv,
         regs = [r \in Names |-> regs[r]], Next
  PROVE  /\ CompareInv' /\ regs' = [r \in Names |-> regs'[r]]
         /\ UNCHANGED <<op, left, right, trapped>>
<1>1. pc \in 1..4
  <2>1. pc <= Len(Emitted(op))
    BY OneStep
  <2>2. pc <= 4
    BY <2>1, CodeOfComparison
  <2>3. pc \in 1..5
    BY DEF CompareInv
  <2> QED BY <2>2, <2>3
<1>2. CASE pc = 1
  <2>1. I = Pops("RDX")
    BY <1>2, CodeOfComparison DEF I
  <2>2. Pop
    BY <2>1, OneStep DEF Pops, Instr
  <2>3. regs' = [regs EXCEPT !["RDX"] = right] /\ pc' = 2 /\ UNCHANGED <<op, left, right, trapped>>
    BY <1>2, <2>1, <2>2 DEF Pop, Writes, Unchanged, Pops, Instr
  <2>4. regs["RAX"] = left
    BY <1>2 DEF CompareInv
  <2>5. /\ regs'["RAX"] = regs["RAX"] /\ regs'["RDX"] = right
        /\ regs' = [r \in Names |-> regs'[r]]
    BY <2>3 DEF Names
  <2> QED BY <2>3, <2>4, <2>5 DEF CompareInv
<1>3. CASE pc = 2
  <2>1. I = Instr("CMP", "RAX", "RDX")
    BY <1>3, CodeOfComparison DEF I
  <2>2. Cmp
    BY <2>1, OneStep DEF Instr
  <2>3. regs["RAX"] = left /\ regs["RDX"] = right
    BY <1>3 DEF CompareInv
  <2>4. /\ flags' = [zero |-> Wrap(left - right) = 0,
                     sign |-> Negative(Wrap(left - right)),
                     overflow |-> Negative(left) # Negative(right)
                                  /\ Negative(Wrap(left - right)) # Negative(left)]
        /\ pc' = 3 /\ UNCHANGED <<op, left, right, trapped, regs>>
    BY <1>3, <2>1, <2>2, <2>3 DEF Cmp, Unchanged, Instr
  <2>5. /\ flags'.sign = Negative(Wrap(left - right))
        /\ flags'.overflow = (Negative(left) # Negative(right)
                              /\ Negative(Wrap(left - right)) # Negative(left))
        /\ flags'.zero = (Wrap(left - right) = 0)
    BY <2>4
  <2>6. flags'.sign \in BOOLEAN /\ flags'.overflow \in BOOLEAN
    BY <2>5 DEF Negative
  <2>7. /\ flags'.zero <=> Signed(left) = Signed(right)
        /\ flags'.sign # flags'.overflow <=> Signed(left) < Signed(right)
    BY <2>5, FlagsOfDifference
  <2>8. Signed(left)' = Signed(left) /\ Signed(right)' = Signed(right)
    BY <2>4
  <2> QED BY <2>3, <2>4, <2>6, <2>7, <2>8 DEF CompareInv
<1>4. CASE pc = 3
  <2>1. I = Instr(pull_comparison_result(op), "AL", "AL")
    BY <1>4, CodeOfComparison DEF I
  <2>2. Setcc
    BY <1>4, <2>1, OneStep, ConditionHolds DEF Instr
  <2>3. /\ regs' = [regs EXCEPT !["RAX"] = (regs["RAX"] - (regs["RAX"] % Bytes))
                        + (IF Condition(pull_comparison_result(op)) THEN 1 ELSE 0)]
        /\ pc' = 4 /\ UNCHANGED <<op, left, right, trapped, flags>>
    BY <1>4, <2>1, <2>2 DEF Setcc, Fetched, Unchanged, Instr
  <2>4. regs["RAX"] = left
    BY <1>4 DEF CompareInv
  <2>5. regs'["RAX"] = (left - (left % Bytes)) + Compared
    BY <1>4, <2>3, <2>4, ConditionHolds DEF Compared, Names
  <2>6. left \in Nat /\ Compared \in {0, 1} /\ Compared' = Compared
    BY <2>3, WordsFacts DEF Word, Compared
  <2>7. /\ (left - (left % Bytes)) + Compared \in Nat
        /\ ((left - (left % Bytes)) + Compared) % Bytes = Compared
    BY <2>6, LowestByte, WordsFacts
  <2>8. regs'["RAX"] \in Nat /\ regs'["RAX"] % Bytes' = Compared'
    BY <2>5, <2>6, <2>7
  <2>9. regs' = [r \in Names |-> regs'[r]]
    BY <2>3 DEF Names
  <2> QED BY <2>3, <2>8, <2>9 DEF CompareInv
<1>5. CASE pc = 4
  <2>1. I = Instr("MOVZX", "RAX", "AL")
    BY <1>5, CodeOfComparison DEF I
  <2>2. Movzx
    BY <2>1, OneStep DEF Instr
  <2>3. /\ regs' = [regs EXCEPT !["RAX"] = regs["RAX"] % Bytes]
        /\ pc' = 5 /\ UNCHANGED <<op, left, right, trapped, flags>>
    BY <1>5, <2>1, <2>2 DEF Movzx, Writes, Unchanged, Instr
  <2>4. regs["RAX"] % Bytes = Compared /\ Compared' = Compared
    BY <1>5, <2>3 DEF CompareInv, Compared
  <2>5. regs'["RAX"] = Compared' /\ regs' = [r \in Names |-> regs'[r]]
    BY <2>3, <2>4 DEF Names
  <2> QED BY <2>3, <2>5 DEF CompareInv
<1> QED BY <1>1, <1>2, <1>3, <1>4, <1>5
-----------------------------------------------------------------------------
(* The steps of the other operators.                                       *)

LEMMA RingStep ==
  ASSUME op \in {"ADD", "SUB", "MUL"}, left \in Word, right \in Word, RingInv,
         regs = [r \in Names |-> regs[r]], Next
  PROVE  /\ RingInv' /\ regs' = [r \in Names |-> regs'[r]]
         /\ UNCHANGED <<op, left, right, trapped>>
<1>1. pc \in 1..2
  <2>1. pc <= Len(Emitted(op))
    BY OneStep
  <2>2. pc <= 2
    BY <2>1, CodeOfRing
  <2>3. pc \in 1..3
    BY DEF RingInv
  <2> QED BY <2>2, <2>3
<1>2. regs["RAX"] = left
  BY <1>1 DEF RingInv
<1>3. CASE pc = 1
  <2>1. I = Pops("RDX")
    BY <1>3, CodeOfRing DEF I
  <2>2. Pop
    BY <2>1, OneStep DEF Pops, Instr
  <2>3. regs' = [regs EXCEPT !["RDX"] = right] /\ pc' = 2 /\ UNCHANGED <<op, left, right, trapped>>
    BY <1>3, <2>1, <2>2 DEF Pop, Writes, Unchanged, Pops, Instr
  <2>4. /\ regs'["RAX"] = regs["RAX"] /\ regs'["RDX"] = right
        /\ regs' = [r \in Names |-> regs'[r]]
    BY <2>3 DEF Names
  <2> QED BY <1>2, <2>3, <2>4 DEF RingInv
<1>4. CASE pc = 2
  <2> DEFINE result == Wrap(Meaning(op, Signed(left), Signed(right)))
  <2>1. regs["RDX"] = right
    BY <1>4 DEF RingInv
  <2>2. regs' = [regs EXCEPT !["RAX"] = result] /\ pc' = 3 /\ UNCHANGED <<op, left, right, trapped>>
    <3>1. CASE op = "ADD"
      <4>1. I = Instr("ADD", "RAX", "RDX")
        BY <1>4, <3>1, CodeOfRing DEF I
      <4>2. Add
        BY <4>1, OneStep DEF Instr
      <4>3. result = Wrap(left + right)
        BY <3>1, RingOfWords DEF Meaning, Comparisons
      <4>4. I.dst = "RAX" /\ I.src = "RDX"
        BY <4>1 DEF Instr
      <4>5. /\ regs' = [regs EXCEPT ![I.dst] = Wrap(regs[I.dst] + regs[I.src])]
            /\ pc' = pc + 1 /\ UNCHANGED <<op, left, right, trapped>>
        BY <4>2 DEF Add, Writes, Unchanged
      <4> HIDE DEF result
      <4> QED BY <1>2, <1>4, <2>1, <4>3, <4>4, <4>5
    <3>2. CASE op = "SUB"
      <4>1. I = Instr("SUB", "RAX", "RDX")
        BY <1>4, <3>2, CodeOfRing DEF I
      <4>2. Sub
        BY <4>1, OneStep DEF Instr
      <4>3. result = Wrap(left - right)
        BY <3>2, RingOfWords DEF Meaning, Comparisons
      <4>4. I.dst = "RAX" /\ I.src = "RDX"
        BY <4>1 DEF Instr
      <4>5. /\ regs' = [regs EXCEPT ![I.dst] = Wrap(regs[I.dst] - regs[I.src])]
            /\ pc' = pc + 1 /\ UNCHANGED <<op, left, right, trapped>>
        BY <4>2 DEF Sub, Writes, Unchanged
      <4> HIDE DEF result
      <4> QED BY <1>2, <1>4, <2>1, <4>3, <4>4, <4>5
    <3>3. CASE op = "MUL"
      <4>1. I = Instr("IMUL", "RAX", "RDX")
        BY <1>4, <3>3, CodeOfRing DEF I
      <4>2. Imul
        BY <4>1, OneStep DEF Instr
      <4>3. result = Wrap(Signed(left) * Signed(right))
        BY <3>3 DEF Meaning, Comparisons
      <4>4. I.dst = "RAX" /\ I.src = "RDX"
        BY <4>1 DEF Instr
      <4>5. /\ regs' = [regs EXCEPT ![I.dst] = Wrap(Signed(regs[I.dst]) * Signed(regs[I.src]))]
            /\ pc' = pc + 1 /\ UNCHANGED <<op, left, right, trapped>>
        BY <4>2 DEF Imul, Writes, Unchanged
      <4> HIDE DEF result
      <4> QED BY <1>2, <1>4, <2>1, <4>3, <4>4, <4>5
    <3> QED BY <3>1, <3>2, <3>3
  <2>3. result' = result
    BY <2>2
  <2> HIDE DEF result
  <2>4. regs'["RAX"] = result /\ regs' = [r \in Names |-> regs'[r]]
    BY <2>2 DEF Names
  <2> QED BY <2>2, <2>3, <2>4 DEF RingInv, result
<1> QED BY <1>1, <1>3, <1>4

LEMMA DivStep ==
  ASSUME op = "DIV", left \in Word, right \in Word, trapped \in BOOLEAN, DivInv,
         regs = [r \in Names |-> regs[r]], Next
  PROVE  /\ DivInv' /\ regs' = [r \in Names |-> regs'[r]]
         /\ UNCHANGED <<op, left, right>> /\ trapped' \in BOOLEAN
<1>1. pc \in 1..3
  <2>1. pc <= Len(Emitted(op))
    BY OneStep
  <2>2. pc <= 3
    BY <2>1, CodeOfDiv
  <2>3. pc \in 1..4
    BY DEF DivInv
  <2> QED BY <2>2, <2>3
<1>2. regs["RAX"] = left /\ ~trapped
  BY <1>1 DEF DivInv
<1>3. CASE pc = 1
  <2>1. I = Instr("XOR", "RDX", "RDX")
    BY <1>3, CodeOfDiv DEF I
  <2>2. Xor
    BY <2>1, OneStep DEF Instr
  <2>3. regs' = [regs EXCEPT !["RDX"] = 0] /\ pc' = 2 /\ UNCHANGED <<op, left, right, trapped>>
    BY <1>3, <2>1, <2>2 DEF Xor, Writes, Unchanged, Instr
  <2>4. /\ regs'["RAX"] = regs["RAX"] /\ regs'["RDX"] = 0
        /\ regs' = [r \in Names |-> regs'[r]]
    BY <2>3 DEF Names
  <2>5. ~trapped'
    BY <1>2, <2>3
  <2> QED BY <1>2, <2>3, <2>4, <2>5 DEF DivInv
<1>4. CASE pc = 2
  <2>1. I = Pops("RCX")
    BY <1>4, CodeOfDiv DEF I
  <2>2. Pop
    BY <2>1, OneStep DEF Pops, Instr
  <2>3. regs' = [regs EXCEPT !["RCX"] = right] /\ pc' = 3 /\ UNCHANGED <<op, left, right, trapped>>
    BY <1>4, <2>1, <2>2 DEF Pop, Writes, Unchanged, Pops, Instr
  <2>4. regs["RDX"] = 0
    BY <1>4 DEF DivInv
  <2>5. /\ regs'["RAX"] = regs["RAX"] /\ regs'["RDX"] = regs["RDX"] /\ regs'["RCX"] = right
        /\ regs' = [r \in Names |-> regs'[r]]
    BY <2>3 DEF Names
  <2>6. ~trapped'
    BY <1>2, <2>3
  <2> QED BY <1>2, <2>3, <2>4, <2>5, <2>6 DEF DivInv
<1>5. CASE pc = 3
  <2> DEFINE d == Signed(right)
  <2>1. I = Instr("IDIV", "RCX", "RCX")
    BY <1>5, CodeOfDiv DEF I
  <2>2. Idiv
    BY <2>1, OneStep DEF Instr
  <2>3. regs["RDX"] = 0 /\ Divisor = d
    <3>1. regs[I.src] = regs["RCX"]
      BY <2>1 DEF Instr
    <3> QED BY <1>5, <3>1 DEF DivInv, Divisor
  <2>4. Dividend = left
    <3>1. Signed(0) = 0
      BY WordsFacts DEF Signed
    <3> QED BY <1>2, <2>3, <3>1, WordsFacts DEF Dividend, Word
  <2>5. /\ trapped' = ~Fits
        /\ IF Fits THEN regs' = [regs EXCEPT !.RAX = Wrap(Quotient(Dividend, Divisor)),
                               !.RDX = Wrap(Dividend - Divisor * Quotient(Dividend, Divisor))]
           ELSE regs' = regs
        /\ pc' = 4 /\ UNCHANGED <<op, left, right>>
    BY <1>5, <2>2 DEF Idiv
  <2>6. regs' = [r \in Names |-> regs'[r]]
    BY <2>5 DEF Names
  <2>7. Fits => regs'["RAX"] = Wrap(Quotient(left, d))
    BY <2>3, <2>4, <2>5 DEF Names
  <2>8. ~Fits => right = 0 \/ Negative(left)
    <3> SUFFICES ASSUME right # 0, ~Negative(left) PROVE Fits
      OBVIOUS
    <3>1. d # 0 /\ d \in Int
      BY SignedFacts
    <3>2. left \in Nat /\ left < Half
      BY WordsFacts DEF Negative, Word
    <3>3. \A n \in Nat, c \in Nat : c > 0 => n \div c \in 0..n
      BY QuotientBound
    <3>4. Quotient(left, d) \in (-left)..left
      <4>1. CASE d > 0
        <5>1. Quotient(left, d) = left \div d
          BY <3>1, <3>2, <4>1 DEF Quotient
        <5> QED BY <3>1, <3>2, <3>3, <4>1, <5>1
      <4>2. CASE d < 0
        <5>1. Quotient(left, d) = -(left \div (-d))
          BY <3>1, <3>2, <4>2 DEF Quotient
        <5>2. left \div (-d) \in 0..left
          BY <3>1, <3>2, <3>3, <4>2
        <5> QED BY <3>2, <5>1, <5>2
      <4> QED BY <3>1, <4>1, <4>2
    <3> QED BY <2>3, <2>4, <3>1, <3>2, <3>4, WordsFacts DEF Fits
  <2>9. ~Negative(left) => Signed(left) = left
    BY SignedFacts
  <2>10. Signed(left)' = Signed(left) /\ Signed(right)' = Signed(right) /\ Negative(left)' = Negative(left)
    BY <2>5
  <2>11. DivOutcome'
    BY <2>5, <2>7, <2>8, <2>9, <2>10 DEF DivOutcome
  <2>12. trapped' \in BOOLEAN
    BY <2>5 DEF Fits
  <2> QED BY <2>5, <2>6, <2>11, <2>12 DEF DivInv
<1> QED BY <1>1, <1>3, <1>4, <1>5

LEMMA MinusStep ==
  ASSUME op = "MINUS", left \in Word, right \in Word, MinusInv,
         regs = [r \in Names |-> regs[r]], Next
  PROVE  /\ MinusInv' /\ regs' = [r \in Names |-> regs'[r]]
         /\ UNCHANGED <<op, left, right, trapped>>
<1>1. pc = 1
  <2>1. pc <= Len(Emitted(op))
    BY OneStep
  <2>2. pc <= 1
    BY <2>1, CodeOfMinus
  <2>3. pc \in 1..2
    BY DEF MinusInv
  <2> QED BY <2>2, <2>3
<1>2. regs["RAX"] = left
  BY <1>1 DEF MinusInv
<1>3. I = Instr("NEG", "RAX", "RAX")
  BY <1>1, CodeOfMinus DEF I
<1>4. Neg
  BY <1>3, OneStep DEF Instr
<1>5. regs' = [regs EXCEPT !["RAX"] = Wrap(-left)] /\ pc' = 2 /\ UNCHANGED <<op, left, right, trapped>>
  <2>1. I.dst = "RAX"
    BY <1>3 DEF Instr
  <2>2. /\ regs' = [regs EXCEPT ![I.dst] = Wrap(-regs[I.dst])]
        /\ pc' = pc + 1 /\ UNCHANGED <<op, left, right, trapped>>
    BY <1>4 DEF Neg, Writes, Unchanged
  <2> QED BY <1>1, <1>2, <2>1, <2>2
<1>6. regs'["RAX"] = Wrap(-left) /\ regs' = [r \in Names |-> regs'[r]]
  BY <1>5 DEF Names
<1>7. Wrap(-left) = Wrap(-Signed(left))
  BY RingOfWords
<1>8. (Wrap(-Signed(left)))' = Wrap(-Signed(left))
  BY <1>5
<1> QED BY <1>5, <1>6, <1>7, <1>8 DEF MinusInv
-----------------------------------------------------------------------------
(* The theorems.                                                           *)

LEMMA InvInit == Init => Inv
<1> SUFFICES ASSUME Init PROVE Inv
  OBVIOUS
<1>1. op \in Operators /\ left \in Word /\ right \in Word /\ trapped = FALSE /\ pc = 1
  <2>1. 0 \in Word
    BY WordsFacts DEF Word
  <2> QED BY <2>1, WidthAssumption DEF Init
<1>2. regs = [r \in Names |-> regs[r]] /\ regs["RAX"] = left
  BY DEF Init, Names
<1>3. CompareInv
  BY <1>1, <1>2 DEF CompareInv
<1>4. RingInv
  BY <1>1, <1>2 DEF RingInv
<1>5. DivInv
  BY <1>1, <1>2 DEF DivInv
<1>6. MinusInv
  BY <1>1, <1>2 DEF MinusInv
<1> QED BY <1>1, <1>2, <1>3, <1>4, <1>5, <1>6 DEF Inv

LEMMA InvStep == Inv /\ [Next]_vars => Inv'
<1> SUFFICES ASSUME Inv, [Next]_vars PROVE Inv'
  OBVIOUS
<1>1. /\ op \in Operators /\ left \in Word /\ right \in Word /\ trapped \in BOOLEAN
      /\ regs = [r \in Names |-> regs[r]]
      /\ op # "DIV" => ~trapped
  BY DEF Inv
<1>2. CASE UNCHANGED vars
  BY <1>2 DEF vars, Inv, CompareInv, RingInv, DivInv, MinusInv, DivOutcome, Compared
<1>3. CASE Next /\ op \in Comparisons
  <2>1. CompareInv
    BY <1>3 DEF Inv
  <2>2. /\ CompareInv' /\ regs' = [r \in Names |-> regs'[r]]
        /\ UNCHANGED <<op, left, right, trapped>>
    BY <1>1, <1>3, <2>1, CompareStep
  <2> QED BY <1>1, <1>3, <2>2 DEF Inv, Comparisons
<1>4. CASE Next /\ op \in {"ADD", "SUB", "MUL"}
  <2>1. RingInv
    BY <1>4 DEF Inv
  <2>2. /\ RingInv' /\ regs' = [r \in Names |-> regs'[r]]
        /\ UNCHANGED <<op, left, right, trapped>>
    BY <1>1, <1>4, <2>1, RingStep
  <2> QED BY <1>1, <1>4, <2>2 DEF Inv, Comparisons
<1>5. CASE Next /\ op = "DIV"
  <2>1. DivInv
    BY <1>5 DEF Inv
  <2>2. /\ DivInv' /\ regs' = [r \in Names |-> regs'[r]]
        /\ UNCHANGED <<op, left, right>> /\ trapped' \in BOOLEAN
    BY <1>1, <1>5, <2>1, DivStep
  <2> QED BY <1>1, <1>5, <2>2 DEF Inv, Comparisons
<1>6. CASE Next /\ op = "MINUS"
  <2>1. MinusInv
    BY <1>6 DEF Inv
  <2>2. /\ MinusInv' /\ regs' = [r \in Names |-> regs'[r]]
        /\ UNCHANGED <<op, left, right, trapped>>
    BY <1>1, <1>6, <2>1, MinusStep
  <2> QED BY <1>1, <1>6, <2>2 DEF Inv, Comparisons
<1> QED BY <1>1, <1>2, <1>3, <1>4, <1>5, <1>6 DEF Operators

\* An operator of any width leaves what it means for signed numbers in RAX.
LEMMA InvImpliesResult == Inv => ResultIsRight
<1> SUFFICES ASSUME Inv, Done, op = "DIV" => ~Negative(left)
             PROVE  regs.RAX = Wrap(Meaning(op, Signed(left), Signed(right)))
  BY DEF ResultIsRight
<1>1. op \in Operators /\ ~trapped /\ ~(pc <= Len(Emitted(op)))
  <2>1. Len(Emitted(op)) \in Nat /\ pc \in Nat
    <3>1. CASE op \in Comparisons
      BY <3>1, CodeOfComparison DEF Inv, CompareInv
    <3>2. CASE op \in {"ADD", "SUB", "MUL"}
      BY <3>2, CodeOfRing DEF Inv, RingInv
    <3>3. CASE op = "DIV"
      BY <3>3, CodeOfDiv DEF Inv, DivInv
    <3>4. CASE op = "MINUS"
      BY <3>4, CodeOfMinus DEF Inv, MinusInv
    <3> QED BY <3>1, <3>2, <3>3, <3>4 DEF Inv, Operators
  <2> QED BY <2>1 DEF Inv, Done
<1>2. CASE op \in Comparisons
  <2>1. regs["RAX"] = Compared
    <3>1. CompareInv
      BY <1>2 DEF Inv
    <3>2. Len(Emitted(op)) = 4
      BY <1>2, CodeOfComparison
    <3>3. ~(pc <= 4)
      BY <1>1, <3>2
    <3>4. pc \in 1..5
      BY <3>1 DEF CompareInv
    <3>5. pc = 5
      BY <3>3, <3>4
    <3> QED BY <3>1, <3>5 DEF CompareInv
  <2>2. Compared = Wrap(Compared)
    BY WrapFacts, WordsFacts DEF Compared, Word
  <2>3. Meaning(op, Signed(left), Signed(right)) = Compared
    <3>1. op # "ADD" /\ op # "SUB" /\ op # "MUL" /\ op # "DIV" /\ op # "MINUS"
      BY <1>2 DEF Comparisons
    <3> QED BY <1>2, <3>1 DEF Meaning, Compared
  <2> QED BY <2>1, <2>2, <2>3
<1>3. CASE op \in {"ADD", "SUB", "MUL"}
  <2>1. RingInv
    BY <1>3 DEF Inv
  <2>2. pc = 3
    <3>1. Len(Emitted(op)) = 2
      BY <1>3, CodeOfRing
    <3>2. ~(pc <= 2)
      BY <1>1, <3>1
    <3>3. pc \in 1..3
      BY <2>1 DEF RingInv
    <3> QED BY <3>2, <3>3
  <2> QED BY <2>1, <2>2 DEF RingInv
<1>4. CASE op = "DIV"
  <2>1. DivInv
    BY <1>4 DEF Inv
  <2>2. pc = 4
    <3>1. Len(Emitted(op)) = 3
      BY <1>4, CodeOfDiv
    <3>2. ~(pc <= 3)
      BY <1>1, <3>1
    <3>3. pc \in 1..4
      BY <2>1 DEF DivInv
    <3> QED BY <3>2, <3>3
  <2>3. regs["RAX"] = Wrap(Quotient(Signed(left), Signed(right)))
    BY <1>1, <1>4, <2>1, <2>2 DEF DivInv, DivOutcome
  <2>4. Meaning(op, Signed(left), Signed(right)) = Quotient(Signed(left), Signed(right))
    BY <1>4 DEF Meaning, Comparisons
  <2> QED BY <2>3, <2>4
<1>5. CASE op = "MINUS"
  <2>1. MinusInv
    BY <1>5 DEF Inv
  <2>2. pc = 2
    <3>1. Len(Emitted(op)) = 1
      BY <1>5, CodeOfMinus
    <3>2. ~(pc <= 1)
      BY <1>1, <3>1
    <3>3. pc \in 1..2
      BY <2>1 DEF MinusInv
    <3> QED BY <3>2, <3>3
  <2>3. Meaning(op, Signed(left), Signed(right)) = -Signed(left)
    BY <1>5 DEF Meaning, Comparisons
  <2> QED BY <2>1, <2>2, <2>3 DEF MinusInv
<1> QED BY <1>1, <1>2, <1>3, <1>4, <1>5 DEF Operators

\* At every width the code of every operator computes what the operator means for signed
\* numbers, a division if its dividend is not negative: the code that
\* generate_expression and pull_comparison_result emit.
THEOREM OperatorsRight == Spec => []ResultIsRight
<1>1. Spec => []Inv
  BY InvInit, InvStep, PTL DEF Spec
<1> QED BY <1>1, InvImpliesResult, PTL

\* At every width only a division stops the program, by zero or of a negative number.
THEOREM TrapsExplained == Spec => []TrapsOnlyWhereItMust
<1>1. Spec => []Inv
  BY InvInit, InvStep, PTL DEF Spec
<1>2. Inv => TrapsOnlyWhereItMust
  <2> SUFFICES ASSUME Inv, trapped PROVE op = "DIV" /\ (right = 0 \/ Negative(left))
    BY DEF TrapsOnlyWhereItMust
  <2>1. op = "DIV" /\ DivInv
    BY DEF Inv
  <2>2. pc = 4
    BY <2>1 DEF DivInv
  <2> QED BY <2>1, <2>2 DEF DivInv, DivOutcome
<1> QED BY <1>1, <1>2, PTL

================================================================================
