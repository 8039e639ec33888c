-------------------------------- MODULE ExprGen --------------------------------
(***************************************************************************)
(* The expression half of the code generator (src/generator/generator.cpp, *)
(* generate_call to generate_expression), together with the machine that   *)
(* executes what it emits: every action is one step of the generator, and  *)
(* the instructions that step emits are executed at once.                  *)
(*                                                                         *)
(* The tree is unfolded while it is visited: a node whose children are not *)
(* chosen yet is a "node" item, and its step picks any production that the *)
(* types of ast.hpp allow there.  A behaviour is one tree, and the set of  *)
(* behaviours is every tree with at most MaxNodes interior nodes.          *)
(*                                                                         *)
(* The C++ call stack is `work`: its last item is what happens next, an    *)
(* item below it is the rest of a handler that waits for a child.          *)
(***************************************************************************)
EXTENDS X64

CONSTANTS
  Vars,        \* variables of the current Context
  Idents,      \* names an expression may mention; those not in Vars are unknown
  Funcs,       \* functions generated so far (_functions)
  Callees,     \* names an expression may call; those not in Funcs are unknown
  Arity,       \* argCnt of each function
  ArgCounts,   \* numbers of arguments a call may be written with
  Offsets,     \* offsets of the attributes a variable may be read with, 0 is none
  Ops,         \* the binary operators that occur
  UnaryOps,    \* the prefix operators that occur
  FrameSlots,  \* quadwords that enter_context pushed for this function
  MaxNodes     \* bound on the interior nodes of a tree, calls counted by Cost

EqualityOps   == {"EQ", "NEQ"}
ComparisonOps == {"LT", "LTE", "GT", "GTE"}
TermOps       == {"ADD", "SUB"}
FactorOps     == {"MUL", "DIV", "MOD"}
BinaryOps     == EqualityOps \cup ComparisonOps \cup TermOps \cup FactorOps

ASSUME ConstantsAssumption ==
  /\ Vars \subseteq Idents
  /\ Funcs \subseteq Callees
  /\ Arity \in [Funcs -> Nat]
  /\ ArgCounts \subseteq Nat
  /\ Offsets \subseteq Nat
  /\ Ops \subseteq BinaryOps
  /\ UnaryOps \subseteq {"SUB", "NOT"}
  /\ FrameSlots \in Nat
  /\ MaxNodes \in Nat

\* The depth of the stack when the expression starts.
Base == QWORD * FrameSlots

\* Where a value lives while the expression is computed: a quadword of the frame,
\* or RDI, the only register first_pass gives to a parameter.
Homes ==
  {[reg |-> "RSP", pos |-> QWORD * s] : s \in 1..FrameSlots}
    \cup {[reg |-> "RDI", pos |-> 0]}

\* The value that was at home h when the expression started.
Initially(h) == <<"init", h>>

VARIABLES
  work,       \* the C++ call stack, last item first to run
  m,          \* the machine, and the addresses the generator knows (m.variables)
  exprInReg,  \* _exprInReg
  thrown,     \* the exception that ended the generation, or "none"
  fuel,       \* interior nodes that may still be opened
  home,       \* history: where each variable really is
  want,       \* history: the value of the node just finished, as the language has it
  clean       \* history: the tree so far stays inside the fragment that works

vars == <<work, m, exprInReg, thrown, fuel, home, want, clean>>

-----------------------------------------------------------------------------
(* Work items.  sp is history: the depth at which the item should run.     *)

Expr(sp)     == [k |-> "node", level |-> 0, sp |-> sp]
Node(l, sp)  == [k |-> "node", level |-> l, sp |-> sp]
End(sp)      == [k |-> "end", sp |-> sp]
PushRight(op, sp)        == [k |-> "push", op |-> op, sp |-> sp]
Combine(op, right, sp)   == [k |-> "combine", op |-> op, right |-> right, sp |-> sp]
Prefix(op, sp)           == [k |-> "prefix", op |-> op, sp |-> sp]
Place(f, n, args, sp)    == [k |-> "place", f |-> f, n |-> n, args |-> args, sp |-> sp]
Call(f, n, args, sp)     == [k |-> "call", f |-> f, n |-> n, args |-> args, sp |-> sp]

\* Mutant of Level: a Factor takes its left side from below a Primary.
LevelTooDeep(op) == CASE op \in EqualityOps   -> 1
                      [] op \in ComparisonOps -> 2
                      [] op \in TermOps       -> 3
                      [] op \in FactorOps     -> 6

\* Expression 0, Equality 1, Comparison 2, Term 3, Factor 4, Unary 5, Primary 6.
Level(op) == CASE op \in EqualityOps   -> 1
               [] op \in ComparisonOps -> 2
               [] op \in TermOps       -> 3
               [] op \in FactorOps     -> 4

Top  == work[Len(work)]
Rest == SubSeq(work, 1, Len(work) - 1)

Running(kind) == /\ thrown = "none"
                 /\ work # <<>>
                 /\ Top.k = kind

\* Calls whose arguments are still being generated.
Pending == {i \in 1..Len(work) : work[i].k = "place"}

-----------------------------------------------------------------------------
(* What the generator emits, executed.                                     *)

\* Every push and pop adjusts the address of every variable of the Context,
\* the register ones included.
Shift(variables, d) ==
  [v \in Vars |-> [reg |-> variables[v].reg, disp |-> variables[v].disp + d]]

\* Mutant of Push: the addresses of the variables are not adjusted.
PushWithoutShift(g, r) ==
  [regs      |-> g.regs,
   mem       |-> WriteMem(g.mem, g.depth + QWORD, g.regs[r]),
   depth     |-> g.depth + QWORD,
   variables |-> g.variables]

\* push(reg)
Push(g, r) ==
  [regs      |-> g.regs,
   mem       |-> WriteMem(g.mem, g.depth + QWORD, g.regs[r]),
   depth     |-> g.depth + QWORD,
   variables |-> Shift(g.variables, QWORD)]

\* pop(reg)
Pop(g, r) ==
  [regs      |-> WriteReg(g.regs, r, ReadMem(g.mem, g.depth)),
   mem       |-> Release(g.mem, g.depth),
   depth     |-> g.depth - QWORD,
   variables |-> Shift(g.variables, -QWORD)]

\* An instruction that only writes register r.
Set(g, r, v) ==
  [regs |-> WriteReg(g.regs, r, v), mem |-> g.mem, depth |-> g.depth,
   variables |-> g.variables]

\* The value of the operand a variable's address stands for.
Load(g, a) == IF a.reg = "RSP" THEN ReadMem(g.mem, g.depth - a.disp)
                               ELSE g.regs[a.reg]

\* Mutant of Fetch: the flag is not looked at.
FetchAlways(g) == Pop(g, "RAX")

\* `if (!_exprInReg) pop RAX`, which ends every handler that needs its child's value
Fetch(g) == IF exprInReg THEN g ELSE Pop(g, "RAX")

\* What a called function receives: argument i from its register.  Nothing in
\* the compiler says where a callee finds the seventh.
Received(g, n) ==
  [i \in 1..n |-> IF parameter_reg(i - 1) = "NONE" THEN Junk
                  ELSE g.regs[parameter_reg(i - 1)]]

\* The machine after CALL: the result in RAX, every other register the callee's
\* to overwrite, the stack as before.
AfterCall(g, f, n) ==
  [regs |-> [r \in Registers |->
               IF r = "RAX" THEN <<"call", f, Received(g, n)>> ELSE Junk],
   mem |-> g.mem, depth |-> g.depth, variables |-> g.variables]

-----------------------------------------------------------------------------
Init ==
  /\ home \in [Vars -> Homes]
  /\ m = [regs      |-> [r \in Registers |-> Initially([reg |-> r, pos |-> 0])],
          mem       |-> [p \in {QWORD * s : s \in 1..FrameSlots} |->
                           Initially([reg |-> "RSP", pos |-> p])],
          depth     |-> Base,
          variables |-> [v \in Vars |->
                           [reg  |-> home[v].reg,
                            disp |-> IF home[v].reg = "RSP"
                                     THEN Base - home[v].pos ELSE 0]]]
  /\ work = <<Expr(Base)>>
  /\ exprInReg \in BOOLEAN       \* whatever the code generated before left there
  /\ thrown = "none"
  /\ fuel = MaxNodes
  /\ want = Junk
  /\ clean = TRUE

Throw(what) ==
  /\ thrown' = what
  /\ UNCHANGED <<work, m, exprInReg, fuel, home, want, clean>>

\* generate_expression(Expression): the Equality below it, then ExprEnd.
GenExpression ==
  /\ Running("node") /\ Top.level = 0
  /\ work' = Rest \o <<End(Top.sp), Node(1, Top.sp)>>
  /\ UNCHANGED <<m, exprInReg, thrown, fuel, home, want, clean>>

ExprEnd ==
  /\ Running("end")
  /\ m' = Fetch(m)
  /\ work' = Rest
  /\ UNCHANGED <<exprInReg, thrown, fuel, home, want, clean>>

\* generate_expression of an Equality, Comparison, Term or Factor with a right
\* side.  The levels above it on the way down have none and only call the next.
GenBinary(op) ==
  /\ Running("node") /\ Top.level \in 1..Level(op)
  /\ fuel > 0
  /\ work' = Rest \o <<PushRight(op, Top.sp), Node(Level(op), Top.sp)>>
  /\ fuel' = fuel - 1
  /\ UNCHANGED <<m, exprInReg, thrown, home, want, clean>>

\* Mutant of GenLeft: the right side is not saved.
GenLeftUnsaved ==
  /\ Running("push")
  /\ work' = Rest \o <<Combine(Top.op, want, Top.sp + QWORD),
                       Node(Level(Top.op) + 1, Top.sp + QWORD)>>
  /\ UNCHANGED <<m, exprInReg, thrown, fuel, home, want, clean>>

\* The right side is done: it is pushed, and the left side is generated.
GenLeft ==
  /\ Running("push")
  /\ m' = IF exprInReg THEN Push(m, "RAX") ELSE m
  /\ work' = Rest \o <<Combine(Top.op, want, Top.sp + QWORD),
                       Node(Level(Top.op) + 1, Top.sp + QWORD)>>
  /\ UNCHANGED <<exprInReg, thrown, fuel, home, want, clean>>

\* Both sides are done.  RDX and RCX are used as scratch, which destroys the third
\* and the fourth argument of a call that is waiting for a later one.
ScratchIsFree == \A i \in Pending : Len(work[i].args) < 3

\* Mutant of CombineRDX: the operands are swapped.
CombineSwapped ==
  /\ Running("combine") /\ Top.op \notin {"DIV", "MOD"}
  /\ LET g == Pop(Fetch(m), "RDX")
     IN  m' = Set(g, "RAX", <<Top.op, g.regs["RDX"], g.regs["RAX"]>>)
  /\ work' = Rest
  /\ exprInReg' = TRUE
  /\ want' = <<Top.op, want, Top.right>>
  /\ clean' = (clean /\ ScratchIsFree)
  /\ UNCHANGED <<thrown, fuel, home>>

\* EQ to SUB, and MUL: left in RAX, right popped into RDX.
CombineRDX ==
  /\ Running("combine") /\ Top.op \notin {"DIV", "MOD"}
  /\ LET g == Pop(Fetch(m), "RDX")
     IN  m' = Set(g, "RAX", <<Top.op, g.regs["RAX"], g.regs["RDX"]>>)
  /\ work' = Rest
  /\ exprInReg' = TRUE
  /\ want' = <<Top.op, want, Top.right>>
  /\ clean' = (clean /\ ScratchIsFree)
  /\ UNCHANGED <<thrown, fuel, home>>

\* Mutant of CombineDiv: the right side is read but stays on the stack.
CombineDivUnbalanced ==
  /\ Running("combine") /\ Top.op = "DIV"
  /\ LET g == Fetch(m)
         q == <<"DIV", g.regs["RAX"], ReadMem(g.mem, g.depth)>>
     IN  m' = Set(Set(g, "RDX", Junk), "RAX", q)
  /\ work' = Rest
  /\ exprInReg' = TRUE
  /\ want' = <<"DIV", want, Top.right>>
  /\ clean' = (clean /\ ScratchIsFree)
  /\ UNCHANGED <<thrown, fuel, home>>

\* DIV: RDX is zeroed, the right side popped into RCX; IDIV leaves the quotient in
\* RAX and the remainder in RDX.
CombineDiv ==
  /\ Running("combine") /\ Top.op = "DIV"
  /\ LET g == Pop(Fetch(m), "RCX")
         q == <<"DIV", g.regs["RAX"], g.regs["RCX"]>>
     IN  m' = Set(Set(g, "RDX", Junk), "RAX", q)
  /\ work' = Rest
  /\ exprInReg' = TRUE
  /\ want' = <<"DIV", want, Top.right>>
  /\ clean' = (clean /\ ScratchIsFree)
  /\ UNCHANGED <<thrown, fuel, home>>

\* MOD: nothing is emitted and the right side stays on the stack.
CombineMod ==
  /\ Running("combine") /\ Top.op = "MOD"
  /\ m' = Fetch(m)
  /\ work' = Rest
  /\ exprInReg' = TRUE
  /\ want' = <<"MOD", want, Top.right>>
  /\ clean' = FALSE
  /\ UNCHANGED <<thrown, fuel, home>>

\* generate_expression(Unary) with an operator; its operand is a Unary or a Primary.
GenUnary(op) ==
  /\ Running("node") /\ Top.level \in 1..5
  /\ fuel > 0
  /\ work' = Rest \o <<Prefix(op, Top.sp), Node(5, Top.sp)>>
  /\ fuel' = fuel - 1
  /\ UNCHANGED <<m, exprInReg, thrown, home, want, clean>>

\* NEG for both operators, which for NOT is not the negation of a truth value.
UnaryEnd ==
  /\ Running("prefix")
  /\ LET g == Fetch(m) IN m' = Set(g, "RAX", <<"SUB", g.regs["RAX"]>>)
  /\ work' = Rest
  /\ exprInReg' = TRUE
  /\ want' = <<Top.op, want>>
  /\ clean' = (clean /\ Top.op = "SUB")
  /\ UNCHANGED <<thrown, fuel, home>>

-----------------------------------------------------------------------------
(* generate_expression(Primary): the leaves, a parenthesis, a call.        *)

AtPrimary == Running("node") /\ Top.level \in 1..6

GenParen ==
  /\ AtPrimary /\ fuel > 0
  /\ work' = Rest \o <<Expr(Top.sp)>>
  /\ fuel' = fuel - 1
  /\ UNCHANGED <<m, exprInReg, thrown, home, want, clean>>

\* A number that std::stoi accepts.
GenNumber ==
  /\ AtPrimary
  /\ m' = Set(m, "RAX", <<"num">>)
  /\ work' = Rest
  /\ exprInReg' = TRUE
  /\ want' = <<"num">>
  /\ UNCHANGED <<thrown, fuel, home, clean>>

\* A number that std::stoi rejects, and a string literal.
GenNumberTooLarge == AtPrimary /\ Throw("stoi")
GenString == AtPrimary /\ Throw("Strings Not Implemented")

\* A variable, possibly with an attribute, whose offset is not looked at.
GenVariable(v, offset) ==
  /\ AtPrimary /\ v \in Vars
  /\ m' = Set(m, "RAX", Load(m, m.variables[v]))
  /\ work' = Rest
  /\ exprInReg' = TRUE
  /\ want' = Initially([reg |-> home[v].reg, pos |-> home[v].pos - offset])
  /\ clean' = (clean /\ offset = 0)
  /\ UNCHANGED <<thrown, fuel, home>>

GenUnknownVariable(v) == AtPrimary /\ v \notin Vars /\ Throw("Unknown Variable")

\* generate_call up to its first argument.  Arguments go straight to the registers
\* of the callee: a call inside a later argument, or in a function whose parameter
\* is still in its register, overwrites them.
RegistersAreFree ==
  /\ \A i \in Pending : work[i].args = <<>>
  /\ \A v \in Vars : home[v].reg = "RSP"

\* What a call takes of the bound: long argument lists count for more.
Cost(n) == 1 + n \div 3

GenCall(f, n) ==
  /\ AtPrimary /\ fuel >= Cost(n)
  /\ f \in Funcs /\ n = Arity[f]
  /\ work' = Rest \o (IF n = 0 THEN <<Call(f, n, <<>>, Top.sp)>>
                      ELSE <<Place(f, n, <<>>, Top.sp), Expr(Top.sp)>>)
  /\ fuel' = fuel - Cost(n)
  /\ clean' = (clean /\ RegistersAreFree)
  /\ UNCHANGED <<m, exprInReg, thrown, home, want>>

GenUnknownCall(f) == AtPrimary /\ f \notin Funcs /\ Throw("Unknown Function")

GenBadCall(f, n) ==
  /\ AtPrimary /\ f \in Funcs /\ n # Arity[f]
  /\ Throw("Invalid number of arguments")

\* Mutant of PlaceArg: paramIndex is incremented before it is used.
PlaceArgTooFar ==
  /\ Running("place")
  /\ LET i    == Len(Top.args)
         args == Append(Top.args, want)
         onStack == parameter_reg(i + 1) = "NONE"
     IN  /\ m' = IF onStack THEN Push(m, "RAX")
                 ELSE Set(m, parameter_reg(i + 1), m.regs["RAX"])
         /\ work' = Rest \o (IF i + 1 = Top.n
                             THEN <<Call(Top.f, Top.n, args, Top.sp)>>
                             ELSE <<Place(Top.f, Top.n, args, Top.sp), Expr(Top.sp)>>)
         /\ clean' = (clean /\ ~onStack)
  /\ UNCHANGED <<exprInReg, thrown, fuel, home, want>>

\* generate_parameters: one argument is done and moves to its register, or to the
\* stack once the registers are used up.
PlaceArg ==
  /\ Running("place")
  /\ LET i    == Len(Top.args)
         args == Append(Top.args, want)
         onStack == parameter_reg(i) = "NONE"
     IN  /\ m' = IF onStack THEN Push(m, "RAX")
                 ELSE Set(m, parameter_reg(i), m.regs["RAX"])
         /\ work' = Rest \o (IF i + 1 = Top.n
                             THEN <<Call(Top.f, Top.n, args, Top.sp)>>
                             ELSE <<Place(Top.f, Top.n, args, Top.sp), Expr(Top.sp)>>)
         /\ clean' = (clean /\ ~onStack)
  /\ UNCHANGED <<exprInReg, thrown, fuel, home, want>>

\* CALL.  _exprInReg is left alone although the result is in RAX, so it is still
\* FALSE when nothing but calls without arguments has been generated so far.
EmitCall ==
  /\ Running("call")
  /\ m' = AfterCall(m, Top.f, Top.n)
  /\ work' = Rest
  /\ want' = <<"call", Top.f, Top.args>>
  /\ clean' = (clean /\ exprInReg)
  /\ UNCHANGED <<exprInReg, thrown, fuel, home>>

Next ==
  \/ GenExpression \/ ExprEnd
  \/ \E op \in Ops : GenBinary(op)
  \/ GenLeft \/ CombineRDX \/ CombineDiv \/ CombineMod
  \/ \E op \in UnaryOps : GenUnary(op)
  \/ UnaryEnd
  \/ GenParen \/ GenNumber \/ GenNumberTooLarge \/ GenString
  \/ \E v \in Idents, offset \in Offsets : GenVariable(v, offset)
  \/ \E v \in Idents : GenUnknownVariable(v)
  \/ \E f \in Callees, n \in ArgCounts : GenCall(f, n) \/ GenBadCall(f, n)
  \/ \E f \in Callees : GenUnknownCall(f)
  \/ PlaceArg \/ EmitCall

Spec == Init /\ [][Next]_vars

-----------------------------------------------------------------------------
Done == thrown = "none" /\ work = <<>>

\* The shapes of the variables; a term is any tuple.
TypeOK ==
  /\ DOMAIN m = {"regs", "mem", "depth", "variables"}
  /\ DOMAIN m.regs = Registers
  /\ m.depth \in Int
  /\ m.variables \in [Vars -> [reg : {"RSP", "RDI"}, disp : Int]]
  /\ home \in [Vars -> Homes]
  /\ exprInReg \in BOOLEAN /\ clean \in BOOLEAN
  /\ fuel \in 0..MaxNodes
  /\ \A i \in 1..Len(work) : /\ work[i].sp \in Int
                             /\ work[i].k = "node" => work[i].level \in 0..6

\* Whatever the expression, and also where the code generated for it is wrong, the
\* address the generator holds for a stack variable names the quadword the variable
\* lives in: every push and pop is mirrored in the displacements.
DispTracksStack ==
  \A v \in Vars : m.variables[v].reg = "RSP" =>
                    m.depth - m.variables[v].disp = home[v].pos

\* An expression inside the fragment that works leaves its value in RAX and gives
\* back every quadword it pushed: evaluating right before left through the stack
\* and RDX computes what the tree denotes, however the operators nest.
ExprCorrect ==
  Done /\ clean => /\ m.regs["RAX"] = want
                   /\ m.depth = Base

\* While such an expression is computed nothing of the frame is popped or
\* overwritten: the variables a statement reads later are still there.
FrameKept ==
  clean => /\ m.depth >= Base
           /\ \A s \in 1..FrameSlots :
                ReadMem(m.mem, QWORD * s) = Initially([reg |-> "RSP", pos |-> QWORD * s])

\* A call receives the values of its argument expressions.
CallReceivesItsArguments ==
  Running("call") => Received(m, Top.n) = Top.args

\* The same inside the fragment that works, where it is a fact.
CleanCallReceivesItsArguments ==
  clean => CallReceivesItsArguments

-----------------------------------------------------------------------------
(* The inductive invariant behind the properties of the clean fragment.    *)

\* The depth an item leaves behind.
Exit(item) == IF item.k = "combine" THEN item.sp - QWORD ELSE item.sp

\* The real depth is the one the next item expects, and every item leaves the depth
\* that the item below it expects.
DepthIsExpected ==
  /\ m.depth = IF work = <<>> THEN Base ELSE Top.sp
  /\ \A i \in 1..Len(work) :
       Exit(work[i]) = IF i = 1 THEN Base ELSE work[i - 1].sp

\* Items nearer to the top never reach below what the items under them rely on.
NothingReachesBelow ==
  \A j \in 1..Len(work) :
    /\ Base <= Exit(work[j])
    /\ \A i \in 1..(j - 1) : work[i].sp <= Exit(work[j])

\* The right side of every operator that waits for its left one is on the stack, at
\* the position that operator will pop.
RightsOnStack ==
  \A i \in 1..Len(work) :
    work[i].k = "combine" => ReadMem(m.mem, work[i].sp) = work[i].right

\* The frame holds what it held at the start.
FrameValues ==
  \A s \in 1..FrameSlots :
    ReadMem(m.mem, QWORD * s) = Initially([reg |-> "RSP", pos |-> QWORD * s])

\* When a handler gets control back its child's value is in RAX and the flag says so.
ResultInRAX ==
  (IF work = <<>> THEN TRUE ELSE Top.k \notin {"node", "call"})
    => exprInReg /\ m.regs["RAX"] = want

\* The arguments placed so far are in their registers.
ArgsInRegisters ==
  \A i \in 1..Len(work) :
    work[i].k \in {"place", "call"} =>
      /\ Len(work[i].args) \in 0..Len(ParameterRegs)
      /\ work[i].args = [a \in 1..Len(work[i].args) |-> m.regs[parameter_reg(a - 1)]]
      /\ work[i].k = "call" => i = Len(work) /\ Len(work[i].args) = work[i].n

\* A call inside a call: the outer one has placed nothing yet.
OuterCallsEmpty ==
  \A j \in 1..Len(work) : work[j].k \in {"place", "call"} =>
    \A i \in 1..(j - 1) : work[i].k = "place" => work[i].args = <<>>

\* A parameter that lives in RDI is still there, and no call is under way.
RegisterHomesKept ==
  \A v \in Vars : home[v].reg # "RSP" =>
    /\ m.regs[home[v].reg] = Initially(home[v])
    /\ \A i \in 1..Len(work) : work[i].k \notin {"place", "call"}

\* What holds between the steps of any tree inside the fragment that works.
CleanInv ==
  clean => /\ DepthIsExpected
           /\ NothingReachesBelow
           /\ RightsOnStack
           /\ FrameValues
           /\ ResultInRAX
           /\ ArgsInRegisters
           /\ OuterCallsEmpty
           /\ RegisterHomesKept

================================================================================
