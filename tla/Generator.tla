------------------------------- MODULE Generator -------------------------------
(***************************************************************************)
(* The statement half of the code generator                                *)
(* (src/generator/generator.cpp), composed with the first pass, whose      *)
(* FuncInfo it reads.  Generator::generate runs both passes and then       *)
(* visits the program; every action is one handler, or the rest of one     *)
(* after a body it contains.                                               *)
(*                                                                         *)
(* `todo` is the C++ call stack flattened: the statements still to be      *)
(* visited, with an item for the rest of a handler behind the body it      *)
(* waits for.  `code` is the output, one record per group of               *)
(* instructions that nothing can come between.                             *)
(*                                                                         *)
(* Module ExprGen is the generator of expressions.  Here an expression is  *)
(* a number, a variable, a comparison of two variables, or a call whose    *)
(* arguments are such; ExprGen's theorems say that its code is one step    *)
(* that leaves its value in RAX and the stack alone.                       *)
(***************************************************************************)
EXTENDS X64, SequencesExt

CONSTANTS
  Programs,    \* the ASTs that occur
  Statements,  \* the statements in them, those inside others included
  NameOrder,   \* every variable name once, in the order std::map keeps them
  Within(_)    \* the statement itself and the statements in its bodies, if and while only

\* Those that hold others.
Holders == {s \in Statements : s.k \in {"func", "main", "if", "while"}}

\* What the parser builds: the alternatives of AST::Statement, and finite lists of them.
ASSUME StatementsAssumption ==
  /\ Programs \cup {s.body : s \in Holders} \cup {s.else : s \in {s \in Holders : s.k = "if"}}
       \subseteq Seq(Statements)
  /\ \A s \in Statements :
       /\ s.k \in {"type", "func", "main", "decl", "assign", "return", "exit", "if", "while",
                   "call", "asm"}
       /\ s.k = "type" => Len(s.attrs) \in Nat
       /\ s.k = "func" => Len(s.args) \in Nat /\ s.name \notin {"", "main"}
       /\ s.k = "call" => Len(s.values) \in Nat
       /\ s.k \in {"decl", "assign", "return", "exit", "if", "while"} /\ s.value.k = "call" =>
            Len(s.value.values) \in Nat

VariableNames == {NameOrder[i] : i \in 1..Len(NameOrder)}

\* NameOrder has the name of every variable and parameter.
ASSUME NamesAssumption ==
  /\ Len(NameOrder) \in Nat
  /\ \A s \in Statements :
       /\ s.k = "decl" => s.name \in VariableNames
       /\ s.k = "func" => \A i \in 1..Len(s.args) : s.args[i].name \in VariableNames

\* All statements of a body, those inside ifs and loops included.
Inside(body) == UNION {Within(body[i]) : i \in 1..Len(body)}

\* Within is recursive: this is its definition.
ASSUME WithinAssumption ==
  \A s \in Statements :
    Within(s) = {s} \cup CASE s.k = "if" -> Inside(s.body) \cup Inside(s.else)
                           [] s.k = "while" -> Inside(s.body)
                           [] OTHER -> {}

VARIABLES
  \* the first pass
  ast, phase, pos, sub, types, typeIDs, functions, currFunc, newType, newFunc, hasMain,
  thrown,           \* the exception that ended the compilation, or "none"
  \* the generator
  todo,             \* what is left to visit
  contexts,         \* _contexts: of each Context the variables, name to Variable
  currentFunction,  \* _currentFunction
  generated,        \* _functions: name to label and argCnt
  labelCount,       \* _label_count
  exprInReg,        \* _exprInReg
  code,             \* _output_code
  output            \* the output file: "empty", as the constructor leaves it, or "written"

passVars == <<ast, phase, pos, sub, types, typeIDs, functions, currFunc, newType,
              newFunc, hasMain>>
genVars == <<todo, contexts, currentFunction, generated, labelCount, exprInReg, code,
             output>>
vars == <<passVars, thrown, genVars>>

FP == INSTANCE FirstPass

-----------------------------------------------------------------------------
Position(s, x) == CHOOSE i \in 1..Len(s) : s[i] = x

\* The names of S as a std::map goes through them.
InOrder(S) ==
  CHOOSE s \in [1..Cardinality(S) -> S] :
    \A i, j \in DOMAIN s : i < j => Position(NameOrder, s[i]) < Position(NameOrder, s[j])

\* One group of instructions.  rest is history: what is left of the source there;
\* awaited is history: RAX holds the result of a call.
Instr(op, arg, rest, awaited) == [op |-> op, arg |-> arg, rest |-> rest, awaited |-> awaited]

Label(n) == <<"label", n>>

At(k) == /\ phase = "done" /\ thrown = "none"
         /\ todo # <<>> /\ Head(todo).k = k
S == Head(todo)

\* context().variables; contexts is empty only after more returns than functions.
Variables == IF contexts = <<>> THEN <<>> ELSE Last(contexts)
WithVariables(variables) == Append(Front(contexts), variables)

\* What a push or a pop does to every variable of the Context.
Shift(variables, d) ==
  [x \in DOMAIN variables |-> [variables[x] EXCEPT !.location.disp = @ + d]]

Init ==
  /\ FP!Init
  /\ todo = ast
  /\ contexts = << <<>> >>
  /\ currentFunction = <<>>
  /\ generated = <<>>
  /\ labelCount = 0
  /\ exprInReg = FALSE
  /\ code = <<>>
  /\ output = "empty"

\* An exception: logged by generate(AST), and nothing is written.
Throw(what) ==
  /\ thrown' = what
  /\ UNCHANGED <<passVars, genVars>>

-----------------------------------------------------------------------------
(* Expressions.                                                            *)

Reads(e) == CASE e.k \in {"num", "none"} -> {}
              [] e.k = "var" -> {e.name}
              [] e.k = "neq" -> {e.left, e.right}
              [] e.k = "call" -> UNION {CASE e.values[i].k = "num" -> {}
                                          [] e.values[i].k = "var" -> {e.values[i].name}
                                          [] e.values[i].k = "neq" -> {e.values[i].left, e.values[i].right}
                                        : i \in 1..Len(e.values)}

\* A call of an unknown function, or with a wrong number of arguments.
BadCall(e) ==
  /\ e.k = "call"
  /\ e.name \in DOMAIN generated => Len(e.values) # generated[e.name].argCnt

\* A bad call, or a variable that the Context does not have.
Throws(e) == BadCall(e) \/ ~(Reads(e) \subseteq DOMAIN Variables)

\* The instruction that computes e, with the operands it loads.
Eval(e, variables) ==
  Instr("eval", [e |-> e, from |-> [x \in Reads(e) |-> variables[x].location]], todo, FALSE)

\* generate_parameters: argument n moves to its register, or to the stack once the registers
\* are used up, and nothing pops it again.
PlaceArg(n) ==
  IF parameter_reg(n - 1) = "NONE" THEN Instr("push", "RAX", todo, FALSE)
  ELSE Instr("mov", parameter_reg(n - 1), todo, FALSE)

\* How many of n arguments are on the stack then.
PushedOf(n) == IF n > Len(ParameterRegs) THEN n - Len(ParameterRegs) ELSE 0

\* Argument n is computed where the ones before it have left the variables.
EvalArg(e, n) == Eval(e.values[n], Shift(Variables, QWORD * PushedOf(n - 1)))

\* generate_call: each argument is computed and placed.
CallCode(e) ==
  [i \in 1..2 * Len(e.values) |->
     IF i % 2 = 1 THEN EvalArg(e, (i + 1) \div 2) ELSE PlaceArg(i \div 2)]
  \o <<Instr("call", generated[e.name].label, todo, FALSE)>>

\* _exprInReg after e: only a leaf sets it.
FlagAfter(e) == exprInReg \/ e.k \in {"num", "var", "neq"} \/ (e.k = "call" /\ e.values # <<>>)

\* generate_expression(Expression), which pops RAX when the flag is not set.
ValueCode(e) ==
  IF e.k # "call" THEN <<Eval(e, Variables)>>
  ELSE CallCode(e) \o (IF FlagAfter(e) THEN <<>> ELSE <<Instr("pop", "RAX", todo, TRUE)>>)

\* The Context after n more quadwords on the stack.
Moved(n) == IF n = 0 THEN Variables ELSE Shift(Variables, QWORD * n)

\* By how many quadwords the code of e moves the stack.
Growth(e) == IF e.k # "call" THEN 0
             ELSE IF FlagAfter(e) THEN PushedOf(Len(e.values)) ELSE -1
VariablesAfter(e) == Moved(Growth(e))

-----------------------------------------------------------------------------
(* Contexts.                                                               *)

\* Parameters that came in registers.
RegParams(f) == InOrder({x \in DOMAIN functions[f].params :
                           functions[f].params[x].location.reg # "RSP"})

\* What enter_context pushes: the parameters, if their registers are dirty, and a zero
\* for every local, whatever its size.
Saved(f)  == IF functions[f].dirty THEN RegParams(f) ELSE <<>>
Zeroed(f) == InOrder(DOMAIN functions[f].locals)

Enter(f, rest) ==
  Instr("enter", [regs |-> [i \in 1..Len(Saved(f)) |->
                              functions[f].params[Saved(f)[i]].location.reg],
                  zeros |-> Len(Zeroed(f))], rest, FALSE)

\* The variables of the new Context.  A local takes the place of a parameter of the same
\* name; a parameter that stays in its register keeps no type.
FrameOf(f) ==
  LET locals == functions[f].locals
      Slot(i) == [reg |-> "RSP", disp |-> QWORD * (Len(Saved(f)) + Len(Zeroed(f)) - i)]
  IN  [x \in DOMAIN locals \cup {RegParams(f)[i] : i \in 1..Len(RegParams(f))} |->
         IF x \in DOMAIN locals
         THEN [type |-> locals[x].type,
               location |-> Slot(Len(Saved(f)) + Position(Zeroed(f), x))]
         ELSE IF functions[f].dirty
         THEN [type |-> functions[f].params[x].type,
               location |-> Slot(Position(Saved(f), x))]
         ELSE [type |-> 0,
               location |-> [functions[f].params[x].location EXCEPT
                               !.disp = QWORD * Len(Zeroed(f))]]]

\* leave_context pops one quadword into RDI for every variable that is on the stack.
OnStack == {x \in DOMAIN Variables : Variables[x].location.reg = "RSP"}

-----------------------------------------------------------------------------
(* The handlers.  Throws of one handler are gathered in one action.        *)

\* The passes run first.
Passes == FP!Next /\ UNCHANGED genVars

\* A value, if there is one, needs a context to find a variable in or to push or pop with.
NeedsContext(e) == ~BadCall(e) /\ (Reads(e) # {} \/ Growth(e) # 0)

\* So does a call statement, which never pops.
CallNeedsContext == ~BadCall(S) /\ (Reads(S) # {} \/ PushedOf(Len(S.values)) # 0)

\* top() of an empty std::stack, which is undefined.
Undefined ==
  /\ \/ contexts = <<>> /\ (At("decl") \/ At("assign"))
     \/ contexts = <<>> /\ At("return") /\ ~BadCall(S.value)
     \/ contexts = <<>> /\ (At("if") \/ At("while") \/ At("exit")) /\ NeedsContext(S.value)
     \/ contexts = <<>> /\ At("call") /\ CallNeedsContext
     \/ currentFunction = <<>> /\ At("decl") /\ S.type \in DOMAIN typeIDs
  /\ Throw("undefined")

\* A value that throws, in any statement.
ValueThrows ==
  /\ \/ At("decl") /\ contexts # <<>> /\ currentFunction # <<>> /\ Throws(S.value)
     \/ At("assign") /\ contexts # <<>> /\ Throws(S.value)
     \/ (At("if") \/ At("while") \/ At("return") \/ At("exit")) /\ Throws(S.value)
        /\ (NeedsContext(S.value) => contexts # <<>>)
     \/ At("call") /\ Throws(S) /\ (BadCall(S) \/ contexts # <<>>)
  /\ Throw("exception")

CanEvaluate(e) == /\ ~Throws(e)
                  /\ NeedsContext(e) => contexts # <<>>

\* The locals of the function at hand, as the first pass found them.
LocalsHere == functions[Last(currentFunction)].locals

HasAttributes(name) == FP!TypeOf(name).offsets # <<>>

\* An unknown type, a value for a type with attributes, or a variable that the first
\* pass did not see, which `locals.at` does not find.
DeclThrows ==
  /\ At("decl") /\ contexts # <<>>
  /\ \/ S.type \notin DOMAIN typeIDs
     \/ /\ S.type \in DOMAIN typeIDs /\ currentFunction # <<>>
        /\ \/ S.value.k # "none" /\ HasAttributes(S.type)
           \/ S.name \notin DOMAIN LocalsHere
  /\ Throw("exception")

\* Mutant of GenDecl: the variable keeps the place enter_context gave it.
GenDeclInPlace ==
  /\ At("decl") /\ contexts # <<>> /\ currentFunction # <<>>
  /\ S.type \in DOMAIN typeIDs /\ S.name \in DOMAIN LocalsHere
  /\ CanEvaluate(S.value)
  /\ S.value.k # "none" => ~HasAttributes(S.type)
  /\ LET slot == LocalsHere[S.name].location
     IN  /\ code' = code \o
              (IF S.value.k = "none" THEN <<>>
               ELSE ValueCode(S.value)
                    \o <<Instr("store", slot, todo, S.value.k = "call")>>)
         /\ contexts' = WithVariables(VariablesAfter(S.value))
  /\ exprInReg' = FlagAfter(S.value)
  /\ todo' = Tail(todo)
  /\ UNCHANGED <<passVars, thrown, currentFunction, generated, labelCount, output>>

\* generate_declaration: the value is stored where the first pass put the variable,
\* and from here on the Context has it there.
GenDecl ==
  /\ At("decl") /\ contexts # <<>> /\ currentFunction # <<>>
  /\ S.type \in DOMAIN typeIDs /\ S.name \in DOMAIN LocalsHere
  /\ CanEvaluate(S.value)
  /\ S.value.k # "none" => ~HasAttributes(S.type)
  /\ LET slot == LocalsHere[S.name].location
         variable == [type |-> typeIDs[S.type], location |-> slot]
     IN  /\ code' = code \o
              (IF S.value.k = "none" THEN <<>>
               ELSE ValueCode(S.value)
                    \o <<Instr("store", slot, todo, S.value.k = "call")>>)
         /\ contexts' = WithVariables(FP!Assign(VariablesAfter(S.value), S.name, variable))
  /\ exprInReg' = FlagAfter(S.value)
  /\ todo' = Tail(todo)
  /\ UNCHANGED <<passVars, thrown, currentFunction, generated, labelCount, output>>

\* get_location: the address of a variable plus the offset of its attribute.
OffsetsOf(variable) == types[variable.type + 1].offsets
BadAttribute(variable, attr) ==
  attr # "none" /\ OffsetsOf(variable) # <<>> /\ attr \notin DOMAIN OffsetsOf(variable)
Located(variable, attr) ==
  IF attr = "none" \/ OffsetsOf(variable) = <<>> THEN variable.location
  ELSE [variable.location EXCEPT !.disp = @ + OffsetsOf(variable)[attr]]

AssignThrows ==
  /\ At("assign") /\ contexts # <<>>
  /\ \/ S.name \notin DOMAIN Variables
     \/ S.name \in DOMAIN Variables /\ BadAttribute(Variables[S.name], S.attr)
  /\ Throw("exception")

\* generate_assignment
GenAssign ==
  /\ At("assign") /\ contexts # <<>>
  /\ S.name \in DOMAIN Variables /\ ~BadAttribute(Variables[S.name], S.attr)
  /\ CanEvaluate(S.value)
  /\ LET after == VariablesAfter(S.value)
     IN  /\ code' = code \o ValueCode(S.value)
                         \o <<Instr("store", Located(after[S.name], S.attr), todo,
                                    S.value.k = "call")>>
         /\ contexts' = WithVariables(after)
  /\ exprInReg' = FlagAfter(S.value)
  /\ todo' = Tail(todo)
  /\ UNCHANGED <<passVars, thrown, currentFunction, generated, labelCount, output>>

\* Mutant of GenMain: the function at hand is not recorded.
GenMainUnnamed ==
  /\ At("main")
  /\ todo' = S.body \o <<[k |-> "endmain"]>> \o Tail(todo)
  /\ code' = code \o <<Instr("label", <<"start">>, todo', FALSE), Enter("main", todo')>>
  /\ contexts' = Append(contexts, FrameOf("main"))
  /\ UNCHANGED <<passVars, thrown, currentFunction, generated, labelCount, exprInReg, output>>

\* Mutant of GenMain: its label is taken for its name.
GenMainByLabel ==
  /\ At("main")
  /\ todo' = S.body \o <<[k |-> "endmain"]>> \o Tail(todo)
  /\ currentFunction' = Append(currentFunction, "_start")
  /\ code' = code \o <<Instr("label", <<"start">>, todo', FALSE), Enter("main", todo')>>
  /\ contexts' = Append(contexts, FrameOf("main"))
  /\ UNCHANGED <<passVars, thrown, generated, labelCount, exprInReg, output>>

\* generate_main, up to its body.  Nothing ever leaves main.
GenMain ==
  /\ At("main")
  /\ todo' = S.body \o <<[k |-> "endmain"]>> \o Tail(todo)
  /\ currentFunction' = Append(currentFunction, "main")
  /\ code' = code \o <<Instr("label", <<"start">>, todo', FALSE), Enter("main", todo')>>
  /\ contexts' = Append(contexts, FrameOf("main"))
  /\ UNCHANGED <<passVars, thrown, generated, labelCount, exprInReg, output>>

EndMain ==
  /\ At("endmain")
  /\ todo' = Tail(todo)
  /\ UNCHANGED <<passVars, thrown, contexts, currentFunction, generated, labelCount,
                 exprInReg, code, output>>

\* Mutant of GenFunc: the function is not known in its own body.
GenFuncUnknown ==
  /\ At("func") /\ S.name \in DOMAIN functions \ DOMAIN generated
  /\ LET label == <<"func", Cardinality(DOMAIN generated)>>
     IN  /\ todo' = S.body \o <<[k |-> "endfunc"]>> \o Tail(todo)
         /\ code' = code \o <<Instr("label", label, todo', FALSE), Enter(S.name, todo')>>
  /\ currentFunction' = Append(currentFunction, S.name)
  /\ contexts' = Append(contexts, FrameOf(S.name))
  /\ UNCHANGED <<passVars, thrown, generated, labelCount, exprInReg, output>>

\* Mutant of GenFunc: what is in scope around the function stays in scope.
GenFuncInherits ==
  /\ At("func") /\ S.name \in DOMAIN functions \ DOMAIN generated
  /\ LET label == <<"func", Cardinality(DOMAIN generated)>>
     IN  /\ generated' = FP!Assign(generated, S.name,
                                   [label |-> label, argCnt |-> Len(S.args)])
         /\ todo' = S.body \o <<[k |-> "endfunc"]>> \o Tail(todo)
         /\ code' = code \o <<Instr("label", label, todo', FALSE), Enter(S.name, todo')>>
  /\ currentFunction' = Append(currentFunction, S.name)
  /\ contexts' = Append(contexts, FrameOf(S.name) @@ Variables)
  /\ UNCHANGED <<passVars, thrown, labelCount, exprInReg, output>>

\* generate_func, up to its body.
GenFunc ==
  /\ At("func") /\ S.name \in DOMAIN functions \ DOMAIN generated
  /\ LET label == <<"func", Cardinality(DOMAIN generated)>>
     IN  /\ generated' = FP!Assign(generated, S.name,
                                   [label |-> label, argCnt |-> Len(S.args)])
         /\ todo' = S.body \o <<[k |-> "endfunc"]>> \o Tail(todo)
         /\ code' = code \o <<Instr("label", label, todo', FALSE), Enter(S.name, todo')>>
  /\ currentFunction' = Append(currentFunction, S.name)
  /\ contexts' = Append(contexts, FrameOf(S.name))
  /\ UNCHANGED <<passVars, thrown, labelCount, exprInReg, output>>

\* A function inside a body, which the first pass did not see.
FuncThrows ==
  /\ At("func") /\ (S.name \in DOMAIN generated \/ S.name \notin DOMAIN functions)
  /\ Throw("exception")

\* Only the function is left, not its Context: that is what its return did.
EndFunc ==
  /\ At("endfunc")
  /\ currentFunction' = Front(currentFunction)
  /\ todo' = Tail(todo)
  /\ UNCHANGED <<passVars, thrown, contexts, generated, labelCount, exprInReg, code, output>>

\* A call statement: no expression around it that would pop.
GenCall ==
  /\ At("call") /\ ~Throws(S)
  /\ CallNeedsContext => contexts # <<>>
  /\ code' = code \o CallCode(S)
  /\ contexts' = IF CallNeedsContext THEN WithVariables(Moved(PushedOf(Len(S.values))))
                 ELSE contexts
  /\ exprInReg' = (exprInReg \/ S.values # <<>>)
  /\ todo' = Tail(todo)
  /\ UNCHANGED <<passVars, thrown, currentFunction, generated, labelCount, output>>

\* Mutant of GenReturn: one variable too few is popped.
GenReturnShort ==
  /\ At("return") /\ contexts # <<>>
  /\ CanEvaluate(S.value)
  /\ code' = code \o (IF S.value.k = "none" THEN <<>> ELSE ValueCode(S.value))
                  \o <<Instr("return", IF OnStack = {} THEN 0 ELSE Cardinality(OnStack) - 1,
                             todo, S.value.k = "call")>>
  /\ contexts' = Front(contexts)
  /\ exprInReg' = FlagAfter(S.value)
  /\ todo' = Tail(todo)
  /\ UNCHANGED <<passVars, thrown, currentFunction, generated, labelCount, output>>

\* generate_return: leave_context, and RET.
GenReturn ==
  /\ At("return") /\ contexts # <<>>
  /\ CanEvaluate(S.value)
  /\ code' = code \o (IF S.value.k = "none" THEN <<>> ELSE ValueCode(S.value))
                  \o <<Instr("return", Cardinality(OnStack), todo, S.value.k = "call")>>
  /\ contexts' = Front(contexts)
  /\ exprInReg' = FlagAfter(S.value)
  /\ todo' = Tail(todo)
  /\ UNCHANGED <<passVars, thrown, currentFunction, generated, labelCount, output>>

\* generate_exit: the value, or zero, moves to RDI.
GenExit ==
  /\ At("exit") /\ CanEvaluate(S.value)
  /\ code' = code \o (IF S.value.k = "none" THEN <<>> ELSE ValueCode(S.value))
                  \o <<Instr("exit", S.value.k = "none", todo, S.value.k = "call")>>
  /\ contexts' = IF NeedsContext(S.value) THEN WithVariables(VariablesAfter(S.value))
                 ELSE contexts
  /\ exprInReg' = FlagAfter(S.value)
  /\ todo' = Tail(todo)
  /\ UNCHANGED <<passVars, thrown, currentFunction, generated, labelCount, output>>

-----------------------------------------------------------------------------
(* Jumps.                                                                  *)

\* A condition and the jump that is taken when it is zero.
Test(e, label) ==
  ValueCode(e) \o <<Instr("je", label, todo, e.k = "call")>>
ContextsAfterTest(e) == IF NeedsContext(e) THEN WithVariables(VariablesAfter(e)) ELSE contexts

\* generate_if, up to its body.  Both labels are taken, used or not.
GenIf ==
  /\ At("if") /\ CanEvaluate(S.value)
  /\ LET elseLabel == Label(labelCount)
         endLabel  == Label(labelCount + 1)
     IN  IF S.else = <<>>
         THEN /\ code' = code \o Test(S.value, endLabel)
              /\ todo' = S.body \o <<[k |-> "endif", end |-> endLabel]>> \o Tail(todo)
         ELSE /\ code' = code \o Test(S.value, elseLabel)
              /\ todo' = S.body \o <<[k |-> "else", body |-> S.else, label |-> elseLabel,
                                      end |-> endLabel]>> \o Tail(todo)
  /\ labelCount' = labelCount + 2
  /\ contexts' = ContextsAfterTest(S.value)
  /\ exprInReg' = FlagAfter(S.value)
  /\ UNCHANGED <<passVars, thrown, currentFunction, generated, output>>

\* The body of the if is done, the else follows.
GenElse ==
  /\ At("else")
  /\ todo' = S.body \o <<[k |-> "endif", end |-> S.end]>> \o Tail(todo)
  /\ code' = code \o <<Instr("jmp", S.end, todo, FALSE), Instr("label", S.label, todo', FALSE)>>
  /\ UNCHANGED <<passVars, thrown, contexts, currentFunction, generated, labelCount,
                 exprInReg, output>>

EndIf ==
  /\ At("endif")
  /\ code' = Append(code, Instr("label", S.end, todo, FALSE))
  /\ todo' = Tail(todo)
  /\ UNCHANGED <<passVars, thrown, contexts, currentFunction, generated, labelCount,
                 exprInReg, output>>

\* Mutant of GenWhile: one label for both ends.
GenWhileOneLabel ==
  /\ At("while") /\ CanEvaluate(S.value)
  /\ LET startLabel == Label(labelCount)
         endLabel   == Label(labelCount)
     IN  /\ code' = code \o <<Instr("label", startLabel, todo, FALSE)>>
                         \o Test(S.value, endLabel)
         /\ todo' = S.body \o <<[k |-> "loop", while |-> S, start |-> startLabel,
                                 end |-> endLabel]>> \o Tail(todo)
  /\ labelCount' = labelCount + 1
  /\ contexts' = ContextsAfterTest(S.value)
  /\ exprInReg' = FlagAfter(S.value)
  /\ UNCHANGED <<passVars, thrown, currentFunction, generated, output>>

\* generate_while, up to its body.
GenWhile ==
  /\ At("while") /\ CanEvaluate(S.value)
  /\ LET startLabel == Label(labelCount)
         endLabel   == Label(labelCount + 1)
     IN  /\ code' = code \o <<Instr("label", startLabel, todo, FALSE)>>
                         \o Test(S.value, endLabel)
         /\ todo' = S.body \o <<[k |-> "loop", while |-> S, start |-> startLabel,
                                 end |-> endLabel]>> \o Tail(todo)
  /\ labelCount' = labelCount + 2
  /\ contexts' = ContextsAfterTest(S.value)
  /\ exprInReg' = FlagAfter(S.value)
  /\ UNCHANGED <<passVars, thrown, currentFunction, generated, output>>

\* Mutant of Loop: the end label is not emitted.
LoopOpen ==
  /\ At("loop")
  /\ code' = Append(code, Instr("jmp", S.start, todo, FALSE))
  /\ todo' = Tail(todo)
  /\ UNCHANGED <<passVars, thrown, contexts, currentFunction, generated, labelCount,
                 exprInReg, output>>

Loop ==
  /\ At("loop")
  /\ todo' = Tail(todo)
  /\ code' = code \o <<Instr("jmp", S.start, todo, FALSE), Instr("label", S.end, todo', FALSE)>>
  /\ UNCHANGED <<passVars, thrown, contexts, currentFunction, generated, labelCount,
                 exprInReg, output>>

\* The text of an asm statement goes to the output as it is.
GenAsm ==
  /\ At("asm")
  /\ code' = Append(code, Instr("asm", "text", todo, FALSE))
  /\ todo' = Tail(todo)
  /\ UNCHANGED <<passVars, thrown, contexts, currentFunction, generated, labelCount,
                 exprInReg, output>>

\* Mutant of SkipType: the visit does not go on.
SkipTypeStuck ==
  /\ At("type")
  /\ UNCHANGED vars

\* Types were the first pass's business.
SkipType ==
  /\ At("type")
  /\ todo' = Tail(todo)
  /\ UNCHANGED <<passVars, thrown, contexts, currentFunction, generated, labelCount,
                 exprInReg, code, output>>

\* The whole text is written at the end, or never.
Write ==
  /\ phase = "done" /\ thrown = "none" /\ todo = <<>> /\ output = "empty"
  /\ output' = "written"
  /\ UNCHANGED <<passVars, thrown, todo, contexts, currentFunction, generated, labelCount,
                 exprInReg, code>>

Generate ==
  \/ Undefined \/ ValueThrows
  \/ DeclThrows \/ GenDecl \/ AssignThrows \/ GenAssign
  \/ GenMain \/ EndMain \/ GenFunc \/ FuncThrows \/ EndFunc
  \/ GenCall \/ GenReturn \/ GenExit
  \/ GenIf \/ GenElse \/ EndIf \/ GenWhile \/ Loop
  \/ GenAsm \/ SkipType \/ Write

Next == Passes \/ Generate

GenSpec == Init /\ [][Next]_vars

-----------------------------------------------------------------------------
(* Properties.                                                             *)

LabelsAt(op) == {i \in 1..Len(code) : code[i].op = op}

\* Nothing but the frames of the functions moves the stack: no argument is pushed, and no
\* value is fetched with a pop.
OnlyFramesMove == LabelsAt("push") = {} /\ LabelsAt("pop") = {}

TypeOK ==
  /\ labelCount \in Nat /\ exprInReg \in BOOLEAN
  /\ output \in {"empty", "written"}
  /\ \A i \in 1..Len(contexts) : \A x \in DOMAIN contexts[i] :
       /\ contexts[i][x].type \in FP!Ids
       /\ contexts[i][x].location \in [reg : {"RSP", "RDI"}, disp : Int]
  /\ \A i \in 1..Len(currentFunction) : currentFunction[i] \in DOMAIN functions
  /\ \A i \in 1..Len(code) :
       code[i].op \in {"label", "enter", "eval", "mov", "push", "call", "pop", "store",
                       "return", "exit", "je", "jmp", "asm"}

\* No label is defined twice, however ifs, loops and functions nest and follow each other.
\* (_start is: once for every main, also those inside a body, which the first pass does
\* not count.)
LabelsUnique ==
  \A i, j \in LabelsAt("label") :
    code[i].arg = code[j].arg /\ code[i].arg # <<"start">> => i = j

\* In a program that is written, every jump and every call has a label to go to.
JumpsLand ==
  output = "written" =>
    \A i \in LabelsAt("je") \cup LabelsAt("jmp") \cup LabelsAt("call") :
      \E j \in LabelsAt("label") : code[j].arg = code[i].arg

\* Whatever the labels of the functions are for, nasm takes those that start with a dot for
\* local ones, which belong to the last label before them that has none.
Scope(i) == {j \in LabelsAt("label") : j < i /\ code[j].arg[1] # "func"}

\* The README passes the output to nasm: a call has its function's label in scope.
CallsAssemble ==
  output = "written" =>
    \A i \in LabelsAt("call") :
      \E j \in LabelsAt("label") : code[j].arg = code[i].arg /\ Scope(j) = Scope(i)

\* A body returns at its end only.
ReturnsLast(body) ==
  \A i \in 1..Len(body) : \A s \in Within(body[i]) :
    s.k = "return" => s = body[i] /\ i = Len(body)

\* Functions, main and types are at top level and nothing else is, and bodies return at
\* their end only.
Structured(p) ==
  \A i \in 1..Len(p) :
    /\ p[i].k \in {"type", "func", "main"}
    /\ p[i].k # "type" => /\ ReturnsLast(p[i].body)
                          /\ \A s \in Inside(p[i].body) : s.k \notin {"func", "main"}

\* In a structured program the generator never runs out of Contexts or functions, right or
\* wrong as the program is otherwise.
StaysDefined == Structured(ast) => thrown # "undefined"

\* Every program is either written or refused.
GenerationEnds == <>(output = "written" \/ thrown # "none")
================================================================================
