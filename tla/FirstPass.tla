------------------------------- MODULE FirstPass -------------------------------
(***************************************************************************)
(* The first pass of the code generator (src/generator/first_pass.cpp):    *)
(* types_pass collects the types of a program, function_pass the frame of  *)
(* every function.  Generator::generate runs the second only if the first  *)
(* succeeded and generates code only if both did.                          *)
(*                                                                         *)
(* A statement is a record whose k names the alternative of                *)
(* AST::Statement.  Of an expression only one thing matters here: whether  *)
(* it contains a call.                                                     *)
(***************************************************************************)
EXTENDS X64

CONSTANT Programs  \* the ASTs that occur: sequences of statements

\* What the parser builds: programs, attributes, parameters and bodies are finite lists, and
\* no function has the keyword main, or nothing, for a name.
ASSUME ProgramsAssumption ==
  \A p \in Programs :
    /\ Len(p) \in Nat
    /\ \A i \in 1..Len(p) :
         /\ p[i].k = "type" => Len(p[i].attrs) \in Nat
         /\ p[i].k = "func" => /\ Len(p[i].args) \in Nat /\ Len(p[i].body) \in Nat
                              /\ p[i].name \notin {"", "main"}
         /\ p[i].k = "main" => Len(p[i].body) \in Nat

\* Statements that evaluate an expression the pass visits.  The statements inside
\* an If or a While are not visited.
Evaluating == {"if", "while", "assign"}

VARIABLES
  ast,        \* the program
  phase,      \* which loop is running: types, attributes, functions, params, body
  pos,        \* the top-level statement it is at
  sub,        \* the attribute, parameter or body statement it is at
  types,      \* _types: the type with id i is types[i + 1]
  typeIDs,    \* _typeIDs: name to id
  functions,  \* _functions: name to FuncInfo
  currFunc,   \* _currFunc, which nothing ever resets
  newType,    \* the Type under construction
  newFunc,    \* the FuncInfo under construction
  hasMain,    \* a Main was seen
  thrown      \* the exception that ended the passes, or "none"

vars == <<ast, phase, pos, sub, types, typeIDs, functions, currFunc, newType,
          newFunc, hasMain, thrown>>

-----------------------------------------------------------------------------
(* The records of the pass.                                                *)

\* map[key] = value, for a std::map.
Assign(map, key, value) ==
  [x \in DOMAIN map \cup {key} |-> IF x = key THEN value ELSE map[x]]

\* Type, whose size starts at a quadword and is never reset when attributes are added
\* to it.  end is currOffset; fields, the ids of the attributes' types, is history.
Sized(bytes) == [size |-> bytes, offsets |-> <<>>, end |-> 0, fields |-> <<>>]

\* A FuncInfo whose stack starts with register reg.
FreshInfo(reg) ==
  [size |-> 0, stack |-> [reg |-> reg, disp |-> 0],
   locals |-> <<>>, params |-> <<>>, dirty |-> FALSE]

TypeOf(name) == types[typeIDs[name] + 1]
SizeOf(id)   == types[id + 1].size

\* _functions[name], which creates the entry when there is none.
Info(name) == IF name \in DOMAIN functions THEN functions[name] ELSE FreshInfo("NONE")

\* Mutants of Grow: the frame grows downwards; only its size is counted.
GrowDown(info, bytes) ==
  [info EXCEPT !.stack.disp = @ - bytes, !.size = @ - bytes]

GrowSizeOnly(info, bytes) ==
  [info EXCEPT !.size = @ + bytes]

\* Space for a variable at the end of a frame.
Grow(info, bytes) ==
  [info EXCEPT !.stack.disp = @ + bytes, !.size = @ + bytes]

Current == ast[pos]

Init ==
  /\ ast \in Programs
  /\ phase = "types" /\ pos = 1 /\ sub = 1
  /\ types = <<Sized(0), Sized(QWORD)>>
  /\ typeIDs = [name \in {"none", "int"} |-> IF name = "none" THEN 0 ELSE 1]
  /\ functions = <<>>
  /\ currFunc = ""
  /\ newType = Sized(QWORD)
  /\ newFunc = FreshInfo("NONE")
  /\ hasMain = FALSE
  /\ thrown = "none"

Running(p) == phase = p /\ thrown = "none"

\* FirstPassException makes the pass return false, runtime_error passes through it
\* to Generator::generate; either way nothing more is done.
Throw(what) ==
  /\ thrown' = what
  /\ UNCHANGED <<ast, phase, pos, sub, types, typeIDs, functions, currFunc, newType,
                 newFunc, hasMain>>

-----------------------------------------------------------------------------
(* types_pass and generate_type.                                           *)

AtType == /\ Running("types") /\ pos <= Len(ast)
          /\ Current.k = "type"

\* Mutant of SkipInTypes: the loop does not go on.
SkipInTypesStuck ==
  /\ Running("types") /\ pos <= Len(ast) /\ Current.k # "type"
  /\ hasMain' = (hasMain \/ Current.k = "main")
  /\ UNCHANGED <<ast, phase, pos, sub, types, typeIDs, functions, currFunc, newType,
                 newFunc, thrown>>

SkipInTypes ==
  /\ Running("types") /\ pos <= Len(ast) /\ Current.k # "type"
  /\ hasMain' = (hasMain \/ Current.k = "main")
  /\ pos' = pos + 1
  /\ UNCHANGED <<ast, phase, sub, types, typeIDs, functions, currFunc, newType,
                 newFunc, thrown>>

\* Mutant of GenerateType: a second declaration is not refused.
GenerateTypeAgain ==
  /\ AtType
  /\ newType' = Sized(QWORD)
  /\ phase' = "attributes" /\ sub' = 1
  /\ UNCHANGED <<ast, pos, types, typeIDs, functions, currFunc, newFunc, hasMain,
                 thrown>>

\* generate_type up to its first attribute.
GenerateType ==
  /\ AtType /\ Current.name \notin DOMAIN typeIDs
  /\ newType' = Sized(QWORD)
  /\ phase' = "attributes" /\ sub' = 1
  /\ UNCHANGED <<ast, pos, types, typeIDs, functions, currFunc, newFunc, hasMain,
                 thrown>>

GenerateTypeTwice ==
  /\ AtType /\ Current.name \in DOMAIN typeIDs
  /\ Throw("runtime_error")

\* Mutant of GenerateAttribute: currOffset stays at zero.
GenerateAttributeInPlace ==
  /\ Running("attributes") /\ sub <= Len(Current.attrs)
  /\ LET a == Current.attrs[sub]
     IN  /\ a.type \in DOMAIN typeIDs
         /\ newType' = [size    |-> newType.size + TypeOf(a.type).size,
                        offsets |-> Assign(newType.offsets, a.name, newType.end),
                        end     |-> newType.end,
                        fields  |-> Assign(newType.fields, a.name, typeIDs[a.type])]
  /\ sub' = sub + 1
  /\ UNCHANGED <<ast, phase, pos, types, typeIDs, functions, currFunc, newFunc, hasMain,
                 thrown>>

\* One attribute; a second one of the same name replaces the offset of the first.
GenerateAttribute ==
  /\ Running("attributes") /\ sub <= Len(Current.attrs)
  /\ LET a == Current.attrs[sub]
     IN  /\ a.type \in DOMAIN typeIDs
         /\ newType' = [size    |-> newType.size + TypeOf(a.type).size,
                        offsets |-> Assign(newType.offsets, a.name, newType.end),
                        end     |-> newType.end + TypeOf(a.type).size,
                        fields  |-> Assign(newType.fields, a.name, typeIDs[a.type])]
  /\ sub' = sub + 1
  /\ UNCHANGED <<ast, phase, pos, types, typeIDs, functions, currFunc, newFunc, hasMain,
                 thrown>>

\* An attribute of a type that is declared later, or never, or right now.
GenerateAttributeUnknown ==
  /\ Running("attributes") /\ sub <= Len(Current.attrs)
  /\ Current.attrs[sub].type \notin DOMAIN typeIDs
  /\ Throw("runtime_error")

\* add_type: the next free number is the id.
AddType ==
  /\ Running("attributes") /\ sub > Len(Current.attrs)
  /\ types' = Append(types, newType)
  /\ typeIDs' = Assign(typeIDs, Current.name, Len(types))
  /\ phase' = "types" /\ pos' = pos + 1
  /\ UNCHANGED <<ast, sub, functions, currFunc, newType, newFunc, hasMain, thrown>>

\* Mutant of TypesEnd: a program without an entry point gets through.
TypesEndAlways ==
  /\ Running("types") /\ pos > Len(ast)
  /\ phase' = "functions" /\ pos' = 1
  /\ UNCHANGED <<ast, sub, types, typeIDs, functions, currFunc, newType, newFunc,
                 hasMain, thrown>>

TypesEnd ==
  /\ Running("types") /\ pos > Len(ast) /\ hasMain
  /\ phase' = "functions" /\ pos' = 1
  /\ UNCHANGED <<ast, sub, types, typeIDs, functions, currFunc, newType, newFunc,
                 hasMain, thrown>>

NoEntryPoint ==
  /\ Running("types") /\ pos > Len(ast) /\ ~hasMain
  /\ Throw("FirstPassException")

-----------------------------------------------------------------------------
(* function_pass.                                                          *)

AtStatement(kinds) == /\ Running("functions") /\ pos <= Len(ast)
                      /\ Current.k \in kinds

\* Mutants of PassFunc: _currFunc is not set; a second declaration is not refused.
PassFuncStale ==
  /\ AtStatement({"func"}) /\ Current.name \notin DOMAIN functions
  /\ newFunc' = FreshInfo("RSP")
  /\ phase' = "params" /\ sub' = 1
  /\ UNCHANGED <<ast, pos, types, typeIDs, functions, currFunc, newType, hasMain, thrown>>

PassFuncAgain ==
  /\ AtStatement({"func"})
  /\ currFunc' = Current.name
  /\ newFunc' = FreshInfo("RSP")
  /\ phase' = "params" /\ sub' = 1
  /\ UNCHANGED <<ast, pos, types, typeIDs, functions, newType, hasMain, thrown>>

\* pass_func up to its first parameter.
PassFunc ==
  /\ AtStatement({"func"}) /\ Current.name \notin DOMAIN functions
  /\ currFunc' = Current.name
  /\ newFunc' = FreshInfo("RSP")
  /\ phase' = "params" /\ sub' = 1
  /\ UNCHANGED <<ast, pos, types, typeIDs, functions, newType, hasMain, thrown>>

PassFuncTwice ==
  /\ AtStatement({"func"}) /\ Current.name \in DOMAIN functions
  /\ Throw("FirstPassException")

\* paramIndex is 0 before the loop over the parameters and nothing increments it.
paramIndex == 0

PassParam ==
  /\ Running("params") /\ sub <= Len(Current.args)
  /\ LET a == Current.args[sub]
         reg == parameter_reg(paramIndex)
     IN  /\ a.type \in DOMAIN typeIDs
         /\ newFunc' =
              IF reg # "NONE"
              THEN [newFunc EXCEPT !.params =
                      Assign(@, a.name, [type |-> typeIDs[a.type],
                                         location |-> [reg |-> reg, disp |-> 0]])]
              ELSE Grow([newFunc EXCEPT !.params =
                           Assign(@, a.name, [type |-> typeIDs[a.type],
                                              location |-> newFunc.stack])],
                        TypeOf(a.type).size)
  /\ sub' = sub + 1
  /\ UNCHANGED <<ast, phase, pos, types, typeIDs, functions, currFunc, newType, hasMain,
                 thrown>>

PassParamUnknown ==
  /\ Running("params") /\ sub <= Len(Current.args)
  /\ Current.args[sub].type \notin DOMAIN typeIDs
  /\ Throw("FirstPassException")

\* _functions[func.name] = newFunc; from here on the body is passed.
RegisterFunc ==
  /\ Running("params") /\ sub > Len(Current.args)
  /\ functions' = Assign(functions, Current.name, newFunc)
  /\ phase' = "body" /\ sub' = 1
  /\ UNCHANGED <<ast, pos, types, typeIDs, currFunc, newType, newFunc, hasMain, thrown>>

\* pass_main up to its body.
PassMain ==
  /\ AtStatement({"main"}) /\ "main" \notin DOMAIN functions
  /\ currFunc' = "main"
  /\ functions' = Assign(functions, "main", FreshInfo("RSP"))
  /\ phase' = "body" /\ sub' = 1
  /\ UNCHANGED <<ast, pos, types, typeIDs, newType, newFunc, hasMain, thrown>>

PassMainTwice ==
  /\ AtStatement({"main"}) /\ "main" \in DOMAIN functions
  /\ Throw("FirstPassException")

-----------------------------------------------------------------------------
(* The statements of a body, and those at top level, which are attributed  *)
(* to the function that was passed last.                                   *)

InBody == Running("body") /\ sub <= Len(Current.body)
Item   == IF phase = "body" THEN Current.body[sub] ELSE Current

\* The loop over the body or over the program is at an Item of one of these kinds.
AtItem(kinds) ==
  \/ InBody /\ Current.body[sub].k \in kinds
  \/ AtStatement(kinds)

NextItem ==
  IF phase = "body" THEN sub' = sub + 1 /\ pos' = pos
                    ELSE pos' = pos + 1 /\ sub' = sub

PassDecl ==
  /\ AtItem({"decl"}) /\ Item.type \in DOMAIN typeIDs
  /\ LET info == Info(currFunc)
         variable == [type |-> typeIDs[Item.type], location |-> info.stack]
     IN  functions' = Assign(functions, currFunc,
           Grow([info EXCEPT !.locals = Assign(@, Item.name, variable)],
                TypeOf(Item.type).size))
  /\ NextItem
  /\ UNCHANGED <<ast, phase, types, typeIDs, currFunc, newType, newFunc, hasMain, thrown>>

\* `_functions[_currFunc]` has made an entry before the type is looked up.
PassDeclUnknown ==
  /\ AtItem({"decl"}) /\ Item.type \notin DOMAIN typeIDs
  /\ functions' = Assign(functions, currFunc, Info(currFunc))
  /\ thrown' = "FirstPassException"
  /\ UNCHANGED <<ast, phase, pos, sub, types, typeIDs, currFunc, newType, newFunc,
                 hasMain>>

\* The arguments of a call statement are passed in a function, not in main and not at
\* top level.
CallIsPassed == /\ InBody /\ Current.k = "func"
                /\ Item.k = "call" /\ Item.args > 0

\* pass_expression, for an expression or for the arguments of a call.
PassExpression ==
  /\ AtItem(Evaluating) \/ CallIsPassed
  /\ functions' = Assign(functions, currFunc, [Info(currFunc) EXCEPT !.dirty = TRUE])
  /\ NextItem
  /\ UNCHANGED <<ast, phase, types, typeIDs, currFunc, newType, newFunc, hasMain, thrown>>

\* Everything else: nothing is recorded.
SkipItem ==
  /\ \/ InBody
     \/ AtStatement({"type", "return", "exit", "asm", "call"})
  /\ Item.k \notin {"decl"} \cup Evaluating /\ ~CallIsPassed
  /\ NextItem
  /\ UNCHANGED <<ast, phase, types, typeIDs, functions, currFunc, newType, newFunc,
                 hasMain, thrown>>

EndBody ==
  /\ Running("body") /\ sub > Len(Current.body)
  /\ phase' = "functions" /\ pos' = pos + 1
  /\ UNCHANGED <<ast, sub, types, typeIDs, functions, currFunc, newType, newFunc,
                 hasMain, thrown>>

FunctionsEnd ==
  /\ Running("functions") /\ pos > Len(ast)
  /\ phase' = "done"
  /\ UNCHANGED <<ast, pos, sub, types, typeIDs, functions, currFunc, newType, newFunc,
                 hasMain, thrown>>

Next ==
  \/ SkipInTypes \/ GenerateType \/ GenerateTypeTwice
  \/ GenerateAttribute \/ GenerateAttributeUnknown \/ AddType
  \/ TypesEnd \/ NoEntryPoint
  \/ PassFunc \/ PassFuncTwice \/ PassParam \/ PassParamUnknown \/ RegisterFunc
  \/ PassMain \/ PassMainTwice
  \/ PassDecl \/ PassDeclUnknown \/ PassExpression \/ SkipItem
  \/ EndBody \/ FunctionsEnd

Spec == Init /\ [][Next]_vars

\* The passes are loops of one thread: nothing ever keeps them from going on.
FairSpec == Spec /\ WF_vars(Next)

-----------------------------------------------------------------------------
(* Properties.                                                             *)

Ids == 0..(Len(types) - 1)

\* Two byte ranges that start at p and at q.
Apart(p, pBytes, q, qBytes) == p + pBytes <= q \/ q + qBytes <= p

TypeOK ==
  /\ phase \in {"types", "attributes", "functions", "params", "body", "done"}
  /\ pos \in 1..(Len(ast) + 1)
  /\ \A f \in DOMAIN functions :
       /\ functions[f].size \in Nat /\ functions[f].dirty \in BOOLEAN
       /\ functions[f].stack.reg \in {"RSP", "NONE"}
  /\ \A i \in Ids : SizeOf(i) \in Nat
  /\ thrown \in {"none", "FirstPassException", "runtime_error"}

\* Each type has one name and one id, and is made of types declared before it, so that
\* no type contains itself; every variable has one of these types.
IdsNameTypes ==
  /\ \A id \in Ids : \E name \in DOMAIN typeIDs : typeIDs[name] = id
  /\ \A a, b \in DOMAIN typeIDs : typeIDs[a] \in Ids /\ (typeIDs[a] = typeIDs[b] => a = b)
  /\ \A id \in Ids : \A a \in DOMAIN types[id + 1].fields :
       types[id + 1].fields[a] \in 0..(id - 1)
  /\ \A f \in DOMAIN functions :
       /\ \A x \in DOMAIN functions[f].locals : functions[f].locals[x].type \in Ids
       /\ \A x \in DOMAIN functions[f].params : functions[f].params[x].type \in Ids

\* The attributes of a type lie inside it and do not overlap, also when a name is used
\* for two of them.
LayoutFits ==
  \A id \in Ids :
    LET t == types[id + 1]
    IN  \A a \in DOMAIN t.offsets :
          /\ t.offsets[a] >= 0
          /\ t.offsets[a] + SizeOf(t.fields[a]) <= t.size
          /\ \A b \in DOMAIN t.offsets \ {a} :
               Apart(t.offsets[a], SizeOf(t.fields[a]), t.offsets[b], SizeOf(t.fields[b]))

\* The space of a function's local, as many bytes as its type has.
Fits(info, x) ==
  /\ info.locals[x].location.disp >= 0
  /\ info.locals[x].location.disp + SizeOf(info.locals[x].type) <= info.size

\* The locals of a function lie inside the frame that is counted for it and do not
\* overlap, whatever is declared, twice under one name or at top level after it.
FrameFits ==
  \A f \in DOMAIN functions :
    LET info == functions[f]
    IN  \A x \in DOMAIN info.locals :
          /\ Fits(info, x)
          /\ \A y \in DOMAIN info.locals \ {x} :
               Apart(info.locals[x].location.disp, SizeOf(info.locals[x].type),
                     info.locals[y].location.disp, SizeOf(info.locals[y].type))

\* What is known of a function is only ever added to: no parameter moves, no local
\* disappears, a frame never shrinks and a dirty function never becomes clean, also
\* when statements at top level are attributed to it.
InfoOnlyGrows ==
  [][\A f \in DOMAIN functions :
       /\ f \in DOMAIN functions'
       /\ functions'[f].params = functions[f].params
       /\ DOMAIN functions[f].locals \subseteq DOMAIN functions'[f].locals
       /\ functions'[f].size >= functions[f].size
       /\ functions[f].dirty => functions'[f].dirty]_vars

Of(k) == {i \in 1..Len(ast) : ast[i].k = k}
Members(seq) == {seq[i] : i \in 1..Len(seq)}
DeclaredIn(body) == {s \in Members(body) : s.k = "decl"}

\* The names of types that the statements before number i have declared.
KnownAt(i) == {"none", "int"} \cup {ast[j].name : j \in {j \in Of("type") : j < i}}

\* The programs that ought to get through, said without any pass.
WellFormed ==
  LET known == KnownAt(Len(ast) + 1)
      AllKnown(decls) == \A d \in decls : d.type \in known
  IN  /\ \A i \in Of("type") :
           /\ ast[i].name \notin KnownAt(i)
           /\ \A a \in Members(ast[i].attrs) : a.type \in KnownAt(i)
      /\ \A i, j \in Of("func") : ast[i].name = ast[j].name => i = j
      /\ \A i \in Of("func") : AllKnown(Members(ast[i].args))
      /\ \A i \in Of("func") \cup Of("main") : AllKnown(DeclaredIn(ast[i].body))
      /\ AllKnown(DeclaredIn(ast))
      /\ \E i \in Of("main") : Of("main") = {i}

\* The two passes accept exactly these programs, in whatever order the statements come.
AcceptsExactly ==
  /\ phase = "done" => WellFormed
  /\ thrown # "none" => ~WellFormed

\* In a program without declarations at top level every function ends up with its own
\* parameters and the variables of its body, and with no others.
FramesMatchDeclarations ==
  phase = "done" /\ DeclaredIn(ast) = {} =>
    /\ DOMAIN functions \ {""} =
         {ast[i].name : i \in Of("func")} \cup {"main" : i \in Of("main")}
    /\ \A i \in Of("func") :
         /\ DOMAIN functions[ast[i].name].params = {a.name : a \in Members(ast[i].args)}
         /\ DOMAIN functions[ast[i].name].locals =
              {d.name : d \in DeclaredIn(ast[i].body)}
    /\ \A i \in Of("main") :
         DOMAIN functions["main"].locals = {d.name : d \in DeclaredIn(ast[i].body)}

\* Both passes come to an end, for every program.
Terminates == <>(phase = "done" \/ thrown # "none")

\* A function looks for its arguments where generate_parameters puts them.
ParamsWhereCallsPutThem ==
  phase = "done" =>
    \A i \in Of("func") : \A p \in 1..Len(ast[i].args) :
      parameter_reg(p - 1) # "NONE" =>
        functions[ast[i].name].params[ast[i].args[p].name].location.reg
          = parameter_reg(p - 1)

\* "setting all registers to dirty on a call": a function in whose body something is
\* called is marked dirty, so that its parameters are saved.
CallsMakeDirty ==
  phase = "done" =>
    \A i \in Of("func") :
      (\E s \in Members(ast[i].body) : s.calls) => functions[ast[i].name].dirty
=============================================================================
