--------------------------- MODULE FirstPassAcceptance ---------------------------
(***************************************************************************)
(* For every program, the two passes get through exactly if it is          *)
(* WellFormed (AcceptsExactly), and then what they have recorded of its    *)
(* functions is what it declares (FramesMatchDeclarations).                *)
(*                                                                         *)
(* Each pass runs over the program once.  The invariant says what its      *)
(* records mean for the part it has behind it: the names of types are      *)
(* those declared there, the functions are those passed there, and that    *)
(* part is well-formed.  An exception is thrown where the next statement   *)
(* makes the program one that is not.                                      *)
(*                                                                         *)
(* The last part says what the generator may rely on when both passes are  *)
(* through.                                                                *)
(***************************************************************************)
EXTENDS FirstPassProofs, FiniteSetTheorems

InTypes == phase \in {"types", "attributes"}

\* The loops have all statements before these behind them.
TypesUpTo     == IF InTypes THEN pos ELSE Len(ast) + 1
FunctionsUpTo == IF InTypes THEN 1 ELSE pos

\* The statements that are functions, main among them, and their names.
FunctionsOf == Of("func") \cup Of("main")
NameAt(i)   == IF ast[i].k = "main" THEN "main" ELSE ast[i].name

\* Those that have an entry in _functions.
Registered == {i \in FunctionsOf : i < FunctionsUpTo \/ (phase = "body" /\ i = pos)}

\* The statements of body number i that are behind the loop.
BodySeen(i) == IF phase = "body" /\ i = pos THEN sub - 1 ELSE Len(ast[i].body)

AllTypes == KnownAt(Len(ast) + 1)

TypesSeen ==
  /\ DOMAIN typeIDs = KnownAt(TypesUpTo)
  /\ \A i \in Of("type") : i < TypesUpTo =>
       /\ ast[i].name \notin KnownAt(i)
       /\ \A j \in 1..Len(ast[i].attrs) : ast[i].attrs[j].type \in KnownAt(i)
  /\ phase = "attributes" =>
       /\ Current.name \notin KnownAt(pos)
       /\ \A j \in 1..(sub - 1) : Current.attrs[j].type \in KnownAt(pos)
  /\ hasMain <=> \E i \in Of("main") : i < TypesUpTo
  /\ ~InTypes => hasMain

NamesSeen ==
  /\ DOMAIN functions \ {""} = {NameAt(i) : i \in Registered}
  /\ \A i, j \in Registered : NameAt(i) = NameAt(j) => i = j
  /\ IF phase \in {"params", "body"} THEN currFunc = NameAt(pos)
     ELSE currFunc = "" \/ \E i \in Registered : currFunc = NameAt(i)

VariablesSeen ==
  /\ \A i \in Registered :
       /\ ast[i].k = "func" => \A j \in 1..Len(ast[i].args) : ast[i].args[j].type \in AllTypes
       /\ \A j \in 1..BodySeen(i) : ast[i].body[j].k = "decl" => ast[i].body[j].type \in AllTypes
  /\ phase = "params" => \A j \in 1..(sub - 1) : Current.args[j].type \in AllTypes
  /\ \A i \in Of("decl") : i < FunctionsUpTo => ast[i].type \in AllTypes

AcceptInv ==
  /\ thrown = "none" => TypesSeen /\ NamesSeen /\ VariablesSeen
  /\ thrown # "none" => ~WellFormed
  /\ phase = "done" => thrown = "none"

\* The variables that the first n statements of body number i declare, and the first n
\* parameters of function number i.
LocalsOf(i, n) == {ast[i].body[j].name : j \in {j \in 1..n : ast[i].body[j].k = "decl"}}
ParamsOf(i, n) == {ast[i].args[j].name : j \in 1..n}

\* The frames as far as they are built, in a program that declares nothing at top level.
FramesSeen ==
  /\ \A i \in Registered :
       /\ DOMAIN functions[NameAt(i)].locals = LocalsOf(i, BodySeen(i))
       /\ ast[i].k = "func" => DOMAIN functions[NameAt(i)].params = ParamsOf(i, Len(ast[i].args))
  /\ phase = "params" => /\ sub <= Len(Current.args) + 1
                         /\ DOMAIN newFunc.locals = {}
                         /\ DOMAIN newFunc.params = ParamsOf(pos, sub - 1)
  /\ phase = "body" => sub <= Len(Current.body) + 1

FramesInv == thrown = "none" /\ DeclaredIn(ast) = {} => FramesSeen

-----------------------------------------------------------------------------
(* The program does not change, and after an exception nothing does.       *)

LEMMA ProgramKept ==
  ASSUME [Next]_vars
  PROVE  ast' = ast
BY DEF Next, vars, Throw, SkipInTypes, GenerateType, GenerateTypeTwice, GenerateAttribute,
       GenerateAttributeUnknown, AddType, TypesEnd, NoEntryPoint, PassFunc, PassFuncTwice,
       PassParam, PassParamUnknown, RegisterFunc, PassMain, PassMainTwice, PassDecl,
       PassDeclUnknown, PassExpression, SkipItem, EndBody, FunctionsEnd

LEMMA NothingAfterThrow ==
  ASSUME Next
  PROVE  thrown = "none"
BY DEF Next, Running, AtType, AtStatement, AtItem, InBody, CallIsPassed, SkipInTypes,
       GenerateType, GenerateTypeTwice, GenerateAttribute, GenerateAttributeUnknown, AddType,
       TypesEnd, NoEntryPoint, PassFunc, PassFuncTwice, PassParam, PassParamUnknown,
       RegisterFunc, PassMain, PassMainTwice, PassDecl, PassDeclUnknown, PassExpression,
       SkipItem, EndBody, FunctionsEnd

\* What depends on the program alone stays with it.
LEMMA ReadingsKept ==
  ASSUME ast' = ast
  PROVE  /\ \A k : Of(k)' = Of(k)
         /\ \A i : KnownAt(i)' = KnownAt(i) /\ NameAt(i)' = NameAt(i)
         /\ FunctionsOf' = FunctionsOf /\ AllTypes' = AllTypes
         /\ WellFormed' = WellFormed
BY DEF Of, KnownAt, NameAt, FunctionsOf, AllTypes, WellFormed, DeclaredIn, Members

\* Where the loops are, and the lengths of what they run over.
LEMMA PlaceFacts ==
  ASSUME PlaceInv
  PROVE  /\ Len(ast) \in Nat /\ pos \in Nat /\ sub \in Nat \ {0}
         /\ pos <= Len(ast) => pos \in 1..Len(ast)
         /\ pos > Len(ast) => pos = Len(ast) + 1
         /\ phase = "attributes" => Len(Current.attrs) \in Nat
         /\ phase = "params" => Len(Current.args) \in Nat /\ Current.name \notin {"", "main"}
         /\ phase = "body" => Len(Current.body) \in Nat
<1>1. ast \in Programs /\ pos \in Nat /\ 1 <= pos
  BY DEF PlaceInv
<1>2. Len(ast) \in Nat
  BY <1>1, ProgramsAssumption
<1>3. pos <= Len(ast) => pos \in 1..Len(ast)
  BY <1>1, <1>2
<1>4. phase \in {"attributes", "params", "body"} => pos <= Len(ast)
  BY DEF PlaceInv
<1>5. phase = "attributes" => Len(Current.attrs) \in Nat
  BY <1>1, <1>3, <1>4, ProgramsAssumption DEF PlaceInv, Current
<1>6. phase = "params" => Len(Current.args) \in Nat /\ Current.name \notin {"", "main"}
  BY <1>1, <1>3, <1>4, ProgramsAssumption DEF PlaceInv, Current
<1>7. phase = "body" => Len(Current.body) \in Nat
  BY <1>1, <1>3, <1>4, ProgramsAssumption DEF PlaceInv, Current
<1>8. pos > Len(ast) => pos = Len(ast) + 1
  <2>1. pos <= Len(ast) + 1
    BY DEF PlaceInv
  <2> QED BY <1>1, <1>2, <2>1
<1>9. sub \in Nat \ {0}
  BY DEF PlaceInv
<1> QED BY <1>1, <1>2, <1>3, <1>5, <1>6, <1>7, <1>8, <1>9

\* A type is known from the statement after its own on.
LEMMA KnownNext ==
  ASSUME PlaceInv, pos <= Len(ast)
  PROVE  KnownAt(pos + 1) = KnownAt(pos) \cup (IF Current.k = "type" THEN {Current.name} ELSE {})
<1>1. Len(ast) \in Nat /\ pos \in 1..Len(ast)
  BY PlaceFacts
<1>2. \A j \in 1..Len(ast) : j < pos + 1 <=> j < pos \/ j = pos
  BY <1>1
<1> QED BY <1>1, <1>2 DEF KnownAt, Of, Current

LEMMA KnownGrows ==
  ASSUME NEW i \in Int, NEW j \in Int, i <= j, Len(ast) \in Nat
  PROVE  KnownAt(i) \subseteq KnownAt(j)
BY DEF KnownAt, Of

-----------------------------------------------------------------------------
(* The types.                                                              *)

LEMMA TypesSeenSteps ==
  ASSUME PlaceInv, TypesSeen, Next, thrown' = "none"
  PROVE  TypesSeen'
<1>a. /\ ast' = ast /\ Len(ast) \in Nat /\ Len(ast') = Len(ast)
      /\ \A k : Of(k)' = Of(k)
      /\ \A i : KnownAt(i)' = KnownAt(i)
  BY ProgramKept, ReadingsKept, PlaceFacts
<1>b. \A i \in Of("type") \cup Of("main") : i \in 1..Len(ast)
  BY DEF Of
<1>1. CASE UNCHANGED <<typeIDs, hasMain>> /\ ~InTypes /\ ~InTypes'
  BY <1>1, <1>a DEF TypesSeen, TypesUpTo, InTypes
<1>2. CASE SkipInTypes
  <2>1. /\ Running("types") /\ pos <= Len(ast) /\ Current.k # "type" /\ pos' = pos + 1
        /\ hasMain' = (hasMain \/ Current.k = "main") /\ UNCHANGED <<phase, typeIDs>>
    BY <1>2 DEF SkipInTypes
  <2>2. TypesUpTo = pos /\ TypesUpTo' = pos + 1 /\ pos \in Nat /\ phase = "types"
    BY <2>1 DEF TypesUpTo, InTypes, Running, PlaceInv
  <2>3. KnownAt(pos + 1) = KnownAt(pos)
    BY <2>1, KnownNext
  <2>4. \A i \in Of("type") : i < pos + 1 => i < pos
    BY <1>b, <2>1, <2>2 DEF Of, Current
  <2>5. (\E i \in Of("main") : i < pos + 1) <=> (\E i \in Of("main") : i < pos) \/ Current.k = "main"
    <3>1. \A i \in Of("main") : i < pos + 1 <=> i < pos \/ i = pos
      BY <1>b, <2>2
    <3>2. pos \in Of("main") <=> Current.k = "main"
      BY <1>a, <2>1, <2>2 DEF Of, Current, PlaceInv
    <3> QED BY <3>1, <3>2
  <2> QED BY <1>a, <2>1, <2>2, <2>3, <2>4, <2>5 DEF TypesSeen, InTypes
<1>3. CASE GenerateType
  <2>1. /\ phase = "types" /\ phase' = "attributes" /\ sub' = 1
        /\ Current.name \notin DOMAIN typeIDs /\ UNCHANGED <<pos, typeIDs, hasMain>>
    BY <1>3 DEF GenerateType, AtType, Running
  <2>2. Current' = Current /\ TypesUpTo = pos /\ TypesUpTo' = pos
    BY <1>a, <2>1 DEF Current, TypesUpTo, InTypes
  <2> QED BY <1>a, <2>1, <2>2 DEF TypesSeen, InTypes
<1>4. CASE GenerateAttribute
  <2>1. /\ phase = "attributes" /\ sub' = sub + 1 /\ sub <= Len(Current.attrs)
        /\ Current.attrs[sub].type \in DOMAIN typeIDs
        /\ UNCHANGED <<phase, pos, typeIDs, hasMain>>
    BY <1>4 DEF GenerateAttribute, Running
  <2>2. Current' = Current /\ TypesUpTo = pos /\ TypesUpTo' = pos
    BY <1>a, <2>1 DEF Current, TypesUpTo, InTypes
  <2>3. \A j \in 1..(sub' - 1) : j \in 1..(sub - 1) \/ j = sub
    BY <2>1 DEF PlaceInv
  <2> QED BY <1>a, <2>1, <2>2, <2>3 DEF TypesSeen, InTypes
<1>5. CASE AddType
  <2>1. /\ phase = "attributes" /\ sub > Len(Current.attrs) /\ phase' = "types"
        /\ pos' = pos + 1 /\ DOMAIN typeIDs' = DOMAIN typeIDs \cup {Current.name}
        /\ hasMain' = hasMain
    BY <1>5 DEF AddType, Running, Assign
  <2>2. /\ TypesUpTo = pos /\ TypesUpTo' = pos + 1 /\ pos \in 1..Len(ast)
        /\ Current.k = "type" /\ sub \in Nat /\ Len(Current.attrs) \in Nat
    BY <1>a, <2>1, PlaceFacts DEF TypesUpTo, InTypes, PlaceInv
  <2>3. KnownAt(pos + 1) = KnownAt(pos) \cup {Current.name}
    BY <2>2, KnownNext
  <2>4. \A i \in Of("type") \cup Of("main") : i < pos + 1 => i < pos \/ i = pos
    BY <1>b, <2>2
  <2>5. pos \notin Of("main")
    BY <2>2 DEF Of, Current
  <2>6. \A j \in 1..Len(Current.attrs) : j \in 1..(sub - 1)
    BY <2>1, <2>2
  <2>7. \A i \in Of("type") : i < pos + 1 =>
          /\ ast[i].name \notin KnownAt(i)
          /\ \A j \in 1..Len(ast[i].attrs) : ast[i].attrs[j].type \in KnownAt(i)
    BY <2>1, <2>2, <2>4, <2>6 DEF TypesSeen, Current
  <2>8. (\E i \in Of("main") : i < pos + 1) <=> (\E i \in Of("main") : i < pos)
    BY <1>b, <2>2, <2>4, <2>5
  <2> QED BY <1>a, <2>1, <2>2, <2>3, <2>7, <2>8 DEF TypesSeen, InTypes
<1>6. CASE TypesEnd
  <2>1. /\ phase = "types" /\ pos > Len(ast) /\ hasMain /\ phase' = "functions"
        /\ UNCHANGED <<typeIDs, hasMain>>
    BY <1>6 DEF TypesEnd, Running
  <2>2. TypesUpTo = pos /\ pos = Len(ast) + 1 /\ TypesUpTo' = Len(ast) + 1
    BY <1>a, <2>1 DEF TypesUpTo, InTypes, PlaceInv
  <2> QED BY <1>a, <2>1, <2>2 DEF TypesSeen, InTypes
<1> QED
  BY <1>1, <1>2, <1>3, <1>4, <1>5, <1>6
     DEF Next, Throw, Running, InTypes, AtType, AtStatement, AtItem, InBody, CallIsPassed,
         GenerateTypeTwice, GenerateAttributeUnknown, NoEntryPoint, PassFunc, PassFuncTwice,
         PassParam, PassParamUnknown, RegisterFunc, PassMain, PassMainTwice, PassDecl,
         PassDeclUnknown, PassExpression, SkipItem, EndBody, FunctionsEnd

-----------------------------------------------------------------------------
(* The functions.                                                          *)

\* A step of the loop over a body, or over the program, past a statement that is not a
\* function: function_pass writes at most the entry of _currFunc.
ItemPassed ==
  /\ NextItem
  /\ InBody \/ (phase = "functions" /\ pos <= Len(ast) /\ Current.k \notin {"func", "main"})
  /\ Item.k = "decl" => Item.type \in DOMAIN typeIDs
  /\ \/ functions' = functions
     \/ \E info : functions' = Assign(functions, currFunc, info)
  /\ UNCHANGED <<ast, phase, types, typeIDs, currFunc, newType, newFunc, hasMain, thrown>>

LEMMA ItemSteps ==
  PassDecl \/ PassExpression \/ SkipItem => ItemPassed
<1>1. PassDecl => ItemPassed
  BY DEF PassDecl, ItemPassed, AtItem, AtStatement, Running
<1>2. ASSUME PassExpression PROVE ItemPassed
  <2>1. InBody \/ AtStatement(Evaluating)
    BY <1>2 DEF PassExpression, AtItem, CallIsPassed
  <2>2. Item.k # "decl"
    BY <1>2 DEF PassExpression, AtItem, CallIsPassed, InBody, AtStatement, Running, Item, Evaluating
  <2> QED BY <1>2, <2>1, <2>2 DEF PassExpression, ItemPassed, AtStatement, Running, Evaluating
<1>3. SkipItem => ItemPassed
  BY DEF SkipItem, ItemPassed, AtStatement, Running
<1> QED BY <1>1, <1>2, <1>3

LEMMA RegisteredKept ==
  ASSUME PlaceInv, ast' = ast,
         \/ SkipInTypes \/ GenerateType \/ GenerateAttribute \/ AddType \/ TypesEnd
         \/ PassFunc \/ PassParam \/ ItemPassed \/ EndBody \/ FunctionsEnd
  PROVE  Registered' = Registered
<1>a. /\ FunctionsOf' = FunctionsOf /\ Len(ast) \in Nat /\ pos \in Nat
      /\ \A i \in FunctionsOf : i \in 1..Len(ast) /\ ast[i].k \in {"func", "main"}
  BY ReadingsKept, PlaceFacts DEF FunctionsOf, Of
<1>1. CASE SkipInTypes \/ GenerateType \/ GenerateAttribute \/ AddType \/ TypesEnd
  <2>1. FunctionsUpTo = 1 /\ FunctionsUpTo' = 1 /\ phase # "body" /\ phase' # "body"
    BY <1>1 DEF SkipInTypes, GenerateType, GenerateAttribute, AddType, TypesEnd, AtType,
                Running, FunctionsUpTo, InTypes
  <2> QED BY <1>a, <2>1 DEF Registered
<1>2. CASE PassFunc \/ PassParam \/ FunctionsEnd
  <2>1. FunctionsUpTo = pos /\ FunctionsUpTo' = pos /\ phase # "body" /\ phase' # "body"
    BY <1>2 DEF PassFunc, PassParam, FunctionsEnd, AtStatement, Running, FunctionsUpTo, InTypes
  <2> QED BY <1>a, <2>1 DEF Registered
<1>3. CASE ItemPassed /\ phase = "body"
  <2>1. FunctionsUpTo = pos /\ FunctionsUpTo' = pos /\ phase' = phase /\ pos' = pos
    BY <1>3 DEF ItemPassed, NextItem, FunctionsUpTo, InTypes
  <2> QED BY <1>a, <2>1 DEF Registered
<1>4. CASE ItemPassed /\ phase # "body"
  <2>1. /\ FunctionsUpTo = pos /\ FunctionsUpTo' = pos + 1 /\ phase' # "body"
        /\ Current.k \notin {"func", "main"}
    BY <1>4 DEF ItemPassed, NextItem, FunctionsUpTo, InTypes, InBody, Running
  <2>2. \A i \in FunctionsOf : i # pos
    BY <1>a, <2>1 DEF Current
  <2>3. \A i \in FunctionsOf : i < pos + 1 <=> i < pos
    BY <1>a, <2>2
  <2> QED BY <1>a, <1>4, <2>1, <2>3 DEF Registered
<1>5. CASE EndBody
  <2>1. FunctionsUpTo = pos /\ FunctionsUpTo' = pos + 1 /\ phase = "body" /\ phase' # "body"
    BY <1>5 DEF EndBody, FunctionsUpTo, InTypes, Running
  <2>2. \A i \in FunctionsOf : i < pos + 1 <=> i < pos \/ i = pos
    BY <1>a
  <2> QED BY <1>a, <2>1, <2>2 DEF Registered
<1> QED BY <1>1, <1>2, <1>3, <1>4, <1>5

LEMMA RegisteredMore ==
  ASSUME PlaceInv, ast' = ast, RegisterFunc \/ PassMain
  PROVE  /\ Registered' = Registered \cup {pos}
         /\ pos \in FunctionsOf /\ pos \notin Registered
         /\ phase' = "body" /\ pos' = pos /\ sub' = 1
         /\ \A i \in Registered : i < pos
<1>a. /\ FunctionsOf' = FunctionsOf /\ Len(ast) \in Nat /\ pos \in Nat
      /\ \A i \in FunctionsOf : i \in 1..Len(ast)
  BY ReadingsKept, PlaceFacts DEF FunctionsOf, Of
<1>1. /\ FunctionsUpTo = pos /\ FunctionsUpTo' = pos /\ phase # "body" /\ phase' = "body"
      /\ pos' = pos /\ sub' = 1 /\ pos <= Len(ast) /\ Current.k \in {"func", "main"}
  BY DEF PlaceInv, RegisterFunc, PassMain, AtStatement, Running, FunctionsUpTo, InTypes
<1>2. pos \in FunctionsOf
  BY <1>1, PlaceFacts DEF FunctionsOf, Of, Current
<1> QED BY <1>a, <1>1, <1>2 DEF Registered

\* The name of a function is not main, nor empty.
LEMMA NamesOfFunctions ==
  ASSUME PlaceInv, NEW i \in FunctionsOf
  PROVE  NameAt(i) # "" /\ (NameAt(i) = "main" <=> i \in Of("main"))
<1>1. ast \in Programs /\ i \in 1..Len(ast) /\ ast[i].k \in {"func", "main"}
  BY DEF PlaceInv, FunctionsOf, Of
<1> QED BY <1>1, ProgramsAssumption DEF NameAt, Of

LEMMA NamesSeenSteps ==
  ASSUME PlaceInv, NotYetRegistered, NamesSeen, Next, thrown' = "none"
  PROVE  NamesSeen'
<1>a. /\ ast' = ast /\ (\A i : NameAt(i)' = NameAt(i)) /\ "" \notin {NameAt(i) : i \in Registered}
      /\ Registered \subseteq FunctionsOf
  BY ProgramKept, ReadingsKept, NamesOfFunctions DEF Registered
<1>b. NamesSeen' <=>
        /\ DOMAIN functions' \ {""} = {NameAt(i) : i \in Registered'}
        /\ \A i, j \in Registered' : NameAt(i) = NameAt(j) => i = j
        /\ IF phase' \in {"params", "body"} THEN currFunc' = NameAt(pos')
           ELSE currFunc' = "" \/ \E i \in Registered' : currFunc' = NameAt(i)
  <2>1. NameAt(pos)' = NameAt(pos')
    BY <1>a DEF NameAt
  <2>2. {NameAt(i) : i \in Registered}' = {NameAt(i) : i \in Registered'}
    <3>1. {NameAt(i) : i \in Registered}' = {NameAt(i)' : i \in Registered'}
      OBVIOUS
    <3> QED BY <1>a, <3>1
  <2>3. (\A i, j \in Registered : NameAt(i) = NameAt(j) => i = j)'
          <=> \A i, j \in Registered' : NameAt(i) = NameAt(j) => i = j
    BY <1>a
  <2>4. (\E i \in Registered : currFunc = NameAt(i))'
          <=> \E i \in Registered' : currFunc' = NameAt(i)
    BY <1>a
  <2> QED BY <2>1, <2>2, <2>3, <2>4 DEF NamesSeen
<1>1. ASSUME Registered' = Registered, UNCHANGED <<functions, currFunc>>,
             phase \notin {"params", "body"}, phase' \notin {"params", "body"}
      PROVE  NamesSeen'
  BY <1>1, <1>a DEF NamesSeen
<1>2. CASE SkipInTypes \/ GenerateType \/ GenerateAttribute \/ AddType \/ TypesEnd \/ FunctionsEnd
  BY <1>1, <1>2, <1>a, RegisteredKept
     DEF SkipInTypes, GenerateType, GenerateAttribute, AddType, TypesEnd, FunctionsEnd, AtType,
         Running
<1>3. CASE PassFunc
  <2>1. /\ Current.k = "func" /\ currFunc' = Current.name /\ phase' = "params"
        /\ UNCHANGED <<pos, functions>>
    BY <1>3 DEF PassFunc, AtStatement, Running
  <2>2. NameAt(pos) = Current.name
    BY <2>1 DEF NameAt, Current
  <2> QED BY <1>3, <1>a, <2>1, <2>2, RegisteredKept DEF NamesSeen
<1>4. CASE PassParam
  BY <1>4, <1>a, RegisteredKept DEF NamesSeen, PassParam, Running
<1>5. CASE RegisterFunc \/ PassMain
  <2>1. /\ Registered' = Registered \cup {pos} /\ pos \in FunctionsOf
        /\ phase' = "body" /\ pos' = pos
    BY <1>5, <1>a, RegisteredMore
  <2>2. /\ currFunc' = NameAt(pos) /\ NameAt(pos) \notin DOMAIN functions
        /\ DOMAIN functions' = DOMAIN functions \cup {NameAt(pos)}
    <3>1. CASE RegisterFunc
      <4>1. /\ phase = "params" /\ Current.k = "func" /\ Current.name \notin DOMAIN functions
            /\ DOMAIN functions' = DOMAIN functions \cup {Current.name} /\ currFunc' = currFunc
        BY <3>1 DEF RegisterFunc, Running, PlaceInv, NotYetRegistered, Assign
      <4>2. NameAt(pos) = Current.name
        BY <4>1 DEF NameAt, Current
      <4> QED BY <4>1, <4>2 DEF NamesSeen
    <3>2. CASE PassMain
      <4>1. /\ Current.k = "main" /\ "main" \notin DOMAIN functions
            /\ DOMAIN functions' = DOMAIN functions \cup {"main"} /\ currFunc' = "main"
        BY <3>2 DEF PassMain, AtStatement, Assign
      <4>2. NameAt(pos) = "main"
        BY <4>1 DEF NameAt, Current
      <4> QED BY <4>1, <4>2
    <3> QED BY <1>5, <3>1, <3>2
  <2>3. NameAt(pos) # ""
    BY <2>1, NamesOfFunctions
  <2>4. DOMAIN functions' \ {""} = {NameAt(i) : i \in Registered'}
    <3>1. {NameAt(i) : i \in Registered'} = {NameAt(i) : i \in Registered} \cup {NameAt(pos)}
      BY <2>1
    <3>2. DOMAIN functions \ {""} = {NameAt(i) : i \in Registered}
      BY DEF NamesSeen
    <3> QED BY <2>2, <2>3, <3>1, <3>2
  <2>5. \A i, j \in Registered' : NameAt(i) = NameAt(j) => i = j
    <3>1. \A i \in Registered : NameAt(i) # NameAt(pos)
      <4>1. {NameAt(i) : i \in Registered} \subseteq DOMAIN functions
        BY DEF NamesSeen
      <4>2. \A i \in Registered : NameAt(i) \in {NameAt(r) : r \in Registered}
        OBVIOUS
      <4> QED BY <2>2, <4>1, <4>2
    <3> QED BY <2>1, <3>1 DEF NamesSeen
  <2>6. currFunc' = NameAt(pos') /\ phase' \in {"params", "body"}
    BY <2>1, <2>2
  <2> QED BY <1>b, <2>4, <2>5, <2>6
<1>6. CASE ItemPassed
  <2>1. Registered' = Registered /\ phase' = phase /\ currFunc' = currFunc
    BY <1>6, <1>a, RegisteredKept DEF ItemPassed
  <2>2. phase = "body" => pos \in Registered
    BY PlaceFacts DEF PlaceInv, Registered, FunctionsOf, Of, Current
  <2>3. phase = "body" \/ phase = "functions"
    BY <1>6 DEF ItemPassed, InBody, Running
  <2>4. currFunc = "" \/ currFunc \in {NameAt(i) : i \in Registered}
    BY <2>2, <2>3 DEF NamesSeen
  <2>5. DOMAIN functions' = DOMAIN functions \/ DOMAIN functions' = DOMAIN functions \cup {currFunc}
    BY <1>6 DEF ItemPassed, Assign
  <2>6. DOMAIN functions' \ {""} = {NameAt(i) : i \in Registered}
    BY <2>4, <2>5 DEF NamesSeen
  <2>7. phase = "body" => pos' = pos
    BY <1>6 DEF ItemPassed, NextItem
  <2> QED BY <1>a, <2>1, <2>3, <2>6, <2>7 DEF NamesSeen
<1>7. CASE EndBody
  <2>1. phase = "body" /\ phase' = "functions" /\ UNCHANGED <<functions, currFunc>>
    BY <1>7 DEF EndBody, Running
  <2>2. pos \in Registered
    BY <2>1, PlaceFacts DEF PlaceInv, Registered, FunctionsOf, Of, Current
  <2> QED BY <1>7, <1>a, <2>1, <2>2, RegisteredKept DEF NamesSeen
<1> QED
  BY <1>2, <1>3, <1>4, <1>5, <1>6, <1>7, ItemSteps
     DEF Next, Throw, GenerateTypeTwice, GenerateAttributeUnknown, NoEntryPoint,
         PassFuncTwice, PassParamUnknown, PassMainTwice, PassDeclUnknown

-----------------------------------------------------------------------------
(* The variables.                                                          *)

\* Parameter j of function i, and statement j of its body, have known types.
ArgKnown(i, j)  == ast[i].args[j].type \in AllTypes
ItemKnown(i, j) == ast[i].body[j].k = "decl" => ast[i].body[j].type \in AllTypes

LEMMA VariablesSeenSteps ==
  ASSUME PlaceInv, TypesSeen, VariablesSeen, Next, thrown' = "none"
  PROVE  VariablesSeen'
<1>a. /\ ast' = ast /\ AllTypes' = AllTypes /\ Of("decl")' = Of("decl")
      /\ \A i, j : ArgKnown(i, j)' = ArgKnown(i, j) /\ ItemKnown(i, j)' = ItemKnown(i, j)
      /\ \A i \in Of("decl") : i \in 1..Len(ast) /\ ast[i].k = "decl"
  BY ProgramKept, ReadingsKept DEF ArgKnown, ItemKnown, Of
<1>b. Len(ast) \in Nat /\ pos \in Nat /\ sub \in Nat \ {0}
  BY PlaceFacts
<1>c. VariablesSeen <=>
        /\ \A i \in Registered :
             /\ ast[i].k = "func" => \A j \in 1..Len(ast[i].args) : ArgKnown(i, j)
             /\ \A j \in 1..BodySeen(i) : ItemKnown(i, j)
        /\ phase = "params" => \A j \in 1..(sub - 1) : ArgKnown(pos, j)
        /\ \A i \in Of("decl") : i < FunctionsUpTo => ast[i].type \in AllTypes
  BY DEF VariablesSeen, ArgKnown, ItemKnown, Current
<1>d. VariablesSeen' <=>
        /\ \A i \in Registered' :
             /\ ast[i].k = "func" => \A j \in 1..Len(ast[i].args) : ArgKnown(i, j)
             /\ \A j \in 1..BodySeen(i)' : ItemKnown(i, j)
        /\ phase' = "params" => \A j \in 1..(sub' - 1) : ArgKnown(pos', j)
        /\ \A i \in Of("decl") : i < FunctionsUpTo' => ast[i].type \in AllTypes
  <2>1. VariablesSeen' <=>
        /\ \A i \in Registered' :
             /\ ast'[i].k = "func" => \A j \in 1..Len(ast'[i].args) : ArgKnown(i, j)'
             /\ \A j \in 1..BodySeen(i)' : ItemKnown(i, j)'
        /\ phase' = "params" => \A j \in 1..(sub' - 1) : ArgKnown(pos', j)
        /\ \A i \in Of("decl")' : i < FunctionsUpTo' => ast'[i].type \in AllTypes'
    BY <1>a DEF VariablesSeen, ArgKnown, ItemKnown, Current
  <2> QED BY <1>a, <2>1
<1>e. ~InTypes => DOMAIN typeIDs = AllTypes
  BY DEF TypesSeen, TypesUpTo, AllTypes
<1> HIDE DEF VariablesSeen
<1>1. ASSUME Registered' = Registered, \A i \in Registered : BodySeen(i)' = BodySeen(i),
             FunctionsUpTo' = FunctionsUpTo, phase' # "params"
      PROVE  VariablesSeen'
  BY <1>1, <1>c, <1>d
<1>2. CASE SkipInTypes \/ GenerateType \/ GenerateAttribute \/ AddType \/ TypesEnd
  <2>1. /\ FunctionsUpTo = 1 /\ FunctionsUpTo' = 1 /\ phase # "body"
        /\ phase' \notin {"body", "params"}
    BY <1>2 DEF SkipInTypes, GenerateType, GenerateAttribute, AddType, TypesEnd, AtType,
                Running, FunctionsUpTo, InTypes
  <2>2. \A i : BodySeen(i)' = BodySeen(i)
    BY <1>a, <2>1 DEF BodySeen
  <2> QED BY <1>1, <1>2, <1>a, <2>1, <2>2, RegisteredKept
<1>3. CASE PassFunc \/ PassParam \/ FunctionsEnd
  <2>1. /\ FunctionsUpTo = pos /\ FunctionsUpTo' = pos /\ phase # "body" /\ phase' # "body"
        /\ pos' = pos
    BY <1>3 DEF PassFunc, PassParam, FunctionsEnd, AtStatement, Running, FunctionsUpTo, InTypes
  <2>2. \A i : BodySeen(i)' = BodySeen(i)
    BY <1>a, <2>1 DEF BodySeen
  <2>3. phase' = "params" => \A j \in 1..(sub' - 1) : ArgKnown(pos', j)
    <3>1. CASE PassFunc
      <4>1. sub' = 1
        BY <3>1 DEF PassFunc
      <4> QED BY <4>1
    <3>2. CASE PassParam
      <4>1. /\ phase = "params" /\ sub' = sub + 1
            /\ Current.args[sub].type \in DOMAIN typeIDs
        BY <3>2 DEF PassParam, Running
      <4>2. ArgKnown(pos, sub)
        BY <1>e, <4>1 DEF ArgKnown, Current, InTypes
      <4>3. \A j \in 1..(sub' - 1) : j \in 1..(sub - 1) \/ j = sub
        BY <1>b, <4>1
      <4> QED BY <1>c, <2>1, <4>1, <4>2, <4>3
    <3>3. CASE FunctionsEnd
      BY <3>3 DEF FunctionsEnd
    <3> QED BY <1>3, <3>1, <3>2, <3>3
  <2> QED BY <1>3, <1>a, <1>c, <1>d, <2>1, <2>2, <2>3, RegisteredKept
<1>4. CASE RegisterFunc \/ PassMain
  <2>1. /\ Registered' = Registered \cup {pos} /\ phase' = "body" /\ pos' = pos /\ sub' = 1
        /\ \A i \in Registered : i < pos
    BY <1>4, <1>a, RegisteredMore
  <2>2. phase # "body" /\ FunctionsUpTo = pos /\ FunctionsUpTo' = pos
    BY <1>4, <2>1 DEF RegisterFunc, PassMain, AtStatement, Running, FunctionsUpTo, InTypes
  <2>3. (\A i \in Registered : BodySeen(i)' = BodySeen(i)) /\ BodySeen(pos)' = 0
    BY <1>a, <1>b, <2>1, <2>2 DEF BodySeen
  <2>4. ast[pos].k = "func" => \A j \in 1..Len(ast[pos].args) : ArgKnown(pos, j)
    <3>1. CASE RegisterFunc
      <4>1. phase = "params" /\ sub > Len(Current.args) /\ Len(Current.args) \in Nat
        BY <3>1, PlaceFacts DEF RegisterFunc, Running
      <4>2. \A j \in 1..Len(ast[pos].args) : j \in 1..(sub - 1)
        BY <1>b, <4>1 DEF Current
      <4> QED BY <1>c, <4>1, <4>2
    <3>2. CASE PassMain
      BY <3>2 DEF PassMain, AtStatement, Current
    <3> QED BY <1>4, <3>1, <3>2
  <2> QED BY <1>c, <1>d, <2>1, <2>2, <2>3, <2>4
<1>5. CASE ItemPassed /\ phase = "body"
  <2>1. /\ phase' = "body" /\ pos' = pos /\ sub' = sub + 1 /\ FunctionsUpTo = pos
        /\ FunctionsUpTo' = pos
    BY <1>5 DEF ItemPassed, NextItem, FunctionsUpTo, InTypes
  <2>2. \A i : BodySeen(i)' = IF i = pos THEN sub ELSE BodySeen(i)
    BY <1>5, <1>a, <1>b, <2>1 DEF BodySeen
  <2>3. ItemKnown(pos, sub)
    BY <1>5, <1>e DEF ItemPassed, Item, ItemKnown, InTypes, Current
  <2>4. BodySeen(pos) = sub - 1 /\ \A j \in 1..sub : j \in 1..(sub - 1) \/ j = sub
    BY <1>5, <1>b DEF BodySeen
  <2> QED BY <1>5, <1>a, <1>c, <1>d, <2>1, <2>2, <2>3, <2>4, RegisteredKept
<1>6. CASE ItemPassed /\ phase # "body"
  <2>1. /\ phase = "functions" /\ phase' = "functions" /\ pos' = pos + 1 /\ pos <= Len(ast)
        /\ FunctionsUpTo = pos /\ FunctionsUpTo' = pos + 1
    BY <1>6 DEF ItemPassed, NextItem, FunctionsUpTo, InTypes, InBody, Running
  <2>2. \A i : BodySeen(i)' = BodySeen(i)
    BY <1>a, <2>1 DEF BodySeen
  <2>3. ast[pos].k = "decl" => ast[pos].type \in AllTypes
    BY <1>6, <1>e, <2>1 DEF ItemPassed, Item, InTypes, Current
  <2>4. \A i \in Of("decl") : i < pos + 1 => i < pos \/ i = pos
    BY <1>a, <1>b
  <2> QED BY <1>6, <1>a, <1>c, <1>d, <2>1, <2>2, <2>3, <2>4, RegisteredKept
<1>7. CASE EndBody
  <2>1. /\ phase = "body" /\ phase' = "functions" /\ pos' = pos + 1 /\ sub > Len(Current.body)
        /\ FunctionsUpTo = pos /\ FunctionsUpTo' = pos + 1
    BY <1>7 DEF EndBody, Running, FunctionsUpTo, InTypes
  <2>2. Len(Current.body) \in Nat /\ Current.k \in {"func", "main"}
    BY <2>1, PlaceFacts DEF PlaceInv
  <2>3. \A i : BodySeen(i)' = Len(ast[i].body)
    BY <1>a, <2>1 DEF BodySeen
  <2>4. \A i \in Registered : \A j \in 1..Len(ast[i].body) : j \in 1..BodySeen(i)
    BY <1>b, <2>1, <2>2 DEF BodySeen, Current
  <2>5. \A i \in Of("decl") : i < pos + 1 => i < pos
    BY <1>a, <1>b, <2>2 DEF Current
  <2> QED BY <1>7, <1>a, <1>c, <1>d, <2>1, <2>3, <2>4, <2>5, RegisteredKept
<1> QED
  BY <1>2, <1>3, <1>4, <1>5, <1>6, <1>7, ItemSteps
     DEF Next, Throw, GenerateTypeTwice, GenerateAttributeUnknown, NoEntryPoint,
         PassFuncTwice, PassParamUnknown, PassMainTwice, PassDeclUnknown

-----------------------------------------------------------------------------
(* The programs that do not get through.                                   *)

\* An exception is thrown where the statement makes the program ill-formed.
LEMMA Refusals ==
  ASSUME PlaceInv, TypesSeen, NamesSeen, Next, thrown' # "none"
  PROVE  ~WellFormed /\ phase' # "done"
<1>a. /\ Len(ast) \in Nat /\ pos \in Nat /\ sub \in Nat \ {0} /\ thrown = "none"
      /\ \A i \in Registered : i \in FunctionsOf
  BY PlaceFacts, NothingAfterThrow DEF Registered
<1>b. ~InTypes => DOMAIN typeIDs = AllTypes
  BY DEF TypesSeen, TypesUpTo, AllTypes
<1>c. phase # "body" /\ ~InTypes => \A i \in Registered : i # pos
  BY <1>a DEF Registered, FunctionsUpTo
<1>1. CASE GenerateTypeTwice
  <2>1. /\ phase = "types" /\ pos <= Len(ast) /\ Current.k = "type" /\ phase' = phase
        /\ Current.name \in DOMAIN typeIDs
    BY <1>1 DEF GenerateTypeTwice, AtType, Running, Throw
  <2>2. pos \in Of("type") /\ ast[pos].name \in KnownAt(pos)
    BY <2>1, PlaceFacts DEF Of, Current, TypesSeen, TypesUpTo, InTypes
  <2> QED BY <2>1, <2>2 DEF WellFormed
<1>2. CASE GenerateAttributeUnknown
  <2>1. /\ phase = "attributes" /\ sub <= Len(Current.attrs) /\ phase' = phase
        /\ Current.attrs[sub].type \notin DOMAIN typeIDs
    BY <1>2 DEF GenerateAttributeUnknown, Running, Throw
  <2>2. pos \in Of("type") /\ Len(ast[pos].attrs) \in Nat
    BY <2>1, PlaceFacts DEF PlaceInv, Of, Current
  <2>3. Current.attrs[sub] \in Members(ast[pos].attrs) /\ Current.attrs[sub].type \notin KnownAt(pos)
    BY <1>a, <2>1, <2>2 DEF Members, Current, TypesSeen, TypesUpTo, InTypes
  <2> QED BY <2>1, <2>2, <2>3 DEF WellFormed
<1>3. CASE NoEntryPoint
  <2>1. phase = "types" /\ pos > Len(ast) /\ ~hasMain /\ phase' = phase
    BY <1>3 DEF NoEntryPoint, Running, Throw
  <2>2. Of("main") = {}
    BY <1>a, <2>1 DEF TypesSeen, TypesUpTo, InTypes, Of
  <2> QED BY <2>1, <2>2 DEF WellFormed
<1>4. CASE PassFuncTwice
  <2>1. /\ phase = "functions" /\ pos <= Len(ast) /\ Current.k = "func" /\ phase' = phase
        /\ Current.name \in DOMAIN functions
    BY <1>4 DEF PassFuncTwice, AtStatement, Running, Throw
  <2>2. pos \in Of("func") /\ pos \in FunctionsOf /\ NameAt(pos) = Current.name
    BY <2>1, PlaceFacts DEF Of, FunctionsOf, Current, NameAt
  <2>3. Current.name \in DOMAIN functions \ {""} /\ Current.name # "main"
    BY <2>1, <2>2, NamesOfFunctions DEF Of, Current
  <2>4. PICK i \in Registered : NameAt(i) = Current.name
    <3>1. DOMAIN functions \ {""} = {NameAt(i) : i \in Registered}
      BY DEF NamesSeen
    <3> QED BY <2>3, <3>1
  <2>5. i \in Of("func") /\ ast[i].name = ast[pos].name
    BY <1>a, <2>3, <2>4, NamesOfFunctions DEF FunctionsOf, Of, NameAt, Current
  <2>6. i # pos
    BY <1>c, <2>1 DEF InTypes
  <2> QED BY <2>1, <2>2, <2>5, <2>6 DEF WellFormed
<1>5. CASE PassParamUnknown
  <2>1. /\ phase = "params" /\ sub <= Len(Current.args) /\ phase' = phase
        /\ Current.args[sub].type \notin DOMAIN typeIDs
    BY <1>5 DEF PassParamUnknown, Running, Throw
  <2>2. pos \in Of("func") /\ Len(ast[pos].args) \in Nat
    BY <2>1, PlaceFacts DEF PlaceInv, Of, Current
  <2>3. Current.args[sub] \in Members(ast[pos].args) /\ Current.args[sub].type \notin AllTypes
    BY <1>a, <1>b, <2>1, <2>2 DEF Members, Current, InTypes
  <2> QED BY <2>1, <2>2, <2>3 DEF WellFormed, AllTypes
<1>6. CASE PassMainTwice
  <2>1. /\ phase = "functions" /\ pos <= Len(ast) /\ Current.k = "main" /\ phase' = phase
        /\ "main" \in DOMAIN functions
    BY <1>6 DEF PassMainTwice, AtStatement, Running, Throw
  <2>2. pos \in Of("main")
    BY <2>1, PlaceFacts DEF Of, Current
  <2>3. PICK i \in Registered : NameAt(i) = "main"
    <3>1. DOMAIN functions \ {""} = {NameAt(i) : i \in Registered}
      BY DEF NamesSeen
    <3> QED BY <2>1, <3>1
  <2>4. i \in Of("main") /\ i # pos
    BY <1>a, <1>c, <2>1, <2>3, NamesOfFunctions DEF InTypes
  <2> QED BY <2>1, <2>2, <2>4 DEF WellFormed
<1>7. CASE PassDeclUnknown
  <2>1. /\ AtItem({"decl"}) /\ Item.type \notin DOMAIN typeIDs /\ phase' = phase
    BY <1>7 DEF PassDeclUnknown
  <2>2. CASE InBody /\ Current.body[sub].k = "decl"
    <3>1. phase = "body" /\ sub <= Len(Current.body) /\ Current.k \in {"func", "main"}
      BY <2>2 DEF InBody, Running, PlaceInv
    <3>2. /\ pos \in Of("func") \cup Of("main") /\ Len(ast[pos].body) \in Nat
      BY <3>1, PlaceFacts DEF PlaceInv, Of, Current
    <3>3. Current.body[sub] \in DeclaredIn(ast[pos].body)
      BY <1>a, <2>2, <3>1, <3>2 DEF DeclaredIn, Members, Current
    <3>4. Current.body[sub].type \notin AllTypes
      BY <1>b, <2>1, <3>1 DEF Item, InTypes
    <3> QED BY <2>1, <3>1, <3>2, <3>3, <3>4 DEF WellFormed, AllTypes
  <2>3. CASE AtStatement({"decl"})
    <3>1. phase = "functions" /\ pos <= Len(ast) /\ Current.k = "decl"
      BY <2>3 DEF AtStatement, Running
    <3>2. Current \in DeclaredIn(ast)
      BY <3>1, PlaceFacts DEF DeclaredIn, Members, Current
    <3>3. Current.type \notin AllTypes
      BY <1>b, <2>1, <3>1 DEF Item, InTypes
    <3> QED BY <2>1, <3>1, <3>2, <3>3 DEF WellFormed, AllTypes
  <2> QED BY <2>1, <2>2, <2>3 DEF AtItem
<1> QED
  BY <1>a, <1>1, <1>2, <1>3, <1>4, <1>5, <1>6, <1>7
     DEF Next, SkipInTypes, GenerateType, GenerateAttribute, AddType, TypesEnd, PassFunc,
         PassParam, RegisterFunc, PassMain, PassDecl, PassExpression, SkipItem, EndBody,
         FunctionsEnd

\* What has been passed to the end is well-formed.
LEMMA Acceptance ==
  ASSUME PlaceInv, TypesSeen, NamesSeen, VariablesSeen, phase = "done"
  PROVE  WellFormed
<1>a. /\ Len(ast) \in Nat /\ pos = Len(ast) + 1 /\ ~InTypes
      /\ \A k : \A i \in Of(k) : i \in 1..Len(ast) /\ i < Len(ast) + 1
  BY PlaceFacts DEF PlaceInv, InTypes, Of
<1>b. ast \in Programs
  BY DEF PlaceInv
<1>1. Registered = FunctionsOf /\ \A i \in FunctionsOf : BodySeen(i) = Len(ast[i].body)
  BY <1>a DEF Registered, FunctionsUpTo, FunctionsOf, BodySeen
<1>2. \A i \in Of("type") :
        /\ ast[i].name \notin KnownAt(i)
        /\ \A a \in Members(ast[i].attrs) : a.type \in KnownAt(i)
  BY <1>a DEF TypesSeen, TypesUpTo, Members
<1>3. \A i, j \in Of("func") : ast[i].name = ast[j].name => i = j
  <2>1. \A i \in Of("func") : i \in FunctionsOf /\ NameAt(i) = ast[i].name
    BY DEF FunctionsOf, Of, NameAt
  <2> QED BY <1>1, <2>1 DEF NamesSeen
<1>4. \A i \in Of("func") : \A d \in Members(ast[i].args) : d.type \in AllTypes
  BY <1>1 DEF VariablesSeen, Members, FunctionsOf, Of
<1>5. \A i \in FunctionsOf : \A d \in DeclaredIn(ast[i].body) : d.type \in AllTypes
  BY <1>1 DEF VariablesSeen, DeclaredIn, Members
<1>6. \A d \in DeclaredIn(ast) : d.type \in AllTypes
  BY <1>a DEF VariablesSeen, DeclaredIn, Members, Of, FunctionsUpTo
<1>7. \E i \in Of("main") : Of("main") = {i}
  <2>1. PICK i \in Of("main") : TRUE
    BY <1>a DEF TypesSeen
  <2>2. \A j \in Of("main") : j \in FunctionsOf /\ NameAt(j) = "main"
    BY NamesOfFunctions DEF FunctionsOf
  <2>3. \A j \in Of("main") : j = i
    BY <1>1, <2>2 DEF NamesSeen
  <2> QED BY <2>3
<1> QED BY <1>2, <1>3, <1>4, <1>5, <1>6, <1>7 DEF WellFormed, AllTypes, FunctionsOf

-----------------------------------------------------------------------------

LEMMA AcceptAtFirst ==
  ASSUME Init
  PROVE  AcceptInv
<1>1. /\ phase = "types" /\ pos = 1 /\ sub = 1 /\ thrown = "none" /\ hasMain = FALSE
      /\ DOMAIN typeIDs = {"none", "int"} /\ functions = <<>> /\ currFunc = ""
      /\ InTypes /\ TypesUpTo = 1 /\ FunctionsUpTo = 1
  BY DEF Init, InTypes, TypesUpTo, FunctionsUpTo
<1>2. \A k : \A i \in Of(k) : i \in Nat \ {0} /\ ~(i < 1)
  <2>1. Len(ast) \in Nat
    BY TInvAtFirst, PlaceFacts
  <2> QED BY <2>1 DEF Of
<1>3. KnownAt(1) = {"none", "int"}
  BY <1>2 DEF KnownAt
<1>4. TypesSeen
  BY <1>1, <1>2, <1>3 DEF TypesSeen
<1>5. Registered = {}
  BY <1>1, <1>2 DEF Registered, FunctionsOf
<1>6. \A x \in DOMAIN <<>> : FALSE
  OBVIOUS
<1>7. NamesSeen
  BY <1>1, <1>5, <1>6 DEF NamesSeen
<1>8. VariablesSeen
  BY <1>1, <1>2, <1>5 DEF VariablesSeen
<1> QED BY <1>1, <1>4, <1>7, <1>8 DEF AcceptInv

LEMMA AcceptSteps ==
  ASSUME TInv, PlaceInv, AcceptInv, [Next]_vars
  PROVE  AcceptInv'
<1>1. CASE UNCHANGED vars
  <2>1. TypesSeen' = TypesSeen
    BY <1>1 DEF vars, TypesSeen, KnownAt, Of, Current, TypesUpTo, InTypes
  <2>2. NamesSeen' = NamesSeen
    BY <1>1 DEF vars, NamesSeen, NameAt, Registered, FunctionsOf, Of, FunctionsUpTo, InTypes
  <2>3. VariablesSeen' = VariablesSeen
    BY <1>1 DEF vars, VariablesSeen, Registered, FunctionsOf, Of, FunctionsUpTo, InTypes, Current,
                BodySeen, AllTypes, KnownAt
  <2>4. WellFormed' = WellFormed /\ thrown' = thrown /\ phase' = phase
    BY <1>1, ReadingsKept DEF vars
  <2> QED BY <2>1, <2>2, <2>3, <2>4 DEF AcceptInv
<1>2. CASE Next
  <2>1. TypesSeen /\ NamesSeen /\ VariablesSeen /\ NotYetRegistered
    BY <1>2, NothingAfterThrow DEF AcceptInv, TInv, FInv
  <2>2. WellFormed' = WellFormed
    BY ProgramKept, ReadingsKept
  <2>3. CASE thrown' = "none"
    BY <1>2, <2>1, <2>3, TypesSeenSteps, NamesSeenSteps, VariablesSeenSteps DEF AcceptInv
  <2>4. CASE thrown' # "none"
    BY <1>2, <2>1, <2>2, <2>4, Refusals DEF AcceptInv
  <2> QED BY <2>3, <2>4
<1> QED BY <1>1, <1>2

LEMMA AcceptInvHolds == Spec => [](TInv /\ PlaceInv /\ AcceptInv)
<1>1. AcceptInv /\ TInv /\ PlaceInv /\ [Next]_vars => AcceptInv'
  BY AcceptSteps
<1> QED BY <1>1, TInvHolds, AcceptAtFirst, PTL DEF Spec

\* For every program, in whatever order its statements come, the two passes end without an
\* exception only if it is well-formed, and throw one only if it is not.
THEOREM AcceptsTheWellFormed == Spec => []AcceptsExactly
<1>1. PlaceInv /\ AcceptInv => AcceptsExactly
  BY Acceptance DEF AcceptInv, AcceptsExactly
<1> QED BY <1>1, AcceptInvHolds, PTL

-----------------------------------------------------------------------------
(* The frames.                                                             *)

\* A statement adds its variable, if it declares one, to the function of _currFunc.
LEMMA ItemLocals ==
  ASSUME FInv, PassDecl \/ PassExpression \/ SkipItem
  PROVE  \A f \in DOMAIN functions :
           /\ functions'[f].params = functions[f].params
           /\ DOMAIN functions'[f].locals =
                DOMAIN functions[f].locals
                  \cup (IF f = currFunc /\ Item.k = "decl" THEN {Item.name} ELSE {})
<1>a. TypesOK /\ \A name : InfoOK(types, Info(name))
  BY FreshInfoOK DEF FInv, FramesOK, Info
<1>b. \A f \in DOMAIN functions : Info(f) = functions[f]
  BY DEF Info
<1>1. CASE PassDecl
  <2> DEFINE id == typeIDs[Item.type]
             old == Info(currFunc)
             bytes == Bytes(types, id)
             added == WithLocal(old, Item.name, id, bytes)
  <2>1. functions' = Assign(functions, currFunc, added) /\ Item.k = "decl"
    BY <1>1 DEF PassDecl, WithLocal, TypeOf, Bytes, AtItem, InBody, AtStatement, Running, Item
  <2>2. bytes \in Nat /\ InfoOK(types, old)
    BY <1>a, <1>1 DEF PassDecl, TypesOK, SizesOK
  <2> HIDE DEF bytes, id
  <2>3. added.params = old.params /\ DOMAIN added.locals = DOMAIN old.locals \cup {Item.name}
    <3>1. /\ added.params = old.params
          /\ added.locals = Assign(old.locals, Item.name, VariableAt(id, old.stack))
      BY <2>2, FieldsOfWithLocal
    <3> QED BY <3>1 DEF Assign
  <2> HIDE DEF added
  <2> QED BY <1>b, <2>1, <2>3 DEF Assign
<1>2. CASE PassExpression
  <2> DEFINE marked == [Info(currFunc) EXCEPT !.dirty = TRUE]
  <2>1. functions' = Assign(functions, currFunc, marked) /\ Item.k # "decl"
    BY <1>2 DEF PassExpression, AtItem, CallIsPassed, InBody, AtStatement, Running, Item, Evaluating
  <2>2. marked.params = Info(currFunc).params /\ marked.locals = Info(currFunc).locals
    BY <1>a, FieldsOfExcept
  <2> HIDE DEF marked
  <2> QED BY <1>b, <2>1, <2>2 DEF Assign
<1>3. CASE SkipItem
  BY <1>3 DEF SkipItem
<1> QED BY <1>1, <1>2, <1>3

LEMMA NextOf ==
  ASSUME NEW i, NEW n \in Nat
  PROVE  /\ ParamsOf(i, n + 1) = ParamsOf(i, n) \cup {ast[i].args[n + 1].name}
         /\ LocalsOf(i, n + 1) =
              LocalsOf(i, n)
                \cup (IF ast[i].body[n + 1].k = "decl" THEN {ast[i].body[n + 1].name} ELSE {})
         /\ ParamsOf(i, 0) = {} /\ LocalsOf(i, 0) = {}
<1>1. \A j : j \in 1..(n + 1) <=> j \in 1..n \/ j = n + 1
  OBVIOUS
<1>2. \A j \in 1..0 : FALSE
  OBVIOUS
<1>3. ParamsOf(i, 0) = {} /\ LocalsOf(i, 0) = {}
  BY <1>2 DEF ParamsOf, LocalsOf
<1>4. ParamsOf(i, n + 1) = ParamsOf(i, n) \cup {ast[i].args[n + 1].name}
  BY <1>1 DEF ParamsOf
<1>5. LocalsOf(i, n + 1) =
        LocalsOf(i, n)
          \cup (IF ast[i].body[n + 1].k = "decl" THEN {ast[i].body[n + 1].name} ELSE {})
  BY <1>1 DEF LocalsOf
<1> QED BY <1>3, <1>4, <1>5

LEMMA FramesSeenSteps ==
  ASSUME TInv, PlaceInv, NamesSeen, NamesSeen', FramesSeen, DeclaredIn(ast) = {}, Next,
         thrown' = "none"
  PROVE  FramesSeen'
<1>a. /\ ast' = ast /\ (\A i : NameAt(i)' = NameAt(i))
      /\ \A i, n : LocalsOf(i, n)' = LocalsOf(i, n) /\ ParamsOf(i, n)' = ParamsOf(i, n)
  BY ProgramKept, ReadingsKept DEF LocalsOf, ParamsOf
<1>b. /\ FInv /\ TypesOK /\ InfoOK(types, newFunc) /\ NotYetRegistered
      /\ Len(ast) \in Nat /\ pos \in Nat /\ sub \in Nat \ {0}
  BY PlaceFacts DEF TInv, FInv
<1>c. FramesSeen' <=>
        /\ \A i \in Registered' :
             /\ DOMAIN functions'[NameAt(i)].locals = LocalsOf(i, BodySeen(i)')
             /\ ast[i].k = "func" =>
                  DOMAIN functions'[NameAt(i)].params = ParamsOf(i, Len(ast[i].args))
        /\ phase' = "params" => /\ sub' <= Len(ast[pos'].args) + 1
                                /\ DOMAIN newFunc'.locals = {}
                                /\ DOMAIN newFunc'.params = ParamsOf(pos', sub' - 1)
        /\ phase' = "body" => sub' <= Len(ast[pos'].body) + 1
  <2>1. FramesSeen' <=>
        /\ \A i \in Registered' :
             /\ DOMAIN functions'[NameAt(i)'].locals = LocalsOf(i, BodySeen(i))'
             /\ ast'[i].k = "func" =>
                  DOMAIN functions'[NameAt(i)'].params = ParamsOf(i, Len(ast[i].args))'
        /\ phase' = "params" => /\ sub' <= Len(ast'[pos'].args) + 1
                                /\ DOMAIN newFunc'.locals = {}
                                /\ DOMAIN newFunc'.params = ParamsOf(pos, sub - 1)'
        /\ phase' = "body" => sub' <= Len(ast'[pos'].body) + 1
    BY DEF FramesSeen, Current
  <2>2. \A i : /\ LocalsOf(i, BodySeen(i))' = LocalsOf(i, BodySeen(i)')
               /\ ParamsOf(i, Len(ast[i].args))' = ParamsOf(i, Len(ast[i].args))
    BY <1>a DEF LocalsOf, ParamsOf
  <2>3. ParamsOf(pos, sub - 1)' = ParamsOf(pos', sub' - 1)
    BY <1>a DEF ParamsOf
  <2> QED BY <1>a, <2>1, <2>2, <2>3
<1>d. \A i \in Registered : NameAt(i) \in DOMAIN functions
  <2>1. {NameAt(i) : i \in Registered} \subseteq DOMAIN functions
    BY DEF NamesSeen
  <2> QED BY <2>1
<1>e. \A i, j \in Registered' : NameAt(i) = NameAt(j) => i = j
  <2>1. (\A i, j \in Registered : NameAt(i) = NameAt(j) => i = j)'
    BY DEF NamesSeen
  <2> QED BY <1>a, <2>1
<1>f. \A x \in DOMAIN <<>> : FALSE
  OBVIOUS
<1>1. ASSUME Registered' = Registered, \A i \in Registered : BodySeen(i)' = BodySeen(i),
             UNCHANGED functions, phase' \notin {"params", "body"}
      PROVE  FramesSeen'
  BY <1>1, <1>c DEF FramesSeen
<1>2. CASE SkipInTypes \/ GenerateType \/ GenerateAttribute \/ AddType \/ TypesEnd \/ FunctionsEnd
  <2>1. /\ phase # "body" /\ phase' \notin {"body", "params"} /\ UNCHANGED functions
    BY <1>2 DEF SkipInTypes, GenerateType, GenerateAttribute, AddType, TypesEnd, AtType,
                Running, FunctionsEnd
  <2>2. \A i : BodySeen(i)' = BodySeen(i)
    BY <1>a, <2>1 DEF BodySeen
  <2> QED BY <1>1, <1>2, <1>a, <2>1, <2>2, RegisteredKept
<1>3. CASE PassFunc \/ PassParam
  <2>1. /\ phase # "body" /\ phase' = "params" /\ pos' = pos /\ UNCHANGED functions
    BY <1>3 DEF PassFunc, PassParam, AtStatement, Running
  <2>2. \A i : BodySeen(i)' = BodySeen(i)
    BY <1>a, <2>1 DEF BodySeen
  <2>3. CASE PassFunc
    <3>1. /\ sub' = 1 /\ DOMAIN newFunc'.locals = {} /\ DOMAIN newFunc'.params = {}
      BY <2>3, <1>f DEF PassFunc, FreshInfo
    <3>2. Len(ast[pos].args) \in Nat
      BY <2>3, <1>b, PlaceFacts, ProgramsAssumption
         DEF PassFunc, AtStatement, Running, Current, PlaceInv
    <3>3. sub' - 1 = 0 /\ sub' <= Len(ast[pos].args) + 1
      BY <3>1, <3>2
    <3>4. ParamsOf(pos, 0) = {}
      BY NextOf
    <3> QED BY <1>3, <1>a, <1>c, <2>1, <2>2, <3>1, <3>3, <3>4, RegisteredKept DEF FramesSeen
  <2>4. CASE PassParam
    <3>1. /\ phase = "params" /\ sub' = sub + 1 /\ sub <= Len(Current.args)
      BY <2>4 DEF PassParam, Running
    <3>2. PICK name, param :
             /\ name = Current.args[sub].name
             /\ newFunc'.params = Assign(newFunc.params, name, param)
             /\ newFunc'.locals = newFunc.locals
      BY <2>4, <1>b, ParamPassed
    <3>3. DOMAIN newFunc'.params = DOMAIN newFunc.params \cup {Current.args[sub].name}
      BY <3>2 DEF Assign
    <3>4. ParamsOf(pos, sub' - 1) = ParamsOf(pos, sub - 1) \cup {Current.args[sub].name}
      <4>1. sub - 1 \in Nat /\ (sub - 1) + 1 = sub /\ sub' - 1 = sub
        BY <1>b, <3>1
      <4> HIDE DEF ParamsOf
      <4>2. ParamsOf(pos, (sub - 1) + 1) = ParamsOf(pos, sub - 1) \cup {ast[pos].args[(sub - 1) + 1].name}
        BY <4>1, NextOf
      <4> QED BY <4>1, <4>2 DEF Current
    <3>5. sub' <= Len(ast[pos'].args) + 1
      <4>1. Len(Current.args) \in Nat
        BY <3>1, PlaceFacts
      <4> QED BY <1>b, <2>1, <3>1, <4>1 DEF Current
    <3>6. Registered' = Registered
      BY <1>a, <2>4, RegisteredKept
    <3>7. DOMAIN newFunc'.locals = {} /\ DOMAIN newFunc'.params = ParamsOf(pos, sub' - 1)
      BY <3>1, <3>2, <3>3, <3>4 DEF FramesSeen
    <3> QED BY <1>c, <2>1, <2>2, <3>5, <3>6, <3>7 DEF FramesSeen
  <2> QED BY <1>3, <2>3, <2>4
<1>4. CASE RegisterFunc \/ PassMain
  <2>1. /\ Registered' = Registered \cup {pos} /\ phase' = "body" /\ pos' = pos /\ sub' = 1
        /\ pos \notin Registered
        /\ \A i \in Registered : i < pos
    BY <1>4, <1>a, RegisteredMore
  <2>2. phase # "body"
    BY <1>4, <2>1 DEF RegisterFunc, PassMain, AtStatement, Running
  <2>3. (\A i \in Registered : BodySeen(i)' = BodySeen(i)) /\ BodySeen(pos)' = 0
    BY <1>a, <1>b, <2>1, <2>2 DEF BodySeen
  <2>4. \A i \in Registered : NameAt(i) # NameAt(pos)
    BY <1>e, <2>1
  <2>5. PICK info :
          /\ functions' = Assign(functions, NameAt(pos), info) /\ DOMAIN info.locals = {}
          /\ ast[pos].k = "func" => DOMAIN info.params = ParamsOf(pos, Len(ast[pos].args))
    <3>1. CASE RegisterFunc
      <4>1. /\ functions' = Assign(functions, Current.name, newFunc) /\ phase = "params"
            /\ sub > Len(Current.args) /\ Current.k = "func"
        BY <3>1 DEF RegisterFunc, Running, PlaceInv
      <4>2. NameAt(pos) = Current.name
        BY <4>1 DEF NameAt, Current
      <4>3. sub - 1 = Len(Current.args)
        <5>1. sub <= Len(Current.args) + 1 /\ Len(Current.args) \in Nat
          BY <4>1, PlaceFacts DEF FramesSeen
        <5> QED BY <1>b, <4>1, <5>1
      <4>4. DOMAIN newFunc.locals = {} /\ DOMAIN newFunc.params = ParamsOf(pos, Len(ast[pos].args))
        BY <4>1, <4>3 DEF FramesSeen, Current
      <4> QED BY <4>1, <4>2, <4>4
    <3>2. CASE PassMain
      <4>1. functions' = Assign(functions, "main", FreshInfo("RSP")) /\ Current.k = "main"
        BY <3>2 DEF PassMain, AtStatement
      <4>2. NameAt(pos) = "main" /\ ast[pos].k # "func" /\ DOMAIN FreshInfo("RSP").locals = {}
        BY <4>1, <1>f DEF NameAt, Current, FreshInfo
      <4> QED BY <4>1, <4>2
    <3> QED BY <1>4, <3>1, <3>2
  <2>6. /\ functions'[NameAt(pos)] = info
        /\ \A i \in Registered : functions'[NameAt(i)] = functions[NameAt(i)]
    BY <1>d, <2>4, <2>5 DEF Assign
  <2>7. LocalsOf(pos, 0) = {}
    BY NextOf
  <2>8. sub' <= Len(ast[pos'].body) + 1
    <3>1. Len(Current.body) \in Nat
      BY <1>4, <1>b, PlaceFacts, ProgramsAssumption
         DEF RegisterFunc, PassMain, AtStatement, Running, Current, PlaceInv
    <3> QED BY <2>1, <3>1 DEF Current
  <2> QED BY <1>c, <2>1, <2>3, <2>5, <2>6, <2>7, <2>8 DEF FramesSeen
<1>5. ASSUME PassDecl \/ PassExpression \/ SkipItem
      PROVE  FramesSeen'
  <2>1. ItemPassed
    BY <1>5, ItemSteps
  <2>2. /\ Registered' = Registered /\ phase' = phase
        /\ phase \in {"body", "functions"} /\ newFunc' = newFunc
    BY <2>1, <1>a, RegisteredKept DEF ItemPassed, InBody, Running
  <2>3. \A i \in Registered :
          /\ functions'[NameAt(i)].params = functions[NameAt(i)].params
          /\ DOMAIN functions'[NameAt(i)].locals =
               DOMAIN functions[NameAt(i)].locals
                 \cup (IF NameAt(i) = currFunc /\ Item.k = "decl" THEN {Item.name} ELSE {})
    BY <1>5, <1>b, <1>d, ItemLocals
  <2>4. CASE phase = "body"
    <3>1. pos' = pos /\ sub' = sub + 1 /\ sub <= Len(Current.body) /\ Item = ast[pos].body[sub]
      BY <2>1, <2>4 DEF ItemPassed, NextItem, InBody, Item, Current
    <3>2. \A i : BodySeen(i)' = IF i = pos THEN sub ELSE BodySeen(i)
      BY <1>a, <1>b, <2>2, <2>4, <3>1 DEF BodySeen
    <3>3. BodySeen(pos) = sub - 1
      BY <2>4 DEF BodySeen
    <3>4. pos \in Registered /\ currFunc = NameAt(pos)
      BY <2>4, PlaceFacts DEF NamesSeen, PlaceInv, Registered, FunctionsOf, Of, Current
    <3>5. \A i \in Registered : NameAt(i) = currFunc => i = pos
      BY <3>4 DEF NamesSeen
    <3>6. LocalsOf(pos, sub) = LocalsOf(pos, sub - 1)
            \cup (IF Item.k = "decl" THEN {Item.name} ELSE {})
      <4>1. sub - 1 \in Nat /\ (sub - 1) + 1 = sub
        BY <1>b
      <4>2. LocalsOf(pos, (sub - 1) + 1) = LocalsOf(pos, sub - 1)
              \cup (IF ast[pos].body[(sub - 1) + 1].k = "decl"
                    THEN {ast[pos].body[(sub - 1) + 1].name} ELSE {})
        BY <4>1, NextOf
      <4> QED BY <3>1, <4>1, <4>2
    <3>7. sub' <= Len(ast[pos'].body) + 1
      BY <1>b, <2>4, <3>1, PlaceFacts DEF Current
    <3>8. ASSUME NEW i \in Registered
          PROVE  DOMAIN functions'[NameAt(i)].locals = LocalsOf(i, BodySeen(i)')
      <4>1. CASE i = pos
        BY <2>3, <3>2, <3>3, <3>4, <3>6, <4>1 DEF FramesSeen
      <4>2. CASE i # pos
        BY <2>3, <3>2, <3>5, <4>2 DEF FramesSeen
      <4> QED BY <4>1, <4>2
    <3> QED BY <1>c, <2>2, <2>3, <2>4, <3>7, <3>8 DEF FramesSeen
  <2>5. CASE phase = "functions"
    <3>1. Item = Current /\ pos <= Len(ast)
      BY <2>1, <2>5 DEF ItemPassed, InBody, Running, Item
    <3>2. Item.k # "decl"
      BY <3>1, PlaceFacts DEF DeclaredIn, Members, Current
    <3>3. \A i : BodySeen(i)' = BodySeen(i)
      BY <1>a, <2>2, <2>5 DEF BodySeen
    <3> QED BY <1>c, <2>2, <2>3, <2>5, <3>2, <3>3 DEF FramesSeen
  <2> QED BY <2>2, <2>4, <2>5
<1>6. CASE EndBody
  <2>1. /\ phase = "body" /\ phase' = "functions" /\ sub > Len(Current.body)
        /\ UNCHANGED functions
    BY <1>6 DEF EndBody, Running
  <2>2. sub - 1 = Len(Current.body)
    BY <1>b, <2>1, PlaceFacts DEF FramesSeen
  <2>3. \A i : BodySeen(i)' = BodySeen(i)
    BY <1>a, <2>1, <2>2 DEF BodySeen, Current
  <2> QED BY <1>1, <1>6, <1>a, <2>1, <2>3, RegisteredKept
<1> QED
  BY <1>2, <1>3, <1>4, <1>5, <1>6
     DEF Next, Throw, GenerateTypeTwice, GenerateAttributeUnknown, NoEntryPoint,
         PassFuncTwice, PassParamUnknown, PassMainTwice, PassDeclUnknown

LEMMA FramesInvHolds == Spec => [](TInv /\ PlaceInv /\ AcceptInv /\ FramesInv)
<1>1. Init => FramesInv
  <2> SUFFICES ASSUME Init PROVE FramesSeen
    BY DEF FramesInv
  <2>1. phase = "types" /\ FunctionsUpTo = 1 /\ Len(ast) \in Nat
    BY TInvAtFirst, PlaceFacts DEF Init, FunctionsUpTo, InTypes
  <2>2. Registered = {}
    BY <2>1 DEF Registered, FunctionsOf, Of
  <2> QED BY <2>1, <2>2 DEF FramesSeen
<1>2. ASSUME TInv, PlaceInv, AcceptInv, FramesInv, [Next]_vars, AcceptInv'
      PROVE  FramesInv'
  <2>1. CASE UNCHANGED vars
    <3>1. FramesSeen' = FramesSeen
      BY <2>1 DEF vars, FramesSeen, Registered, FunctionsOf, Of, FunctionsUpTo, InTypes, Current,
                  BodySeen, NameAt, LocalsOf, ParamsOf
    <3>2. DeclaredIn(ast)' = DeclaredIn(ast) /\ thrown' = thrown
      BY <2>1 DEF vars, DeclaredIn, Members
    <3> QED BY <1>2, <3>1, <3>2 DEF FramesInv
  <2>2. CASE Next /\ thrown' = "none" /\ DeclaredIn(ast) = {}
    BY <1>2, <2>2, NothingAfterThrow, FramesSeenSteps DEF FramesInv, AcceptInv
  <2>3. DeclaredIn(ast)' = DeclaredIn(ast)
    BY <1>2, ProgramKept DEF DeclaredIn, Members
  <2> QED BY <1>2, <2>1, <2>2, <2>3 DEF FramesInv
<1> QED BY <1>1, <1>2, AcceptInvHolds, PTL DEF Spec

\* For every program without declarations at top level, the functions the pass has recorded
\* are those the program declares, each with its own parameters and with the variables of
\* its body.
THEOREM FramesMatch == Spec => []FramesMatchDeclarations
<1>1. PlaceInv /\ AcceptInv /\ FramesInv => FramesMatchDeclarations
  <2> SUFFICES ASSUME PlaceInv, AcceptInv, FramesInv, phase = "done", DeclaredIn(ast) = {}
               PROVE  FramesMatchDeclarations
    BY DEF FramesMatchDeclarations
  <2>1. NamesSeen /\ FramesSeen
    BY DEF AcceptInv, FramesInv
  <2>2. Registered = FunctionsOf /\ \A i \in FunctionsOf : BodySeen(i) = Len(ast[i].body)
    BY PlaceFacts DEF PlaceInv, Registered, FunctionsUpTo, InTypes, FunctionsOf, Of, BodySeen
  <2>3. \A i \in Of("func") : i \in FunctionsOf /\ NameAt(i) = ast[i].name /\ ast[i].k = "func"
    BY DEF FunctionsOf, Of, NameAt
  <2>4. \A i \in Of("main") : i \in FunctionsOf /\ NameAt(i) = "main"
    BY DEF FunctionsOf, Of, NameAt
  <2>5. DOMAIN functions \ {""} = {ast[i].name : i \in Of("func")} \cup {"main" : i \in Of("main")}
    <3>1. DOMAIN functions \ {""} = {NameAt(i) : i \in FunctionsOf}
      BY <2>1, <2>2 DEF NamesSeen
    <3>2. {NameAt(i) : i \in FunctionsOf}
            = {NameAt(i) : i \in Of("func")} \cup {NameAt(i) : i \in Of("main")}
      BY DEF FunctionsOf
    <3>3. {NameAt(i) : i \in Of("func")} = {ast[i].name : i \in Of("func")}
      BY <2>3
    <3>4. {NameAt(i) : i \in Of("main")} = {"main" : i \in Of("main")}
      BY <2>4
    <3> QED BY <3>1, <3>2, <3>3, <3>4
  <2>6. \A i \in FunctionsOf : LocalsOf(i, Len(ast[i].body)) = {d.name : d \in DeclaredIn(ast[i].body)}
    BY DEF LocalsOf, DeclaredIn, Members
  <2>7. \A i \in Of("func") : ParamsOf(i, Len(ast[i].args)) = {a.name : a \in Members(ast[i].args)}
    BY DEF ParamsOf, Members
  <2>8. \A i \in Of("func") :
         /\ DOMAIN functions[ast[i].name].params = {a.name : a \in Members(ast[i].args)}
         /\ DOMAIN functions[ast[i].name].locals = {d.name : d \in DeclaredIn(ast[i].body)}
    BY <2>1, <2>2, <2>3, <2>6, <2>7 DEF FramesSeen
  <2>9. \A i \in Of("main") :
         DOMAIN functions["main"].locals = {d.name : d \in DeclaredIn(ast[i].body)}
    BY <2>1, <2>2, <2>4, <2>6 DEF FramesSeen
  <2> QED BY <2>5, <2>8, <2>9 DEF FramesMatchDeclarations
<1> QED BY <1>1, FramesInvHolds, PTL

-----------------------------------------------------------------------------
(* What the generator finds in the records.                                *)

\* A quadword has the type int, and int is no type of the program.
IntInv ==
  /\ Len(types) \in Nat \ {0, 1} /\ types[2] = Sized(QWORD)
  /\ "int" \in DOMAIN typeIDs /\ typeIDs["int"] = 1

LEMMA IntSteps ==
  ASSUME TypesOK, TypesSeen, IntInv, Next
  PROVE  IntInv'
<1>1. CASE UNCHANGED <<types, typeIDs>>
  BY <1>1 DEF IntInv
<1>2. CASE AddType
  <2> DEFINE n == Len(types)
  <2>1. /\ types' = Append(types, newType) /\ typeIDs' = Assign(typeIDs, Current.name, n)
        /\ phase = "attributes"
    BY <1>2 DEF AddType, Running
  <2>2. Current.name # "int"
    BY <2>1 DEF TypesSeen, KnownAt
  <2>3. n \in Nat \ {0, 1} /\ types = [i \in 1..n |-> types[i]]
    BY DEF IntInv, TypesOK, SizesOK
  <2> HIDE DEF n
  <2>4. /\ Len(types') = n + 1
        /\ types' = [i \in 1..(n + 1) |-> IF i = n + 1 THEN newType ELSE types[i]]
    BY <2>1, <2>3, AppendToStack
  <2>5. types'[2] = types[2] /\ Len(types') \in Nat \ {0, 1}
    BY <2>3, <2>4
  <2> QED BY <2>1, <2>2, <2>5 DEF IntInv, Assign
<1> QED
  BY <1>1, <1>2
     DEF Next, Throw, SkipInTypes, GenerateType, GenerateTypeTwice, GenerateAttribute,
         GenerateAttributeUnknown, TypesEnd, NoEntryPoint, PassFunc, PassFuncTwice, PassParam,
         PassParamUnknown, RegisterFunc, PassMain, PassMainTwice, PassDecl, PassDeclUnknown,
         PassExpression, SkipItem, EndBody, FunctionsEnd

\* The names of variables that statement s declares, and that program p declares anywhere.
NamesAt(s) ==
  CASE s.k = "decl" -> {s.name}
    [] s.k = "func" -> {s.args[j].name : j \in 1..Len(s.args)}
                         \cup {d.name : d \in DeclaredIn(s.body)}
    [] s.k = "main" -> {d.name : d \in DeclaredIn(s.body)}
    [] OTHER -> {}
NamesIn(p) == UNION {NamesAt(p[i]) : i \in 1..Len(p)}

\* A frame: locals are on the stack, all parameters in RDI.
InRDI == [reg |-> "RDI", disp |-> 0]
OnTheStack(place) == place \in [reg : {"RSP"}, disp : Nat]

HasPlaces(info, names) ==
  /\ OnTheStack(info.stack)
  /\ \A x \in DOMAIN info.locals : OnTheStack(info.locals[x].location)
  /\ \A x \in DOMAIN info.params : info.params[x].location = InRDI
  /\ DOMAIN info.locals \cup DOMAIN info.params \subseteq names

PlacesInv ==
  /\ phase = "params" => HasPlaces(newFunc, NamesIn(ast))
  /\ \A f \in DOMAIN functions \ {""} : HasPlaces(functions[f], NamesIn(ast))

LEMMA NamesOfItems ==
  ASSUME PlaceInv
  PROVE  /\ phase = "params" /\ sub <= Len(Current.args) => Current.args[sub].name \in NamesIn(ast)
         /\ InBody \/ (phase = "functions" /\ pos <= Len(ast)) =>
              (Item.k = "decl" => Item.name \in NamesIn(ast))
<1>1. \A i \in 1..Len(ast) : NamesAt(ast[i]) \subseteq NamesIn(ast)
  BY DEF NamesIn
<1>2. pos <= Len(ast) => pos \in 1..Len(ast)
  BY PlaceFacts
<1>3. ASSUME phase = "params", sub <= Len(Current.args)
      PROVE  Current.args[sub].name \in NamesIn(ast)
  <2>0. pos \in 1..Len(ast) /\ Current.k = "func"
    BY <1>2, <1>3 DEF PlaceInv
  <2>1. sub \in 1..Len(Current.args)
    <3>1. Len(Current.args) \in Nat /\ sub \in Nat \ {0}
      BY <1>3, PlaceFacts
    <3> QED BY <1>3, <3>1
  <2>2. Current.args[sub].name \in NamesAt(ast[pos])
    BY <2>0, <2>1 DEF Current, NamesAt
  <2> QED BY <1>1, <2>0, <2>2
<1>4. ASSUME InBody, Item.k = "decl"
      PROVE  Item.name \in NamesIn(ast)
  <2>1. /\ pos \in 1..Len(ast) /\ Current.k \in {"func", "main"} /\ sub \in 1..Len(Current.body)
        /\ Item = Current.body[sub]
    BY <1>2, <1>4, PlaceFacts DEF PlaceInv, InBody, Running, Item
  <2>2. Item \in DeclaredIn(ast[pos].body)
    BY <1>4, <2>1 DEF DeclaredIn, Members, Current
  <2>3. Item.name \in NamesAt(ast[pos])
    BY <2>1, <2>2 DEF Current, NamesAt
  <2> QED BY <1>1, <2>1, <2>3
<1>5. ASSUME phase = "functions", pos <= Len(ast), Item.k = "decl"
      PROVE  Item.name \in NamesIn(ast)
  <2>1. pos \in 1..Len(ast) /\ Item = ast[pos]
    BY <1>2, <1>5 DEF Item, Current
  <2>2. Item.name \in NamesAt(ast[pos])
    BY <1>5, <2>1 DEF NamesAt
  <2> QED BY <1>1, <2>1, <2>2
<1> QED BY <1>3, <1>4, <1>5

LEMMA FreshPlaces == \A names : HasPlaces(FreshInfo("RSP"), names)
<1>1. \A x \in DOMAIN <<>> : FALSE
  OBVIOUS
<1> QED BY <1>1 DEF HasPlaces, OnTheStack, FreshInfo

\* A parameter comes in RDI, and the frame stays as it was.
LEMMA ParamInRDI ==
  ASSUME TypesOK, InfoOK(types, newFunc), PassParam
  PROVE  \E name, param :
           /\ name = Current.args[sub].name /\ param.location = InRDI
           /\ param.type = typeIDs[Current.args[sub].type] /\ sub <= Len(Current.args)
           /\ newFunc'.params = Assign(newFunc.params, name, param)
           /\ newFunc'.locals = newFunc.locals /\ newFunc'.stack = newFunc.stack
           /\ newFunc'.size = newFunc.size
<1> DEFINE a == Current.args[sub]
           param == VariableAt(typeIDs[a.type], InRDI)
           params == Assign(newFunc.params, a.name, param)
           with == [newFunc EXCEPT !.params = params]
<1>1. parameter_reg(paramIndex) = "RDI"
  BY DEF parameter_reg, paramIndex, ParameterRegs
<1>2. newFunc' = with
  BY <1>1 DEF PassParam, VariableAt, InRDI
<1>3. param.location = InRDI /\ param.type = typeIDs[a.type] /\ sub <= Len(Current.args)
  BY DEF VariableAt, PassParam
<1> HIDE DEF param, a, params
<1>4. /\ with.params = params /\ with.locals = newFunc.locals
      /\ with.stack = newFunc.stack /\ with.size = newFunc.size
  BY FieldsOfExcept
<1> HIDE DEF with
<1> WITNESS a.name, param
<1> QED BY <1>2, <1>3, <1>4 DEF params, a

\* A declaration moves the end of the frame.
LEMMA StackOfWithLocal ==
  \A ts, info, name, id, bytes : InfoOK(ts, info) /\ bytes \in Nat =>
    /\ OnTheStack(info.stack) => OnTheStack(WithLocal(info, name, id, bytes).stack)
    /\ WithLocal(info, name, id, bytes).size = info.size + bytes
<1> SUFFICES ASSUME NEW ts, NEW info, NEW name, NEW id, NEW bytes, InfoOK(ts, info), bytes \in Nat
             PROVE  /\ OnTheStack(info.stack) =>
                         OnTheStack(WithLocal(info, name, id, bytes).stack)
                    /\ WithLocal(info, name, id, bytes).size = info.size + bytes
  OBVIOUS
<1> DEFINE locals == Assign(info.locals, name, VariableAt(id, info.stack))
           mid == [info EXCEPT !.locals = locals]
<1>1. WithLocal(info, name, id, bytes) = Grow(mid, bytes)
  BY DEF WithLocal, VariableAt
<1> HIDE DEF locals
<1>2. DOMAIN mid = DOMAIN info /\ mid.stack = info.stack /\ mid.size = info.size
  BY FieldsOfExcept
<1> HIDE DEF mid
<1>3. /\ Grow(mid, bytes).size = info.size + bytes
      /\ Grow(mid, bytes).stack = [info.stack EXCEPT !.disp = @ + bytes]
  BY <1>2 DEF InfoOK, Grow
<1>4. OnTheStack(info.stack) => OnTheStack([info.stack EXCEPT !.disp = @ + bytes])
  BY DEF OnTheStack
<1> QED BY <1>1, <1>3, <1>4

LEMMA PlacesSteps ==
  ASSUME TInv, PlaceInv, NamesSeen, PlacesInv, Next
  PROVE  PlacesInv'
<1>a. NamesIn(ast)' = NamesIn(ast)
  BY ProgramKept DEF NamesIn, NamesAt, DeclaredIn, Members
<1>b. /\ TypesOK /\ InfoOK(types, newFunc) /\ \A name : InfoOK(types, Info(name))
  BY FreshInfoOK DEF TInv, FInv, FramesOK, Info
<1> DEFINE names == NamesIn(ast)
<1> HIDE DEF names
<1>c. PlacesInv' <=> /\ phase' = "params" => HasPlaces(newFunc', names)
                     /\ \A f \in DOMAIN functions' \ {""} : HasPlaces(functions'[f], names)
  BY <1>a DEF PlacesInv, names
<1>d. \A f \in DOMAIN functions \ {""} : HasPlaces(functions[f], names)
  BY DEF PlacesInv, names
<1>1. ASSUME UNCHANGED functions, phase' # "params"
      PROVE  PlacesInv'
  BY <1>1, <1>c, <1>d
<1>2. ASSUME NEW f, NEW info, functions' = Assign(functions, f, info),
             f # "" => HasPlaces(info, names), phase' # "params"
      PROVE  PlacesInv'
  BY <1>2, <1>c, <1>d DEF Assign
<1>3. CASE PassFunc
  BY <1>3, <1>c, <1>d, FreshPlaces DEF PassFunc
<1>4. CASE PassParam
  <2>1. phase = "params" /\ sub <= Len(Current.args)
    BY <1>4 DEF PassParam, Running
  <2>2. PICK name, param :
           /\ name = Current.args[sub].name /\ param.location = InRDI
           /\ newFunc'.params = Assign(newFunc.params, name, param)
           /\ newFunc'.locals = newFunc.locals /\ newFunc'.stack = newFunc.stack
    BY <1>4, <1>b, ParamInRDI
  <2>3. name \in names
    BY <2>1, <2>2, NamesOfItems DEF names
  <2>4. HasPlaces(newFunc, names)
    BY <2>1 DEF PlacesInv, names
  <2>5. HasPlaces(newFunc', names)
    BY <2>2, <2>3, <2>4 DEF HasPlaces, Assign
  <2> QED BY <1>4, <1>c, <1>d, <2>5 DEF PassParam
<1>5. CASE RegisterFunc
  BY <1>2, <1>5 DEF RegisterFunc, Running, PlacesInv, names
<1>6. CASE PassMain
  BY <1>2, <1>6, FreshPlaces DEF PassMain
<1>7. ASSUME AtItem({"decl"}) \/ AtItem(Evaluating) \/ CallIsPassed
      PROVE  /\ phase \in {"body", "functions"}
             /\ currFunc # "" => currFunc \in DOMAIN functions /\ HasPlaces(Info(currFunc), names)
  <2>1. phase = "body" \/ (phase = "functions" /\ pos <= Len(ast))
    BY <1>7 DEF AtItem, InBody, AtStatement, Running, CallIsPassed
  <2>2. currFunc # "" => \E i \in Registered : currFunc = NameAt(i)
    <3>1. phase = "body" => pos \in Registered
      BY PlaceFacts DEF PlaceInv, Registered, FunctionsOf, Of, Current
    <3> QED BY <2>1, <3>1 DEF NamesSeen
  <2>3. {NameAt(i) : i \in Registered} \subseteq DOMAIN functions
    BY DEF NamesSeen
  <2>4. currFunc # "" => currFunc \in DOMAIN functions
    BY <2>2, <2>3
  <2> QED BY <1>d, <2>1, <2>4 DEF Info
<1>8. CASE PassDecl
  <2> DEFINE id == typeIDs[Item.type]
             old == Info(currFunc)
             bytes == Bytes(types, id)
             added == WithLocal(old, Item.name, id, bytes)
  <2>1. functions' = Assign(functions, currFunc, added) /\ AtItem({"decl"}) /\ phase' = phase
    BY <1>8 DEF PassDecl, WithLocal, TypeOf, Bytes
  <2>2. Item.name \in names
    BY <2>1, NamesOfItems DEF AtItem, AtStatement, InBody, Running, Item, names
  <2>3. bytes \in Nat /\ InfoOK(types, old)
    BY <1>b, <1>8 DEF PassDecl, TypesOK, SizesOK
  <2>4. currFunc # "" => HasPlaces(old, names)
    BY <1>7, <2>1
  <2> HIDE DEF bytes, id, old
  <2>5. ASSUME currFunc # "" PROVE HasPlaces(added, names)
    <3>1. /\ added.params = old.params
          /\ added.locals = Assign(old.locals, Item.name, VariableAt(id, old.stack))
          /\ OnTheStack(old.stack) => OnTheStack(added.stack)
      BY <2>3, FieldsOfWithLocal, StackOfWithLocal
    <3>2. VariableAt(id, old.stack).location = old.stack
      BY DEF VariableAt
    <3> HIDE DEF added, VariableAt
    <3> QED BY <2>2, <2>4, <2>5, <3>1, <3>2 DEF HasPlaces, Assign
  <2> HIDE DEF added
  <2> QED BY <1>2, <1>7, <2>1, <2>5
<1>9. CASE PassDeclUnknown
  <2>1. /\ functions' = Assign(functions, currFunc, Info(currFunc))
        /\ AtItem({"decl"}) /\ phase' = phase
    BY <1>9 DEF PassDeclUnknown
  <2> QED BY <1>2, <1>7, <2>1
<1>10. CASE PassExpression
  <2> DEFINE marked == [Info(currFunc) EXCEPT !.dirty = TRUE]
  <2>1. functions' = Assign(functions, currFunc, marked) /\ phase' = phase
    BY <1>10 DEF PassExpression
  <2>2. /\ marked.params = Info(currFunc).params /\ marked.locals = Info(currFunc).locals
        /\ marked.stack = Info(currFunc).stack
    BY <1>b, FieldsOfExcept
  <2> HIDE DEF marked
  <2>3. currFunc # "" => HasPlaces(marked, names)
    BY <1>7, <1>10, <2>2 DEF PassExpression, HasPlaces
  <2> QED BY <1>2, <1>7, <1>10, <2>1, <2>3 DEF PassExpression
<1>11. CASE SkipItem
  BY <1>1, <1>11 DEF SkipItem, InBody, AtStatement, Running
<1>12. CASE SkipInTypes \/ GenerateType \/ GenerateAttribute \/ AddType \/ TypesEnd
            \/ EndBody \/ FunctionsEnd
  BY <1>1, <1>12 DEF SkipInTypes, GenerateType, GenerateAttribute, AddType, TypesEnd, EndBody,
                     FunctionsEnd, AtType, Running
<1>13. CASE GenerateTypeTwice \/ GenerateAttributeUnknown \/ NoEntryPoint \/ PassFuncTwice
            \/ PassParamUnknown \/ PassMainTwice
  BY <1>13, <1>a DEF GenerateTypeTwice, GenerateAttributeUnknown, NoEntryPoint, PassFuncTwice,
                     PassParamUnknown, PassMainTwice, Throw, PlacesInv
<1> QED
  BY <1>3, <1>4, <1>5, <1>6, <1>8, <1>9, <1>10, <1>11, <1>12, <1>13 DEF Next

-----------------------------------------------------------------------------
(* Frames of quadwords.                                                    *)

\* Variables are declared in bodies only, once in each, and have one quadword, as have
\* parameters.
QuadsOnly ==
  /\ DeclaredIn(ast) = {}
  /\ \A i \in Of("func") : \A j \in 1..Len(ast[i].args) : ast[i].args[j].type = "int"
  /\ \A i \in FunctionsOf : \A j \in 1..Len(ast[i].body) : ast[i].body[j].k = "decl" =>
       /\ ast[i].body[j].type = "int"
       /\ \A k \in 1..Len(ast[i].body) :
            ast[i].body[k].k = "decl" /\ ast[i].body[k].name = ast[i].body[j].name => k = j

\* A frame that has one quadword for each local.
Filled(info) ==
  /\ IsFiniteSet(DOMAIN info.locals)
  /\ info.size = QWORD * Cardinality(DOMAIN info.locals)
  /\ \A x \in DOMAIN info.locals : info.locals[x].type = 1
  /\ \A x \in DOMAIN info.params : info.params[x].type = 1

QuadsInv ==
  thrown = "none" /\ QuadsOnly =>
    /\ \A i \in Registered : Filled(functions[NameAt(i)])
    /\ phase = "params" => Filled(newFunc)

LEMMA FreshFilled == \A r : Filled(FreshInfo(r))
<1>1. DOMAIN <<>> = {}
  OBVIOUS
<1>2. IsFiniteSet({}) /\ Cardinality({}) = 0
  BY FS_EmptySet
<1> QED BY <1>1, <1>2 DEF Filled, FreshInfo, QWORD

LEMMA OneMoreQuad ==
  \A ts, info, name : InfoOK(ts, info) /\ Filled(info) /\ name \notin DOMAIN info.locals =>
    Filled(WithLocal(info, name, 1, QWORD))
<1> SUFFICES ASSUME NEW ts, NEW info, NEW name,
                    InfoOK(ts, info), Filled(info), name \notin DOMAIN info.locals
             PROVE  Filled(WithLocal(info, name, 1, QWORD))
  OBVIOUS
<1> DEFINE more == WithLocal(info, name, 1, QWORD)
           variable == VariableAt(1, info.stack)
           n == Cardinality(DOMAIN info.locals)
<1>1. more.locals = Assign(info.locals, name, variable) /\ more.size = info.size + QWORD
  <2>1. QWORD \in Nat
    BY DEF QWORD
  <2> QED BY <2>1, FieldsOfWithLocal, StackOfWithLocal
<1>2. variable.type = 1
  BY DEF VariableAt
<1> HIDE DEF more, variable
<1>3. DOMAIN more.locals = DOMAIN info.locals \cup {name}
  BY <1>1 DEF Assign
<1>4. /\ IsFiniteSet(DOMAIN more.locals) /\ Cardinality(DOMAIN more.locals) = n + 1
      /\ n \in Nat
  BY <1>3, FS_AddElement, FS_CardinalityType DEF Filled
<1>5. more.size = QWORD * Cardinality(DOMAIN more.locals)
  <2>1. info.size = QWORD * n
    BY DEF Filled
  <2> QED BY <1>1, <1>4, <2>1 DEF QWORD
<1>6. \A x \in DOMAIN more.locals : more.locals[x].type = 1
  BY <1>1, <1>2 DEF Filled, Assign
<1>7. more.params = info.params
  <2>1. QWORD \in Nat
    BY DEF QWORD
  <2> QED BY <2>1, FieldsOfWithLocal DEF more
<1> QED BY <1>4, <1>5, <1>6, <1>7 DEF Filled, more

LEMMA QuadsSteps ==
  ASSUME TInv, PlaceInv, NamesSeen, NamesSeen', FramesSeen, IntInv, QuadsInv, QuadsOnly, Next,
         thrown' = "none"
  PROVE  QuadsInv'
<1>a. ast' = ast /\ (\A i : NameAt(i)' = NameAt(i)) /\ FunctionsOf' = FunctionsOf
  BY ProgramKept, ReadingsKept
<1>b. /\ TypesOK /\ InfoOK(types, newFunc) /\ \A name : InfoOK(types, Info(name))
      /\ sub \in Nat \ {0}
  BY FreshInfoOK, PlaceFacts DEF TInv, FInv, FramesOK, Info
<1>c. QuadsInv' <=> /\ \A i \in Registered' : Filled(functions'[NameAt(i)])
                    /\ phase' = "params" => Filled(newFunc')
  <2>1. QuadsOnly' = QuadsOnly
    BY <1>a, ReadingsKept DEF QuadsOnly, DeclaredIn, Members
  <2>2. (\A i \in Registered : Filled(functions[NameAt(i)]))'
          <=> \A i \in Registered' : Filled(functions'[NameAt(i)])
    <3>1. (\A i \in Registered : Filled(functions[NameAt(i)]))'
            <=> \A i \in Registered' : Filled(functions'[NameAt(i)'])
      BY DEF Filled
    <3> QED BY <1>a, <3>1
  <2>3. Filled(newFunc)' <=> Filled(newFunc')
    BY DEF Filled
  <2> QED BY <2>1, <2>2, <2>3 DEF QuadsInv
<1>d. /\ \A i \in Registered : Filled(functions[NameAt(i)])
      /\ phase = "params" => Filled(newFunc)
  BY NothingAfterThrow DEF QuadsInv
<1>e. /\ {NameAt(i) : i \in Registered} \subseteq DOMAIN functions
      /\ \A i \in Registered : NameAt(i) \in DOMAIN functions /\ NameAt(i) # ""
  <2>1. {NameAt(i) : i \in Registered} \subseteq DOMAIN functions \ {""}
    BY DEF NamesSeen
  <2> QED BY <2>1
<1>f. \A i, j \in Registered' : NameAt(i) = NameAt(j) => i = j
  <2>1. (\A i, j \in Registered : NameAt(i) = NameAt(j) => i = j)'
    BY DEF NamesSeen
  <2> QED BY <1>a, <2>1
<1>1. CASE SkipInTypes \/ GenerateType \/ GenerateAttribute \/ AddType \/ TypesEnd
           \/ EndBody \/ FunctionsEnd
  <2>1. phase' # "params" /\ UNCHANGED functions
    BY <1>1 DEF SkipInTypes, GenerateType, GenerateAttribute, AddType, TypesEnd, EndBody,
                FunctionsEnd, AtType, Running
  <2> QED BY <1>1, <1>a, <1>c, <1>d, <2>1, RegisteredKept
<1>2. CASE PassFunc
  BY <1>2, <1>a, <1>c, <1>d, FreshFilled, RegisteredKept DEF PassFunc
<1>3. CASE PassParam
  <2>1. phase = "params" /\ UNCHANGED functions
    BY <1>3 DEF PassParam, Running
  <2>2. PICK name, param :
          /\ param.type = typeIDs[Current.args[sub].type] /\ sub <= Len(Current.args)
          /\ newFunc'.params = Assign(newFunc.params, name, param)
          /\ newFunc'.locals = newFunc.locals /\ newFunc'.size = newFunc.size
    BY <1>3, <1>b, ParamInRDI
  <2>4. param.type = 1
    <3>1. pos \in Of("func")
      BY <2>1, PlaceFacts DEF PlaceInv, Of, Current
    <3>2. sub \in 1..Len(Current.args)
      <4>1. Len(Current.args) \in Nat /\ sub \in Nat \ {0}
        BY <2>1, PlaceFacts
      <4> QED BY <2>2, <4>1
    <3>3. Current.args[sub].type = "int"
      BY <3>1, <3>2 DEF QuadsOnly, Current
    <3> QED BY <2>2, <3>3 DEF IntInv
  <2>3. Filled(newFunc')
    <3>1. \A x \in DOMAIN newFunc'.params : newFunc'.params[x].type = 1
      BY <1>d, <2>1, <2>2, <2>4 DEF Filled, Assign
    <3> QED BY <1>d, <2>1, <2>2, <3>1 DEF Filled
  <2> QED BY <1>3, <1>a, <1>c, <1>d, <2>1, <2>3, RegisteredKept
<1>4. CASE RegisterFunc \/ PassMain
  <2>1. /\ Registered' = Registered \cup {pos} /\ phase' = "body" /\ pos \notin Registered
    BY <1>4, <1>a, RegisteredMore
  <2>2. PICK info : functions' = Assign(functions, NameAt(pos), info) /\ Filled(info)
    <3>1. CASE RegisterFunc
      <4>1. NameAt(pos) = Current.name /\ phase = "params"
        BY <3>1 DEF RegisterFunc, Running, PlaceInv, NameAt, Current
      <4> QED BY <3>1, <4>1, <1>d DEF RegisterFunc
    <3>2. CASE PassMain
      <4>1. NameAt(pos) = "main"
        BY <3>2 DEF PassMain, AtStatement, NameAt, Current
      <4> QED BY <3>2, <4>1, FreshFilled DEF PassMain
    <3> QED BY <1>4, <3>1, <3>2
  <2>3. \A i \in Registered : NameAt(i) # NameAt(pos)
    BY <1>f, <2>1
  <2>4. /\ functions'[NameAt(pos)] = info
        /\ \A i \in Registered : functions'[NameAt(i)] = functions[NameAt(i)]
    BY <1>e, <2>2, <2>3 DEF Assign
  <2> QED BY <1>c, <1>d, <2>1, <2>2, <2>4
<1>5. ASSUME PassDecl \/ PassExpression \/ SkipItem
      PROVE  QuadsInv'
  <2>1. ItemPassed
    BY <1>5, ItemSteps
  <2>2. /\ Registered' = Registered /\ phase' = phase /\ phase \in {"body", "functions"}
    BY <2>1, <1>a, RegisteredKept DEF ItemPassed, InBody, Running
  <2>3. ASSUME NEW info, functions' = Assign(functions, currFunc, info),
               currFunc \in DOMAIN functions /\ Filled(functions[currFunc]) => Filled(info)
        PROVE  QuadsInv'
    <3>1. \A i \in Registered : Filled(functions'[NameAt(i)])
      BY <1>d, <1>e, <2>3 DEF Assign
    <3> QED BY <1>c, <2>2, <3>1
  <2>4. CASE PassDecl
    <3> DEFINE added == WithLocal(Info(currFunc), Item.name, typeIDs[Item.type], Bytes(types, typeIDs[Item.type]))
    <3>1. functions' = Assign(functions, currFunc, added) /\ Item.k = "decl"
      BY <2>4 DEF PassDecl, WithLocal, TypeOf, Bytes, AtItem, InBody, AtStatement, Running, Item
    <3>2. phase = "body" /\ sub \in 1..Len(Current.body) /\ Item = ast[pos].body[sub]
          /\ pos \in FunctionsOf
      <4>1. phase # "functions"
        <5> SUFFICES ASSUME phase = "functions" PROVE FALSE
          OBVIOUS
        <5>1. Item = Current /\ pos <= Len(ast)
          BY <2>1 DEF ItemPassed, InBody, Running, Item
        <5> QED BY <3>1, <5>1, PlaceFacts DEF QuadsOnly, DeclaredIn, Members, Current
      <4>2. phase = "body" /\ sub <= Len(Current.body) /\ Item = Current.body[sub]
        BY <2>1, <2>2, <4>1 DEF ItemPassed, InBody, Item
      <4>3. sub \in 1..Len(Current.body)
        <5>1. Len(Current.body) \in Nat
          BY <4>2, PlaceFacts
        <5> QED BY <1>b, <4>2, <5>1
      <4>4. pos \in FunctionsOf
        BY <4>2, PlaceFacts DEF PlaceInv, FunctionsOf, Of, Current
      <4> QED BY <4>2, <4>3, <4>4 DEF Current
    <3>3. Item.type = "int" /\ typeIDs[Item.type] = 1 /\ Bytes(types, 1) = QWORD
      <4>1. Item.type = "int"
        BY <3>1, <3>2 DEF QuadsOnly, Current
      <4>2. Sized(QWORD).size = QWORD
        BY DEF Sized
      <4> QED BY <4>1, <4>2 DEF IntInv, Bytes
    <3>4. currFunc = NameAt(pos) /\ pos \in Registered
      BY <3>2 DEF NamesSeen, Registered
    <3>5. Item.name \notin DOMAIN functions[currFunc].locals
      <4>1. DOMAIN functions[currFunc].locals = LocalsOf(pos, sub - 1)
        BY <3>2, <3>4 DEF FramesSeen, BodySeen
      <4>2. \A j \in 1..(sub - 1) : j \in 1..Len(Current.body) /\ j # sub
        BY <3>2, <1>b
      <4>3. \A j \in 1..(sub - 1) : ast[pos].body[j].k = "decl" => ast[pos].body[j].name # Item.name
        BY <3>1, <3>2, <4>2 DEF QuadsOnly, Current
      <4> QED BY <4>1, <4>3 DEF LocalsOf
    <3>6. Info(currFunc) = functions[currFunc] /\ InfoOK(types, functions[currFunc])
      BY <1>b, <1>e, <3>4 DEF Info
    <3>7. added = WithLocal(functions[currFunc], Item.name, 1, QWORD)
      BY <3>3, <3>6
    <3> HIDE DEF added
    <3>8. Filled(functions[currFunc]) => Filled(added)
      BY <3>5, <3>6, <3>7, OneMoreQuad
    <3> QED BY <2>3, <3>1, <3>8
  <2>5. CASE PassExpression
    <3> DEFINE marked == [Info(currFunc) EXCEPT !.dirty = TRUE]
    <3>1. functions' = Assign(functions, currFunc, marked)
      BY <2>5 DEF PassExpression
    <3>2. /\ marked.locals = Info(currFunc).locals /\ marked.size = Info(currFunc).size
          /\ marked.params = Info(currFunc).params
      BY <1>b, FieldsOfExcept
    <3> HIDE DEF marked
    <3>3. currFunc \in DOMAIN functions /\ Filled(functions[currFunc]) => Filled(marked)
      BY <3>2 DEF Filled, Info
    <3> QED BY <2>3, <3>1, <3>3
  <2>6. CASE SkipItem
    BY <2>2, <2>6, <1>c, <1>d DEF SkipItem
  <2> QED BY <1>5, <2>4, <2>5, <2>6
<1> QED
  BY <1>1, <1>2, <1>3, <1>4, <1>5
     DEF Next, Throw, GenerateTypeTwice, GenerateAttributeUnknown, NoEntryPoint,
         PassFuncTwice, PassParamUnknown, PassMainTwice, PassDeclUnknown

-----------------------------------------------------------------------------
(* All of it.                                                              *)

PassesInv ==
  /\ TInv /\ PlaceInv /\ AcceptInv /\ FramesInv /\ PlacesInv /\ QuadsInv
  /\ IntInv

LEMMA PassesAtFirst ==
  ASSUME Init
  PROVE  PassesInv
<1>1. TInv /\ PlaceInv /\ AcceptInv
  BY TInvAtFirst, AcceptAtFirst
<1>2. phase = "types" /\ functions = <<>> /\ FunctionsUpTo = 1 /\ Len(ast) \in Nat
  BY <1>1, PlaceFacts DEF Init, FunctionsUpTo, InTypes
<1>3. Registered = {}
  BY <1>2 DEF Registered, FunctionsOf, Of
<1>4. FramesInv
  BY <1>2, <1>3 DEF FramesInv, FramesSeen
<1>5. PlacesInv
  <2>1. \A x \in DOMAIN <<>> : FALSE
    OBVIOUS
  <2> QED BY <1>2, <2>1 DEF PlacesInv
<1>6. QuadsInv
  BY <1>2, <1>3 DEF QuadsInv
<1>7. IntInv
  <2>1. \A x, y : Len(<<x, y>>) = 2 /\ <<x, y>>[2] = y
    OBVIOUS
  <2>2. types = <<Sized(0), Sized(QWORD)>>
    BY DEF Init
  <2> HIDE DEF Sized
  <2>3. Len(types) = 2 /\ types[2] = Sized(QWORD)
    BY <2>1, <2>2
  <2>4. Len(types) \in Nat \ {0, 1}
    BY <2>3
  <2>5. "int" \in DOMAIN typeIDs /\ typeIDs["int"] = 1
    <3>1. typeIDs = [name \in {"none", "int"} |-> IF name = "none" THEN 0 ELSE 1]
      BY DEF Init
    <3> QED BY <3>1
  <2> QED BY <2>3, <2>4, <2>5 DEF IntInv
<1> QED BY <1>1, <1>4, <1>5, <1>6, <1>7 DEF PassesInv

LEMMA PassesSteps ==
  ASSUME PassesInv, Next
  PROVE  PlacesInv' /\ IntInv' /\ FramesInv' /\ QuadsInv'
<1>1. /\ TInv /\ PlaceInv /\ AcceptInv /\ FramesInv /\ PlacesInv /\ QuadsInv /\ IntInv
      /\ TypesSeen /\ NamesSeen /\ TypesOK
  BY NothingAfterThrow DEF PassesInv, AcceptInv, TInv, FInv
<1>2. TInv' /\ PlaceInv' /\ AcceptInv'
  BY <1>1, TInvSteps, PlaceSteps, AcceptSteps
<1>3. PlacesInv' /\ IntInv'
  BY <1>1, PlacesSteps, IntSteps
<1>4. DeclaredIn(ast)' = DeclaredIn(ast) /\ QuadsOnly' = QuadsOnly
  BY ProgramKept, ReadingsKept DEF QuadsOnly, DeclaredIn, Members
<1>5. ASSUME thrown' = "none", DeclaredIn(ast) = {}
      PROVE  FramesSeen /\ FramesSeen'
  BY <1>1, <1>2, <1>5, NothingAfterThrow, FramesSeenSteps DEF FramesInv, AcceptInv
<1>6. FramesInv'
  BY <1>4, <1>5 DEF FramesInv
<1>7. QuadsInv'
  <2>1. CASE thrown' = "none" /\ QuadsOnly
    BY <1>1, <1>2, <1>5, <2>1, QuadsSteps DEF AcceptInv, QuadsOnly
  <2>2. CASE thrown' # "none" \/ ~QuadsOnly
    BY <1>4, <2>2 DEF QuadsInv
  <2> QED BY <2>1, <2>2
<1> QED BY <1>3, <1>6, <1>7

LEMMA PassesKept ==
  ASSUME PassesInv, [Next]_vars
  PROVE  PassesInv'
<1>1. TInv' /\ PlaceInv' /\ AcceptInv'
  BY TInvSteps, PlaceSteps, AcceptSteps DEF PassesInv
<1>2. CASE Next
  BY <1>1, <1>2, PassesSteps DEF PassesInv
<1>3. CASE UNCHANGED vars
  <2>1. DeclaredIn(ast)' = DeclaredIn(ast) /\ NamesIn(ast)' = NamesIn(ast)
        /\ QuadsOnly' = QuadsOnly /\ Registered' = Registered
    BY <1>3 DEF vars, DeclaredIn, Members, NamesIn, NamesAt, QuadsOnly, Registered, FunctionsOf,
                Of, FunctionsUpTo, InTypes
  <2>2. FramesSeen' = FramesSeen
    BY <1>3 DEF vars, FramesSeen, Registered, FunctionsOf, Of, FunctionsUpTo, InTypes, Current,
                BodySeen, NameAt, LocalsOf, ParamsOf
  <2>3. PlacesInv' /\ IntInv'
    BY <1>3, <2>1 DEF vars, PassesInv, PlacesInv, IntInv
  <2>4. FramesInv'
    BY <1>3, <2>1, <2>2 DEF vars, PassesInv, FramesInv
  <2>5. QuadsInv'
    BY <1>3, <2>1 DEF vars, PassesInv, QuadsInv, NameAt
  <2> QED BY <1>1, <2>3, <2>4, <2>5 DEF PassesInv
<1> QED BY <1>2, <1>3

\* A function whose frame is as in Filled, and where its variables are.
FrameRecorded(info, names) ==
  /\ HasPlaces(info, names)
  /\ info.dirty \in BOOLEAN
  /\ \A x \in DOMAIN info.params : info.params[x].type \in Ids
  /\ \A x \in DOMAIN info.locals :
       /\ info.locals[x].type \in Ids
       /\ info.locals[x].location.disp + SizeOf(info.locals[x].type) <= info.size

\* What is on record when both passes are through.
Recorded ==
  /\ IntInv
  /\ DOMAIN typeIDs = AllTypes
  /\ \A name \in DOMAIN typeIDs : typeIDs[name] \in Ids
  /\ "main" \in DOMAIN functions
  /\ \A f \in DOMAIN functions \ {""} : FrameRecorded(functions[f], NamesIn(ast))
  /\ DOMAIN functions \ {""} = {NameAt(i) : i \in FunctionsOf}
  /\ DeclaredIn(ast) = {} =>
       \A i \in FunctionsOf :
         /\ DOMAIN functions[NameAt(i)].locals = LocalsOf(i, Len(ast[i].body))
         /\ ast[i].k = "func" =>
              DOMAIN functions[NameAt(i)].params = ParamsOf(i, Len(ast[i].args))
  /\ QuadsOnly => \A i \in FunctionsOf : Filled(functions[NameAt(i)])

LEMMA RecordedAtEnd ==
  ASSUME PassesInv, phase = "done"
  PROVE  Recorded /\ thrown = "none"
<1>1. /\ TInv /\ PlaceInv /\ PlacesInv /\ IntInv /\ thrown = "none"
      /\ TypesSeen /\ NamesSeen /\ VariablesSeen
      /\ DeclaredIn(ast) = {} => FramesSeen
      /\ QuadsOnly => \A i \in Registered : Filled(functions[NameAt(i)])
  BY DEF PassesInv, AcceptInv, FramesInv, QuadsInv
<1>2. Registered = FunctionsOf /\ \A i \in FunctionsOf : BodySeen(i) = Len(ast[i].body)
  BY <1>1, PlaceFacts DEF PlaceInv, Registered, FunctionsUpTo, InTypes, FunctionsOf, Of, BodySeen
<1>3. "main" \in DOMAIN functions
  <2>1. PICK i \in Of("main") : TRUE
    BY <1>1 DEF TypesSeen, InTypes
  <2>2. i \in FunctionsOf /\ NameAt(i) = "main"
    BY <1>1, <2>1, NamesOfFunctions DEF FunctionsOf
  <2>3. {NameAt(j) : j \in FunctionsOf} \subseteq DOMAIN functions
    BY <1>1, <1>2 DEF NamesSeen
  <2> QED BY <2>2, <2>3
<1>4. ASSUME NEW f \in DOMAIN functions \ {""}
      PROVE  FrameRecorded(functions[f], NamesIn(ast))
  <2> DEFINE info == functions[f]
             names == NamesIn(ast)
  <2>1. HasPlaces(info, names)
    BY <1>1 DEF PlacesInv
  <2>2. InfoOK(types, info) /\ HeaderOK(types, info)
    BY <1>1 DEF TInv, FInv, FramesOK, HeadersInv
  <2> HIDE DEF info, names
  <2>3. FrameRecorded(info, names)
    BY <2>1, <2>2 DEF FrameRecorded, InfoOK, LocalOK, HeaderOK, Ids, IdsOf, SizeOf, Bytes
  <2> QED BY <2>3 DEF info, names
<1>5. \A name \in DOMAIN typeIDs : typeIDs[name] \in Ids
  BY <1>1 DEF TInv, FInv, TypesOK, Ids, IdsOf
<1>6. DOMAIN typeIDs = AllTypes
  BY <1>1 DEF TypesSeen, TypesUpTo, InTypes, AllTypes
<1>7. DeclaredIn(ast) = {} =>
       \A i \in FunctionsOf :
         /\ DOMAIN functions[NameAt(i)].locals = LocalsOf(i, Len(ast[i].body))
         /\ ast[i].k = "func" =>
              DOMAIN functions[NameAt(i)].params = ParamsOf(i, Len(ast[i].args))
  BY <1>1, <1>2 DEF FramesSeen
<1> QED BY <1>1, <1>2, <1>3, <1>4, <1>5, <1>6, <1>7 DEF Recorded, NamesSeen

=============================================================================
