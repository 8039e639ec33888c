---------------------------- MODULE ExecutionProofs ----------------------------
(***************************************************************************)
(* For every program: what the generator holds has its type (TypeOK); and  *)
(* for the programs each is about, the Context in a body is that of the    *)
(* function (ContextIsTheFunctions), stores hit the frame                  *)
(* (StoresStayInFrame), what is supported is generated                     *)
(* (SupportedGenerates), and when it runs, every RET finds the address     *)
(* that its own CALL has pushed (ReturnsBalanced).                         *)
(*                                                                         *)
(* The first pass comes from FirstPassAcceptance: when it is through, its  *)
(* records are Recorded, and they stay so.  Where the generator is in a    *)
(* structured program is told by how much of todo is left of the function  *)
(* at hand (Left) and by the number of that function (Here).  On top of    *)
(* that, WhereInv says whose the Context is, StoreInv that the code and    *)
(* the Context fit the last frame pushed, and PromiseInv that the          *)
(* functions up to Here are known and have set the flag as they should.    *)
(*                                                                         *)
(* The machine needs a fact about the text it runs: it is cut into the     *)
(* regions of the functions, each with its frame pushed first and popped   *)
(* before each RET, and no jump leaves a region (ClosedInv).  FramesInv    *)
(* then says that every active call left its return address where its      *)
(* frame begins, and that control is in the function of the last one.      *)
(***************************************************************************)
EXTENDS Execution, GeneratorProofs

-----------------------------------------------------------------------------
(* Variables in order.                                                     *)

LEMMA PositionIn ==
  \A s, x : (\E i \in 1..Len(s) : s[i] = x) =>
    Position(s, x) \in 1..Len(s) /\ s[Position(s, x)] = x
BY DEF Position

LEMMA PositionOf ==
  \A x \in VariableNames : /\ Position(NameOrder, x) \in 1..Len(NameOrder)
                           /\ NameOrder[Position(NameOrder, x)] = x
BY PositionIn DEF VariableNames

LEMMA SameInterval == \A a, b \in Nat : 1..a = 1..b => a = b
<1> SUFFICES ASSUME NEW a \in Nat, NEW b \in Nat, 1..a = 1..b PROVE a = b
  OBVIOUS
<1>1. a \in 1..a \/ a = 0
  OBVIOUS
<1>2. b \in 1..b \/ b = 0
  OBVIOUS
<1> QED BY <1>1, <1>2

\* Sequence s has the elements of the finite set T, each at one place.
Lists(s, T) ==
  /\ IsFiniteSet(T) /\ Len(s) = Cardinality(T) /\ Cardinality(T) \in Nat
  /\ DOMAIN s = 1..Len(s)
  /\ \A i \in 1..Len(s) : s[i] \in T
  /\ \A x \in T : \E i \in 1..Len(s) : s[i] = x

\* std::map goes through all of its keys.
LEMMA InOrderLists == \A T \in SUBSET VariableNames : Lists(InOrder(T), T)
<1> SUFFICES ASSUME NEW T \in SUBSET VariableNames PROVE Lists(InOrder(T), T)
  OBVIOUS
<1> DEFINE n == Len(NameOrder)
           P(x) == Position(NameOrder, x)
           m == Cardinality(T)
           Less(x) == {y \in T : P(y) < P(x)}
           r == [x \in T |-> Cardinality(Less(x)) + 1]
<1>1. n \in Nat /\ \A x \in T : P(x) \in 1..n /\ NameOrder[P(x)] = x
  BY NamesAssumption, PositionOf
<1>2. \A x, y \in T : P(x) = P(y) => x = y
  BY <1>1
<1> HIDE DEF n, P
<1>3. IsFiniteSet(T)
  <2> DEFINE g == [x \in T |-> P(x)]
  <2>1. g \in Injection(T, 1..n)
    BY <1>1, <1>2 DEF Injection, IsInjective
  <2>2. IsFiniteSet(1..n)
    BY <1>1, FS_Interval
  <2> HIDE DEF g
  <2> QED BY <2>1, <2>2, FS_Injection
<1>4. m \in Nat
  BY <1>3, FS_CardinalityType
<1>5. ASSUME NEW x \in T
      PROVE  /\ IsFiniteSet(Less(x)) /\ Cardinality(Less(x)) \in Nat
             /\ Cardinality(Less(x)) + 1 \in 1..m
  <2>1. x \notin Less(x) /\ Less(x) \in SUBSET (T \ {x}) /\ Less(x) \in SUBSET T
    BY <1>1
  <2> HIDE DEF Less
  <2>2. IsFiniteSet(T \ {x}) /\ Cardinality(T \ {x}) = m - 1
    BY <1>3, FS_RemoveElement
  <2>3. IsFiniteSet(Less(x)) /\ Cardinality(Less(x)) <= m - 1
    BY <2>1, <2>2, FS_Subset
  <2>4. Cardinality(Less(x)) \in Nat
    BY <2>3, FS_CardinalityType
  <2> HIDE DEF m
  <2> QED BY <1>4, <2>3, <2>4
<1>6. ASSUME NEW x \in T, NEW y \in T, P(x) < P(y)
      PROVE  Cardinality(Less(x)) < Cardinality(Less(y))
  <2>1. /\ P(x) \in Nat /\ P(y) \in Nat /\ \A z \in T : P(z) \in Nat
    BY <1>1
  <2>2. Less(x) \in SUBSET Less(y) /\ x \in Less(y) /\ x \notin Less(x)
    BY <1>6, <2>1
  <2>3. Less(x) # Less(y)
    BY <2>2
  <2> HIDE DEF Less
  <2>4. Cardinality(Less(x)) <= Cardinality(Less(y)) /\ Cardinality(Less(x)) # Cardinality(Less(y))
    BY <1>5, <2>2, <2>3, FS_Subset
  <2> QED BY <1>5, <2>4
<1> HIDE DEF Less, m
<1>7. r \in Injection(T, 1..m)
  <2>1. r \in [T -> 1..m]
    BY <1>5
  <2>2. ASSUME NEW x \in T, NEW y \in T, r[x] = r[y] PROVE x = y
    <3>1. Cardinality(Less(x)) = Cardinality(Less(y))
      <4>1. Cardinality(Less(x)) + 1 = Cardinality(Less(y)) + 1
        BY <2>2
      <4> QED BY <4>1, <1>5
    <3>2. P(x) \in Nat /\ P(y) \in Nat
      BY <1>1
    <3>3. ~(P(x) < P(y)) /\ ~(P(y) < P(x))
      BY <1>5, <1>6, <3>1
    <3> QED BY <1>2, <3>2, <3>3
  <2> QED BY <2>1, <2>2 DEF Injection, IsInjective
<1>8. r \in Surjection(T, 1..m)
  <2>1. IsFiniteSet(1..m) /\ Cardinality(1..m) = m
    BY <1>4, FS_Interval
  <2> HIDE DEF r
  <2> QED BY <1>7, <2>1, FS_Injection DEF m
<1> DEFINE s == [i \in 1..m |-> CHOOSE x \in T : r[x] = i]
           Sorted(q) == \A i, j \in DOMAIN q : i < j => P(q[i]) < P(q[j])
<1>9. s \in [1..m -> T] /\ \A i \in 1..m : r[s[i]] = i
  <2>1. \A i \in 1..m : \E x \in T : r[x] = i
    BY <1>8 DEF Surjection
  <2> HIDE DEF r
  <2> QED BY <2>1
<1>10. Sorted(s)
  <2> SUFFICES ASSUME NEW i \in 1..m, NEW j \in 1..m, i < j PROVE P(s[i]) < P(s[j])
    BY <1>9
  <2>1. s[i] \in T /\ s[j] \in T /\ r[s[i]] = i /\ r[s[j]] = j
    BY <1>9
  <2> HIDE DEF s
  <2>2. Cardinality(Less(s[i])) + 1 = i /\ Cardinality(Less(s[j])) + 1 = j
    BY <2>1
  <2>3. s[i] # s[j] /\ ~(P(s[j]) < P(s[i]))
    BY <1>5, <1>6, <2>1, <2>2
  <2>4. P(s[i]) # P(s[j]) /\ P(s[i]) \in Nat /\ P(s[j]) \in Nat
    BY <1>1, <1>2, <2>1, <2>3
  <2> QED BY <2>3, <2>4
<1> DEFINE o == InOrder(T)
<1>11. o \in [1..m -> T] /\ Sorted(o)
  <2> HIDE DEF s
  <2>1. o = CHOOSE q \in [1..m -> T] : Sorted(q)
    BY DEF InOrder, m, P
  <2> HIDE DEF o, Sorted
  <2> QED BY <1>9, <1>10, <2>1
<1> HIDE DEF o, r, s
<1>12. o \in Injection(1..m, T)
  <2>1. ASSUME NEW i \in 1..m, NEW j \in 1..m, o[i] = o[j] PROVE i = j
    <3>1. o[i] \in T /\ o[j] \in T /\ P(o[i]) \in Nat
      BY <1>1, <1>11
    <3>2. i \in Nat /\ j \in Nat /\ DOMAIN o = 1..m
      BY <1>4, <1>11
    <3>3. ~(i < j) /\ ~(j < i)
      BY <1>11, <2>1, <3>1, <3>2
    <3> QED BY <3>2, <3>3
  <2> QED BY <1>11, <2>1 DEF Injection, IsInjective
<1>13. o \in Surjection(1..m, T)
  <2>1. IsFiniteSet(1..m) /\ Cardinality(1..m) = m
    BY <1>4, FS_Interval
  <2> QED BY <1>3, <1>12, <2>1, FS_Injection DEF m
<1>14. Len(o) = m /\ DOMAIN o = 1..m
  <2>1. o \in Seq(T)
    BY <1>4, <1>11, SeqDef
  <2>2. DOMAIN o = 1..Len(o) /\ DOMAIN o = 1..m /\ Len(o) \in Nat
    BY <1>11, <2>1, LenProperties
  <2> QED BY <1>4, <2>2, SameInterval
<1>15. \A x \in T : \E i \in 1..m : o[i] = x
  BY <1>13 DEF Surjection
<1> QED BY <1>3, <1>4, <1>11, <1>14, <1>15 DEF Lists, m, o

-----------------------------------------------------------------------------
(* The first pass, with what is proved of it.                              *)

P == INSTANCE FirstPassAcceptance

\* What the pass assumes of the programs is so.

LEMMA ProgramsFit == P!ProgramsAssumption
<1> SUFFICES ASSUME NEW p \in Programs
             PROVE
    /\ Len(p) \in Nat
    /\ \A i \in 1..Len(p) :
         /\ p[i].k = "type" => Len(p[i].attrs) \in Nat
         /\ p[i].k = "func" => /\ Len(p[i].args) \in Nat /\ Len(p[i].body) \in Nat
                              /\ p[i].name \notin {"", "main"}
         /\ p[i].k = "main" => Len(p[i].body) \in Nat
  BY DEF P!ProgramsAssumption
<1>1. p \in Seq(Statements)
  BY StatementsAssumption
<1>2. Len(p) \in Nat /\ \A i \in 1..Len(p) : p[i] \in Statements
  BY <1>1, ElementOfSeq, LenProperties
<1>3. ASSUME NEW s \in Statements, s.k \in {"func", "main"}
      PROVE  Len(s.body) \in Nat
  BY <1>3, Bodies, LenProperties
<1>4. \A s \in Statements : /\ s.k = "type" => Len(s.attrs) \in Nat
                            /\ s.k = "func" => Len(s.args) \in Nat /\ s.name \notin {"", "main"}
  BY StatementsAssumption
<1> QED BY <1>2, <1>3, <1>4

LEMMA RecordedNow == P!PassesInv /\ phase = "done" => P!Recorded
BY ProgramsFit, P!RecordedAtEnd

LEMMA RecordedNext == (P!PassesInv /\ phase = "done" => P!Recorded)'
BY RecordedNow, PTL

LEMMA PassesStep == ASSUME P!PassesInv, [P!Next]_(P!vars) PROVE P!PassesInv'
BY ProgramsFit, P!PassesKept

\* The generator's first pass is that one.
LEMMA SameStart == FP!Init => P!Init
BY DEF FP!Init, P!Init, FP!Sized, P!Sized, FP!FreshInfo, P!FreshInfo, FP!QWORD, P!QWORD

LEMMA SamePasses == FP!Next => P!Next
<1>1. FP!SkipInTypes => P!SkipInTypes
  BY DEF FP!SkipInTypes, P!SkipInTypes, FP!Current, P!Current, FP!Running, P!Running
<1>2. FP!GenerateType => P!GenerateType
  BY DEF FP!GenerateType, P!GenerateType, FP!AtType, P!AtType, FP!Current, P!Current,
         FP!QWORD, P!QWORD, FP!Running, P!Running, FP!Sized, P!Sized
<1>3. FP!GenerateTypeTwice => P!GenerateTypeTwice
  BY DEF FP!GenerateTypeTwice, P!GenerateTypeTwice, FP!AtType, P!AtType, FP!Current, P!Current,
         FP!Running, P!Running, FP!Throw, P!Throw
<1>4. FP!GenerateAttribute => P!GenerateAttribute
  BY DEF FP!GenerateAttribute, P!GenerateAttribute, FP!Assign, P!Assign, FP!Current, P!Current,
         FP!Running, P!Running, FP!TypeOf, P!TypeOf
<1>5. FP!GenerateAttributeUnknown => P!GenerateAttributeUnknown
  BY DEF FP!GenerateAttributeUnknown, P!GenerateAttributeUnknown, FP!Current, P!Current,
         FP!Running, P!Running, FP!Throw, P!Throw
<1>6. FP!AddType => P!AddType
  BY DEF FP!AddType, P!AddType, FP!Assign, P!Assign, FP!Current, P!Current,
         FP!Running, P!Running
<1>7. FP!TypesEnd => P!TypesEnd
  BY DEF FP!TypesEnd, P!TypesEnd, FP!Running, P!Running
<1>8. FP!NoEntryPoint => P!NoEntryPoint
  BY DEF FP!NoEntryPoint, P!NoEntryPoint, FP!Running, P!Running, FP!Throw, P!Throw
<1>9. FP!PassFunc => P!PassFunc
  BY DEF FP!PassFunc, P!PassFunc, FP!AtStatement, P!AtStatement, FP!Current, P!Current,
         FP!FreshInfo, P!FreshInfo, FP!Running, P!Running
<1>10. FP!PassFuncTwice => P!PassFuncTwice
  BY DEF FP!PassFuncTwice, P!PassFuncTwice, FP!AtStatement, P!AtStatement,
         FP!Current, P!Current, FP!Running, P!Running, FP!Throw, P!Throw
<1>11. FP!PassParam => P!PassParam
  BY DEF FP!PassParam, P!PassParam, FP!Assign, P!Assign, FP!Current, P!Current,
         FP!Grow, P!Grow, FP!ParameterRegs, P!ParameterRegs, FP!Running, P!Running,
         FP!TypeOf, P!TypeOf, FP!paramIndex, P!paramIndex, FP!parameter_reg, P!parameter_reg
<1>12. FP!PassParamUnknown => P!PassParamUnknown
  BY DEF FP!PassParamUnknown, P!PassParamUnknown, FP!Current, P!Current, FP!Running, P!Running,
         FP!Throw, P!Throw
<1>13. FP!RegisterFunc => P!RegisterFunc
  BY DEF FP!RegisterFunc, P!RegisterFunc, FP!Assign, P!Assign, FP!Current, P!Current,
         FP!Running, P!Running
<1>14. FP!PassMain => P!PassMain
  BY DEF FP!PassMain, P!PassMain, FP!Assign, P!Assign, FP!AtStatement, P!AtStatement,
         FP!Current, P!Current, FP!FreshInfo, P!FreshInfo, FP!Running, P!Running
<1>15. FP!PassMainTwice => P!PassMainTwice
  BY DEF FP!PassMainTwice, P!PassMainTwice, FP!AtStatement, P!AtStatement,
         FP!Current, P!Current, FP!Running, P!Running, FP!Throw, P!Throw
<1>16. FP!PassDecl => P!PassDecl
  BY DEF FP!PassDecl, P!PassDecl, FP!Assign, P!Assign, FP!AtItem, P!AtItem,
         FP!AtStatement, P!AtStatement, FP!Current, P!Current, FP!FreshInfo, P!FreshInfo,
         FP!Grow, P!Grow, FP!InBody, P!InBody, FP!Info, P!Info, FP!Item, P!Item,
         FP!NextItem, P!NextItem, FP!Running, P!Running, FP!TypeOf, P!TypeOf
<1>17. FP!PassDeclUnknown => P!PassDeclUnknown
  BY DEF FP!PassDeclUnknown, P!PassDeclUnknown, FP!Assign, P!Assign, FP!AtItem, P!AtItem,
         FP!AtStatement, P!AtStatement, FP!Current, P!Current, FP!FreshInfo, P!FreshInfo,
         FP!InBody, P!InBody, FP!Info, P!Info, FP!Item, P!Item, FP!Running, P!Running
<1>18. FP!PassExpression => P!PassExpression
  BY DEF FP!PassExpression, P!PassExpression, FP!Assign, P!Assign, FP!AtItem, P!AtItem,
         FP!AtStatement, P!AtStatement, FP!CallIsPassed, P!CallIsPassed, FP!Current, P!Current,
         FP!Evaluating, P!Evaluating, FP!FreshInfo, P!FreshInfo, FP!InBody, P!InBody,
         FP!Info, P!Info, FP!Item, P!Item, FP!NextItem, P!NextItem, FP!Running, P!Running
<1>19. FP!SkipItem => P!SkipItem
  BY DEF FP!SkipItem, P!SkipItem, FP!AtStatement, P!AtStatement,
         FP!CallIsPassed, P!CallIsPassed, FP!Current, P!Current, FP!Evaluating, P!Evaluating,
         FP!InBody, P!InBody, FP!Item, P!Item, FP!NextItem, P!NextItem, FP!Running, P!Running
<1>20. FP!EndBody => P!EndBody
  BY DEF FP!EndBody, P!EndBody, FP!Current, P!Current, FP!Running, P!Running
<1>21. FP!FunctionsEnd => P!FunctionsEnd
  BY DEF FP!FunctionsEnd, P!FunctionsEnd, FP!Running, P!Running
<1> QED
  BY <1>1, <1>2, <1>3, <1>4, <1>5, <1>6, <1>7, <1>8, <1>9, <1>10, <1>11, <1>12, <1>13, <1>14, <1>15, <1>16, <1>17, <1>18, <1>19, <1>20, <1>21 DEF FP!Next, P!Next

\* Before the passes are through the generator has done nothing.
Untouched ==
  /\ todo = ast /\ contexts = << <<>> >> /\ currentFunction = <<>> /\ generated = <<>>
  /\ exprInReg = FALSE /\ code = <<>> /\ output = "empty"

Composed == IF phase = "done" THEN P!Recorded ELSE Untouched /\ P!PassesInv

LEMMA ComposedAtFirst == ASSUME Init PROVE Composed
<1>1. phase # "done" /\ Untouched
  BY DEF Init, FP!Init, Untouched
<1>2. P!PassesInv
  BY SameStart, ProgramsFit, P!PassesAtFirst DEF Init
<1> QED BY <1>1, <1>2 DEF Composed

LEMMA PassesRunFirst == Passes => phase # "done"
BY DEF Passes, FP!Next, FP!Running, FP!AtType, FP!AtStatement, FP!InBody, FP!AtItem, FP!CallIsPassed,
   FP!SkipInTypes, FP!GenerateType, FP!GenerateTypeTwice,
   FP!GenerateAttribute, FP!GenerateAttributeUnknown, FP!AddType,
   FP!TypesEnd, FP!NoEntryPoint,
   FP!PassFunc, FP!PassFuncTwice, FP!PassParam, FP!PassParamUnknown, FP!RegisterFunc,
   FP!PassMain, FP!PassMainTwice,
   FP!PassDecl, FP!PassDeclUnknown, FP!PassExpression, FP!SkipItem,
   FP!EndBody, FP!FunctionsEnd

LEMMA GeneratesLast == Generate => phase = "done" /\ UNCHANGED passVars
BY DEF Generate, At, Undefined, ValueThrows, DeclThrows, AssignThrows, FuncThrows, Throw, Write,
       GenDecl, GenAssign, GenMain, EndMain, GenFunc, EndFunc, GenCall, GenReturn, GenExit,
       GenIf, GenElse, EndIf, GenWhile, Loop, GenAsm, SkipType

\* The records do not change any more.
LEMMA RecordedStays == ASSUME P!Recorded, UNCHANGED passVars PROVE P!Recorded'
<1>1. /\ P!IntInv' = P!IntInv /\ P!AllTypes' = P!AllTypes /\ P!FunctionsOf' = P!FunctionsOf
      /\ P!NamesIn(ast)' = P!NamesIn(ast) /\ P!DeclaredIn(ast)' = P!DeclaredIn(ast)
      /\ \A i, n : P!LocalsOf(i, n)' = P!LocalsOf(i, n) /\ P!ParamsOf(i, n)' = P!ParamsOf(i, n)
      /\ \A i : P!NameAt(i)' = P!NameAt(i)
      /\ P!Ids' = P!Ids /\ \A id : P!SizeOf(id)' = P!SizeOf(id)
  BY DEF passVars, P!IntInv, P!AllTypes, P!KnownAt, P!Of, P!FunctionsOf, P!NamesIn, P!NamesAt,
         P!DeclaredIn, P!Members, P!LocalsOf, P!ParamsOf, P!NameAt, P!Ids, P!SizeOf
<1>2. P!QuadsOnly' = P!QuadsOnly
  BY <1>1 DEF passVars, P!QuadsOnly, P!FunctionsOf, P!Of
<1>3. \A info, names : P!FrameRecorded(info, names)' = P!FrameRecorded(info, names)
  BY <1>1 DEF P!FrameRecorded
<1>4. functions' = functions /\ typeIDs' = typeIDs /\ ast' = ast
  BY DEF passVars
<1>5. \A f : P!FrameRecorded(functions[f], P!NamesIn(ast)) =>
            P!FrameRecorded(functions[f], P!NamesIn(ast))'
  BY <1>1, <1>3, <1>4
<1> QED BY <1>1, <1>2, <1>4, <1>5 DEF P!Recorded

LEMMA ComposedStep == ASSUME Composed, [Next]_vars PROVE Composed'
<1>1. CASE Passes
  <2>1. phase # "done" /\ Untouched /\ P!PassesInv /\ UNCHANGED genVars
    BY <1>1, PassesRunFirst DEF Composed, Passes
  <2>2. P!PassesInv'
    BY <1>1, <2>1, SamePasses, PassesStep DEF Passes
  <2>3. Untouched'
    BY <1>1, <2>1, AstStays DEF Untouched, genVars, Next
  <2> QED BY <2>2, <2>3, RecordedNext DEF Composed
<1>2. CASE Generate
  BY <1>2, GeneratesLast, RecordedStays DEF Composed, passVars
<1>3. CASE UNCHANGED vars
  <2>1. CASE phase = "done"
    BY <1>3, <2>1, RecordedStays DEF Composed, vars, passVars
  <2>2. CASE phase # "done"
    <3>1. UNCHANGED P!vars
      BY <1>3 DEF vars, passVars, P!vars
    <3>2. P!PassesInv'
      BY <2>2, <3>1, PassesStep DEF Composed
    <3>3. Untouched'
      BY <1>3, <2>2 DEF Composed, Untouched, vars, passVars, genVars
    <3> QED BY <1>3, <2>2, <3>2, <3>3 DEF Composed, vars, passVars
  <2> QED BY <2>1, <2>2
<1> QED BY <1>1, <1>2, <1>3 DEF Next

\* Every variable of the program has its place in NameOrder.
LEMMA NamesCovered == ast \in Programs => P!NamesIn(ast) \subseteq VariableNames
<1> SUFFICES ASSUME ast \in Programs, NEW i \in 1..Len(ast), NEW x \in P!NamesAt(ast[i])
             PROVE  x \in VariableNames
  BY DEF P!NamesIn
<1>1. ast \in Seq(Statements)
  BY StatementsAssumption
<1>2. ast[i] \in Statements
  BY <1>1, ElementOfSeq
<1> DEFINE s == ast[i]
<1>3. s \in Statements /\ x \in P!NamesAt(s)
  BY <1>2
<1> HIDE DEF s
<1>4. ASSUME NEW b \in Seq(Statements), NEW d \in P!DeclaredIn(b) PROVE d.name \in VariableNames
  <2>1. d \in Statements /\ d.k = "decl"
    BY <1>4, ElementOfSeq DEF P!DeclaredIn, P!Members
  <2> QED BY <2>1, NamesAssumption
<1>5. CASE s.k = "decl"
  BY <1>3, <1>5, NamesAssumption DEF P!NamesAt
<1>6. CASE s.k = "func"
  <2>1. s.body \in Seq(Statements)
    BY <1>3, <1>6, Bodies
  <2>2. x \in {s.args[j].name : j \in 1..Len(s.args)} \cup {d.name : d \in P!DeclaredIn(s.body)}
    BY <1>3, <1>6 DEF P!NamesAt
  <2> QED BY <1>3, <1>4, <1>6, <2>1, <2>2, NamesAssumption
<1>7. CASE s.k = "main"
  <2>1. s.body \in Seq(Statements)
    BY <1>3, <1>7, Bodies
  <2>2. x \in {d.name : d \in P!DeclaredIn(s.body)}
    BY <1>3, <1>7 DEF P!NamesAt
  <2> QED BY <1>4, <2>1, <2>2
<1>8. CASE s.k \notin {"decl", "func", "main"}
  BY <1>3, <1>8 DEF P!NamesAt
<1> QED BY <1>5, <1>6, <1>7, <1>8

-----------------------------------------------------------------------------
(* The Context of a function.                                              *)

Spots == [reg : {"RSP", "RDI"}, disp : Int]
ContextOK(c) == \A x \in DOMAIN c : c[x] \in [type : FP!Ids, location : Spots]

\* The quadwords that enter_context pushes.
FrameSize(f) == Len(Saved(f)) + Len(Zeroed(f))

SpotsFit(c, size) ==
  \A x \in DOMAIN c : c[x].location.reg = "RSP" => c[x].location.disp \in 0..QWORD * (size - 1)

LEMMA FrameFacts ==
  ASSUME P!IntInv, NEW f, NEW names \in SUBSET VariableNames,
         P!FrameRecorded(functions[f], names)
  PROVE  /\ Len(Saved(f)) \in Nat /\ Len(Zeroed(f)) = Cardinality(DOMAIN functions[f].locals)
         /\ Len(Zeroed(f)) \in Nat
         /\ DOMAIN FrameOf(f) = DOMAIN functions[f].params \cup DOMAIN functions[f].locals
         /\ ContextOK(FrameOf(f)) /\ SpotsFit(FrameOf(f), FrameSize(f))
<1> DEFINE info == functions[f]
           params == DOMAIN info.params
           locals == DOMAIN info.locals
           r == RegParams(f)
           v == Saved(f)
           z == Zeroed(f)
<1>1. /\ params \subseteq VariableNames /\ locals \subseteq VariableNames
      /\ \A x \in params : info.params[x].location = P!InRDI /\ info.params[x].type \in FP!Ids
      /\ \A x \in locals : info.locals[x].type \in FP!Ids
  BY DEF P!FrameRecorded, P!HasPlaces, FP!Ids, P!Ids
<1>2. Lists(r, params)
  <2>1. {x \in params : info.params[x].location.reg # "RSP"} = params
    BY <1>1 DEF P!InRDI
  <2> QED BY <1>1, <2>1, InOrderLists DEF RegParams
<1>3. Lists(z, locals)
  BY <1>1, InOrderLists DEF Zeroed
<1>4. /\ Len(z) = Cardinality(locals) /\ Len(z) \in Nat
      /\ Len(v) \in Nat /\ (v = r \/ (v = <<>> /\ ~info.dirty)) /\ Len(r) \in Nat
      /\ (info.dirty => v = r)
  BY <1>2, <1>3 DEF Lists, Saved
<1>5. {r[i] : i \in 1..Len(r)} = params
  BY <1>2 DEF Lists
<1>6. DOMAIN FrameOf(f) = params \cup locals
  BY <1>5 DEF FrameOf
<1> DEFINE slot(i) == [reg |-> "RSP", disp |-> QWORD * (Len(v) + Len(z) - i)]
<1>7. \A x \in locals : FrameOf(f)[x] = [type |-> info.locals[x].type,
                                         location |-> slot(Len(v) + Position(z, x))]
  BY <1>6 DEF FrameOf
<1>8. \A x \in params \ locals : info.dirty =>
        FrameOf(f)[x] = [type |-> info.params[x].type, location |-> slot(Position(v, x))]
  BY <1>6 DEF FrameOf
<1>9. \A x \in params \ locals : ~info.dirty =>
        FrameOf(f)[x] = [type |-> 0, location |-> [P!InRDI EXCEPT !.disp = QWORD * Len(z)]]
  BY <1>1, <1>6 DEF FrameOf
<1>10. 0 \in FP!Ids
  BY DEF P!IntInv, FP!Ids
<1>11. \A x \in locals : Position(z, x) \in 1..Len(z)
  BY <1>3, PositionIn DEF Lists
<1>12. \A x \in params : info.dirty => Position(v, x) \in 1..Len(v)
  BY <1>2, <1>4, PositionIn DEF Lists
<1>13. ASSUME NEW i \in 1..(Len(v) + Len(z))
       PROVE  slot(i) \in Spots /\ slot(i).reg = "RSP" /\ slot(i).disp \in 0..QWORD * (Len(v) + Len(z) - 1)
  BY <1>4, <1>13 DEF QWORD, Spots
<1>14. ASSUME NEW x \in params \cup locals
       PROVE  /\ FrameOf(f)[x] \in [type : FP!Ids, location : Spots]
              /\ FrameOf(f)[x].location.reg = "RSP" =>
                   FrameOf(f)[x].location.disp \in 0..QWORD * (Len(v) + Len(z) - 1)
  <2>1. CASE x \in locals
    <3>1. Len(v) + Position(z, x) \in 1..(Len(v) + Len(z))
      BY <1>4, <1>11, <2>1
    <3>2. FrameOf(f)[x] = [type |-> info.locals[x].type, location |-> slot(Len(v) + Position(z, x))]
      BY <1>7, <2>1
    <3>3. info.locals[x].type \in FP!Ids
      BY <1>1, <2>1
    <3> HIDE DEF slot
    <3> QED BY <1>13, <3>1, <3>2, <3>3
  <2>2. CASE x \notin locals /\ info.dirty
    <3>1. Position(v, x) \in 1..(Len(v) + Len(z))
      BY <1>4, <1>12, <2>2
    <3>2. FrameOf(f)[x] = [type |-> info.params[x].type, location |-> slot(Position(v, x))]
      BY <1>8, <2>2
    <3>3. info.params[x].type \in FP!Ids
      BY <1>1, <2>2
    <3> HIDE DEF slot
    <3> QED BY <1>13, <3>1, <3>2, <3>3
  <2>3. CASE x \notin locals /\ ~info.dirty
    <3> DEFINE place == [P!InRDI EXCEPT !.disp = QWORD * Len(z)]
    <3>1. place \in Spots /\ place.reg # "RSP"
      BY <1>4 DEF P!InRDI, Spots, QWORD
    <3>2. FrameOf(f)[x] = [type |-> 0, location |-> place]
      BY <1>9, <2>3
    <3> HIDE DEF place
    <3> QED BY <1>10, <3>1, <3>2
  <2> QED BY <2>1, <2>2, <2>3
<1> HIDE DEF slot
<1>15. ContextOK(FrameOf(f)) /\ SpotsFit(FrameOf(f), FrameSize(f))
  BY <1>6, <1>14 DEF ContextOK, SpotsFit, FrameSize
<1> QED BY <1>4, <1>6, <1>15

-----------------------------------------------------------------------------
(* The instructions of a step.                                             *)

Kinds == {"label", "eval", "mov", "push", "call", "pop", "store", "return", "exit", "je", "jmp",
          "asm"}

\* Those that move the stack under the frame's feet.
Moving == {"push", "pop"}

OpsIn(c)    == {c[i].op : i \in 1..Len(c)}
StoresIn(c) == {c[i].arg : i \in {i \in 1..Len(c) : c[i].op = "store"}}

\* Instructions that push no frame, store at these places only, and move the stack in these ways.
Emission(d, places, pops) ==
  IsStack(d) /\ OpsIn(d) \subseteq Kinds /\ StoresIn(d) \subseteq places
  /\ OpsIn(d) \cap Moving = pops

LEMMA OpsJoined ==
  \A c, d : IsStack(c) /\ IsStack(d) =>
    /\ IsStack(c \o d)
    /\ OpsIn(c \o d) = OpsIn(c) \cup OpsIn(d)
    /\ StoresIn(c \o d) = StoresIn(c) \cup StoresIn(d)
<1> SUFFICES ASSUME NEW c, NEW d, IsStack(c), IsStack(d)
             PROVE  /\ IsStack(c \o d)
                    /\ OpsIn(c \o d) = OpsIn(c) \cup OpsIn(d)
                    /\ StoresIn(c \o d) = StoresIn(c) \cup StoresIn(d)
  OBVIOUS
<1> DEFINE e == c \o d
<1>1. /\ IsStack(e) /\ Len(c) \in Nat /\ Len(d) \in Nat /\ Len(e) = Len(c) + Len(d)
      /\ \A i \in 1..Len(c) : e[i] = c[i]
      /\ \A i \in 1..Len(d) : e[Len(c) + i] = d[i]
  BY JoinedAt
<1> HIDE DEF e
<1>2. \A i \in 1..Len(e) :
        \/ i \in 1..Len(c) /\ e[i] = c[i]
        \/ \E j \in 1..Len(d) : i = Len(c) + j /\ e[i] = d[j]
  <2> SUFFICES ASSUME NEW i \in 1..Len(e), i \notin 1..Len(c)
               PROVE  \E j \in 1..Len(d) : i = Len(c) + j /\ e[i] = d[j]
    BY <1>1
  <2>1. i - Len(c) \in 1..Len(d) /\ i = Len(c) + (i - Len(c))
    BY <1>1
  <2> QED BY <1>1, <2>1
<1>3. /\ \A i \in 1..Len(c) : i \in 1..Len(e)
      /\ \A j \in 1..Len(d) : Len(c) + j \in 1..Len(e)
  BY <1>1
<1>4. OpsIn(e) = OpsIn(c) \cup OpsIn(d)
  <2>1. \A i \in 1..Len(e) : e[i].op \in OpsIn(c) \cup OpsIn(d)
    BY <1>2 DEF OpsIn
  <2>2. \A i \in 1..Len(c) : c[i].op \in OpsIn(e)
    BY <1>1, <1>3 DEF OpsIn
  <2>3. \A j \in 1..Len(d) : d[j].op \in OpsIn(e)
    <3> SUFFICES ASSUME NEW j \in 1..Len(d) PROVE d[j].op \in OpsIn(e)
      OBVIOUS
    <3>1. Len(c) + j \in 1..Len(e) /\ e[Len(c) + j] = d[j]
      BY <1>1, <1>3
    <3> QED BY <3>1 DEF OpsIn
  <2> QED BY <2>1, <2>2, <2>3 DEF OpsIn
<1>5. StoresIn(e) = StoresIn(c) \cup StoresIn(d)
  <2>1. \A i \in 1..Len(e) : e[i].op = "store" => e[i].arg \in StoresIn(c) \cup StoresIn(d)
    BY <1>2 DEF StoresIn
  <2>2. \A i \in 1..Len(c) : c[i].op = "store" => c[i].arg \in StoresIn(e)
    BY <1>1, <1>3 DEF StoresIn
  <2>3. \A j \in 1..Len(d) : d[j].op = "store" => d[j].arg \in StoresIn(e)
    <3> SUFFICES ASSUME NEW j \in 1..Len(d), d[j].op = "store" PROVE d[j].arg \in StoresIn(e)
      OBVIOUS
    <3>1. Len(c) + j \in 1..Len(e) /\ e[Len(c) + j] = d[j]
      BY <1>1, <1>3
    <3> QED BY <3>1 DEF StoresIn
  <2> QED BY <2>1, <2>2, <2>3 DEF StoresIn
<1> QED BY <1>1, <1>4, <1>5 DEF e

LEMMA EmitJoined ==
  \A c, d, p, q, a, b : Emission(c, p, a) /\ Emission(d, q, b) =>
    Emission(c \o d, p \cup q, a \cup b)
<1> SUFFICES ASSUME NEW c, NEW d, NEW p, NEW q, NEW a, NEW b,
                    Emission(c, p, a), Emission(d, q, b)
             PROVE  Emission(c \o d, p \cup q, a \cup b)
  OBVIOUS
<1> DEFINE e == c \o d
<1>1. IsStack(c) /\ IsStack(d)
  BY DEF Emission
<1>2. /\ IsStack(e) /\ OpsIn(e) = OpsIn(c) \cup OpsIn(d)
      /\ StoresIn(e) = StoresIn(c) \cup StoresIn(d)
  BY <1>1, OpsJoined
<1> HIDE DEF e
<1>3. OpsIn(e) \subseteq Kinds /\ StoresIn(e) \subseteq p \cup q /\ OpsIn(e) \cap Moving = a \cup b
  BY <1>2 DEF Emission
<1>4. Emission(e, p \cup q, a \cup b)
  BY <1>2, <1>3 DEF Emission
<1> QED BY <1>4 DEF e

LEMMA EmitNothing == Emission(<<>>, {}, {})
<1>1. IsStack(<<>>) /\ \A i : i \notin 1..Len(<<>>)
  BY Nothing
<1> QED BY <1>1 DEF Emission, OpsIn, StoresIn

LEMMA EmitOne ==
  \A op, arg, rest, awaited : op \in Kinds =>
    Emission(<<Instr(op, arg, rest, awaited)>>, IF op = "store" THEN {arg} ELSE {},
             IF op \in Moving THEN {op} ELSE {})
<1> SUFFICES ASSUME NEW op \in Kinds, NEW arg, NEW rest, NEW awaited
             PROVE  Emission(<<Instr(op, arg, rest, awaited)>>,
                             IF op = "store" THEN {arg} ELSE {}, IF op \in Moving THEN {op} ELSE {})
  OBVIOUS
<1> DEFINE r == Instr(op, arg, rest, awaited)
           s == <<r>>
<1>1. r.op = op /\ r.arg = arg
  BY DEF Instr
<1> HIDE DEF r
<1>2. s \in Seq({r}) /\ Len(s) = 1 /\ s[1] = r
  OBVIOUS
<1>3. IsStack(s)
  BY <1>2, StackOfSeq
<1> HIDE DEF s
<1>4. \A i : i \in 1..Len(s) <=> i = 1
  BY <1>2
<1>5. OpsIn(s) = {op} /\ StoresIn(s) \subseteq IF op = "store" THEN {arg} ELSE {}
  BY <1>1, <1>2, <1>4 DEF OpsIn, StoresIn
<1>6. Emission(s, IF op = "store" THEN {arg} ELSE {}, IF op \in Moving THEN {op} ELSE {})
  BY <1>3, <1>5 DEF Emission
<1> QED BY <1>6 DEF r, s

LEMMA EmitSimple ==
  \A op, arg, rest, awaited : op \in Kinds /\ op # "store" /\ op \notin Moving =>
    Emission(<<Instr(op, arg, rest, awaited)>>, {}, {})
BY EmitOne

\* Where an argument goes.
LEMMA PlaceFacts ==
  \A n \in Nat \ {0} : PlaceArg(n).op = IF n > Len(ParameterRegs) THEN "push" ELSE "mov"
<1> SUFFICES ASSUME NEW n \in Nat \ {0}
             PROVE  PlaceArg(n).op = IF n > Len(ParameterRegs) THEN "push" ELSE "mov"
  OBVIOUS
<1>1. Len(ParameterRegs) = 6
  BY DEF ParameterRegs
<1>2. n - 1 < Len(ParameterRegs) <=> ~(n > Len(ParameterRegs))
  BY <1>1
<1>3. ~(n > Len(ParameterRegs)) => ParameterRegs[n] # "NONE"
  <2> SUFFICES ASSUME n \in 1..6 PROVE ParameterRegs[n] # "NONE"
    BY <1>1
  <2>1. n = 1 \/ n = 2 \/ n = 3 \/ n = 4 \/ n = 5 \/ n = 6
    OBVIOUS
  <2> QED BY <2>1 DEF ParameterRegs
<1>4. parameter_reg(n - 1) = "NONE" <=> n > Len(ParameterRegs)
  <2>1. n - 1 + 1 = n
    OBVIOUS
  <2> QED BY <1>2, <1>3, <2>1 DEF parameter_reg
<1>5. CASE n > Len(ParameterRegs)
  BY <1>4, <1>5 DEF PlaceArg, Instr
<1>6. CASE ~(n > Len(ParameterRegs))
  BY <1>4, <1>6 DEF PlaceArg, Instr
<1> QED BY <1>5, <1>6

\* The arguments that are pushed.
CallMoves(e) == IF PushedOf(Len(e.values)) = 0 THEN {} ELSE {"push"}

LEMMA EmitCall ==
  ASSUME NEW e, Len(e.values) \in Nat
  PROVE  Emission(CallCode(e), {}, CallMoves(e))
<1> DEFINE f == [i \in 1..2 * Len(e.values) |->
                   IF i % 2 = 1 THEN EvalArg(e, (i + 1) \div 2) ELSE PlaceArg(i \div 2)]
           goal == <<Instr("call", generated[e.name].label, todo, FALSE)>>
<1>1. PICK k \in Nat : k = 2 * Len(e.values)
  OBVIOUS
<1>2. PICK l \in Nat : l = Len(ParameterRegs)
  <2>1. Len(ParameterRegs) = 6
    BY DEF ParameterRegs
  <2> QED BY <2>1
<1>3. PushedOf(Len(e.values)) = 0 <=> ~(Len(e.values) > l)
  BY <1>2 DEF PushedOf
<1>4. \A i \in 1..k :
        f[i].op = IF i % 2 = 1 THEN "eval" ELSE IF i \div 2 > l THEN "push" ELSE "mov"
  <2> SUFFICES ASSUME NEW i \in 1..k
               PROVE  f[i].op = IF i % 2 = 1 THEN "eval" ELSE IF i \div 2 > l THEN "push" ELSE "mov"
    OBVIOUS
  <2>1. CASE i % 2 = 1
    BY <1>1, <2>1 DEF EvalArg, Eval, Instr
  <2>2. CASE i % 2 # 1
    <3>1. i \div 2 \in Nat \ {0}
      BY <2>2
    <3>2. f[i] = PlaceArg(i \div 2)
      BY <1>1, <2>2
    <3> HIDE DEF f
    <3> QED BY <1>2, <2>2, <3>1, <3>2, PlaceFacts
  <2> QED BY <2>1, <2>2
<1>5. f = [i \in 1..k |-> f[i]]
  BY <1>1
<1> HIDE DEF f
<1>6. f \in [1..k -> {f[i] : i \in 1..k}]
  BY <1>5
<1>7. f \in Seq({f[i] : i \in 1..k})
  BY <1>6, SeqDef
<1>8. IsStack(f) /\ Len(f) = k
  BY <1>6, <1>7, StackOfSeq, LenProperties
<1>9. OpsIn(f) \cap Moving = CallMoves(e)
  <2>1. ASSUME Len(e.values) > l PROVE f[k].op = "push" /\ k \in 1..k
    <3>1. \A n \in Nat : (2 * n) % 2 # 1 /\ (2 * n) \div 2 = n
      OBVIOUS
    <3>2. k % 2 # 1 /\ k \div 2 = Len(e.values)
      BY <1>1, <3>1
    <3>3. k \in 1..k
      BY <1>1, <2>1
    <3> QED BY <1>4, <2>1, <3>2, <3>3
  <2>2. ASSUME ~(Len(e.values) > l), NEW i \in 1..k PROVE f[i].op \notin Moving
    <3>1. ~(i \div 2 > l)
      BY <1>1, <2>2
    <3> QED BY <1>4, <3>1 DEF Moving
  <2>3. \A i \in 1..k : f[i].op \in Moving => f[i].op = "push"
    BY <1>4 DEF Moving
  <2>4. "push" \in Moving
    BY DEF Moving
  <2>5. CASE Len(e.values) > l
    BY <1>3, <1>8, <2>1, <2>3, <2>4, <2>5 DEF OpsIn, CallMoves
  <2>6. CASE ~(Len(e.values) > l)
    BY <1>3, <1>8, <2>2, <2>6 DEF OpsIn, CallMoves
  <2> QED BY <2>5, <2>6
<1>10. OpsIn(f) \subseteq Kinds /\ StoresIn(f) \subseteq {}
  <2>1. \A i \in 1..k : f[i].op \in Kinds /\ f[i].op # "store"
    BY <1>4 DEF Kinds
  <2> QED BY <1>8, <2>1 DEF OpsIn, StoresIn
<1>11. Emission(f, {}, CallMoves(e))
  BY <1>8, <1>9, <1>10 DEF Emission
<1>12. Emission(goal, {}, {})
  <2>1. "call" \in Kinds /\ "call" # "store" /\ "call" \notin Moving
    BY DEF Kinds, Moving
  <2> QED BY <2>1, EmitSimple
<1> HIDE DEF goal
<1>13. Emission(f \o goal, {} \cup {}, CallMoves(e) \cup {})
  BY <1>11, <1>12, EmitJoined
<1>14. Emission(f \o goal, {}, CallMoves(e))
  <2>1. {} \cup {} = {} /\ CallMoves(e) \cup {} = CallMoves(e)
    OBVIOUS
  <2> QED BY <1>13, <2>1
<1> QED BY <1>14 DEF CallCode, f, goal

\* How a value moves the stack: by its arguments, and by the pop into RAX of a call when the
\* flag is not set.
Moves(e) == IF e.k # "call" THEN {}
            ELSE CallMoves(e) \cup (IF FlagAfter(e) THEN {} ELSE {"pop"})

LEMMA EmitValue ==
  ASSUME NEW e, Countable(e)
  PROVE  Emission(ValueCode(e), {}, Moves(e))
<1>1. CASE e.k # "call"
  <2> DEFINE c == <<Eval(e, Variables)>>
  <2>1. "eval" \in Kinds /\ "eval" # "store" /\ "eval" \notin Moving
    BY DEF Kinds, Moving
  <2>2. Emission(c, {}, {})
    BY <2>1, EmitSimple DEF Eval
  <2>3. ValueCode(e) = c /\ Moves(e) = {}
    BY <1>1 DEF ValueCode, Moves
  <2> HIDE DEF c
  <2> QED BY <2>2, <2>3
<1>2. CASE e.k = "call"
  <2> DEFINE c == CallCode(e)
             p == IF FlagAfter(e) THEN <<>> ELSE <<Instr("pop", "RAX", todo, TRUE)>>
             m == IF FlagAfter(e) THEN {} ELSE {"pop"}
  <2>1. Emission(c, {}, CallMoves(e))
    BY <1>2, EmitCall DEF Countable
  <2>2. Emission(p, {}, m)
    <3>1. "pop" \in Kinds /\ "pop" # "store" /\ "pop" \in Moving
      BY DEF Kinds, Moving
    <3>2. Emission(<<Instr("pop", "RAX", todo, TRUE)>>, {}, {"pop"})
      BY <3>1, EmitOne
    <3>3. CASE FlagAfter(e)
      BY <3>3, EmitNothing
    <3>4. CASE ~FlagAfter(e)
      BY <3>2, <3>4
    <3> QED BY <3>3, <3>4
  <2>3. ValueCode(e) = c \o p
    BY <1>2 DEF ValueCode
  <2>4. Moves(e) = CallMoves(e) \cup m
    BY <1>2 DEF Moves
  <2> HIDE DEF c, p, m
  <2>5. Emission(c \o p, {} \cup {}, CallMoves(e) \cup m)
    BY <2>1, <2>2, EmitJoined
  <2>6. {} \cup {} = {}
    OBVIOUS
  <2> QED BY <2>3, <2>4, <2>5, <2>6
<1> QED BY <1>1, <1>2

-----------------------------------------------------------------------------
(* What the handlers emit.                                                 *)

\* Instructions behind the code.
Added(places, pops) == \E d : Emission(d, places, pops) /\ code' = code \o d

LEMMA AddedMore ==
  \A p, q, a : Added(p, a) /\ p \subseteq q => Added(q, a)
BY DEF Added, Emission

LEMMA AddedNothing ==
  \A p : IsStack(code) /\ code' = code => Added(p, {})
<1> SUFFICES ASSUME NEW p, IsStack(code), code' = code PROVE Added(p, {})
  OBVIOUS
<1>1. Emission(<<>>, p, {})
  BY EmitNothing DEF Emission
<1>2. code' = code \o <<>>
  BY NothingMore
<1> QED BY <1>1, <1>2 DEF Added

\* One instruction behind those of a value.
LEMMA ValueAnd ==
  ASSUME NEW e, Countable(e), NEW c, c = ValueCode(e) \/ (c = <<>> /\ e.k = "none"),
         NEW op \in Kinds, op \notin Moving, NEW arg, NEW rest, NEW awaited
  PROVE  Emission(c \o <<Instr(op, arg, rest, awaited)>>,
                  IF op = "store" THEN {arg} ELSE {}, Moves(e))
<1> DEFINE r == <<Instr(op, arg, rest, awaited)>>
           p == IF op = "store" THEN {arg} ELSE {}
<1>1. Emission(c, {}, Moves(e))
  BY EmitValue, EmitNothing DEF Moves
<1>2. Emission(r, p, {})
  BY EmitOne
<1> HIDE DEF r, p
<1>3. Emission(c \o r, {} \cup p, Moves(e) \cup {})
  BY <1>1, <1>2, EmitJoined
<1>4. {} \cup p = p /\ Moves(e) \cup {} = Moves(e)
  OBVIOUS
<1> QED BY <1>3, <1>4 DEF r, p

LEMMA EmitStacks == \A d, p, a : Emission(d, p, a) => IsStack(d)
BY DEF Emission

LEMMA InstrStack == \A r : IsStack(<<r>>)
BY Alone

LEMMA DeclEmits ==
  ASSUME GInv, GenDecl
  PROVE  Added({LocalsHere[S.name].location}, Moves(S.value))
<1> DEFINE place == LocalsHere[S.name].location
           v == ValueCode(S.value)
           st == <<Instr("store", place, todo, S.value.k = "call")>>
<1>1. S \in Statements /\ Countable(S.value)
  BY AtStatement, StatementValues DEF GenDecl
<1>2. CASE S.value.k = "none"
  <2>1. code' = code
    BY <1>2, NothingMore DEF GenDecl, GInv, Sound
  <2>2. Moves(S.value) = {}
    BY <1>2 DEF Moves
  <2> QED BY <2>1, <2>2, AddedNothing DEF GInv, Sound
<1>3. CASE S.value.k # "none"
  <2>1. code' = code \o (v \o st)
    BY <1>3 DEF GenDecl
  <2>2. "store" \in Kinds /\ "store" \notin Moving
    BY DEF Kinds, Moving
  <2> HIDE DEF place
  <2>3. Emission(v \o st, {place}, Moves(S.value))
    BY <1>1, <2>2, ValueAnd
  <2> HIDE DEF v, st
  <2> QED BY <2>1, <2>3 DEF Added, place
<1> QED BY <1>2, <1>3

LEMMA AssignEmits ==
  ASSUME GInv, GenAssign
  PROVE  Added({Located(VariablesAfter(S.value)[S.name], S.attr)}, Moves(S.value))
<1> DEFINE place == Located(VariablesAfter(S.value)[S.name], S.attr)
           v == ValueCode(S.value)
           st == <<Instr("store", place, todo, S.value.k = "call")>>
<1>1. S \in Statements /\ Countable(S.value)
  BY AtStatement, StatementValues DEF GenAssign
<1>2. code' = (code \o v) \o st
  BY DEF GenAssign
<1>3. "store" \in Kinds /\ "store" \notin Moving
  BY DEF Kinds, Moving
<1> HIDE DEF place
<1>4. Emission(v \o st, {place}, Moves(S.value))
  BY <1>1, <1>3, ValueAnd
<1>5. IsStack(v) /\ IsStack(st) /\ IsStack(code)
  BY <1>1, EmitValue, EmitStacks, InstrStack DEF GInv, Sound
<1> HIDE DEF v, st
<1>6. code' = code \o (v \o st)
  BY <1>2, <1>5, Regrouped
<1> QED BY <1>4, <1>6 DEF Added, place

\* Return and exit.
LEMMA LeaveEmits ==
  ASSUME GInv, GenReturn \/ GenExit
  PROVE  Added({}, Moves(S.value))
<1> DEFINE v == IF S.value.k = "none" THEN <<>> ELSE ValueCode(S.value)
<1>1. S \in Statements /\ Countable(S.value)
  BY AtStatement, StatementValues DEF GenReturn, GenExit
<1>2. PICK op \in {"return", "exit"} : \E arg : code' = (code \o v) \o <<Instr(op, arg, todo, S.value.k = "call")>>
  BY DEF GenReturn, GenExit
<1>3. PICK arg : code' = (code \o v) \o <<Instr(op, arg, todo, S.value.k = "call")>>
  BY <1>2
<1> DEFINE st == <<Instr(op, arg, todo, S.value.k = "call")>>
<1>4. op \in Kinds /\ op \notin Moving /\ op # "store"
  BY DEF Kinds, Moving
<1>5. v = ValueCode(S.value) \/ (v = <<>> /\ S.value.k = "none")
  OBVIOUS
<1>6. IsStack(v) /\ IsStack(st) /\ IsStack(code)
  BY <1>1, EmitValue, EmitStacks, InstrStack, Nothing DEF GInv, Sound
<1>7. code' = (code \o v) \o st
  BY <1>3
<1> HIDE DEF v
<1>8. Emission(v \o st, IF op = "store" THEN {arg} ELSE {}, Moves(S.value))
  BY <1>1, <1>4, <1>5, ValueAnd
<1>9. (IF op = "store" THEN {arg} ELSE {}) = {}
  BY <1>4
<1> HIDE DEF st
<1>10. code' = code \o (v \o st)
  BY <1>6, <1>7, Regrouped
<1> QED BY <1>8, <1>9, <1>10 DEF Added

LEMMA CallEmits ==
  ASSUME GInv, GenCall
  PROVE  Added({}, CallMoves(S))
<1>1. Len(S.values) \in Nat
  BY AtStatement, StatementsAssumption DEF GenCall
<1>2. code' = code \o CallCode(S)
  BY DEF GenCall
<1> QED BY <1>1, <1>2, EmitCall DEF Added

\* A condition and its jump.
LEMMA TestEmits ==
  \A e, label : Countable(e) => Emission(Test(e, label), {}, Moves(e)) /\ IsStack(Test(e, label))
<1> SUFFICES ASSUME NEW e, NEW label, Countable(e)
             PROVE  Emission(Test(e, label), {}, Moves(e)) /\ IsStack(Test(e, label))
  OBVIOUS
<1>1. "je" \in Kinds /\ "je" \notin Moving /\ "je" # "store"
  BY DEF Kinds, Moving
<1>2. Emission(Test(e, label), IF "je" = "store" THEN {label} ELSE {}, Moves(e))
  BY <1>1, ValueAnd DEF Test
<1> QED BY <1>1, <1>2, EmitStacks

LEMMA IfEmits ==
  ASSUME GInv, GenIf
  PROVE  Added({}, Moves(S.value))
<1>1. S \in Statements /\ Countable(S.value)
  BY AtStatement, StatementValues DEF GenIf
<1>2. \E label : code' = code \o Test(S.value, label)
  BY DEF GenIf
<1> QED BY <1>1, <1>2, TestEmits DEF Added

LEMMA WhileEmits ==
  ASSUME GInv, GenWhile
  PROVE  Added({}, Moves(S.value))
<1> DEFINE l == <<Instr("label", Label(labelCount), todo, FALSE)>>
           t == Test(S.value, Label(labelCount + 1))
<1>1. S \in Statements /\ Countable(S.value)
  BY AtStatement, StatementValues DEF GenWhile
<1>2. code' = (code \o l) \o t
  BY DEF GenWhile
<1>3. Emission(t, {}, Moves(S.value)) /\ IsStack(t) /\ IsStack(code)
  BY <1>1, TestEmits DEF GInv, Sound
<1>4. Emission(l, {}, {}) /\ IsStack(l)
  <2>1. "label" \in Kinds /\ "label" \notin Moving /\ "label" # "store"
    BY DEF Kinds, Moving
  <2> QED BY <2>1, EmitSimple, InstrStack
<1> HIDE DEF l, t
<1>5. Emission(l \o t, {} \cup {}, {} \cup Moves(S.value))
  BY <1>3, <1>4, EmitJoined
<1>6. {} \cup {} = {} /\ {} \cup Moves(S.value) = Moves(S.value)
  OBVIOUS
<1>7. code' = code \o (l \o t)
  BY <1>2, <1>3, <1>4, Regrouped
<1> QED BY <1>5, <1>6, <1>7 DEF Added

\* Two instructions.
LEMMA EmitTwo ==
  \A q, r : /\ q.op \in Kinds /\ q.op # "store" /\ q.op \notin Moving
            /\ r.op \in Kinds /\ r.op # "store" /\ r.op \notin Moving
            => Emission(<<q, r>>, {}, {})
<1> SUFFICES ASSUME NEW q, NEW r, q.op \in Kinds, q.op # "store", q.op \notin Moving,
                    r.op \in Kinds, r.op # "store", r.op \notin Moving
             PROVE  Emission(<<q, r>>, {}, {})
  OBVIOUS
<1> DEFINE s == <<q, r>>
<1>1. IsStack(s) /\ Len(s) = 2 /\ s[1] = q /\ s[2] = r
  BY Pair
<1> HIDE DEF s
<1>2. \A i : i \in 1..Len(s) <=> i = 1 \/ i = 2
  BY <1>1
<1>3. Emission(s, {}, {})
  BY <1>1, <1>2 DEF Emission, OpsIn, StoresIn
<1> QED BY <1>3 DEF s

LEMMA RestEmits ==
  ASSUME GInv, GenElse \/ EndIf \/ Loop \/ GenAsm
  PROVE  Added({}, {})
<1>1. /\ {"jmp", "label", "asm"} \subseteq Kinds
      /\ "jmp" \notin {"store"} \cup Moving /\ "label" \notin {"store"} \cup Moving
      /\ "asm" \notin {"store"} \cup Moving
  BY DEF Kinds, Moving
<1>2. \A arg, rest : /\ Emission(<<Instr("jmp", arg, rest, FALSE)>>, {}, {})
                     /\ Emission(<<Instr("label", arg, rest, FALSE)>>, {}, {})
                     /\ Emission(<<Instr("asm", arg, rest, FALSE)>>, {}, {})
  BY <1>1, EmitSimple
<1>3. IsStack(code)
  BY DEF GInv, Sound
<1>8. \A a, b, rest, more :
        Emission(<<Instr("jmp", a, rest, FALSE), Instr("label", b, more, FALSE)>>, {}, {})
  BY <1>1, EmitTwo DEF Instr
<1>4. CASE GenElse
  BY <1>4, <1>8 DEF GenElse, Added
<1>5. CASE Loop
  BY <1>5, <1>8 DEF Loop, Added
<1>6. CASE EndIf
  BY <1>2, <1>3, <1>6, AppendedCode DEF EndIf, Added
<1>7. CASE GenAsm
  BY <1>2, <1>3, <1>7, AppendedCode DEF GenAsm, Added
<1> QED BY <1>4, <1>5, <1>6, <1>7

-----------------------------------------------------------------------------
(* The Contexts.                                                           *)

Entry == [type : FP!Ids, location : Spots]

LEMMA PushAt ==
  \A s, a : IsStack(s) =>
    /\ IsStack(Append(s, a)) /\ Len(s) \in Nat /\ Len(Append(s, a)) = Len(s) + 1
    /\ \A i \in 1..Len(s) : Append(s, a)[i] = s[i]
    /\ Append(s, a)[Len(s) + 1] = a /\ Last(Append(s, a)) = a /\ Append(s, a) # <<>>
<1> SUFFICES ASSUME NEW s, NEW a, IsStack(s)
             PROVE  /\ IsStack(Append(s, a)) /\ Len(s) \in Nat /\ Len(Append(s, a)) = Len(s) + 1
                    /\ \A i \in 1..Len(s) : Append(s, a)[i] = s[i]
                    /\ Append(s, a)[Len(s) + 1] = a /\ Last(Append(s, a)) = a
                    /\ Append(s, a) # <<>>
  OBVIOUS
<1> DEFINE T == {s[i] : i \in 1..Len(s)} \cup {a}
<1>1. s \in Seq(T) /\ a \in T
  BY SeqMonotonic DEF IsStack
<1> HIDE DEF T
<1>2. /\ Append(s, a) \in Seq(T) /\ Len(Append(s, a)) = Len(s) + 1
      /\ \A i \in 1..Len(s) : Append(s, a)[i] = s[i]
      /\ Append(s, a)[Len(s) + 1] = a /\ Append(s, a) # <<>>
  BY <1>1, AppendProperties
<1>3. IsStack(Append(s, a)) /\ Len(s) \in Nat
  BY <1>1, <1>2, StackOfSeq, LenProperties
<1> QED BY <1>2, <1>3 DEF Last

LEMMA PopAt ==
  \A s : IsStack(s) /\ s # <<>> =>
    /\ IsStack(Front(s)) /\ Len(s) \in Nat \ {0} /\ Len(Front(s)) = Len(s) - 1
    /\ \A i \in 1..(Len(s) - 1) : Front(s)[i] = s[i]
    /\ Last(s) = s[Len(s)] /\ Len(s) \in 1..Len(s)
<1> SUFFICES ASSUME NEW s, IsStack(s), s # <<>>
             PROVE  /\ IsStack(Front(s)) /\ Len(s) \in Nat \ {0} /\ Len(Front(s)) = Len(s) - 1
                    /\ \A i \in 1..(Len(s) - 1) : Front(s)[i] = s[i]
                    /\ Last(s) = s[Len(s)] /\ Len(s) \in 1..Len(s)
  OBVIOUS
<1>1. Front(s) = Below(s)
  BY DEF Front, Below
<1>2. Popped(Front(s), s)
  BY <1>1, PopStack
<1> QED BY <1>2 DEF Popped, Last

ContextsOK(cs) == IsStack(cs) /\ \A i \in 1..Len(cs) : ContextOK(cs[i])

LEMMA ContextPushed == \A cs, c : ContextsOK(cs) /\ ContextOK(c) => ContextsOK(Append(cs, c))
<1> SUFFICES ASSUME NEW cs, NEW c, ContextsOK(cs), ContextOK(c) PROVE ContextsOK(Append(cs, c))
  OBVIOUS
<1> DEFINE a == Append(cs, c)
<1>1. /\ IsStack(a) /\ Len(cs) \in Nat /\ Len(a) = Len(cs) + 1
      /\ \A i \in 1..Len(cs) : a[i] = cs[i]
      /\ a[Len(cs) + 1] = c
  BY PushAt DEF ContextsOK
<1> HIDE DEF a
<1>2. \A i \in 1..Len(a) : i \in 1..Len(cs) \/ i = Len(cs) + 1
  BY <1>1
<1>3. \A i \in 1..Len(a) : ContextOK(a[i])
  BY <1>1, <1>2 DEF ContextsOK
<1>4. ContextsOK(a)
  BY <1>1, <1>3 DEF ContextsOK
<1> QED BY <1>4 DEF a

LEMMA ContextPopped ==
  \A cs : ContextsOK(cs) /\ cs # <<>> => ContextsOK(Front(cs)) /\ ContextOK(Last(cs))
<1> SUFFICES ASSUME NEW cs, ContextsOK(cs), cs # <<>>
             PROVE  ContextsOK(Front(cs)) /\ ContextOK(Last(cs))
  OBVIOUS
<1> DEFINE a == Front(cs)
<1>1. /\ IsStack(a) /\ Len(cs) \in Nat \ {0} /\ Len(a) = Len(cs) - 1
      /\ \A i \in 1..(Len(cs) - 1) : a[i] = cs[i]
      /\ Last(cs) = cs[Len(cs)] /\ Len(cs) \in 1..Len(cs)
  BY PopAt DEF ContextsOK
<1> HIDE DEF a
<1>2. \A i \in 1..Len(a) : i \in 1..Len(cs) /\ a[i] = cs[i]
  BY <1>1
<1>3. ContextsOK(a) /\ ContextOK(Last(cs))
  BY <1>1, <1>2 DEF ContextsOK
<1> QED BY <1>3 DEF a

LEMMA VariablesOK == ContextsOK(contexts) => ContextOK(Variables)
<1>1. ContextOK(<<>>)
  BY DEF ContextOK
<1> QED BY <1>1, ContextPopped DEF Variables

LEMMA ShiftOK ==
  \A c, d : ContextOK(c) /\ d \in Int => ContextOK(Shift(c, d)) /\ DOMAIN Shift(c, d) = DOMAIN c
<1> SUFFICES ASSUME NEW c, NEW d \in Int, ContextOK(c), NEW x \in DOMAIN c
             PROVE  Shift(c, d)[x] \in Entry
  BY DEF ContextOK, Shift, Entry
<1>1. c[x] \in Entry
  BY DEF ContextOK, Entry
<1>2. Shift(c, d)[x] = [c[x] EXCEPT !.location.disp = @ + d]
  BY DEF Shift
<1>3. c[x].location \in Spots
  BY <1>1 DEF Entry
<1>4. [c[x].location EXCEPT !.disp = @ + d] \in Spots
  BY <1>3 DEF Spots
<1>5. [c[x] EXCEPT !.location = [c[x].location EXCEPT !.disp = @ + d]] \in Entry
  BY <1>1, <1>4 DEF Entry
<1>6. Shift(c, d)[x] = [c[x] EXCEPT !.location = [c[x].location EXCEPT !.disp = @ + d]]
  BY <1>2
<1> QED BY <1>5, <1>6

LEMMA AssignOK ==
  \A c, x, v : ContextOK(c) /\ v \in Entry =>
    ContextOK(FP!Assign(c, x, v)) /\ DOMAIN FP!Assign(c, x, v) = DOMAIN c \cup {x}
BY DEF ContextOK, FP!Assign, Entry

\* The Context after some pushes or pops.
LEMMA MovedOK ==
  ASSUME ContextsOK(contexts), NEW n \in Int
  PROVE  ContextOK(Moved(n)) /\ DOMAIN Moved(n) = DOMAIN Variables
<1>1. QWORD * n \in Int
  BY DEF QWORD
<1> QED BY <1>1, VariablesOK, ShiftOK DEF Moved

LEMMA PushedFacts == \A n \in Nat : PushedOf(n) \in Nat
<1>1. Len(ParameterRegs) = 6
  BY DEF ParameterRegs
<1> QED BY <1>1 DEF PushedOf

\* The Context after a value.
LEMMA AfterOK ==
  ASSUME ContextsOK(contexts), NEW e, Countable(e)
  PROVE  /\ ContextOK(VariablesAfter(e)) /\ DOMAIN VariablesAfter(e) = DOMAIN Variables
         /\ Moves(e) = {} => VariablesAfter(e) = Variables
<1>1. e.k = "call" => PushedOf(Len(e.values)) \in Nat
  BY PushedFacts DEF Countable
<1>2. Growth(e) \in Int
  BY <1>1 DEF Growth
<1>3. Moves(e) = {} => Growth(e) = 0
  BY DEF Moves, CallMoves, Growth
<1> QED BY <1>2, <1>3, MovedOK DEF VariablesAfter, Moved

\* Another Context on top.
LEMMA WithVariablesOK ==
  ASSUME ContextsOK(contexts), contexts # <<>>, NEW v, ContextOK(v)
  PROVE  ContextsOK(WithVariables(v)) /\ Last(WithVariables(v)) = v /\ WithVariables(v) # <<>>
<1>1. ContextsOK(Front(contexts)) /\ IsStack(Front(contexts))
  BY ContextPopped DEF ContextsOK
<1> QED BY <1>1, ContextPushed, PushAt DEF WithVariables

\* What Variables is after a step that puts another Context on top.
LEMMA OnTop ==
  ASSUME ContextsOK(contexts), contexts # <<>>, NEW v, ContextOK(v), contexts' = WithVariables(v)
  PROVE  Variables' = v
<1>1. Last(WithVariables(v)) = v /\ WithVariables(v) # <<>>
  BY WithVariablesOK
<1> QED BY <1>1 DEF Variables

-----------------------------------------------------------------------------
(* The types of the generator.                                             *)

FunctionNames == DOMAIN functions \ {""}

FlowInv ==
  /\ ast \in Programs /\ Composed /\ GInv
  /\ exprInReg \in BOOLEAN /\ output \in {"empty", "written"}
  /\ ContextsOK(contexts)
  /\ IsStack(currentFunction)
  /\ \A i \in 1..Len(currentFunction) : currentFunction[i] \in FunctionNames
  /\ OpsIn(code) \subseteq Kinds \cup {"enter"}

\* The Context the constructor makes.
LEMMA EmptyContext == LET s == << <<>> >>
                      IN  IsStack(s) /\ \A i \in 1..Len(s) : DOMAIN s[i] = {}
<1> DEFINE c == <<>>
<1>1. DOMAIN c = {}
  OBVIOUS
<1> HIDE DEF c
<1> DEFINE s == <<c>>
<1>2. s \in Seq({c}) /\ Len(s) = 1 /\ s[1] = c
  OBVIOUS
<1>3. IsStack(s)
  BY <1>2, StackOfSeq
<1> HIDE DEF s
<1>4. \A i \in 1..Len(s) : i = 1
  BY <1>2
<1>5. IsStack(s) /\ \A i \in 1..Len(s) : DOMAIN s[i] = {}
  BY <1>1, <1>2, <1>3, <1>4
<1> QED BY <1>5 DEF s, c

LEMMA FlowAtFirst == ASSUME Init PROVE FlowInv
<1>1. ast \in Programs
  BY DEF Init, FP!Init
<1>2. Composed /\ GInv
  BY ComposedAtFirst, SoundStart
<1>3. ContextsOK(contexts)
  BY EmptyContext DEF Init, ContextsOK, ContextOK
<1>4. /\ IsStack(currentFunction) /\ \A i \in 1..Len(currentFunction) : currentFunction[i] \in FunctionNames
      /\ OpsIn(code) \subseteq Kinds
  BY Nothing, EmitNothing DEF Init, Emission
<1>5. exprInReg \in BOOLEAN /\ output \in {"empty", "written"}
  BY DEF Init
<1> QED BY <1>1, <1>2, <1>3, <1>4, <1>5 DEF FlowInv

\* What the first pass has recorded of the functions.
LEMMA RecordedFacts ==
  ASSUME FlowInv, phase = "done"
  PROVE  /\ P!Recorded /\ P!NamesIn(ast) \in SUBSET VariableNames
         /\ "main" \in FunctionNames
         /\ \A f \in FunctionNames : P!FrameRecorded(functions[f], P!NamesIn(ast))
         /\ \A name \in DOMAIN typeIDs : typeIDs[name] \in FP!Ids
BY NamesCovered DEF FlowInv, Composed, P!Recorded, FunctionNames, FP!Ids, P!Ids

\* A local as the declaration finds it.
LEMMA DeclaredEntry ==
  ASSUME FlowInv, GenDecl
  PROVE  /\ [type |-> typeIDs[S.type], location |-> LocalsHere[S.name].location] \in Entry
         /\ LocalsHere[S.name].location \in Spots
         /\ Last(currentFunction) \in FunctionNames
<1>1. phase = "done" /\ currentFunction # <<>> /\ S.type \in DOMAIN typeIDs /\ S.name \in DOMAIN LocalsHere
  BY DEF GenDecl, At
<1>2. Last(currentFunction) \in FunctionNames
  BY <1>1, PopAt DEF FlowInv
<1> DEFINE f == Last(currentFunction)
           x == S.name
<1>3. P!FrameRecorded(functions[f], P!NamesIn(ast)) /\ typeIDs[S.type] \in FP!Ids
  BY <1>1, <1>2, RecordedFacts
<1>4. functions[f].locals[x].location \in Spots
  BY <1>1, <1>3 DEF P!FrameRecorded, P!HasPlaces, P!OnTheStack, Spots, LocalsHere
<1> HIDE DEF f, x
<1> QED BY <1>2, <1>3, <1>4 DEF Entry, LocalsHere, f, x

\* The Context of the next function.
LEMMA EnteredOK ==
  ASSUME FlowInv, phase = "done", NEW f \in FunctionNames
  PROVE  ContextOK(FrameOf(f))
<1>1. P!FrameRecorded(functions[f], P!NamesIn(ast)) /\ P!IntInv
  BY RecordedFacts DEF P!Recorded
<1> QED BY <1>1, RecordedFacts, FrameFacts

\* The Contexts after a call statement.
LEMMA CallContexts ==
  ASSUME GInv, ContextsOK(contexts), GenCall
  PROVE  /\ ContextsOK(contexts')
         /\ DOMAIN Variables' = DOMAIN Variables
         /\ CallMoves(S) = {} => Variables' = Variables
<1> DEFINE n == PushedOf(Len(S.values))
<1>1. n \in Nat
  BY AtStatement, StatementsAssumption, PushedFacts DEF GenCall
<1>2. CallMoves(S) = {} => n = 0
  BY DEF CallMoves
<1>3. /\ contexts' = IF CallNeedsContext THEN WithVariables(Moved(n)) ELSE contexts
      /\ CallNeedsContext => contexts # <<>>
  BY DEF GenCall
<1> HIDE DEF n
<1>4. ContextOK(Moved(n)) /\ DOMAIN Moved(n) = DOMAIN Variables /\ (n = 0 => Moved(n) = Variables)
  BY <1>1, MovedOK DEF Moved
<1>5. CASE CallNeedsContext
  <2>1. ContextsOK(contexts') /\ Variables' = Moved(n)
    BY <1>3, <1>4, <1>5, WithVariablesOK, OnTop
  <2> QED BY <1>2, <1>4, <2>1
<1>6. CASE ~CallNeedsContext
  <2>1. contexts' = contexts
    BY <1>3, <1>6
  <2> QED BY <2>1 DEF Variables
<1> QED BY <1>5, <1>6

LEMMA FlowContexts ==
  ASSUME FlowInv, Generate
  PROVE  ContextsOK(contexts')
<1>1. ContextsOK(contexts) /\ phase = "done" /\ GInv
  BY GeneratesLast DEF FlowInv
<1>13. GenDecl \/ GenAssign \/ GenExit \/ GenIf \/ GenWhile => Countable(S.value)
  BY <1>1, AtStatement, StatementValues DEF GenDecl, GenAssign, GenExit, GenIf, GenWhile
<1>2. CASE GenDecl
  <2>1. ContextOK(FP!Assign(VariablesAfter(S.value), S.name,
                   [type |-> typeIDs[S.type], location |-> LocalsHere[S.name].location]))
    BY <1>1, <1>2, <1>13, AfterOK, AssignOK, DeclaredEntry
  <2> QED BY <1>1, <1>2, <2>1, WithVariablesOK DEF GenDecl
<1>3. CASE GenAssign
  BY <1>1, <1>3, <1>13, AfterOK, WithVariablesOK DEF GenAssign
<1>4. CASE GenMain
  <2>1. ContextOK(FrameOf("main"))
    BY <1>1, EnteredOK, RecordedFacts
  <2> QED BY <1>1, <1>4, <2>1, ContextPushed DEF GenMain
<1>5. CASE GenFunc
  <2>1. S.name \in FunctionNames
    BY <1>5, AtStatement, StatementsAssumption DEF GenFunc, FunctionNames, FlowInv
  <2> QED BY <1>1, <1>5, <2>1, EnteredOK, ContextPushed DEF GenFunc
<1>6. CASE GenReturn
  BY <1>1, <1>6, ContextPopped DEF GenReturn
<1>7. CASE GenExit
  BY <1>1, <1>7, <1>13, AfterOK, WithVariablesOK DEF GenExit, CanEvaluate
<1>8. CASE GenIf
  BY <1>1, <1>8, <1>13, AfterOK, WithVariablesOK DEF GenIf, CanEvaluate, ContextsAfterTest
<1>9. CASE GenWhile
  BY <1>1, <1>9, <1>13, AfterOK, WithVariablesOK DEF GenWhile, CanEvaluate, ContextsAfterTest
<1>10. CASE GenCall
  BY <1>1, <1>10, CallContexts DEF FlowInv
<1>11. CASE UNCHANGED contexts
  BY <1>1, <1>11
<1>12. \/ GenDecl \/ GenAssign \/ GenMain \/ GenFunc \/ GenReturn \/ GenExit \/ GenIf \/ GenWhile
       \/ GenCall \/ UNCHANGED contexts
  BY DEF Generate, Undefined, ValueThrows, DeclThrows, AssignThrows, FuncThrows, Throw, Write, genVars,
         EndMain, EndFunc, GenElse, EndIf, Loop, GenAsm, SkipType
<1> QED BY <1>2, <1>3, <1>4, <1>5, <1>6, <1>7, <1>8, <1>9, <1>10, <1>11, <1>12

LEMMA FlowFunctions ==
  ASSUME FlowInv, Generate
  PROVE  /\ IsStack(currentFunction')
         /\ \A i \in 1..Len(currentFunction') : currentFunction'[i] \in FunctionNames
<1> DEFINE cf == currentFunction
           Named(s) == IsStack(s) /\ \A i \in 1..Len(s) : s[i] \in FunctionNames
<1>1. Named(cf) /\ phase = "done"
  BY GeneratesLast DEF FlowInv
<1>2. ASSUME NEW f \in FunctionNames PROVE Named(Append(cf, f))
  <2> DEFINE a == Append(cf, f)
  <2>1. /\ IsStack(a) /\ Len(cf) \in Nat /\ Len(a) = Len(cf) + 1
        /\ \A i \in 1..Len(cf) : a[i] = cf[i]
        /\ a[Len(cf) + 1] = f
    BY <1>1, PushAt
  <2> HIDE DEF a
  <2>2. \A i \in 1..Len(a) : i \in 1..Len(cf) \/ i = Len(cf) + 1
    BY <2>1
  <2>3. Named(a)
    BY <1>1, <2>1, <2>2
  <2> QED BY <2>3 DEF a
<1>3. Named(Front(cf))
  <2>1. CASE cf = <<>>
    <3>1. Front(cf) = SubSeq(cf, 1, Len(cf) - 1) /\ Len(cf) = 0
      BY <2>1 DEF Front
    <3>2. Len(cf) - 1 \in Int /\ Len(cf) - 1 < 1
      BY <3>1
    <3>3. SubSeq(cf, 1, Len(cf) - 1) = <<>>
      BY <3>2, SubSeqEmpty
    <3> HIDE DEF cf
    <3> QED BY <1>1, <2>1, <3>1, <3>3
  <2>2. CASE cf # <<>>
    BY <1>1, <2>2, PopAt
  <2> QED BY <2>1, <2>2
<1> HIDE DEF Named
<1>4. CASE GenMain
  BY <1>1, <1>2, <1>4, RecordedFacts DEF GenMain, Named
<1>5. CASE GenFunc
  <2>1. S.name \in FunctionNames
    BY <1>5, AtStatement, StatementsAssumption DEF GenFunc, FunctionNames, FlowInv
  <2> QED BY <1>2, <1>5, <2>1 DEF GenFunc, Named
<1>6. CASE EndFunc
  BY <1>3, <1>6 DEF EndFunc, Named
<1>7. CASE UNCHANGED currentFunction
  BY <1>1, <1>7 DEF Named
<1>8. GenMain \/ GenFunc \/ EndFunc \/ UNCHANGED currentFunction
  BY DEF Generate, Undefined, ValueThrows, DeclThrows, AssignThrows, FuncThrows, Throw, Write, genVars,
         GenDecl, GenAssign, GenReturn, GenExit, GenIf, GenWhile,
         EndMain, GenCall, GenElse, EndIf, Loop, GenAsm, SkipType
<1> QED BY <1>4, <1>5, <1>6, <1>7, <1>8

\* The label of a function, and its frame.
Header(label, f, rest) == <<Instr("label", label, rest, FALSE), Enter(f, rest)>>

LEMMA HeaderOps ==
  \A label, f, rest : LET d == Header(label, f, rest)
                      IN  /\ IsStack(d) /\ Len(d) = 2
                          /\ d[1].op = "label"
                          /\ d[2].op = "enter" /\ d[2].arg.zeros = Len(Zeroed(f))
                          /\ Len(d[2].arg.regs) = Len([i \in 1..Len(Saved(f)) |->
                                functions[f].params[Saved(f)[i]].location.reg])
                          /\ OpsIn(d) = {"label", "enter"} /\ StoresIn(d) = {}
<1> SUFFICES ASSUME NEW label, NEW f, NEW rest
             PROVE  LET d == Header(label, f, rest)
                    IN  /\ IsStack(d) /\ Len(d) = 2
                        /\ d[1].op = "label"
                        /\ d[2].op = "enter" /\ d[2].arg.zeros = Len(Zeroed(f))
                        /\ Len(d[2].arg.regs) = Len([i \in 1..Len(Saved(f)) |->
                              functions[f].params[Saved(f)[i]].location.reg])
                        /\ OpsIn(d) = {"label", "enter"} /\ StoresIn(d) = {}
  OBVIOUS
<1> DEFINE q == Instr("label", label, rest, FALSE)
           r == Enter(f, rest)
           s == <<q, r>>
<1>1. q.op = "label"
  BY DEF Instr
<1>2. /\ r.op = "enter" /\ r.arg.zeros = Len(Zeroed(f))
      /\ r.arg.regs = [i \in 1..Len(Saved(f)) |-> functions[f].params[Saved(f)[i]].location.reg]
  BY DEF Instr, Enter
<1> HIDE DEF q, r
<1>3. IsStack(s) /\ Len(s) = 2 /\ s[1] = q /\ s[2] = r
  BY Pair
<1> HIDE DEF s
<1>4. \A i : i \in 1..Len(s) <=> i = 1 \/ i = 2
  BY <1>3
<1>5. OpsIn(s) = {"label", "enter"} /\ StoresIn(s) = {}
  BY <1>1, <1>2, <1>3, <1>4 DEF OpsIn, StoresIn
<1>6. Header(label, f, rest) = s
  BY DEF Header, s, q, r
<1> QED BY <1>1, <1>2, <1>3, <1>5, <1>6

LEMMA FlowCode ==
  ASSUME FlowInv, Generate
  PROVE  OpsIn(code') \subseteq Kinds \cup {"enter"}
<1>1. OpsIn(code) \subseteq Kinds \cup {"enter"} /\ IsStack(code) /\ GInv
  BY DEF FlowInv, GInv, Sound
<1>2. ASSUME NEW places, NEW pops, Added(places, pops)
      PROVE  OpsIn(code') \subseteq Kinds \cup {"enter"}
  <2>1. PICK d : Emission(d, places, pops) /\ code' = code \o d
    BY <1>2 DEF Added
  <2> QED BY <1>1, <2>1, OpsJoined DEF Emission
<1>3. ASSUME NEW label, NEW f, NEW rest, code' = code \o Header(label, f, rest)
      PROVE  OpsIn(code') \subseteq Kinds \cup {"enter"}
  <2>1. "label" \in Kinds
    BY DEF Kinds, Moving
  <2> QED BY <1>1, <1>3, <2>1, HeaderOps, OpsJoined
<1>4. CASE GenMain
  BY <1>3, <1>4 DEF GenMain, Header
<1>5. CASE GenFunc
  BY <1>3, <1>5 DEF GenFunc, Header
<1>6. CASE GenDecl
  BY <1>1, <1>2, <1>6, DeclEmits
<1>7. CASE GenAssign
  BY <1>1, <1>2, <1>7, AssignEmits
<1>8. CASE GenReturn \/ GenExit
  BY <1>1, <1>2, <1>8, LeaveEmits
<1>9. CASE GenCall
  BY <1>1, <1>2, <1>9, CallEmits
<1>10. CASE GenIf
  BY <1>1, <1>2, <1>10, IfEmits
<1>11. CASE GenWhile
  BY <1>1, <1>2, <1>11, WhileEmits
<1>12. CASE GenElse \/ EndIf \/ Loop \/ GenAsm
  BY <1>1, <1>2, <1>12, RestEmits
<1>13. CASE UNCHANGED code
  BY <1>1, <1>13
<1>14. \/ GenMain \/ GenFunc \/ GenDecl \/ GenAssign \/ (GenReturn \/ GenExit) \/ GenCall \/ GenIf
       \/ GenWhile \/ (GenElse \/ EndIf \/ Loop \/ GenAsm) \/ UNCHANGED code
  BY DEF Generate, Undefined, ValueThrows, DeclThrows, AssignThrows, FuncThrows, Throw, Write, genVars,
         EndMain, EndFunc, SkipType
<1> QED BY <1>4, <1>5, <1>6, <1>7, <1>8, <1>9, <1>10, <1>11, <1>12, <1>13, <1>14

LEMMA FlowFlags ==
  ASSUME FlowInv, Generate
  PROVE  exprInReg' \in BOOLEAN /\ output' \in {"empty", "written"}
<1>1. exprInReg \in BOOLEAN /\ output \in {"empty", "written"}
  BY DEF FlowInv
<1>2. \A e : FlagAfter(e) \in BOOLEAN
  BY DEF FlagAfter
<1>3. exprInReg' \in BOOLEAN
  <2>1. \/ \E e : exprInReg' = FlagAfter(e)
        \/ exprInReg' = (exprInReg \/ S.values # <<>>)
        \/ exprInReg' = exprInReg
    BY DEF Generate, Undefined, ValueThrows, DeclThrows, AssignThrows, FuncThrows, Throw, Write, genVars,
           GenDecl, GenAssign, GenMain, EndMain, GenFunc, EndFunc, GenCall, GenReturn, GenExit,
           GenIf, GenElse, EndIf, GenWhile, Loop, GenAsm, SkipType
  <2> QED BY <1>1, <1>2, <2>1
<1>4. output' \in {"empty", "written"}
  BY <1>1 DEF Generate, Undefined, ValueThrows, DeclThrows, AssignThrows, FuncThrows, Throw, Write, genVars,
         GenDecl, GenAssign, GenMain, EndMain, GenFunc, EndFunc, GenCall, GenReturn, GenExit,
         GenIf, GenElse, EndIf, GenWhile, Loop, GenAsm, SkipType
<1> QED BY <1>3, <1>4

LEMMA FlowStep == ASSUME FlowInv, [Next]_vars PROVE FlowInv'
<1>1. Composed' /\ GInv' /\ ast' \in Programs
  BY ComposedStep, SoundNext, AstStays DEF FlowInv
<1>2. CASE Generate
  <2>1. functions' = functions /\ types' = types
    BY <1>2, GeneratesLast DEF passVars
  <2>2. ContextsOK(contexts)'
    BY <1>2, <2>1, FlowContexts DEF ContextsOK, ContextOK, FP!Ids
  <2>3. /\ IsStack(currentFunction')
        /\ \A i \in 1..Len(currentFunction') : currentFunction'[i] \in FunctionNames'
    BY <1>2, <2>1, FlowFunctions DEF FunctionNames
  <2>4. (OpsIn(code) \subseteq Kinds \cup {"enter"})'
    BY <1>2, FlowCode DEF OpsIn
  <2> QED BY <1>1, <1>2, <2>2, <2>3, <2>4, FlowFlags DEF FlowInv
<1>3. CASE UNCHANGED vars
  <2>1. /\ UNCHANGED <<exprInReg, output, contexts, currentFunction, code>>
        /\ functions' = functions /\ types' = types
    BY <1>3 DEF vars, passVars, genVars
  <2>2. ContextsOK(contexts)'
    BY <2>1 DEF FlowInv, ContextsOK, ContextOK, FP!Ids
  <2> QED BY <1>1, <2>1, <2>2 DEF FlowInv, FunctionNames, OpsIn
<1>4. CASE Passes
  <2>1. /\ UNCHANGED <<exprInReg, output, contexts, currentFunction, code>>
        /\ phase # "done" /\ Untouched
    BY <1>4, PassesRunFirst DEF Passes, genVars, FlowInv, Composed
  <2>2. contexts' = << <<>> >> /\ currentFunction' = <<>>
    BY <2>1 DEF Untouched
  <2>3. ContextsOK(contexts)'
    BY <2>2, EmptyContext DEF ContextsOK, ContextOK
  <2>4. /\ IsStack(currentFunction') /\ \A i : i \notin 1..Len(currentFunction')
    BY <2>2, Nothing
  <2> QED BY <1>1, <2>1, <2>3, <2>4 DEF FlowInv, OpsIn
<1> QED BY <1>2, <1>3, <1>4 DEF Next

LEMMA FlowHolds == GenSpec => []FlowInv
<1>1. Init => FlowInv
  BY FlowAtFirst
<1>2. FlowInv /\ [Next]_vars => FlowInv'
  BY FlowStep
<1> QED BY <1>1, <1>2, PTL DEF GenSpec

\* Every variable of every Context has a type of the program and a place in RSP or RDI, every
\* function that is being generated is one the first pass has recorded, and the output is
\* made of the instructions the generator knows (enter_context, generate_declaration,
\* generate_func).
THEOREM TypeCorrect == GenSpec => []TypeOK
<1>1. ASSUME FlowInv PROVE TypeOK
  <2>1. labelCount \in Nat /\ exprInReg \in BOOLEAN /\ output \in {"empty", "written"}
    BY <1>1 DEF FlowInv, GInv, Sound
  <2>2. \A i \in 1..Len(contexts) : \A x \in DOMAIN contexts[i] :
          /\ contexts[i][x].type \in FP!Ids
          /\ contexts[i][x].location \in [reg : {"RSP", "RDI"}, disp : Int]
    BY <1>1 DEF FlowInv, ContextsOK, ContextOK, Spots
  <2>3. \A i \in 1..Len(currentFunction) : currentFunction[i] \in DOMAIN functions
    BY <1>1 DEF FlowInv, FunctionNames
  <2>4. \A i \in 1..Len(code) : code[i].op \in Kinds \cup {"enter"}
    BY <1>1 DEF FlowInv, OpsIn
  <2> QED BY <2>1, <2>2, <2>3, <2>4 DEF TypeOK, Kinds
<1> QED BY <1>1, FlowHolds, PTL

-----------------------------------------------------------------------------
(* Where the generator is in the program.                                  *)

\* What is visited on behalf of body b.
From(x, b) == /\ x.k = "else" => Inside(x.body) \subseteq Inside(b)
              /\ x.k \notin {"endif", "loop", "else"} => Within(x) \subseteq Inside(b)

AllFrom(b, body) == \A i \in 1..Len(b) : From(b[i], body)

\* The function of program p that is being generated, or the statement before those that are
\* left of the program, when the first n items of t are what is left of the function.
Spot(p, t, n) == Len(p) - Len(t) + n

\* A body that ends in an if or a loop has its last statement taken apart.
EndsWith(x, b) == b # <<>> /\ (x = Last(b) \/ Last(b).k \in {"if", "while"})

OnTrack(p, t, n) ==
  /\ Spot(p, t, n) \in 0..Len(p)
  /\ \A i \in (n + 1)..Len(t) : t[i] = p[Len(p) - Len(t) + i]
  /\ n > 0 => Spot(p, t, n) \in 1..Len(p) /\ p[Spot(p, t, n)].k \in {"func", "main"}
  /\ \A i \in 1..(n - 1) : From(t[i], p[Spot(p, t, n)].body)
  /\ n > 1 => EndsWith(t[n - 1], p[Spot(p, t, n)].body)

LEMMA TrackRest ==
  \A p, t, n :
    Len(p) \in Nat /\ IsStack(t) /\ t # <<>> /\ Layered(t, n) /\ n \in Nat /\ OnTrack(p, t, n) =>
      LET m == IF n = 0 THEN 0 ELSE n - 1
      IN  /\ OnTrack(p, Tail(t), m)
          /\ Spot(p, Tail(t), m) = IF n = 0 THEN Spot(p, t, n) + 1 ELSE Spot(p, t, n)
<1> SUFFICES ASSUME NEW p, NEW t, NEW n \in Nat, Len(p) \in Nat, IsStack(t), t # <<>>,
                    Layered(t, n), OnTrack(p, t, n)
             PROVE  LET m == IF n = 0 THEN 0 ELSE n - 1
                    IN  /\ OnTrack(p, Tail(t), m)
                        /\ Spot(p, Tail(t), m) = IF n = 0 THEN Spot(p, t, n) + 1 ELSE Spot(p, t, n)
  OBVIOUS
<1> DEFINE u == Tail(t)
<1>1. /\ Len(u) = Len(t) - 1 /\ Len(t) \in Nat \ {0}
      /\ \A i \in 1..(Len(t) - 1) : u[i] = t[i + 1]
  BY RestAt
<1> HIDE DEF u
<1>2. n \in 0..Len(t)
  BY DEF Layered
<1>3. CASE n = 0
  <2>1. Spot(p, u, 0) = Spot(p, t, n) + 1
    BY <1>1, <1>3 DEF Spot
  <2>2. Spot(p, u, 0) \in 0..Len(p)
    BY <1>1, <1>3 DEF Spot, OnTrack
  <2>3. \A i \in (0 + 1)..Len(u) : u[i] = p[Len(p) - Len(u) + i]
    <3> SUFFICES ASSUME NEW i \in 1..Len(u) PROVE u[i] = p[Len(p) - Len(u) + i]
      OBVIOUS
    <3>1. i + 1 \in (n + 1)..Len(t) /\ i \in 1..(Len(t) - 1)
          /\ Len(p) - Len(t) + (i + 1) = Len(p) - Len(u) + i
      BY <1>1, <1>3
    <3>2. t[i + 1] = p[Len(p) - Len(t) + (i + 1)] /\ u[i] = t[i + 1]
      BY <1>1, <3>1 DEF OnTrack
    <3> QED BY <3>1, <3>2
  <2>4. OnTrack(p, u, 0)
    BY <2>2, <2>3 DEF OnTrack
  <2> QED BY <1>3, <2>1, <2>4 DEF u
<1>4. CASE n # 0
  <2>1. Spot(p, u, n - 1) = Spot(p, t, n)
    BY <1>1, <1>2 DEF Spot
  <2>2. \A i \in (n - 1 + 1)..Len(u) : u[i] = p[Len(p) - Len(u) + i]
    <3> SUFFICES ASSUME NEW i \in (n - 1 + 1)..Len(u) PROVE u[i] = p[Len(p) - Len(u) + i]
      OBVIOUS
    <3>1. i + 1 \in (n + 1)..Len(t) /\ i \in 1..(Len(t) - 1)
          /\ Len(p) - Len(t) + (i + 1) = Len(p) - Len(u) + i
      BY <1>1, <1>2, <1>4
    <3>2. t[i + 1] = p[Len(p) - Len(t) + (i + 1)] /\ u[i] = t[i + 1]
      BY <1>1, <3>1 DEF OnTrack
    <3> QED BY <3>1, <3>2
  <2>3. \A i \in 1..(n - 1 - 1) : u[i] = t[i + 1] /\ i + 1 \in 1..(n - 1)
    <3> SUFFICES ASSUME NEW i \in 1..(n - 1 - 1) PROVE u[i] = t[i + 1] /\ i + 1 \in 1..(n - 1)
      OBVIOUS
    <3>1. i \in 1..(Len(t) - 1) /\ i + 1 \in 1..(n - 1)
      BY <1>1, <1>2, <1>4
    <3> QED BY <1>1, <3>1
  <2>4. \A i \in 1..(n - 1 - 1) : From(u[i], p[Spot(p, u, n - 1)].body)
    BY <2>1, <2>3 DEF OnTrack
  <2>5. n - 1 > 1 => EndsWith(u[n - 1 - 1], p[Spot(p, u, n - 1)].body)
    <3> SUFFICES ASSUME n - 1 > 1 PROVE EndsWith(u[n - 1 - 1], p[Spot(p, u, n - 1)].body)
      OBVIOUS
    <3>1. n - 1 - 1 \in 1..(n - 1 - 1) /\ (n - 1 - 1) + 1 = n - 1 /\ n > 1
      BY <1>4
    <3>2. u[n - 1 - 1] = t[n - 1]
      BY <2>3, <3>1
    <3> QED BY <2>1, <3>1, <3>2 DEF OnTrack
  <2>6. n > 0
    BY <1>4
  <2>7. OnTrack(p, u, n - 1)
    BY <2>1, <2>2, <2>4, <2>5, <2>6 DEF OnTrack
  <2> QED BY <1>4, <2>1, <2>7 DEF u
<1> QED BY <1>3, <1>4

\* The body b, then x, take the place of the first item of t.
BodyOpens(p, t, b, x, n) ==
  /\ Len(p) \in Nat /\ IsStack(t) /\ t # <<>> /\ Layered(t, n) /\ n \in Nat /\ n > 1
  /\ OnTrack(p, t, n) /\ b \in Seq(Statements) /\ t[1].k \in {"if", "while", "else"}
  /\ AllFrom(b, p[Spot(p, t, n)].body)
  /\ From(x, p[Spot(p, t, n)].body)
  /\ p[Spot(p, t, n)].body \in Seq(Statements)

LEMMA TrackBody ==
  \A p, t, b, x, n :
    BodyOpens(p, t, b, x, n) =>
      /\ OnTrack(p, Opening(b, x, Tail(t)), n + Len(b))
      /\ Spot(p, Opening(b, x, Tail(t)), n + Len(b)) = Spot(p, t, n)
<1> SUFFICES ASSUME NEW p, NEW t, NEW b, NEW x, NEW n \in Nat,
                    Len(p) \in Nat, IsStack(t), t # <<>>, Layered(t, n), n > 1,
                    OnTrack(p, t, n), b \in Seq(Statements), t[1].k \in {"if", "while", "else"},
                    AllFrom(b, p[Spot(p, t, n)].body),
                    From(x, p[Spot(p, t, n)].body),
                    p[Spot(p, t, n)].body \in Seq(Statements)
             PROVE  /\ OnTrack(p, Opening(b, x, Tail(t)), n + Len(b))
                    /\ Spot(p, Opening(b, x, Tail(t)), n + Len(b)) = Spot(p, t, n)
  BY DEF BodyOpens
<1> DEFINE u == Opening(b, x, Tail(t))
           m == n + Len(b)
           body == p[Spot(p, t, n)].body
<1>1. /\ IsStack(u) /\ Len(u) = Len(b) + Len(t) /\ Len(b) \in Nat /\ Len(t) \in Nat \ {0}
      /\ \A i \in 1..Len(b) : u[i] = b[i]
      /\ u[Len(b) + 1] = x
      /\ \A i \in 2..Len(t) : u[Len(b) + i] = t[i]
  BY BodyBefore
<1> HIDE DEF u
<1>2. n \in 2..Len(t)
  BY <1>1 DEF Layered
<1>3. Spot(p, u, m) = Spot(p, t, n) /\ m > 1 /\ m > 0
  BY <1>1, <1>2 DEF Spot
<1>4. \A i \in (m + 1)..Len(u) : u[i] = p[Len(p) - Len(u) + i]
  <2> SUFFICES ASSUME NEW i \in (m + 1)..Len(u) PROVE u[i] = p[Len(p) - Len(u) + i]
    OBVIOUS
  <2> DEFINE j == i - Len(b)
  <2>1. j \in (n + 1)..Len(t) /\ j \in 2..Len(t) /\ Len(b) + j = i
        /\ Len(p) - Len(t) + j = Len(p) - Len(u) + i
    BY <1>1, <1>2
  <2> HIDE DEF j
  <2>2. u[Len(b) + j] = t[j] /\ t[j] = p[Len(p) - Len(t) + j]
    BY <1>1, <2>1 DEF OnTrack
  <2> QED BY <2>1, <2>2
<1>5. \A i \in 1..(m - 1) : From(u[i], body)
  <2> SUFFICES ASSUME NEW i \in 1..(m - 1) PROVE From(u[i], body)
    OBVIOUS
  <2>1. CASE i \in 1..Len(b)
    BY <1>1, <2>1 DEF AllFrom
  <2>2. CASE i = Len(b) + 1
    BY <1>1, <2>2
  <2>3. CASE i \notin 1..Len(b) /\ i # Len(b) + 1
    <3> DEFINE j == i - Len(b)
    <3>4. i \in Nat /\ i > Len(b) + 1 /\ i <= n + Len(b) - 1 /\ n <= Len(t) /\ Len(b) \in Nat
          /\ Len(t) \in Nat
      <4>1. n \in Nat /\ Len(b) \in Nat /\ Len(t) \in Nat /\ n <= Len(t) /\ m - 1 = n + Len(b) - 1
        BY <1>1, <1>2
      <4>2. i \in Int /\ 1 <= i /\ i <= n + Len(b) - 1
        BY <4>1
      <4>3. i > Len(b) + 1
        BY <2>3, <4>1, <4>2
      <4> QED BY <4>1, <4>2, <4>3
    <3>1. j \in 2..Len(t) /\ j \in 1..(n - 1) /\ Len(b) + j = i
      BY <3>4
    <3> HIDE DEF j
    <3>2. u[Len(b) + j] = t[j] /\ From(t[j], body)
      BY <1>1, <3>1 DEF OnTrack
    <3> QED BY <3>1, <3>2
  <2> QED BY <2>1, <2>2, <2>3
<1>6. EndsWith(u[m - 1], body)
  <2>1. EndsWith(t[n - 1], body)
    BY DEF OnTrack
  <2>2. CASE n = 2
    <3>1. t[n - 1] = t[1]
      BY <2>2
    <3>2. body # <<>> /\ (t[1] = Last(body) \/ Last(body).k \in {"if", "while"})
      BY <2>1, <3>1 DEF EndsWith
    <3>3. Last(body) \in Statements
      <4> HIDE DEF body
      <4>1. body \in Seq(Statements)
        BY DEF body
      <4>2. Len(body) \in 1..Len(body)
        BY <3>2, <4>1, EmptySeq, LenProperties
      <4> QED BY <4>1, <4>2, ElementOfSeq DEF Last
    <3>4. Last(body).k # "else"
      BY <3>3, StatementsAssumption
    <3> QED BY <3>2, <3>4 DEF EndsWith
  <2>3. CASE n # 2
    <3>1. n - 1 \in 2..Len(t) /\ Len(b) + (n - 1) = m - 1
      BY <1>1, <1>2, <2>3
    <3>2. u[m - 1] = t[n - 1]
      BY <1>1, <3>1
    <3> QED BY <2>1, <3>2
  <2> QED BY <2>2, <2>3
<1>7. OnTrack(p, u, m)
  BY <1>3, <1>4, <1>5, <1>6 DEF OnTrack
<1> QED BY <1>3, <1>7 DEF u

LEMMA TrackTop ==
  \A p, t, x :
    /\ Len(p) \in Nat /\ IsStack(t) /\ t # <<>> /\ OnTrack(p, t, 0)
    /\ t[1].k \in {"func", "main"} /\ t[1].body \in Seq(Statements)
    => LET u == Opening(t[1].body, x, Tail(t))
           m == Len(t[1].body) + 1
       IN  /\ OnTrack(p, u, m)
           /\ Spot(p, u, m) = Spot(p, t, 0) + 1
           /\ p[Spot(p, t, 0) + 1] = t[1]
<1> SUFFICES ASSUME NEW p, NEW t, NEW x, Len(p) \in Nat, IsStack(t), t # <<>>,
                    OnTrack(p, t, 0), t[1].k \in {"func", "main"}, t[1].body \in Seq(Statements)
             PROVE  LET u == Opening(t[1].body, x, Tail(t))
                        m == Len(t[1].body) + 1
                    IN  /\ OnTrack(p, u, m)
                        /\ Spot(p, u, m) = Spot(p, t, 0) + 1
                        /\ p[Spot(p, t, 0) + 1] = t[1]
  OBVIOUS
<1> DEFINE b == t[1].body
           u == Opening(b, x, Tail(t))
           m == Len(b) + 1
<1>b. b \in Seq(Statements) /\ t[1].body = b
  OBVIOUS
<1> HIDE DEF b
<1>1. /\ IsStack(u) /\ Len(u) = Len(b) + Len(t) /\ Len(b) \in Nat /\ Len(t) \in Nat \ {0}
      /\ \A i \in 1..Len(b) : u[i] = b[i]
      /\ \A i \in 2..Len(t) : u[Len(b) + i] = t[i]
  BY <1>b, BodyBefore
<1> HIDE DEF u
<1>2. Spot(p, t, 0) = Len(p) - Len(t) /\ Spot(p, t, 0) \in 0..Len(p)
  BY <1>1 DEF Spot, OnTrack
<1>3. Spot(p, u, m) = Spot(p, t, 0) + 1 /\ Spot(p, u, m) \in 1..Len(p) /\ m > 0
  <2>1. Len(p) - (Len(b) + Len(t)) + (Len(b) + 1) = Len(p) - Len(t) + 0 + 1
    BY <1>1
  <2>2. Spot(p, u, m) = Spot(p, t, 0) + 1
    BY <1>1, <2>1 DEF Spot
  <2>3. Len(p) - Len(t) + 1 \in 1..Len(p) /\ Len(b) + 1 > 0
    BY <1>1, <1>2
  <2> QED BY <1>2, <2>2, <2>3
<1>4. p[Spot(p, t, 0) + 1] = t[1]
  <2>1. 1 \in (0 + 1)..Len(t)
    BY <1>1
  <2>2. t[1] = p[Len(p) - Len(t) + 1]
    BY <2>1 DEF OnTrack
  <2> QED BY <1>2, <2>2
<1>5. \A i \in (m + 1)..Len(u) : u[i] = p[Len(p) - Len(u) + i]
  <2> SUFFICES ASSUME NEW i \in (m + 1)..Len(u) PROVE u[i] = p[Len(p) - Len(u) + i]
    OBVIOUS
  <2> DEFINE j == i - Len(b)
  <2>1. j \in (0 + 1)..Len(t) /\ j \in 2..Len(t) /\ Len(b) + j = i
        /\ Len(p) - Len(t) + j = Len(p) - Len(u) + i
    BY <1>1
  <2> HIDE DEF j
  <2>2. u[Len(b) + j] = t[j] /\ t[j] = p[Len(p) - Len(t) + j]
    BY <1>1, <2>1 DEF OnTrack
  <2> QED BY <2>1, <2>2
<1>6. p[Spot(p, u, m)] = t[1] /\ p[Spot(p, u, m)].body = b
  BY <1>3, <1>4, <1>b
<1>7. \A i \in 1..(m - 1) : From(u[i], b)
  <2> SUFFICES ASSUME NEW i \in 1..Len(b) PROVE From(u[i], b)
    BY <1>1
  <2>1. u[i] = b[i] /\ b[i] \in Statements
    BY <1>1, <1>b, ElementOfSeq
  <2>2. Within(b[i]) \subseteq Inside(b)
    BY DEF Inside
  <2>3. b[i].k # "else"
    BY <2>1, StatementsAssumption
  <2> QED BY <2>1, <2>2, <2>3 DEF From
<1>8. m > 1 => EndsWith(u[m - 1], b)
  <2> SUFFICES ASSUME m > 1 PROVE EndsWith(u[m - 1], b)
    OBVIOUS
  <2>1. m - 1 = Len(b) /\ Len(b) \in 1..Len(b)
    BY <1>1
  <2>3. b # <<>>
    BY <1>b, <2>1, EmptySeq
  <2>2. u[m - 1] = b[Len(b)]
    BY <1>1, <2>1
  <2> QED BY <2>2, <2>3 DEF EndsWith, Last
<1>9. OnTrack(p, u, m)
  BY <1>3, <1>5, <1>6, <1>7, <1>8 DEF OnTrack
<1> QED BY <1>3, <1>4, <1>9 DEF u, b

\* What is left of a function is so much and not more.
LEMMA OneLayer ==
  \A t, n, m : n \in Nat /\ m \in Nat /\ Layered(t, n) /\ Layered(t, m) => n = m
<1>1. ASSUME NEW t, NEW n \in Nat, NEW m \in Nat, Layered(t, n), Layered(t, m), n < m
      PROVE  FALSE
  <2>1. n \in 0..Len(t) /\ m \in 0..Len(t) /\ t[m].k \in {"endfunc", "endmain"}
    BY <1>1 DEF Layered
  <2>2. CASE n = 0
    <3>1. m \in (n + 1)..Len(t)
      BY <1>1, <2>1, <2>2
    <3>2. AtTop(t[m])
      BY <1>1, <3>1 DEF Layered
    <3> QED BY <2>1, <3>2 DEF AtTop
  <2>3. CASE n # 0
    <3>1. n \in 1..(m - 1) /\ n > 0
      BY <1>1, <2>1, <2>3
    <3>2. InBody(t[n], n = m - 1) /\ t[n].k \in {"endfunc", "endmain"}
      BY <1>1, <3>1 DEF Layered
    <3> QED BY <3>2, StatementsAssumption DEF InBody
  <2> QED BY <2>2, <2>3
<1> QED BY <1>1

Left == CHOOSE n \in Nat : Layered(todo, n)

\* The function at hand, by its number.
Here == Spot(ast, todo, Left)

LEMMA LeftIs == \A n \in Nat : Layered(todo, n) => Left = n
BY OneLayer DEF Left

LEMMA LeftFacts ==
  ASSUME NInv
  PROVE  /\ Left \in Nat /\ IsStack(todo) /\ IsStack(contexts) /\ IsStack(currentFunction)
         /\ Layered(todo, Left) /\ contexts # <<>> /\ StacksFit(todo, contexts, currentFunction, Left)
<1>1. PICK n \in Nat : StacksFit(todo, contexts, currentFunction, n)
  BY DEF NInv
<1>2. Left = n
  BY <1>1, LeftIs DEF StacksFit
<1> QED BY <1>1, <1>2 DEF StacksFit

\* How what is left to visit changes: the first item is done; it opens a body; a function
\* begins.
NextMove == todo # <<>> /\ todo' = Tail(todo)

BodyMove ==
  /\ todo # <<>> /\ S.k \in {"if", "while", "else"}
  /\ \E b \in Seq(Statements) : \E x :
       /\ todo' = Opening(b, x, Tail(todo))
       /\ Quiet(b) /\ \A last : InBody(x, last)
       /\ \A body : From(S, body) => From(x, body) /\ \A i \in 1..Len(b) : From(b[i], body)

TopMove(name) ==
  /\ todo # <<>> /\ S.k \in {"func", "main"}
  /\ name = IF S.k = "main" THEN "main" ELSE S.name
  /\ \E x : EndsBody(x) /\ todo' = Opening(S.body, x, Tail(todo))
  /\ currentFunction' = Append(currentFunction, name)
  /\ contexts' = Append(contexts, FrameOf(name))

LEMMA FromBody ==
  \A b, body : b \in Seq(Statements) /\ Inside(b) \subseteq Inside(body) =>
    \A i \in 1..Len(b) : From(b[i], body)
<1> SUFFICES ASSUME NEW b \in Seq(Statements), NEW body, Inside(b) \subseteq Inside(body),
                    NEW i \in 1..Len(b)
             PROVE  From(b[i], body)
  OBVIOUS
<1>1. b[i] \in Statements
  BY ElementOfSeq
<1>2. b[i].k # "else"
  BY <1>1, StatementsAssumption
<1>3. Within(b[i]) \subseteq Inside(body)
  BY DEF Inside
<1> QED BY <1>2, <1>3 DEF From

LEMMA BodyMoves == ASSUME NInv, GenIf \/ GenWhile \/ GenElse PROVE BodyMove
<1>1. CASE GenIf
  <2>1. S.k = "if" /\ todo # <<>>
    BY <1>1 DEF GenIf, At, S
  <2>2. S \in Statements /\ Quiet(S.body) /\ Quiet(S.else)
    BY <2>1, Placed DEF NInv
  <2>3. S.body \in Seq(Statements) /\ S.else \in Seq(Statements)
    BY <2>1, <2>2, Bodies
  <2>4. Inside(S.body) \subseteq Within(S) /\ Inside(S.else) \subseteq Within(S)
    BY <2>1, <2>2, InsideFacts
  <2> DEFINE x == IF S.else = <<>>
                  THEN [k |-> "endif", end |-> Label(labelCount + 1)]
                  ELSE [k |-> "else", body |-> S.else, label |-> Label(labelCount),
                        end |-> Label(labelCount + 1)]
  <2>5. \A last : InBody(x, last)
    BY <2>2, <2>3 DEF InBody
  <2>6. todo' = Opening(S.body, x, Tail(todo))
    BY <1>1 DEF GenIf, Opening
  <2>7. \A body : From(S, body) => Within(S) \subseteq Inside(body)
    BY <2>1 DEF From
  <2>8. \A body : From(S, body) => From(x, body)
    BY <2>4, <2>7 DEF From
  <2> HIDE DEF x
  <2>9. \A body : From(S, body) => \A i \in 1..Len(S.body) : From(S.body[i], body)
    BY <2>3, <2>4, <2>7, FromBody
  <2> QED BY <2>1, <2>2, <2>3, <2>5, <2>6, <2>8, <2>9 DEF BodyMove
<1>2. CASE GenWhile
  <2>1. S.k = "while" /\ todo # <<>>
    BY <1>2 DEF GenWhile, At, S
  <2>2. S \in Statements /\ Quiet(S.body)
    BY <2>1, Placed DEF NInv
  <2>3. S.body \in Seq(Statements)
    BY <2>1, <2>2, Bodies
  <2>4. Inside(S.body) \subseteq Within(S)
    BY <2>1, <2>2, InsideFacts
  <2> DEFINE x == [k |-> "loop", while |-> S, start |-> Label(labelCount),
                   end |-> Label(labelCount + 1)]
  <2>5. \A last : InBody(x, last)
    BY DEF InBody
  <2>6. todo' = Opening(S.body, x, Tail(todo))
    BY <1>2 DEF GenWhile, Opening
  <2>7. \A body : From(S, body) => Within(S) \subseteq Inside(body)
    BY <2>1 DEF From
  <2>8. \A body : From(x, body)
    BY DEF From
  <2> HIDE DEF x
  <2>9. \A body : From(S, body) => \A i \in 1..Len(S.body) : From(S.body[i], body)
    BY <2>3, <2>4, <2>7, FromBody
  <2> QED BY <2>1, <2>2, <2>3, <2>5, <2>6, <2>8, <2>9 DEF BodyMove
<1>3. CASE GenElse
  <2>1. S.k = "else" /\ todo # <<>>
    BY <1>3 DEF GenElse, At, S
  <2>2. S.body \in Seq(Statements) /\ Quiet(S.body)
    BY <2>1, Placed DEF NInv
  <2> DEFINE x == [k |-> "endif", end |-> S.end]
  <2>3. \A last : InBody(x, last)
    BY DEF InBody
  <2>4. todo' = Opening(S.body, x, Tail(todo))
    BY <1>3 DEF GenElse, Opening
  <2>5. \A body : From(x, body)
    BY DEF From
  <2> HIDE DEF x
  <2>6. \A body : From(S, body) => \A i \in 1..Len(S.body) : From(S.body[i], body)
    BY <2>1, <2>2, FromBody DEF From
  <2> QED BY <2>1, <2>2, <2>3, <2>4, <2>5, <2>6 DEF BodyMove
<1> QED BY <1>1, <1>2, <1>3

LEMMA MainMoves == ASSUME GenMain PROVE TopMove("main")
<1> DEFINE x == [k |-> "endmain"]
<1>1. EndsBody(x) /\ todo' = Opening(S.body, x, Tail(todo))
  BY DEF EndsBody, GenMain, Opening
<1> HIDE DEF x
<1> QED BY <1>1 DEF TopMove, GenMain, At, S

LEMMA FuncMoves == ASSUME GenFunc PROVE TopMove(S.name)
<1> DEFINE x == [k |-> "endfunc"]
<1>1. EndsBody(x) /\ todo' = Opening(S.body, x, Tail(todo))
  BY DEF EndsBody, GenFunc, Opening
<1> HIDE DEF x
<1> QED BY <1>1 DEF TopMove, GenFunc, At, S

\* Where the generator is after each.
LEMMA AfterNext ==
  ASSUME NInv, Len(ast) \in Nat, OnTrack(ast, todo, Left), NextMove, ast' = ast
  PROVE  /\ OnTrack(ast, todo, Left)'
         /\ Left' = IF Left = 0 THEN 0 ELSE Left - 1
         /\ Here' = IF Left = 0 THEN Here + 1 ELSE Here
<1> DEFINE u == Tail(todo)
           m == IF Left = 0 THEN 0 ELSE Left - 1
<1>1. Left \in Nat /\ IsStack(todo) /\ Layered(todo, Left) /\ todo # <<>> /\ todo' = u
  BY LeftFacts DEF NextMove
<1>2. Layered(u, m) /\ m \in Nat
  BY <1>1, LayeredRest
<1>3. OnTrack(ast, u, m) /\ Spot(ast, u, m) = IF Left = 0 THEN Here + 1 ELSE Here
  BY <1>1, TrackRest DEF Here
<1> HIDE DEF u, m
<1>4. Left' = m
  BY <1>1, <1>2, OneLayer DEF Left
<1> QED BY <1>1, <1>3, <1>4 DEF Here, m, OnTrack, Spot

LEMMA AfterBody ==
  ASSUME NInv, ast \in Programs, OnTrack(ast, todo, Left), BodyMove, ast' = ast
  PROVE  /\ OnTrack(ast, todo, Left)'
         /\ Left > 1 /\ Left' > 1 /\ Left' \in Nat
         /\ Here' = Here
<1>0. PICK b \in Seq(Statements) : \E x :
        /\ todo' = Opening(b, x, Tail(todo))
        /\ Quiet(b) /\ \A last : InBody(x, last)
        /\ \A body : From(S, body) => From(x, body) /\ \A i \in 1..Len(b) : From(b[i], body)
  BY DEF BodyMove
<1>1. PICK x :
        /\ todo' = Opening(b, x, Tail(todo))
        /\ Quiet(b) /\ \A last : InBody(x, last)
        /\ \A body : From(S, body) => From(x, body) /\ \A i \in 1..Len(b) : From(b[i], body)
  BY <1>0
<1>2. /\ Left \in Nat /\ IsStack(todo) /\ Layered(todo, Left) /\ todo # <<>>
      /\ S.k \in {"if", "while", "else"} /\ S = todo[1]
  BY LeftFacts, RestAt DEF BodyMove, S
<1>3. Left > 1
  BY <1>2, LeftFacts, Placed
<1> DEFINE u == Opening(b, x, Tail(todo))
           m == Left + Len(b)
           body == ast[Here].body
<1>4. Layered(u, m) /\ m \in Nat /\ m > 1
  BY <1>1, <1>2, <1>3, LayeredBody
<1>5. ast \in Seq(Statements) /\ Len(ast) \in Nat
  BY StatementsAssumption, LenProperties
<1>6. body \in Seq(Statements)
  <2>1. Here \in 1..Len(ast) /\ ast[Here].k \in {"func", "main"}
    BY <1>2, <1>3 DEF OnTrack, Here
  <2> QED BY <1>5, <2>1, ElementOfSeq, Bodies
<1>7. From(S, body)
  <2>1. 1 \in 1..(Left - 1)
    BY <1>2, <1>3
  <2> QED BY <1>2, <2>1 DEF OnTrack, Here
<1>8. From(x, body) /\ \A i \in 1..Len(b) : From(b[i], body)
  BY <1>1, <1>7
<1>9. OnTrack(ast, u, m) /\ Spot(ast, u, m) = Here
  <2>1. Spot(ast, todo, Left) = Here /\ todo[1].k \in {"if", "while", "else"}
    BY <1>2 DEF Here
  <2>2. /\ AllFrom(b, ast[Spot(ast, todo, Left)].body)
        /\ From(x, ast[Spot(ast, todo, Left)].body)
        /\ ast[Spot(ast, todo, Left)].body \in Seq(Statements)
    BY <1>6, <1>8, <2>1 DEF AllFrom
  <2> HIDE DEF body
  <2>3. b \in Seq(Statements)
    BY <1>1
  <2>4. OnTrack(ast, u, m) /\ Spot(ast, u, m) = Spot(ast, todo, Left)
    <3>1. BodyOpens(ast, todo, b, x, Left)
      BY <1>2, <1>3, <1>5, <2>1, <2>2, <2>3, Zenon DEF BodyOpens
    <3>2. /\ OnTrack(ast, Opening(b, x, Tail(todo)), Left + Len(b))
          /\ Spot(ast, Opening(b, x, Tail(todo)), Left + Len(b)) = Spot(ast, todo, Left)
      <4>1. \A t, bb, y, n :
              BodyOpens(ast, t, bb, y, n) =>
                /\ OnTrack(ast, Opening(bb, y, Tail(t)), n + Len(bb))
                /\ Spot(ast, Opening(bb, y, Tail(t)), n + Len(bb)) = Spot(ast, t, n)
        BY TrackBody, ZenonT(30)
      <4>2. \A bb, y, n :
              BodyOpens(ast, todo, bb, y, n) =>
                /\ OnTrack(ast, Opening(bb, y, Tail(todo)), n + Len(bb))
                /\ Spot(ast, Opening(bb, y, Tail(todo)), n + Len(bb)) = Spot(ast, todo, n)
        BY <4>1, ZenonT(30)
      <4>3. \A n :
              BodyOpens(ast, todo, b, x, n) =>
                /\ OnTrack(ast, Opening(b, x, Tail(todo)), n + Len(b))
                /\ Spot(ast, Opening(b, x, Tail(todo)), n + Len(b)) = Spot(ast, todo, n)
        BY <4>2, ZenonT(30)
      <4> QED BY <3>1, <4>3, ZenonT(30)
    <3> QED BY <3>2 DEF u, m
  <2> QED BY <2>1, <2>4
<1> HIDE DEF u, m
<1>10. todo' = u
  BY <1>1 DEF u
<1>11. Left' = m
  BY <1>4, <1>10, OneLayer DEF Left
<1> QED BY <1>3, <1>4, <1>9, <1>10, <1>11 DEF Here, OnTrack, Spot

LEMMA AfterTop ==
  ASSUME NInv, ast \in Programs, OnTrack(ast, todo, Left), NEW name, TopMove(name), ast' = ast
  PROVE  /\ OnTrack(ast, todo, Left)'
         /\ Left = 0 /\ Left' > 0 /\ Left' = Len(S.body) + 1 /\ Left' \in Nat
         /\ Here' = Here + 1 /\ ast[Here'] = S /\ Here' \in 1..Len(ast)
         /\ Last(currentFunction') = name /\ currentFunction' # <<>> /\ P!NameAt(Here') = name
<1>1. PICK x : EndsBody(x) /\ todo' = Opening(S.body, x, Tail(todo))
  BY DEF TopMove
<1>2. /\ Left \in Nat /\ IsStack(todo) /\ Layered(todo, Left) /\ todo # <<>>
      /\ S.k \in {"func", "main"} /\ S = todo[1]
  BY LeftFacts, RestAt DEF TopMove, S
<1>3. Left = 0 /\ S \in Statements /\ FunctionBody(S.body)
  BY <1>2, LeftFacts, Placed
<1>4. S.body \in Seq(Statements)
  BY <1>2, <1>3, Bodies
<1> DEFINE u == Opening(S.body, x, Tail(todo))
           m == Len(S.body) + 1
<1>5. Layered(u, m) /\ m \in Nat /\ m > 0
  BY <1>1, <1>2, <1>3, <1>4, LayeredTop, LenProperties
<1>6. Len(ast) \in Nat
  BY StatementsAssumption, LenProperties
<1>7. OnTrack(ast, u, m) /\ Spot(ast, u, m) = Here + 1 /\ ast[Here + 1] = S
  <2>1. OnTrack(ast, todo, 0) /\ Spot(ast, todo, 0) = Here
    BY <1>3 DEF Here
  <2>2. todo[1].k \in {"func", "main"} /\ todo[1].body \in Seq(Statements)
    BY <1>2, <1>4
  <2>3. /\ OnTrack(ast, Opening(todo[1].body, x, Tail(todo)), Len(todo[1].body) + 1)
        /\ Spot(ast, Opening(todo[1].body, x, Tail(todo)), Len(todo[1].body) + 1) = Spot(ast, todo, 0) + 1
        /\ ast[Spot(ast, todo, 0) + 1] = todo[1]
    BY <1>2, <1>6, <2>1, <2>2, TrackTop
  <2> QED BY <1>2, <2>1, <2>3
<1> HIDE DEF u, m
<1>8. todo' = u
  BY <1>1 DEF u
<1>9. Left' = m
  BY <1>5, <1>8, OneLayer DEF Left
<1>10. OnTrack(ast, todo, Left)' /\ Here' = Here + 1
  BY <1>7, <1>8, <1>9 DEF Here, OnTrack, Spot
<1>11. ast[Here'] = S /\ Here' \in 1..Len(ast)
  BY <1>5, <1>7, <1>9, <1>10 DEF OnTrack, Here
<1>12. Last(currentFunction') = name /\ currentFunction' # <<>>
  BY LeftFacts, PushAt DEF TopMove
<1>13. P!NameAt(Here') = name
  BY <1>11 DEF P!NameAt, TopMove
<1> QED BY <1>3, <1>5, <1>9, <1>10, <1>11, <1>12, <1>13 DEF m

\* What function f knows: its parameters and its variables.
Known(f) == DOMAIN functions[f].params \cup DOMAIN functions[f].locals

\* In a function the last of _currentFunction is that function, and until its return the
\* Context knows what the function knows.
FunctionHere == Left > 0 => currentFunction # <<>> /\ Last(currentFunction) = P!NameAt(Here)
DomainHere == Left > 1 => DOMAIN Variables = Known(Last(currentFunction))

WhereInv ==
  /\ NInv /\ OnTrack(ast, todo, Left)
  /\ Left > 0 => phase = "done"
  /\ FunctionHere /\ DomainHere

LEMMA WhereStart == ASSUME Init, Structured(ast) PROVE WhereInv
<1>1. NInv /\ todo = ast /\ ast \in Programs
  BY FitStart DEF Init, FP!Init
<1>2. ast \in Seq(Statements) /\ Len(ast) \in Nat
  BY <1>1, StatementsAssumption, LenProperties
<1>3. \A i \in 1..Len(ast) : AtTop(ast[i])
  <2> SUFFICES ASSUME NEW i \in 1..Len(ast) PROVE AtTop(ast[i])
    OBVIOUS
  <2>1. ast[i] \in Statements
    BY <1>2, ElementOfSeq
  <2> QED BY <2>1 DEF Structured, AtTop, FunctionBody
<1>4. Left = 0
  <2>1. Layered(todo, 0)
    BY <1>1, <1>2, <1>3 DEF Layered
  <2> QED BY <2>1, LeftIs
<1>5. OnTrack(ast, todo, Left)
  BY <1>1, <1>2, <1>4 DEF OnTrack, Spot
<1> QED BY <1>1, <1>4, <1>5 DEF WhereInv, FunctionHere, DomainHere

LEMMA WhereStill == ASSUME WhereInv, NInv', UNCHANGED <<ast, todo, contexts, currentFunction>>,
                           phase = "done" => UNCHANGED <<phase, functions>>
                    PROVE  WhereInv'
<1>1. Left' = Left /\ Here' = Here /\ Variables' = Variables /\ OnTrack(ast, todo, Left)'
  BY DEF Left, Here, Layered, Variables, WhereInv, OnTrack, Spot
<1>2. CASE Left > 0
  <2>1. UNCHANGED <<ast, functions>> /\ phase' = "done"
    BY <1>2 DEF WhereInv
  <2>2. Known(Last(currentFunction))' = Known(Last(currentFunction)) /\ P!NameAt(Here)' = P!NameAt(Here)
    BY <1>1, <2>1 DEF Known, P!NameAt
  <2> QED BY <1>1, <2>1, <2>2 DEF WhereInv, FunctionHere, DomainHere
<1>3. CASE ~(Left > 0)
  <2>1. Left = 0
    BY <1>3, LeftFacts DEF WhereInv
  <2> QED BY <1>1, <2>1 DEF WhereInv, FunctionHere, DomainHere
<1> QED BY <1>2, <1>3

LEMMA WhereNext ==
  ASSUME WhereInv, ast \in Programs, NInv', NextMove, UNCHANGED <<ast, phase, functions>>,
         Left > 1 => currentFunction' = currentFunction,
         Left > 2 => DOMAIN Variables' = DOMAIN Variables
  PROVE  WhereInv'
<1>1. Len(ast) \in Nat
  BY StatementsAssumption, LenProperties
<1>2. /\ OnTrack(ast, todo, Left)'
      /\ Left' = IF Left = 0 THEN 0 ELSE Left - 1
      /\ Here' = IF Left = 0 THEN Here + 1 ELSE Here
  BY <1>1, AfterNext DEF WhereInv
<1>3. Left \in Nat
  BY LeftFacts DEF WhereInv
<1>4. Left' > 0 => Left > 1 /\ Here' = Here
  BY <1>2, <1>3
<1>5. Left' > 1 => Left > 2 /\ Left > 1
  BY <1>2, <1>3
<1>6. FunctionHere'
  <2> SUFFICES ASSUME Left' > 0
               PROVE  currentFunction' # <<>> /\ Last(currentFunction') = P!NameAt(Here)'
    BY DEF FunctionHere
  <2>1. Left > 1 /\ Left > 0 /\ Here' = Here
    BY <1>3, <1>4
  <2>2. P!NameAt(Here)' = P!NameAt(Here)
    BY <2>1 DEF P!NameAt
  <2> QED BY <2>1, <2>2 DEF WhereInv, FunctionHere
<1>7. DomainHere'
  <2> SUFFICES ASSUME Left' > 1 PROVE DOMAIN Variables' = Known(Last(currentFunction))'
    BY DEF DomainHere
  <2>1. Left > 2 /\ Left > 1 /\ currentFunction' = currentFunction
    BY <1>5
  <2>2. Known(Last(currentFunction))' = Known(Last(currentFunction))
    BY <2>1 DEF Known
  <2> QED BY <2>1, <2>2 DEF WhereInv, DomainHere
<1>8. Left' > 0 => phase' = "done"
  BY <1>3, <1>4 DEF WhereInv
<1> QED BY <1>2, <1>6, <1>7, <1>8 DEF WhereInv

LEMMA WhereBody ==
  ASSUME WhereInv, ast \in Programs, NInv', BodyMove,
         UNCHANGED <<ast, phase, functions, currentFunction>>,
         DOMAIN Variables' = DOMAIN Variables
  PROVE  WhereInv'
<1>1. /\ OnTrack(ast, todo, Left)' /\ Left > 1 /\ Left' > 1 /\ Left' \in Nat /\ Here' = Here
  BY AfterBody DEF WhereInv
<1>2. Left \in Nat /\ Left > 0
  BY <1>1, LeftFacts DEF WhereInv
<1>3. Known(Last(currentFunction))' = Known(Last(currentFunction)) /\ P!NameAt(Here)' = P!NameAt(Here)
  BY <1>1 DEF Known, P!NameAt
<1> QED BY <1>1, <1>2, <1>3 DEF WhereInv, FunctionHere, DomainHere

LEMMA WhereTop ==
  ASSUME WhereInv, FlowInv, phase = "done", NInv', NEW name, TopMove(name),
         UNCHANGED <<ast, phase, functions>>
  PROVE  WhereInv'
<1>1. /\ OnTrack(ast, todo, Left)' /\ Here' \in 1..Len(ast) /\ ast[Here'] = S
      /\ Last(currentFunction') = name /\ currentFunction' # <<>> /\ P!NameAt(Here') = name
  BY AfterTop DEF WhereInv, FlowInv
<1>2. P!NameAt(Here)' = name
  BY <1>1 DEF P!NameAt
<1>3. name \in FunctionNames
  <2>1. S.k \in {"func", "main"} /\ Here' \in P!FunctionsOf
    BY <1>1 DEF TopMove, P!FunctionsOf, P!Of
  <2> QED BY <1>1, <2>1, RecordedFacts DEF P!Recorded, FunctionNames
<1>4. Variables' = FrameOf(name)
  <2>1. contexts' # <<>> /\ Last(contexts') = FrameOf(name)
    BY PushAt DEF TopMove, FlowInv, ContextsOK
  <2> QED BY <2>1 DEF Variables
<1>5. DOMAIN FrameOf(name) = Known(name)
  BY <1>3, RecordedFacts, FrameFacts DEF P!Recorded, Known
<1>6. Known(name)' = Known(name)
  BY DEF Known
<1> QED BY <1>1, <1>2, <1>4, <1>5, <1>6 DEF WhereInv, FunctionHere, DomainHere

\* A value leaves the names of the Context as they are.
LEMMA NamesAfter ==
  ASSUME ContextsOK(contexts), contexts # <<>>, NEW e, Countable(e),
         \/ contexts' = contexts
         \/ contexts' = WithVariables(VariablesAfter(e))
  PROVE  DOMAIN Variables' = DOMAIN Variables
<1>1. ContextOK(VariablesAfter(e)) /\ DOMAIN VariablesAfter(e) = DOMAIN Variables
  BY AfterOK
<1>2. CASE contexts' = contexts
  BY <1>2 DEF Variables
<1>3. CASE contexts' = WithVariables(VariablesAfter(e))
  <2>1. Variables' = VariablesAfter(e)
    BY <1>1, <1>3, OnTop
  <2> QED BY <1>1, <2>1
<1> QED BY <1>2, <1>3

LEMMA WhereStep == ASSUME FlowInv, WhereInv, [Next]_vars PROVE WhereInv'
<1>1. NInv' /\ NInv /\ ast' = ast /\ ast \in Programs
  BY FitStep, AstStays DEF WhereInv, FlowInv
<1>2. ContextsOK(contexts) /\ contexts # <<>> /\ Left \in Nat
      /\ StacksFit(todo, contexts, currentFunction, Left)
  BY LeftFacts DEF WhereInv, FlowInv
<1>6. GenDecl \/ GenAssign \/ GenExit \/ GenIf \/ GenWhile => Countable(S.value)
  BY AtStatement, StatementValues DEF FlowInv, GenDecl, GenAssign, GenExit, GenIf, GenWhile
<1>3. CASE UNCHANGED vars
  BY <1>1, <1>3, WhereStill DEF vars, passVars, genVars
<1>4. CASE Passes
  BY <1>1, <1>4, WhereStill, PassesRunFirst DEF Passes, genVars
<1>5. CASE Generate
  <2>1. phase = "done" /\ UNCHANGED <<ast, phase, functions>>
    BY <1>5, GeneratesLast DEF passVars
  <2>2. CASE UNCHANGED <<todo, contexts, currentFunction>>
    BY <1>1, <2>1, <2>2, WhereStill
  <2>3. CASE GenDecl
    <3>1. NextMove /\ currentFunction' = currentFunction
      BY <2>3 DEF GenDecl, NextMove, At
    <3>2. S.name \in Known(Last(currentFunction))
      BY <2>3 DEF GenDecl, LocalsHere, Known
    <3> DEFINE v == FP!Assign(VariablesAfter(S.value), S.name,
                     [type |-> typeIDs[S.type], location |-> LocalsHere[S.name].location])
    <3>3. ContextOK(v) /\ DOMAIN v = DOMAIN Variables \cup {S.name}
      <4> DEFINE a == VariablesAfter(S.value)
                 e == [type |-> typeIDs[S.type], location |-> LocalsHere[S.name].location]
                 x == S.name
      <4>1. ContextOK(a) /\ DOMAIN a = DOMAIN Variables
        BY <1>6, <1>2, <2>3, AfterOK
      <4>2. e \in Entry
        BY <2>3, DeclaredEntry
      <4> HIDE DEF a, e, x
      <4>3. ContextOK(FP!Assign(a, x, e)) /\ DOMAIN FP!Assign(a, x, e) = DOMAIN a \cup {x}
        BY <4>1, <4>2, AssignOK, Zenon
      <4> QED BY <4>1, <4>3 DEF a, e, x
    <3>4. contexts' = WithVariables(v)
      BY <2>3 DEF GenDecl
    <3> HIDE DEF v
    <3>5. Variables' = v
      BY <1>2, <3>3, <3>4, OnTop
    <3>6. Left > 2 => DOMAIN Variables = Known(Last(currentFunction))
      BY <1>2 DEF WhereInv, DomainHere
    <3>7. Left > 2 => DOMAIN Variables' = DOMAIN Variables
      BY <3>2, <3>3, <3>5, <3>6
    <3> QED BY <1>1, <2>1, <3>1, <3>7, WhereNext
  <2>4. CASE GenAssign \/ GenExit
    <3>1. NextMove /\ currentFunction' = currentFunction
      BY <2>4 DEF GenAssign, GenExit, NextMove, At
    <3>2. DOMAIN Variables' = DOMAIN Variables
      BY <1>6, <1>2, <2>4, NamesAfter DEF GenAssign, GenExit
    <3> QED BY <1>1, <2>1, <3>1, <3>2, WhereNext
  <2>5. CASE EndMain \/ EndIf \/ Loop \/ GenAsm \/ SkipType
    <3>1. NextMove /\ UNCHANGED <<currentFunction, contexts>>
      BY <2>5 DEF EndMain, EndIf, Loop, GenAsm, SkipType, NextMove, At
    <3>2. Variables' = Variables
      BY <3>1 DEF Variables
    <3> QED BY <1>1, <2>1, <3>1, <3>2, WhereNext
  <2>11. CASE GenCall
    <3>1. NextMove /\ currentFunction' = currentFunction
      BY <2>11 DEF GenCall, NextMove, At
    <3>2. DOMAIN Variables' = DOMAIN Variables
      BY <1>2, <2>11, CallContexts DEF FlowInv
    <3> QED BY <1>1, <2>1, <3>1, <3>2, WhereNext
  <2>6. CASE GenReturn
    <3>1. NextMove /\ currentFunction' = currentFunction /\ S.k = "return"
      BY <2>6 DEF GenReturn, NextMove, At, S
    <3>2. Left = 2
      BY <1>2, <3>1, Placed DEF NextMove
    <3> QED BY <1>1, <2>1, <3>1, <3>2, WhereNext
  <2>7. CASE EndFunc
    <3>1. NextMove /\ S.k = "endfunc"
      BY <2>7 DEF EndFunc, NextMove, At, S
    <3>2. Left = 1
      BY <1>2, <3>1, Placed DEF NextMove
    <3> QED BY <1>1, <2>1, <3>1, <3>2, WhereNext
  <2>8. CASE GenMain \/ GenFunc
    BY <1>1, <2>1, <2>8, MainMoves, FuncMoves, WhereTop
  <2>9. CASE GenIf \/ GenWhile \/ GenElse
    <3>1. BodyMove
      BY <1>1, <2>9, BodyMoves
    <3>2. currentFunction' = currentFunction
      BY <2>9 DEF GenIf, GenWhile, GenElse
    <3>3. DOMAIN Variables' = DOMAIN Variables
      <4>1. CASE GenIf \/ GenWhile
        BY <1>6, <1>2, <4>1, NamesAfter DEF GenIf, GenWhile, ContextsAfterTest
      <4>2. CASE GenElse
        BY <4>2 DEF GenElse, Variables
      <4> QED BY <2>9, <4>1, <4>2
    <3> QED BY <1>1, <2>1, <3>1, <3>2, <3>3, WhereBody
  <2>10. \/ UNCHANGED <<todo, contexts, currentFunction>>
         \/ GenDecl \/ GenAssign \/ GenExit \/ EndMain \/ GenCall \/ EndIf \/ Loop \/ GenAsm \/ SkipType
         \/ GenReturn \/ EndFunc \/ GenMain \/ GenFunc \/ GenIf \/ GenWhile \/ GenElse
    BY <1>5 DEF Generate, Undefined, ValueThrows, DeclThrows, AssignThrows, FuncThrows, Throw, Write, genVars
  <2> QED BY <2>2, <2>3, <2>4, <2>5, <2>6, <2>7, <2>8, <2>9, <2>10, <2>11
<1> QED BY <1>3, <1>4, <1>5 DEF Next

\* Programs do not change.
LEMMA SameProgram == ast' = ast => /\ Structured(ast)' = Structured(ast)
                                   /\ Supported(ast)' = Supported(ast)
                                   /\ WellShaped(ast)' = WellShaped(ast)
                                   /\ Quadwords(ast)' = Quadwords(ast)
OBVIOUS

LEMMA WhereHolds == GenSpec => [](FlowInv /\ (Structured(ast) => WhereInv))
<1> DEFINE Inv == FlowInv /\ (Structured(ast) => WhereInv)
<1>1. Init => Inv
  BY FlowAtFirst, WhereStart
<1>2. Inv /\ [Next]_vars => Inv'
  BY FlowStep, WhereStep, AstStays, SameProgram
<1>3. Inv => FlowInv /\ (Structured(ast) => WhereInv)
  OBVIOUS
<1> HIDE DEF Inv
<1> QED BY <1>1, <1>2, <1>3, PTL DEF GenSpec

\* A supported program is structured, and has no types.
LEMMA SupportedShape ==
  Supported(ast) => /\ Structured(ast)
                    /\ \A i \in 1..Len(ast) : ast[i].k \in {"func", "main"}
<1> SUFFICES ASSUME Supported(ast), NEW i \in 1..Len(ast)
             PROVE  /\ ast[i].k \in {"func", "main"}
                    /\ ReturnsLast(ast[i].body)
                    /\ \A s \in Inside(ast[i].body) : s.k \notin {"func", "main"}
  BY DEF Structured
<1>1. /\ ReturnsLast(ast[i].body)
      /\ \/ ast[i].k = "func" /\ SupportedBody(ast[i].body, ast[i].args, "return")
         \/ ast[i].k = "main" /\ SupportedBody(ast[i].body, <<>>, "exit")
  BY DEF Supported, WellShaped
<1>2. \A s \in Inside(ast[i].body) : s.k \notin {"func", "main"}
  BY <1>1 DEF SupportedBody
<1> QED BY <1>1, <1>2

\* The Context is that of the function: between the header of a function and its return the
\* generator knows the parameters and variables of that function and no others, whatever it
\* has generated before (enter_context, leave_context, generate_declaration).
THEOREM ContextsAreOwn == GenSpec => []ContextIsTheFunctions
<1>1. ASSUME FlowInv, Structured(ast) => WhereInv PROVE ContextIsTheFunctions
  <2> SUFFICES ASSUME Supported(ast), phase = "done", todo # <<>>,
                      Head(todo).k \notin {"func", "main", "endfunc", "endmain"}
               PROVE  DOMAIN Variables = Known(Last(currentFunction))
    BY DEF ContextIsTheFunctions, Known
  <2>1. WhereInv /\ Left \in Nat /\ IsStack(todo) /\ Layered(todo, Left)
    BY <1>1, SupportedShape, LeftFacts DEF WhereInv
  <2>2. Left # 1
    BY <2>1, HeadLayer DEF S
  <2>3. Left # 0
    <3> SUFFICES ASSUME Left = 0 PROVE FALSE
      OBVIOUS
    <3>1. /\ Len(todo) \in Nat \ {0} /\ S = todo[1]
      BY <2>1, RestAt DEF S
    <3>2. 1 \in (Left + 1)..Len(todo)
      BY <3>1
    <3>3. todo[1] = ast[Len(ast) - Len(todo) + 1] /\ Len(ast) - Len(todo) + Left \in 0..Len(ast)
      BY <2>1, <3>2 DEF WhereInv, OnTrack, Spot
    <3>4. Len(ast) - Len(todo) + 1 \in 1..Len(ast)
      <4>1. Len(ast) \in Nat
        BY <1>1, StatementsAssumption, LenProperties DEF FlowInv
      <4> QED BY <3>1, <3>3, <4>1
    <3> QED BY <3>1, <3>3, <3>4, SupportedShape DEF S
  <2>4. Left > 1
    BY <2>1, <2>2, <2>3
  <2> QED BY <2>1, <2>4 DEF WhereInv, DomainHere
<1> QED BY <1>1, WhereHolds, PTL

-----------------------------------------------------------------------------
(* Stores and frames.                                                      *)

\* Where frames are pushed, and the last of these places before place i.
EntersIn(c) == {j \in 1..Len(c) : c[j].op = "enter"}
EntersBefore(c, i) == {j \in EntersIn(c) : j < i}
Entered(c, i) == \E j \in EntersBefore(c, i) : \A k \in EntersBefore(c, i) : k <= j

\* FrameAt, of any code.
FrameIn(c, i) ==
  LET enter == c[CHOOSE j \in EntersBefore(c, i) : \A k \in EntersBefore(c, i) : k <= j].arg
  IN  Len(enter.regs) + enter.zeros

\* The stack is stored to in the frame only.
Framed(c) ==
  \A i \in 1..Len(c) : c[i].op = "store" /\ c[i].arg.reg = "RSP" =>
    Entered(c, i) /\ c[i].arg.disp \in 0..QWORD * (FrameIn(c, i) - 1)

LEMMA SameFrame ==
  \A c, e, i, j :
    /\ EntersBefore(c, i) = EntersBefore(e, j)
    /\ \A k \in 1..Len(c) : e[k] = c[k]
    /\ Entered(c, i)
    => Entered(e, j) /\ FrameIn(e, j) = FrameIn(c, i)
<1> SUFFICES ASSUME NEW c, NEW e, NEW i, NEW j, EntersBefore(c, i) = EntersBefore(e, j),
                    \A k \in 1..Len(c) : e[k] = c[k], Entered(c, i)
             PROVE  Entered(e, j) /\ FrameIn(e, j) = FrameIn(c, i)
  OBVIOUS
<1> DEFINE enters == EntersBefore(c, i)
           at == CHOOSE k \in enters : \A l \in enters : l <= k
<1>1. at \in enters
  <2>1. \E k \in enters : \A l \in enters : l <= k
    BY DEF Entered
  <2> QED BY <2>1
<1>2. at \in 1..Len(c)
  BY <1>1 DEF EntersBefore, EntersIn
<1>3. FrameIn(c, i) = Len(c[at].arg.regs) + c[at].arg.zeros
  BY DEF FrameIn
<1>4. FrameIn(e, j) = Len(e[at].arg.regs) + e[at].arg.zeros
  BY DEF FrameIn
<1>5. Entered(e, j)
  BY DEF Entered
<1> QED BY <1>2, <1>3, <1>4, <1>5

\* Instructions behind the code leave its frames as they are; without a new frame the last
\* one stays the last.
LEMMA FramesKept ==
  \A c, d, i : IsStack(c) /\ IsStack(d) /\ i \in 1..(Len(c) + 1) /\ Entered(c, i) =>
    Entered(c \o d, i) /\ FrameIn(c \o d, i) = FrameIn(c, i)
<1> SUFFICES ASSUME NEW c, NEW d, NEW i, IsStack(c), IsStack(d), i \in 1..(Len(c) + 1),
                    Entered(c, i)
             PROVE  Entered(c \o d, i) /\ FrameIn(c \o d, i) = FrameIn(c, i)
  OBVIOUS
<1> DEFINE e == c \o d
<1>1. /\ Len(c) \in Nat /\ Len(d) \in Nat /\ Len(e) = Len(c) + Len(d)
      /\ \A k \in 1..Len(c) : e[k] = c[k]
  BY JoinedAt
<1> HIDE DEF e
<1>2. \A k : k \in 1..Len(e) /\ k < i <=> k \in 1..Len(c) /\ k < i
  BY <1>1
<1>3. EntersBefore(c, i) = EntersBefore(e, i)
  BY <1>1, <1>2 DEF EntersBefore, EntersIn
<1>4. Entered(e, i) /\ FrameIn(e, i) = FrameIn(c, i)
  BY <1>1, <1>3, SameFrame
<1> QED BY <1>4 DEF e

LEMMA FramesGoOn ==
  \A c, d, i :
    /\ IsStack(c) /\ IsStack(d) /\ "enter" \notin OpsIn(d)
    /\ i \in Nat /\ i > Len(c) /\ i <= Len(c) + Len(d) + 1 /\ Entered(c, Len(c) + 1)
    => Entered(c \o d, i) /\ FrameIn(c \o d, i) = FrameIn(c, Len(c) + 1)
<1> SUFFICES ASSUME NEW c, NEW d, NEW i \in Nat, IsStack(c), IsStack(d), "enter" \notin OpsIn(d),
                    i > Len(c), i <= Len(c) + Len(d) + 1, Entered(c, Len(c) + 1)
             PROVE  Entered(c \o d, i) /\ FrameIn(c \o d, i) = FrameIn(c, Len(c) + 1)
  OBVIOUS
<1> DEFINE e == c \o d
<1>1. /\ Len(c) \in Nat /\ Len(d) \in Nat /\ Len(e) = Len(c) + Len(d)
      /\ \A k \in 1..Len(c) : e[k] = c[k]
      /\ \A k \in 1..Len(d) : e[Len(c) + k] = d[k]
  BY JoinedAt
<1> HIDE DEF e
<1>2. \A k \in 1..Len(e) : e[k].op = "enter" => k \in 1..Len(c)
  <2> SUFFICES ASSUME NEW k \in 1..Len(e), k \notin 1..Len(c) PROVE e[k].op # "enter"
    OBVIOUS
  <2>1. k - Len(c) \in 1..Len(d) /\ Len(c) + (k - Len(c)) = k
    BY <1>1
  <2>2. e[k] = d[k - Len(c)]
    BY <1>1, <2>1
  <2> QED BY <2>1, <2>2 DEF OpsIn
<1>3. /\ \A k \in 1..Len(c) : k \in 1..Len(e) /\ k < i /\ k < Len(c) + 1
  BY <1>1
<1>4. EntersBefore(c, Len(c) + 1) = EntersBefore(e, i)
  BY <1>1, <1>2, <1>3 DEF EntersBefore, EntersIn
<1>5. Entered(e, i) /\ FrameIn(e, i) = FrameIn(c, Len(c) + 1)
  BY <1>1, <1>4, SameFrame
<1> QED BY <1>5 DEF e

\* What a step adds that pushes no frame, if its stores are in the last one.
LEMMA FramedMore ==
  \A c, d :
    /\ IsStack(c) /\ IsStack(d) /\ Framed(c) /\ "enter" \notin OpsIn(d)
    /\ \A p \in StoresIn(d) : p.reg = "RSP" =>
         Entered(c, Len(c) + 1) /\ p.disp \in 0..QWORD * (FrameIn(c, Len(c) + 1) - 1)
    => Framed(c \o d)
<1> SUFFICES ASSUME NEW c, NEW d, IsStack(c), IsStack(d), Framed(c), "enter" \notin OpsIn(d),
                    \A p \in StoresIn(d) : p.reg = "RSP" =>
                      Entered(c, Len(c) + 1) /\ p.disp \in 0..QWORD * (FrameIn(c, Len(c) + 1) - 1)
             PROVE  Framed(c \o d)
  OBVIOUS
<1> DEFINE e == c \o d
<1>1. /\ Len(c) \in Nat /\ Len(d) \in Nat /\ Len(e) = Len(c) + Len(d)
      /\ \A k \in 1..Len(c) : e[k] = c[k]
      /\ \A k \in 1..Len(d) : e[Len(c) + k] = d[k]
  BY JoinedAt
<1>2. \A i \in 1..(Len(c) + 1) : Entered(c, i) => Entered(e, i) /\ FrameIn(e, i) = FrameIn(c, i)
  BY FramesKept
<1>3. \A i \in Nat : i > Len(c) /\ i <= Len(c) + Len(d) + 1 /\ Entered(c, Len(c) + 1) =>
        Entered(e, i) /\ FrameIn(e, i) = FrameIn(c, Len(c) + 1)
  BY FramesGoOn
<1> HIDE DEF e
<1>4. ASSUME NEW i \in 1..Len(e), e[i].op = "store", e[i].arg.reg = "RSP"
      PROVE  Entered(e, i) /\ e[i].arg.disp \in 0..QWORD * (FrameIn(e, i) - 1)
  <2>1. CASE i \in 1..Len(c)
    <3>1. i \in 1..(Len(c) + 1) /\ e[i] = c[i]
      BY <1>1, <2>1
    <3>2. Entered(c, i) /\ c[i].arg.disp \in 0..QWORD * (FrameIn(c, i) - 1)
      BY <1>4, <2>1, <3>1 DEF Framed
    <3> QED BY <1>2, <3>1, <3>2
  <2>2. CASE i \notin 1..Len(c)
    <3>1. /\ i - Len(c) \in 1..Len(d) /\ Len(c) + (i - Len(c)) = i
          /\ i \in Nat /\ i > Len(c) /\ i <= Len(c) + Len(d) + 1
      BY <1>1, <2>2
    <3>2. e[i] = d[i - Len(c)]
      BY <1>1, <3>1
    <3>3. e[i].arg \in StoresIn(d)
      BY <1>4, <3>1, <3>2 DEF StoresIn
    <3> QED BY <1>3, <1>4, <3>1, <3>3
  <2> QED BY <2>1, <2>2
<1>5. Framed(e)
  BY <1>4 DEF Framed
<1> QED BY <1>5 DEF e

\* The header of a function pushes the frame that its Context is for.
LEMMA FramedHeader ==
  \A c, label, f, rest :
    IsStack(c) /\ Framed(c) /\ Len(Saved(f)) \in Nat =>
      LET e == c \o Header(label, f, rest)
      IN  Framed(e) /\ Entered(e, Len(e) + 1) /\ FrameIn(e, Len(e) + 1) = FrameSize(f)
<1> SUFFICES ASSUME NEW c, NEW label, NEW f, NEW rest, IsStack(c), Framed(c), Len(Saved(f)) \in Nat
             PROVE  LET e == c \o Header(label, f, rest)
                    IN  /\ Framed(e) /\ Entered(e, Len(e) + 1)
                        /\ FrameIn(e, Len(e) + 1) = FrameSize(f)
  OBVIOUS
<1> DEFINE d == Header(label, f, rest)
           e == c \o d
<1>1. /\ IsStack(d) /\ Len(d) = 2 /\ d[1].op = "label" /\ d[2].op = "enter"
      /\ d[2].arg.zeros = Len(Zeroed(f))
      /\ Len(d[2].arg.regs) = Len([i \in 1..Len(Saved(f)) |->
                                     functions[f].params[Saved(f)[i]].location.reg])
      /\ StoresIn(d) = {}
  BY HeaderOps
<1>2. Len(d[2].arg.regs) = Len(Saved(f))
  <2> DEFINE r == [i \in 1..Len(Saved(f)) |-> functions[f].params[Saved(f)[i]].location.reg]
             T == {r[i] : i \in 1..Len(Saved(f))}
             n == Len(Saved(f))
  <2>1. r \in [1..n -> T] /\ n \in Nat
    OBVIOUS
  <2> HIDE DEF r, T, n
  <2>3. r \in Seq(T)
    BY <2>1, SeqDef
  <2>4. Len(r) \in Nat /\ DOMAIN r = 1..Len(r) /\ DOMAIN r = 1..n
    BY <2>1, <2>3, LenProperties
  <2>2. Len(r) = n
    BY <2>1, <2>4, SameInterval
  <2> QED BY <1>1, <2>2 DEF r, n
<1> HIDE DEF d
<1>3. /\ Len(c) \in Nat /\ Len(e) = Len(c) + Len(d)
      /\ \A k \in 1..Len(c) : e[k] = c[k]
      /\ \A k \in 1..Len(d) : e[Len(c) + k] = d[k]
  <2>1. IsStack(d)
    BY <1>1
  <2> QED BY <2>1, JoinedAt
<1>4. \A i \in 1..(Len(c) + 1) : Entered(c, i) => Entered(e, i) /\ FrameIn(e, i) = FrameIn(c, i)
  BY <1>1, FramesKept
<1> HIDE DEF e
<1>5. \A i \in 1..Len(e) : i \in 1..Len(c) \/ i = Len(c) + 1 \/ i = Len(c) + 2
  BY <1>1, <1>3
<1>6. e[Len(c) + 1].op = "label" /\ e[Len(c) + 2] = d[2] /\ Len(c) + 2 \in 1..Len(e)
  BY <1>1, <1>3
<1>7. ASSUME NEW i \in 1..Len(e), e[i].op = "store", e[i].arg.reg = "RSP"
      PROVE  Entered(e, i) /\ e[i].arg.disp \in 0..QWORD * (FrameIn(e, i) - 1)
  <2>1. i \in 1..Len(c)
    BY <1>1, <1>5, <1>6, <1>7
  <2>2. i \in 1..(Len(c) + 1) /\ e[i] = c[i]
    BY <1>3, <2>1
  <2>3. Entered(c, i) /\ c[i].arg.disp \in 0..QWORD * (FrameIn(c, i) - 1)
    BY <1>7, <2>1, <2>2 DEF Framed
  <2> QED BY <1>4, <2>2, <2>3
<1>8. /\ Len(c) + 2 \in EntersBefore(e, Len(e) + 1)
      /\ \A k \in EntersBefore(e, Len(e) + 1) : k <= Len(c) + 2
      /\ \A k \in EntersBefore(e, Len(e) + 1) : k \in Nat
  BY <1>1, <1>3, <1>6 DEF EntersBefore, EntersIn
<1>9. (CHOOSE j \in EntersBefore(e, Len(e) + 1) : \A k \in EntersBefore(e, Len(e) + 1) : k <= j) = Len(c) + 2
  <2> DEFINE T == EntersBefore(e, Len(e) + 1)
             j == CHOOSE j \in T : \A k \in T : k <= j
  <2>1. \E i \in T : \A k \in T : k <= i
    BY <1>8
  <2>2. j \in T /\ \A k \in T : k <= j
    BY <2>1
  <2>3. Len(c) + 2 \in T /\ (\A k \in T : k <= Len(c) + 2) /\ \A k \in T : k \in Nat
    BY <1>8
  <2> HIDE DEF T, j
  <2>4. j = Len(c) + 2
    BY <1>3, <2>2, <2>3
  <2> QED BY <2>4 DEF j, T
<1>10. FrameIn(e, Len(e) + 1) = FrameSize(f)
  BY <1>1, <1>2, <1>6, <1>9 DEF FrameIn, FrameSize
<1>11. Entered(e, Len(e) + 1)
  BY <1>8 DEF Entered
<1>12. Framed(e)
  BY <1>7 DEF Framed
<1> QED BY <1>10, <1>11, <1>12 DEF e, d

\* The statements of a body are inside it.
LEMMA InsideBody ==
  \A b \in Seq(Statements) : \A i \in 1..Len(b) : b[i] \in Inside(b) /\ b[i] \in Statements
<1> SUFFICES ASSUME NEW b \in Seq(Statements), NEW i \in 1..Len(b)
             PROVE  b[i] \in Inside(b) /\ b[i] \in Statements
  OBVIOUS
<1>1. b[i] \in Statements
  BY ElementOfSeq
<1> QED BY <1>1, InsideFacts DEF Inside

LEMMA ProgramBodies ==
  ASSUME ast \in Programs
  PROVE  /\ ast \in Seq(Statements) /\ Len(ast) \in Nat
         /\ \A i \in P!FunctionsOf : ast[i] \in Statements /\ ast[i].body \in Seq(Statements)
<1>1. ast \in Seq(Statements) /\ Len(ast) \in Nat
  BY StatementsAssumption, LenProperties
<1> QED BY <1>1, ElementOfSeq, Bodies DEF P!FunctionsOf, P!Of

\* A program of quadwords is one for the first pass, too.
LEMMA QuadwordsOnly == ASSUME ast \in Programs, Quadwords(ast) PROVE P!QuadsOnly
<1>1. \A i \in 1..Len(ast) : ast[i].k \in {"type", "func", "main"}
  BY DEF Quadwords, Structured
<1>2. P!DeclaredIn(ast) = {}
  BY <1>1 DEF P!DeclaredIn, P!Members
<1>3. \A i \in P!Of("func") : \A j \in 1..Len(ast[i].args) : ast[i].args[j].type = "int"
  BY DEF P!Of, Quadwords
<1>4. ASSUME NEW i \in P!FunctionsOf, NEW j \in 1..Len(ast[i].body), ast[i].body[j].k = "decl"
      PROVE  /\ ast[i].body[j].type = "int"
             /\ \A k \in 1..Len(ast[i].body) :
                  ast[i].body[k].k = "decl" /\ ast[i].body[k].name = ast[i].body[j].name => k = j
  <2>1. i \in 1..Len(ast) /\ ast[i].k # "type"
    BY DEF P!FunctionsOf, P!Of
  <2>2. /\ \A s \in Inside(ast[i].body) : s.k = "decl" => s.type = "int"
        /\ DeclaredOnce(ast[i].body)
    BY <2>1 DEF Quadwords
  <2>3. ast[i].body[j] \in Inside(ast[i].body)
    BY ProgramBodies, InsideBody
  <2> QED BY <1>4, <2>2, <2>3 DEF DeclaredOnce, Declarations
<1> QED BY <1>2, <1>3, <1>4 DEF P!QuadsOnly

\* Variables that are quadwords on the stack, in a frame of so many.
Fits(c, size) ==
  \A x \in DOMAIN c : c[x].location.reg = "RSP" =>
    c[x].type = 1 /\ c[x].location.disp \in 0..QWORD * (size - 1)

\* The variables of a new Context are as wide as those of the function.
LEMMA FrameTypes ==
  ASSUME P!IntInv, NEW f, NEW names \in SUBSET VariableNames,
         P!FrameRecorded(functions[f], names), P!Filled(functions[f])
  PROVE  Fits(FrameOf(f), FrameSize(f))
<1> DEFINE info == functions[f]
           params == DOMAIN info.params
           locals == DOMAIN info.locals
<1>1. DOMAIN FrameOf(f) = params \cup locals /\ SpotsFit(FrameOf(f), FrameSize(f))
  BY FrameFacts
<1>2. \A x \in params : info.params[x].location.reg = "RDI" /\ info.params[x].type = 1
  BY DEF P!FrameRecorded, P!HasPlaces, P!InRDI, P!Filled
<1>3. \A x \in locals : info.locals[x].type = 1
  BY DEF P!Filled
<1>4. ASSUME NEW x \in params \cup locals, FrameOf(f)[x].location.reg = "RSP"
      PROVE  FrameOf(f)[x].type = 1
  <2>1. CASE x \in locals
    <3>1. FrameOf(f)[x].type = info.locals[x].type
      BY <1>1, <2>1 DEF FrameOf
    <3> QED BY <1>3, <2>1, <3>1
  <2>2. CASE x \notin locals /\ info.dirty
    <3>1. FrameOf(f)[x].type = info.params[x].type
      BY <1>1, <2>2 DEF FrameOf
    <3> QED BY <1>2, <2>2, <3>1
  <2>3. CASE x \notin locals /\ ~info.dirty
    <3>1. FrameOf(f)[x].location = [info.params[x].location EXCEPT !.disp = QWORD * Len(Zeroed(f))]
      BY <1>1, <2>3 DEF FrameOf
    <3>2. info.params[x].location = P!InRDI
      BY <2>3 DEF P!FrameRecorded, P!HasPlaces
    <3>3. FrameOf(f)[x].location.reg = "RDI"
      BY <3>1, <3>2 DEF P!InRDI
    <3> QED BY <1>4, <3>3
  <2> QED BY <2>1, <2>2, <2>3
<1> QED BY <1>1, <1>4 DEF Fits, SpotsFit

\* What the first pass has laid out of a program of quadwords.
LEMMA QuadFacts ==
  ASSUME FlowInv, phase = "done", Quadwords(ast), NEW f \in FunctionNames
  PROVE  /\ Len(Saved(f)) \in Nat /\ FrameSize(f) \in Nat
         /\ Fits(FrameOf(f), FrameSize(f))
         /\ \A x \in DOMAIN functions[f].locals :
              functions[f].locals[x].location.disp \in 0..QWORD * (FrameSize(f) - 1)
         /\ types[2].offsets = <<>> /\ typeIDs["int"] = 1
<1>1. /\ P!Recorded /\ P!IntInv /\ P!NamesIn(ast) \in SUBSET VariableNames
      /\ P!FrameRecorded(functions[f], P!NamesIn(ast))
  BY RecordedFacts DEF P!Recorded
<1>2. P!Filled(functions[f])
  <2>1. P!QuadsOnly
    BY QuadwordsOnly DEF FlowInv
  <2>2. f \in {P!NameAt(i) : i \in P!FunctionsOf}
    BY <1>1 DEF P!Recorded, FunctionNames
  <2> QED BY <1>1, <2>1, <2>2 DEF P!Recorded
<1>3. /\ Len(Saved(f)) \in Nat /\ Len(Zeroed(f)) = Cardinality(DOMAIN functions[f].locals)
      /\ Len(Zeroed(f)) \in Nat
  BY <1>1, FrameFacts
<1>4. Fits(FrameOf(f), FrameSize(f))
  BY <1>1, <1>2, FrameTypes
<1>5. types[2] = [size |-> QWORD, offsets |-> <<>>, end |-> 0, fields |-> <<>>]
  BY <1>1 DEF P!IntInv, P!Sized, P!QWORD, QWORD
<1>6. ASSUME NEW x \in DOMAIN functions[f].locals
      PROVE  functions[f].locals[x].location.disp \in 0..QWORD * (FrameSize(f) - 1)
  <2> DEFINE d == functions[f].locals[x].location.disp
             n == Len(Zeroed(f))
             m == Len(Saved(f))
  <2>1. d \in Nat /\ d + P!SizeOf(1) <= functions[f].size
    BY <1>1, <1>2 DEF P!FrameRecorded, P!HasPlaces, P!OnTheStack, P!Filled
  <2>2. P!SizeOf(1) = QWORD
    BY <1>5 DEF P!SizeOf
  <2>3. functions[f].size = QWORD * n
    <3>1. P!QWORD = QWORD
      BY DEF P!QWORD, QWORD
    <3>3. P!Cardinality(DOMAIN functions[f].locals) = Cardinality(DOMAIN functions[f].locals)
      BY DEF P!Cardinality, Cardinality
    <3>2. functions[f].size = P!QWORD * Cardinality(DOMAIN functions[f].locals)
      BY <1>2, <3>3, Zenon DEF P!Filled
    <3> QED BY <1>3, <3>1, <3>2, Zenon
  <2>4. n \in Nat /\ m \in Nat /\ FrameSize(f) = m + n
    BY <1>3 DEF FrameSize
  <2> HIDE DEF d, n, m
  <2>5. d \in 0..QWORD * (m + n - 1)
    BY <2>1, <2>2, <2>3, <2>4 DEF QWORD
  <2> QED BY <2>4, <2>5 DEF d
<1> QED BY <1>1, <1>3, <1>4, <1>5, <1>6 DEF FrameSize, P!IntInv

\* What is neither a function nor a type nor the end of one is in a body.
LEMMA InABody ==
  ASSUME WhereInv, todo # <<>>, S.k \notin {"func", "main", "type", "endfunc", "endmain"}
  PROVE  Left > 1 /\ Left \in Nat
<1>1. Left \in Nat /\ IsStack(todo) /\ Layered(todo, Left)
  BY LeftFacts DEF WhereInv
<1>2. Left # 0 /\ Left # 1
  BY <1>1, HeadLayer DEF AtTop
<1> QED BY <1>1, <1>2

\* The statement at hand is inside the body of the function at hand.
LEMMA HeadInside ==
  ASSUME WhereInv, ast \in Programs, todo # <<>>, S \in Statements, Left > 1
  PROVE  /\ S \in Inside(ast[Here].body) /\ Here \in P!FunctionsOf
         /\ Last(currentFunction) = P!NameAt(Here) /\ currentFunction # <<>>
<1>1. Left \in Nat /\ IsStack(todo) /\ S = todo[1]
  BY LeftFacts, RestAt DEF WhereInv, S
<1>2. 1 \in 1..(Left - 1) /\ Left > 0
  BY <1>1
<1>3. From(S, ast[Here].body) /\ Here \in 1..Len(ast) /\ ast[Here].k \in {"func", "main"}
  BY <1>1, <1>2 DEF WhereInv, OnTrack, Here
<1>4. S \in Within(S) /\ S.k \notin {"endif", "loop", "else"}
  BY InsideFacts, StatementsAssumption
<1> QED BY <1>2, <1>3, <1>4 DEF From, WhereInv, FunctionHere, P!FunctionsOf, P!Of

\* As long as only frames move the stack, what is stored so far is in its frame, and in a body
\* the last frame pushed is that of the function, with its variables in it.
StoreInv ==
  OpsIn(code) \cap Moving = {} =>
    /\ Framed(code)
    /\ Left > 1 => /\ Entered(code, Len(code) + 1)
                   /\ FrameIn(code, Len(code) + 1) = FrameSize(Last(currentFunction))
                   /\ Fits(Variables, FrameSize(Last(currentFunction)))

\* A step that adds to the code and stays in its body or leaves it.
LEMMA StoresMore ==
  ASSUME FlowInv, StoreInv, NEW places, NEW pops, Added(places, pops), UNCHANGED functions,
         OpsIn(code') \cap Moving = {},
         pops = {} => \A p \in places : p.reg = "RSP" =>
           /\ Left > 1
           /\ Fits(Variables, FrameSize(Last(currentFunction))) =>
                p.disp \in 0..QWORD * (FrameSize(Last(currentFunction)) - 1),
         pops = {} /\ Left' > 1 =>
           /\ Left > 1 /\ Last(currentFunction)' = Last(currentFunction)
           /\ Fits(Variables, FrameSize(Last(currentFunction))) =>
                Fits(Variables', FrameSize(Last(currentFunction)))
  PROVE  StoreInv'
<1>1. PICK d : Emission(d, places, pops) /\ code' = code \o d
  BY DEF Added
<1>2. IsStack(code) /\ IsStack(d) /\ OpsIn(d) \subseteq Kinds /\ StoresIn(d) \subseteq places
  BY <1>1 DEF FlowInv, GInv, Sound, Emission
<1>3. OpsIn(code') = OpsIn(code) \cup OpsIn(d)
  BY <1>1, <1>2, OpsJoined
<1>4. OpsIn(code) \cap Moving = {} /\ "enter" \notin OpsIn(d) /\ pops = {}
  BY <1>1, <1>2, <1>3 DEF Kinds, Emission
<1>5. Framed(code')
  BY <1>1, <1>2, <1>4, FramedMore DEF StoreInv
<1>6. ASSUME Left' > 1
      PROVE  /\ Entered(code', Len(code') + 1)
             /\ FrameIn(code', Len(code') + 1) = FrameSize(Last(currentFunction))'
             /\ Fits(Variables', FrameSize(Last(currentFunction))')
  <2>1. /\ Left > 1 /\ Entered(code, Len(code) + 1)
        /\ FrameIn(code, Len(code) + 1) = FrameSize(Last(currentFunction))
        /\ Fits(Variables, FrameSize(Last(currentFunction)))
    BY <1>4, <1>6 DEF StoreInv
  <2>2. FrameSize(Last(currentFunction))' = FrameSize(Last(currentFunction))
    <3>1. Last(currentFunction)' = Last(currentFunction)
      BY <1>4, <1>6
    <3> QED BY <3>1 DEF FrameSize, Saved, Zeroed, RegParams
  <2>3. Len(code') = Len(code) + Len(d) /\ Len(code) \in Nat /\ Len(d) \in Nat
    BY <1>1, <1>2, JoinedAt
  <2>4. Len(code') + 1 \in Nat /\ Len(code') + 1 > Len(code) /\ Len(code') + 1 <= Len(code) + Len(d) + 1
    BY <2>3
  <2>5. /\ Entered(code \o d, Len(code') + 1)
        /\ FrameIn(code \o d, Len(code') + 1) = FrameIn(code, Len(code) + 1)
    BY <1>2, <1>4, <2>1, <2>4, FramesGoOn
  <2> QED BY <1>1, <1>4, <1>6, <2>1, <2>2, <2>5
<1> QED BY <1>5, <1>6 DEF StoreInv

\* The same, when what is left of the body gets less by its first item.
LEMMA StoresNext ==
  ASSUME FlowInv, WhereInv, StoreInv, NEW places, NEW pops, Added(places, pops),
         NextMove, UNCHANGED <<ast, functions>>,
         Left > 1 => currentFunction' = currentFunction,
         pops = {} => \A p \in places : p.reg = "RSP" =>
           /\ Left > 1
           /\ Fits(Variables, FrameSize(Last(currentFunction))) =>
                p.disp \in 0..QWORD * (FrameSize(Last(currentFunction)) - 1),
         pops = {} /\ Left > 2 /\ Fits(Variables, FrameSize(Last(currentFunction))) =>
           Fits(Variables', FrameSize(Last(currentFunction)))
  PROVE  StoreInv'
<1>1. Left \in Nat /\ Len(ast) \in Nat
  BY LeftFacts, ProgramBodies DEF WhereInv, FlowInv
<1>2. Left' = IF Left = 0 THEN 0 ELSE Left - 1
  BY <1>1, AfterNext DEF WhereInv
<1>3. Left' > 1 => Left > 2 /\ Left > 1
  BY <1>1, <1>2
<1>4. CASE OpsIn(code') \cap Moving # {}
  BY <1>4 DEF StoreInv
<1>5. CASE OpsIn(code') \cap Moving = {}
  <2>1. pops = {} /\ Left' > 1 =>
           /\ Left > 1 /\ Last(currentFunction)' = Last(currentFunction)
           /\ Fits(Variables, FrameSize(Last(currentFunction))) =>
                Fits(Variables', FrameSize(Last(currentFunction)))
    BY <1>3
  <2> QED BY <1>5, <2>1, StoresMore
<1> QED BY <1>4, <1>5

LEMMA StoresBody ==
  ASSUME FlowInv, WhereInv, StoreInv, NEW pops, Added({}, pops),
         BodyMove, UNCHANGED <<ast, functions, currentFunction>>,
         pops = {} => Variables' = Variables
  PROVE  StoreInv'
<1>1. Left > 1
  BY AfterBody DEF WhereInv, FlowInv
<1>2. CASE OpsIn(code') \cap Moving # {}
  BY <1>2 DEF StoreInv
<1>3. CASE OpsIn(code') \cap Moving = {}
  BY <1>1, <1>3, StoresMore
<1> QED BY <1>2, <1>3

LEMMA StoresTop ==
  ASSUME FlowInv, WhereInv, StoreInv, phase = "done", Quadwords(ast), NEW name, TopMove(name),
         UNCHANGED <<ast, phase, functions>>,
         NEW label, NEW rest, code' = code \o Header(label, name, rest)
  PROVE  StoreInv'
<1>1. /\ Here' \in 1..Len(ast) /\ ast[Here'] = S
      /\ Last(currentFunction') = name /\ P!NameAt(Here') = name
  BY AfterTop DEF WhereInv, FlowInv
<1>2. name \in FunctionNames
  <2>1. Here' \in P!FunctionsOf
    BY <1>1 DEF TopMove, P!FunctionsOf, P!Of
  <2> QED BY <1>1, <2>1, RecordedFacts DEF P!Recorded, FunctionNames
<1>3. Len(Saved(name)) \in Nat /\ Fits(FrameOf(name), FrameSize(name))
  BY <1>2, QuadFacts
<1>4. Variables' = FrameOf(name)
  <2>1. contexts' # <<>> /\ Last(contexts') = FrameOf(name)
    BY PushAt DEF TopMove, FlowInv, ContextsOK
  <2> QED BY <2>1 DEF Variables
<1>5. IsStack(code) /\ OpsIn(code') \cap Moving = {} => OpsIn(code) \cap Moving = {}
  BY HeaderOps, OpsJoined
<1>6. IsStack(code)
  BY DEF FlowInv, GInv, Sound
<1>7. FrameSize(Last(currentFunction))' = FrameSize(name)
  BY <1>1 DEF FrameSize, Saved, Zeroed, RegParams
<1>8. ASSUME OpsIn(code') \cap Moving = {}
      PROVE  Framed(code') /\ Entered(code', Len(code') + 1) /\ FrameIn(code', Len(code') + 1) = FrameSize(name)
  BY <1>3, <1>5, <1>6, <1>8, FramedHeader DEF StoreInv
<1> QED BY <1>3, <1>4, <1>7, <1>8 DEF StoreInv

\* A value that does not move the stack leaves the Context as it is.
LEMMA SameAfter ==
  ASSUME ContextsOK(contexts), contexts # <<>>, NEW e, Countable(e), Moves(e) = {},
         \/ contexts' = contexts
         \/ contexts' = WithVariables(VariablesAfter(e))
  PROVE  Variables' = Variables
<1>1. ContextOK(VariablesAfter(e)) /\ VariablesAfter(e) = Variables
  BY AfterOK
<1>2. CASE contexts' = contexts
  BY <1>2 DEF Variables
<1>3. CASE contexts' = WithVariables(VariablesAfter(e))
  BY <1>1, <1>3, OnTop
<1> QED BY <1>2, <1>3

LEMMA StoresDecl ==
  ASSUME FlowInv, WhereInv, StoreInv, Quadwords(ast), GenDecl
  PROVE  StoreInv'
<1>1. /\ ast \in Programs /\ GInv /\ ContextsOK(contexts) /\ contexts # <<>> /\ phase = "done"
      /\ UNCHANGED <<ast, functions>> /\ NextMove /\ currentFunction' = currentFunction
      /\ S \in Statements /\ S.k = "decl" /\ todo # <<>> /\ Countable(S.value)
  BY AtStatement, StatementValues DEF GenDecl, At, NextMove, FlowInv, passVars, S
<1>2. Left > 1
  BY <1>1, InABody
<1> DEFINE f == Last(currentFunction)
           place == LocalsHere[S.name].location
           size == FrameSize(f)
<1>3. f \in FunctionNames /\ S.name \in DOMAIN functions[f].locals
  BY DeclaredEntry DEF GenDecl, LocalsHere
<1>4. place.disp \in 0..QWORD * (size - 1)
  BY <1>1, <1>3, QuadFacts DEF LocalsHere
<1>5. S.type = "int"
  <2>1. S \in Inside(ast[Here].body) /\ Here \in P!FunctionsOf
    BY <1>1, <1>2, HeadInside
  <2> QED BY <1>1, <2>1 DEF Quadwords, P!FunctionsOf, P!Of
<1>6. typeIDs[S.type] = 1
  BY <1>1, <1>3, <1>5, QuadFacts
<1>7. ASSUME Moves(S.value) = {}, Fits(Variables, size) PROVE Fits(Variables', size)
  <2> DEFINE x == S.name
             e == [type |-> typeIDs[S.type], location |-> place]
             v == FP!Assign(Variables, x, e)
  <2>1. VariablesAfter(S.value) = Variables
    BY <1>1, <1>7, AfterOK
  <2>2. contexts' = WithVariables(v)
    BY <2>1 DEF GenDecl
  <2>3. e \in Entry /\ ContextOK(Variables)
    BY <1>1, DeclaredEntry, VariablesOK
  <2>4. e.type = 1 /\ e.location.disp \in 0..QWORD * (size - 1)
    BY <1>4, <1>6
  <2> HIDE DEF e, x, size
  <2>5. ContextOK(v)
    BY <2>3, AssignOK, Zenon
  <2>6. Fits(v, size)
    BY <1>7, <2>4 DEF Fits, FP!Assign
  <2> HIDE DEF v
  <2>7. Variables' = v
    BY <1>1, <2>2, <2>5, OnTop
  <2> QED BY <2>6, <2>7
<1>8. Added({place}, Moves(S.value))
  BY <1>1, DeclEmits
<1> HIDE DEF f, place, size
<1>9. /\ \A p \in {place} : p.disp \in 0..QWORD * (size - 1)
  BY <1>4
<1> QED BY <1>1, <1>2, <1>7, <1>8, <1>9, StoresNext DEF size, f

LEMMA StoresAssign ==
  ASSUME FlowInv, WhereInv, StoreInv, Quadwords(ast), GenAssign
  PROVE  StoreInv'
<1>1. /\ ast \in Programs /\ GInv /\ ContextsOK(contexts) /\ contexts # <<>> /\ phase = "done"
      /\ UNCHANGED <<ast, functions>> /\ NextMove /\ currentFunction' = currentFunction
      /\ S.k = "assign" /\ todo # <<>> /\ S.name \in DOMAIN Variables
      /\ Countable(S.value) /\ contexts' = WithVariables(VariablesAfter(S.value))
  BY AtStatement, StatementValues DEF GenAssign, At, NextMove, FlowInv, passVars, S
<1>2. Left > 1 /\ Left > 0
  BY <1>1, InABody
<1> DEFINE f == Last(currentFunction)
           place == Located(VariablesAfter(S.value)[S.name], S.attr)
           size == FrameSize(f)
           v == Variables[S.name]
<1>3. f \in FunctionNames
  BY <1>2, PopAt DEF WhereInv, FunctionHere, FlowInv
<1>4. types[2].offsets = <<>>
  BY <1>1, <1>3, QuadFacts
<1>5. ASSUME Moves(S.value) = {}
      PROVE  /\ Variables' = Variables
             /\ place.reg = "RSP" /\ Fits(Variables, size) => place.disp \in 0..QWORD * (size - 1)
  <2>1. Variables' = Variables
    BY <1>1, <1>5, SameAfter
  <2>2. VariablesAfter(S.value) = Variables
    BY <1>1, <1>5, AfterOK
  <2>3. v.location \in Spots
    BY <1>1, VariablesOK DEF ContextOK
  <2>4. place = Located(v, S.attr)
    BY <2>2
  <2>5. Located(v, S.attr).reg = v.location.reg
    BY <2>3 DEF Located, Spots
  <2>6. Fits(Variables, size) /\ v.location.reg = "RSP" =>
          v.type = 1 /\ v.location.disp \in 0..QWORD * (size - 1)
    BY <1>1 DEF Fits
  <2> HIDE DEF v, place, size
  <2>7. v.type = 1 => Located(v, S.attr) = v.location
    BY <1>4 DEF Located, OffsetsOf
  <2> QED BY <2>1, <2>4, <2>5, <2>6, <2>7
<1>8. Added({place}, Moves(S.value))
  BY <1>1, AssignEmits
<1> HIDE DEF f, place, size
<1>9. Moves(S.value) = {} => \A p \in {place} : p.reg = "RSP" =>
        Left > 1 /\ (Fits(Variables, size) => p.disp \in 0..QWORD * (size - 1))
  BY <1>2, <1>5
<1> QED BY <1>1, <1>5, <1>8, <1>9, StoresNext DEF size, f

LEMMA StoreStep ==
  ASSUME FlowInv, WhereInv, StoreInv, Quadwords(ast), [Next]_vars
  PROVE  StoreInv'
<1>1. /\ ast \in Programs /\ GInv /\ ContextsOK(contexts) /\ contexts # <<>> /\ IsStack(code)
      /\ NInv /\ StacksFit(todo, contexts, currentFunction, Left) /\ Left \in Nat
  BY LeftFacts DEF FlowInv, WhereInv, GInv, Sound
<1>6. GenExit \/ GenIf \/ GenWhile => Countable(S.value)
  BY <1>1, AtStatement, StatementValues DEF GenExit, GenIf, GenWhile
<1>2. ASSUME UNCHANGED <<todo, contexts, currentFunction, code>>,
             Left > 0 => UNCHANGED functions
      PROVE  StoreInv'
  <2>1. Left' = Left /\ Variables' = Variables
    BY <1>2 DEF Left, Layered, Variables
  <2>2. Left > 0 => FrameSize(Last(currentFunction))' = FrameSize(Last(currentFunction))
    BY <1>2 DEF FrameSize, Saved, Zeroed, RegParams
  <2>3. Left > 1 => Left > 0
    BY <1>1
  <2> QED BY <1>2, <2>1, <2>2, <2>3 DEF StoreInv
<1>3. CASE UNCHANGED vars
  BY <1>2, <1>3 DEF vars, passVars, genVars
<1>4. CASE Passes
  BY <1>2, <1>4, PassesRunFirst DEF Passes, genVars, WhereInv
<1>5. CASE Generate
  <2>1. phase = "done" /\ UNCHANGED <<ast, phase, functions>>
    BY <1>5, GeneratesLast DEF passVars
  <2>2. CASE UNCHANGED <<todo, contexts, currentFunction, code>>
    BY <1>2, <2>1, <2>2
  <2>3. CASE GenDecl
    BY <2>3, StoresDecl
  <2>4. CASE GenAssign
    BY <2>4, StoresAssign
  <2>5. CASE GenExit
    <3>1. NextMove /\ currentFunction' = currentFunction /\ Added({}, Moves(S.value))
      BY <1>1, <2>5, LeaveEmits DEF GenExit, NextMove, At
    <3>2. Moves(S.value) = {} => Variables' = Variables
      BY <1>1, <1>6, <2>5, SameAfter DEF GenExit
    <3> QED BY <2>1, <3>1, <3>2, StoresNext
  <2>6. CASE EndIf \/ Loop \/ GenAsm
    <3>1. NextMove /\ UNCHANGED <<currentFunction, contexts>> /\ Added({}, {})
      BY <1>1, <2>6, RestEmits DEF EndIf, Loop, GenAsm, NextMove, At
    <3>2. Variables' = Variables
      BY <3>1 DEF Variables
    <3> QED BY <2>1, <3>1, <3>2, StoresNext
  <2>15. CASE GenCall
    <3>1. NextMove /\ currentFunction' = currentFunction /\ Added({}, CallMoves(S))
      BY <1>1, <2>15, CallEmits DEF GenCall, NextMove, At
    <3>2. CallMoves(S) = {} => Variables' = Variables
      BY <1>1, <2>15, CallContexts
    <3> QED BY <2>1, <3>1, <3>2, StoresNext
  <2>7. CASE EndMain \/ SkipType
    <3>1. NextMove /\ UNCHANGED <<currentFunction, contexts, code>>
      BY <2>7 DEF EndMain, SkipType, NextMove, At
    <3>2. Variables' = Variables /\ Added({}, {})
      BY <1>1, <3>1, AddedNothing DEF Variables
    <3> QED BY <2>1, <3>1, <3>2, StoresNext
  <2>8. CASE GenReturn
    <3>1. NextMove /\ currentFunction' = currentFunction /\ S.k = "return" /\ Added({}, Moves(S.value))
      BY <1>1, <2>8, LeaveEmits DEF GenReturn, NextMove, At, S
    <3>2. Left = 2
      BY <1>1, <3>1, Placed DEF NextMove
    <3> QED BY <2>1, <3>1, <3>2, StoresNext
  <2>9. CASE EndFunc
    <3>1. NextMove /\ S.k = "endfunc" /\ code' = code
      BY <2>9 DEF EndFunc, NextMove, At, S
    <3>2. Left = 1 /\ Added({}, {})
      BY <1>1, <3>1, Placed, AddedNothing DEF NextMove
    <3> QED BY <2>1, <3>1, <3>2, StoresNext
  <2>10. CASE GenMain
    <3>1. TopMove("main")
      BY <2>10, MainMoves
    <3>2. \E label, rest : code' = code \o Header(label, "main", rest)
      BY <2>10 DEF GenMain, Header
    <3> QED BY <2>1, <3>1, <3>2, StoresTop
  <2>11. CASE GenFunc
    <3>1. TopMove(S.name)
      BY <2>11, FuncMoves
    <3>2. \E label, rest : code' = code \o Header(label, S.name, rest)
      BY <2>11 DEF GenFunc, Header
    <3> QED BY <2>1, <3>1, <3>2, StoresTop
  <2>12. CASE GenIf \/ GenWhile
    <3>1. BodyMove /\ currentFunction' = currentFunction /\ Added({}, Moves(S.value))
      BY <1>1, <2>12, BodyMoves, IfEmits, WhileEmits DEF GenIf, GenWhile
    <3>2. Moves(S.value) = {} => Variables' = Variables
      BY <1>1, <1>6, <2>12, SameAfter DEF GenIf, GenWhile, ContextsAfterTest
    <3> QED BY <2>1, <3>1, <3>2, StoresBody
  <2>13. CASE GenElse
    <3>1. BodyMove /\ UNCHANGED <<currentFunction, contexts>> /\ Added({}, {})
      BY <1>1, <2>13, BodyMoves, RestEmits DEF GenElse
    <3>2. Variables' = Variables
      BY <3>1 DEF Variables
    <3> QED BY <2>1, <3>1, <3>2, StoresBody
  <2>14. \/ UNCHANGED <<todo, contexts, currentFunction, code>>
         \/ GenDecl \/ GenAssign \/ GenExit \/ (EndIf \/ Loop \/ GenAsm) \/ GenCall
         \/ (EndMain \/ SkipType) \/ GenReturn \/ EndFunc \/ GenMain \/ GenFunc
         \/ (GenIf \/ GenWhile) \/ GenElse
    BY <1>5 DEF Generate, Undefined, ValueThrows, DeclThrows, AssignThrows, FuncThrows, Throw, Write, genVars
  <2> QED BY <2>2, <2>3, <2>4, <2>5, <2>6, <2>7, <2>8, <2>9, <2>10, <2>11, <2>12, <2>13, <2>14, <2>15
<1> QED BY <1>3, <1>4, <1>5 DEF Next

\* The stores of a program of quadwords: as long as nothing of a frame is popped into RAX and no
\* argument is pushed on it, what a function assigns is inside the frame that its header pushed,
\* for every variable of every function, whatever the number of parameters and variables and
\* wherever the statement is (generate_declaration and generate_assignment, enter_context, and
\* the layout of the first pass).
THEOREM StoresHitTheFrame == GenSpec => []StoresStayInFrame
<1> DEFINE Inv == FlowInv /\ (Structured(ast) => WhereInv) /\ (Quadwords(ast) => StoreInv)
<1>1. Init => Inv
  <2> SUFFICES ASSUME Init PROVE Inv
    OBVIOUS
  <2>1. FlowInv /\ (Structured(ast) => WhereInv)
    BY FlowAtFirst, WhereStart
  <2>2. Structured(ast) => ~(Left > 1)
    <3>1. phase # "done"
      BY DEF Init, FP!Init
    <3>2. Structured(ast) => Left \in Nat /\ ~(Left > 0)
      BY <2>1, <3>1, LeftFacts DEF WhereInv
    <3> QED BY <3>2
  <2>3. Framed(code)
    <3>1. \A i : i \notin 1..Len(code)
      BY Nothing DEF Init
    <3> QED BY <3>1 DEF Framed
  <2> QED BY <2>1, <2>2, <2>3 DEF StoreInv, Quadwords
<1>2. Inv /\ [Next]_vars => Inv'
  <2> SUFFICES ASSUME Inv, [Next]_vars PROVE Inv'
    OBVIOUS
  <2>1. /\ Structured(ast)' = Structured(ast) /\ Quadwords(ast)' = Quadwords(ast)
        /\ Quadwords(ast) => Structured(ast)
    BY AstStays, SameProgram DEF Quadwords
  <2>2. FlowInv' /\ (Structured(ast) => WhereInv')
    BY FlowStep, WhereStep
  <2>3. Quadwords(ast) => StoreInv'
    BY <2>1, StoreStep
  <2> QED BY <2>1, <2>2, <2>3
<1>3. ASSUME Inv PROVE StoresStayInFrame
  <2> SUFFICES ASSUME Quadwords(ast), OnlyFramesMove, NEW i \in LabelsAt("store"),
                      code[i].arg.reg = "RSP"
               PROVE  code[i].arg.disp \in 0..QWORD * (FrameAt(i) - 1)
    BY DEF StoresStayInFrame
  <2>1. OpsIn(code) \cap Moving = {}
    BY DEF OpsIn, LabelsAt, OnlyFramesMove, Moving
  <2>2. i \in 1..Len(code) /\ code[i].op = "store"
    BY DEF LabelsAt
  <2>3. code[i].arg.disp \in 0..QWORD * (FrameIn(code, i) - 1)
    BY <1>3, <2>1, <2>2 DEF StoreInv, Framed
  <2>4. FrameIn(code, i) = FrameAt(i)
    BY DEF FrameIn, FrameAt, EntersBefore, EntersIn, LabelsAt
  <2> QED BY <2>3, <2>4
<1> HIDE DEF Inv
<1> QED BY <1>1, <1>2, <1>3, PTL DEF GenSpec

-----------------------------------------------------------------------------
(* What is promised of a supported program.                                *)

\* The parameters of function number i, and the statement its body ends in.
ParamsAt(i) == IF ast[i].k = "func" THEN ast[i].args ELSE <<>>
LastAt(i)   == IF ast[i].k = "func" THEN "return" ELSE "exit"

LEMMA SupportedAt ==
  ASSUME WellShaped(ast), NEW i \in 1..Len(ast)
  PROVE  /\ ast[i].k \in {"func", "main"} /\ SupportedBody(ast[i].body, ParamsAt(i), LastAt(i))
         /\ SupportedCalls(ast, i) /\ (ast[i].k = "func" => ast[i].name # "main")
BY DEF WellShaped, ParamsAt, LastAt

\* Such a program gets through the first pass.
LEMMA SupportedPasses == ASSUME ast \in Programs, WellShaped(ast) PROVE P!WellFormed
<1>1. \A i \in 1..Len(ast) : ast[i].k \in {"func", "main"}
  BY SupportedAt
<1>2. P!Of("type") = {} /\ P!DeclaredIn(ast) = {}
  BY <1>1 DEF P!Of, P!DeclaredIn, P!Members
<1>3. \A i, j \in P!Of("func") : ast[i].name = ast[j].name => i = j
  BY DEF P!Of, WellShaped
<1>4. \E i \in P!Of("main") : P!Of("main") = {i}
  <2>1. PICK i \in 1..Len(ast) : ast[i].k = "main"
    BY DEF WellShaped
  <2>2. \A j \in 1..Len(ast) : ast[j].k = "main" => j = i
    BY <2>1 DEF WellShaped
  <2>3. P!Of("main") = {i}
    BY <2>1, <2>2 DEF P!Of
  <2> QED BY <2>3
<1>5. "int" \in P!KnownAt(Len(ast) + 1)
  BY DEF P!KnownAt
<1>6. ASSUME NEW i \in P!Of("func"), NEW a \in P!Members(ast[i].args) PROVE a.type = "int"
  <2>1. SupportedBody(ast[i].body, ast[i].args, "return")
    BY SupportedAt DEF P!Of, ParamsAt, LastAt
  <2> QED BY <2>1 DEF SupportedBody, P!Members
<1>7. ASSUME NEW i \in P!Of("func") \cup P!Of("main"), NEW d \in P!DeclaredIn(ast[i].body)
      PROVE  d.type = "int"
  <2>1. SupportedBody(ast[i].body, ParamsAt(i), LastAt(i))
    BY SupportedAt DEF P!Of
  <2>2. ast[i].body \in Seq(Statements)
    BY ProgramBodies DEF P!FunctionsOf
  <2>3. d \in Inside(ast[i].body) /\ d.k = "decl"
    BY <2>2, InsideBody DEF P!DeclaredIn, P!Members
  <2> QED BY <2>1, <2>3 DEF SupportedBody
<1> QED BY <1>2, <1>3, <1>4, <1>5, <1>6, <1>7 DEF P!WellFormed

\* What function number i of a supported program knows.
LEMMA KnownNames ==
  ASSUME FlowInv, phase = "done", WellShaped(ast), NEW i \in P!FunctionsOf
  PROVE  /\ NamesOf(ParamsAt(i)) \cup DeclaredBefore(ast[i].body, Len(ast[i].body) + 1)
              \subseteq Known(P!NameAt(i))
         /\ DOMAIN functions[P!NameAt(i)].locals = DeclaredBefore(ast[i].body, Len(ast[i].body) + 1)
<1> DEFINE b == ast[i].body
           f == P!NameAt(i)
<1>1. b \in Seq(Statements) /\ Len(b) \in Nat
  BY ProgramBodies, LenProperties DEF FlowInv
<1>2. P!DeclaredIn(ast) = {}
  <2>1. \A j \in 1..Len(ast) : ast[j].k \in {"func", "main"}
    BY SupportedAt
  <2> QED BY <2>1 DEF P!DeclaredIn, P!Members
<1>3. /\ DOMAIN functions[f].locals = P!LocalsOf(i, Len(b))
      /\ ast[i].k = "func" => DOMAIN functions[f].params = P!ParamsOf(i, Len(ast[i].args))
  BY <1>2, RecordedFacts DEF P!Recorded
<1>4. P!LocalsOf(i, Len(b)) = DeclaredBefore(b, Len(b) + 1)
  <2>1. \A j \in 1..Len(b) : j < Len(b) + 1
    BY <1>1
  <2> QED BY <2>1 DEF P!LocalsOf, DeclaredBefore, Declarations
<1>5. NamesOf(ParamsAt(i)) \subseteq DOMAIN functions[f].params
  <2>1. CASE ast[i].k = "func"
    BY <1>3, <2>1 DEF NamesOf, ParamsAt, P!ParamsOf
  <2>2. CASE ast[i].k # "func"
    <3>1. NamesOf(<<>>) = {}
      BY Nothing DEF NamesOf
    <3> QED BY <2>2, <3>1 DEF ParamsAt
  <2> QED BY <2>1, <2>2
<1> HIDE DEF b, f
<1> QED BY <1>3, <1>4, <1>5 DEF Known, b, f

\* What a statement inside a body uses is used by the statement of the body it is in.
LEMMA UsesInside ==
  ASSUME NEW x \in Statements, NEW s \in Within(x)
  PROVE  /\ HasValue(s) => Reads(s.value) \subseteq Uses(x)
         /\ s.k = "call" => Reads(s) \subseteq Uses(x)
         /\ s.k = "assign" => s.name \in Uses(x)
<1>1. s \in Inside(<<x>>)
  <2>1. Len(<<x>>) = 1 /\ <<x>>[1] = x
    OBVIOUS
  <2>2. 1 \in 1..Len(<<x>>)
    BY <2>1
  <2> QED BY <2>1, <2>2 DEF Inside
<1>2. HasValue(s) => s.value \in ValuesIn(<<x>>)
  BY <1>1 DEF ValuesIn
<1>3. s.k = "call" => s \in CallsIn(<<x>>)
  BY <1>1 DEF CallsIn
<1>4. \A e \in ValuesIn(<<x>>) \cup CallsIn(<<x>>) : Reads(e) \subseteq Uses(x)
  BY DEF Uses
<1>5. s.k = "assign" => s.name \in Uses(x)
  BY <1>1 DEF Uses
<1> QED BY <1>2, <1>3, <1>4, <1>5

\* The statement at hand in the body of a supported function.
LEMMA SupportedHead ==
  ASSUME FlowInv, WhereInv, phase = "done", WellShaped(ast), todo # <<>>, S \in Statements, Left > 1
  PROVE  /\ S \in Inside(ast[Here].body) /\ Here \in P!FunctionsOf
         /\ S.k \in {"decl", "assign", "return", "exit", "if", "while", "call"}
         /\ HasValue(S) => Reads(S.value) \subseteq DOMAIN Variables
         /\ S.k = "call" => Reads(S) \subseteq DOMAIN Variables
         /\ S.k = "assign" => S.name \in DOMAIN Variables /\ S.attr = "none"
         /\ S.k = "decl" => S.type = "int" /\ S.name \in DOMAIN LocalsHere
<1> DEFINE b == ast[Here].body
           f == Last(currentFunction)
<1>1. /\ S \in Inside(b) /\ Here \in P!FunctionsOf /\ f = P!NameAt(Here) /\ Here \in 1..Len(ast)
      /\ b \in Seq(Statements) /\ Len(b) \in Nat
  BY HeadInside, ProgramBodies, LenProperties DEF FlowInv, P!FunctionsOf, P!Of
<1>2. SupportedBody(b, ParamsAt(Here), LastAt(Here))
  BY <1>1, SupportedAt
<1>3. /\ NamesOf(ParamsAt(Here)) \cup DeclaredBefore(b, Len(b) + 1) \subseteq DOMAIN Variables
      /\ DOMAIN LocalsHere = DeclaredBefore(b, Len(b) + 1)
  BY <1>1, KnownNames DEF WhereInv, DomainHere, LocalsHere
<1>4. PICK i \in 1..Len(b) : S \in Within(b[i])
  BY <1>1 DEF Inside
<1>5. b[i] \in Statements
  BY <1>1, ElementOfSeq
<1>6. Uses(b[i]) \subseteq DOMAIN Variables
  <2>1. Uses(b[i]) \subseteq NamesOf(ParamsAt(Here)) \cup DeclaredBefore(b, i)
    BY <1>2 DEF SupportedBody
  <2>2. DeclaredBefore(b, i) \subseteq DeclaredBefore(b, Len(b) + 1)
    <3>1. \A j \in 1..Len(b) : j < Len(b) + 1
      BY <1>1
    <3> QED BY <3>1 DEF DeclaredBefore, Declarations
  <2> QED BY <1>3, <2>1, <2>2
<1>7. /\ S.k \in {"decl", "assign", "return", "exit", "if", "while", "call"}
      /\ S.k = "decl" => S.type = "int"
      /\ S.k = "assign" => S.attr = "none"
  BY <1>1, <1>2 DEF SupportedBody
<1>8. S.k = "decl" => S.name \in DOMAIN LocalsHere
  <2> SUFFICES ASSUME S.k = "decl" PROVE S.name \in DOMAIN LocalsHere
    OBVIOUS
  <2>1. b[i].k \notin {"if", "while"}
    <3> SUFFICES ASSUME b[i].k \in {"if", "while"} PROVE FALSE
      OBVIOUS
    <3>1. \A s \in Inside(<<b[i]>>) : s.k # "decl"
      BY <1>2 DEF SupportedBody
    <3>2. Len(<<b[i]>>) = 1 /\ <<b[i]>>[1] = b[i] /\ 1 \in 1..1
      OBVIOUS
    <3>3. S \in Inside(<<b[i]>>)
      BY <1>4, <3>2 DEF Inside
    <3> QED BY <3>1, <3>3
  <2>2. S = b[i]
    BY <1>4, <1>5, <2>1, WithinAssumption
  <2>3. S.name \in DeclaredBefore(b, Len(b) + 1)
    <3>1. i < Len(b) + 1
      BY <1>1
    <3> QED BY <2>2, <3>1 DEF DeclaredBefore, Declarations
  <2> QED BY <1>3, <2>3
<1> HIDE DEF b, f
<1>9. /\ HasValue(S) => Reads(S.value) \subseteq Uses(b[i])
      /\ S.k = "call" => Reads(S) \subseteq Uses(b[i])
      /\ S.k = "assign" => S.name \in Uses(b[i])
  BY <1>4, <1>5, UsesInside
<1> QED BY <1>1, <1>6, <1>7, <1>8, <1>9 DEF b

-----------------------------------------------------------------------------
(* A supported program is not refused and only its frames move the stack.  *)

FuncsUpTo(n) == {j \in 1..n : ast[j].k = "func"}

\* Function number j returns a value that is not again a call.
LeafAt(j) == Last(ast[j].body).value.k \in {"num", "var", "neq"}

\* The functions generated are those up to the one at hand, as they are declared, and a
\* function that is through and returns such a value has left _exprInReg set.
PromiseInv ==
  /\ thrown = "none" /\ OpsIn(code) \cap Moving = {}
  /\ DOMAIN generated = {ast[j].name : j \in FuncsUpTo(Here)}
  /\ \A j \in FuncsUpTo(Here) :
       /\ generated[ast[j].name].argCnt = Len(ast[j].args)
       /\ LeafAt(j) /\ (j < Here \/ Left <= 1) => exprInReg = TRUE

\* A value or a call statement at hand: the function is known and takes as many arguments, at
\* most one, and a value without arguments finds the flag set.
LEMMA PromisedCalls ==
  ASSUME FlowInv, WhereInv, PromiseInv, phase = "done", WellShaped(ast),
         todo # <<>>, S \in Statements, Left > 1,
         NEW c \in CallsIn(ast[Here].body)
  PROVE  /\ ~BadCall(c) /\ CallMoves(c) = {}
         /\ c \in ValuesIn(ast[Here].body) => Moves(c) = {}
<1>1. Here \in 1..Len(ast) /\ Len(ast) \in Nat
  BY SupportedHead, ProgramBodies DEF FlowInv, P!FunctionsOf, P!Of
<1>2. PICK j \in 1..Here :
        /\ ast[j].k = "func" /\ ast[j].name = c.name /\ Len(ast[j].args) = Len(c.values)
        /\ c.values = <<>> /\ c \in ValuesIn(ast[Here].body) =>
             j < Here /\ Last(ast[j].body).value.k \in {"num", "var", "neq"}
  BY <1>1, SupportedAt DEF SupportedCalls
<1>3. j \in FuncsUpTo(Here)
  BY <1>2 DEF FuncsUpTo
<1>4. generated[c.name].argCnt = Len(c.values) /\ c.name \in DOMAIN generated
  BY <1>2, <1>3 DEF PromiseInv
<1>5. c.k = "call"
  BY DEF CallsIn
<1>6. c.values = <<>> /\ c \in ValuesIn(ast[Here].body) => exprInReg = TRUE
  BY <1>2, <1>3 DEF PromiseInv, LeafAt
<1>7. ~BadCall(c)
  BY <1>4 DEF BadCall
<1>8. c \in ValuesIn(ast[Here].body) => FlagAfter(c)
  BY <1>5, <1>6 DEF FlagAfter
<1>9. CallMoves(c) = {}
  <2>1. j \in 1..Len(ast)
    BY <1>1, <1>2
  <2>2. Len(ast[j].args) \in Nat
    <3>1. ast \in Seq(Statements)
      BY StatementsAssumption DEF FlowInv
    <3>2. ast[j] \in Statements /\ ast[j].k = "func"
      BY <1>2, <2>1, <3>1, ElementOfSeq
    <3> QED BY <3>2, StatementsAssumption
  <2>3. Len(ast[j].args) <= 1
    BY <1>2, <2>1, SupportedAt DEF SupportedBody, ParamsAt
  <2>4. Len(ParameterRegs) = 6
    BY DEF ParameterRegs
  <2>5. PushedOf(Len(c.values)) = 0
    BY <1>2, <2>2, <2>3, <2>4 DEF PushedOf
  <2> QED BY <2>5 DEF CallMoves
<1> QED BY <1>5, <1>7, <1>8, <1>9 DEF Moves

LEMMA PromisedValues ==
  ASSUME FlowInv, WhereInv, PromiseInv, phase = "done", WellShaped(ast),
         todo # <<>>, S \in Statements, Left > 1
  PROVE  /\ HasValue(S) => ~Throws(S.value) /\ Moves(S.value) = {}
         /\ S.k = "call" => ~Throws(S) /\ CallMoves(S) = {}
<1> DEFINE b == ast[Here].body
<1>1. /\ S \in Inside(b)
      /\ HasValue(S) => Reads(S.value) \subseteq DOMAIN Variables
      /\ S.k = "call" => Reads(S) \subseteq DOMAIN Variables
  BY SupportedHead
<1>2. ASSUME HasValue(S) PROVE ~BadCall(S.value) /\ Moves(S.value) = {}
  <2>1. S.value \in ValuesIn(b)
    BY <1>1, <1>2 DEF ValuesIn
  <2>2. CASE S.value.k = "call"
    <3>1. S.value \in CallsIn(b)
      BY <2>1, <2>2 DEF CallsIn
    <3> QED BY <2>1, <3>1, PromisedCalls
  <2>3. CASE S.value.k # "call"
    BY <2>3 DEF BadCall, Moves
  <2> QED BY <2>2, <2>3
<1>3. ASSUME S.k = "call" PROVE ~BadCall(S) /\ CallMoves(S) = {}
  <2>1. S \in CallsIn(b)
    BY <1>1, <1>3 DEF CallsIn
  <2> QED BY <2>1, PromisedCalls
<1> QED BY <1>1, <1>2, <1>3 DEF Throws

\* At top level the first item left is the statement behind the last one generated.
LEMMA TopHead ==
  ASSUME WhereInv, ast \in Programs, todo # <<>>, Left = 0
  PROVE  Here \in Nat /\ Here + 1 \in 1..Len(ast) /\ ast[Here + 1] = S
<1>1. IsStack(todo) /\ S = todo[1] /\ Len(todo) \in Nat \ {0} /\ Len(ast) \in Nat
  BY LeftFacts, RestAt, ProgramBodies DEF WhereInv, S
<1>2. /\ Here \in 0..Len(ast) /\ Here = Len(ast) - Len(todo)
      /\ \A i \in 1..Len(todo) : todo[i] = ast[Len(ast) - Len(todo) + i]
  BY <1>1 DEF WhereInv, OnTrack, Here, Spot
<1>3. 1 \in 1..Len(todo)
  BY <1>1
<1>4. todo[1] = ast[Len(ast) - Len(todo) + 1]
  BY <1>2, <1>3
<1> QED BY <1>1, <1>2, <1>4

\* No exception.
LEMMA PromisedSteps ==
  ASSUME FlowInv, WhereInv, PromiseInv, phase = "done", WellShaped(ast)
  PROVE  ~(Undefined \/ ValueThrows \/ DeclThrows \/ AssignThrows \/ FuncThrows)
<1>1. ast \in Programs /\ GInv /\ NInv
  BY DEF FlowInv, WhereInv
<1>2. ASSUME NEW k \in {"decl", "assign", "return", "exit", "if", "while", "call"}, At(k)
      PROVE  S \in Statements /\ S.k = k /\ todo # <<>> /\ Left > 1
  <2>1. S \in Statements /\ S.k = k /\ todo # <<>>
    BY <1>1, <1>2, AtStatement
  <2> QED BY <2>1, InABody
<1>3. ~Undefined
  BY <1>1, NotUndefined
<1>4. ~ValueThrows
  <2> SUFFICES ASSUME ValueThrows PROVE FALSE
    OBVIOUS
  <2>1. PICK k \in {"decl", "assign", "return", "exit", "if", "while", "call"} :
          At(k) /\ (IF k = "call" THEN Throws(S) ELSE Throws(S.value))
    BY DEF ValueThrows
  <2>2. S \in Statements /\ S.k = k /\ todo # <<>> /\ Left > 1
    BY <1>2, <2>1
  <2> QED BY <2>1, <2>2, PromisedValues DEF HasValue
<1>5. ~DeclThrows
  <2> SUFFICES ASSUME DeclThrows PROVE FALSE
    OBVIOUS
  <2>1. At("decl") /\ (S.type \notin DOMAIN typeIDs \/ HasAttributes(S.type) \/ S.name \notin DOMAIN LocalsHere)
    BY DEF DeclThrows
  <2>2. S \in Statements /\ S.k = "decl" /\ todo # <<>> /\ Left > 1
    BY <1>2, <2>1
  <2>3. S.type = "int" /\ S.name \in DOMAIN LocalsHere
    BY <2>2, SupportedHead
  <2>4. "int" \in DOMAIN typeIDs /\ typeIDs["int"] = 1 /\ types[2].offsets = <<>>
    <3>1. P!IntInv
      BY RecordedFacts DEF P!Recorded
    <3>2. types[2] = [size |-> QWORD, offsets |-> <<>>, end |-> 0, fields |-> <<>>]
      BY <3>1 DEF P!IntInv, P!Sized, P!QWORD, QWORD
    <3> QED BY <3>1, <3>2 DEF P!IntInv
  <2>5. ~HasAttributes(S.type)
    BY <2>3, <2>4 DEF HasAttributes, FP!TypeOf
  <2> QED BY <2>1, <2>3, <2>4, <2>5
<1>6. ~AssignThrows
  <2> SUFFICES ASSUME AssignThrows PROVE FALSE
    OBVIOUS
  <2>1. At("assign") /\ (S.name \notin DOMAIN Variables \/ BadAttribute(Variables[S.name], S.attr))
    BY DEF AssignThrows
  <2>2. S \in Statements /\ S.k = "assign" /\ todo # <<>> /\ Left > 1
    BY <1>2, <2>1
  <2> QED BY <2>1, <2>2, SupportedHead DEF BadAttribute
<1>7. ~FuncThrows
  <2> SUFFICES ASSUME FuncThrows PROVE FALSE
    OBVIOUS
  <2>1. S \in Statements /\ S.k = "func" /\ todo # <<>>
        /\ (S.name \in DOMAIN generated \/ S.name \notin DOMAIN functions)
    BY <1>1, AtStatement DEF FuncThrows
  <2>2. Left = 0
    BY <1>1, <2>1, LeftFacts, Placed
  <2>3. Here \in Nat /\ Here + 1 \in 1..Len(ast) /\ ast[Here + 1] = S
    BY <1>1, <2>1, <2>2, TopHead
  <2>4. S.name \in DOMAIN functions
    <3>1. Here + 1 \in P!FunctionsOf /\ P!NameAt(Here + 1) = S.name
      BY <2>1, <2>3 DEF P!FunctionsOf, P!Of, P!NameAt
    <3> QED BY <3>1, RecordedFacts DEF P!Recorded
  <2>5. PICK j \in FuncsUpTo(Here) : ast[j].name = S.name
    BY <2>1, <2>4 DEF PromiseInv
  <2>6. j \in 1..Len(ast) /\ j # Here + 1 /\ ast[j].k = "func" /\ Len(ast) \in Nat
    BY <1>1, <2>3, <2>5, ProgramBodies DEF FuncsUpTo
  <2> QED BY <2>1, <2>3, <2>5, <2>6 DEF WellShaped
<1> QED BY <1>3, <1>4, <1>5, <1>6, <1>7

\* In a function the promise is kept by a step that stays in it: by its last statement if it
\* is the return of a value that sets the flag.
LEMMA PromiseStays ==
  ASSUME PromiseInv, UNCHANGED <<ast, generated, thrown>>, Here' = Here,
         exprInReg = TRUE => exprInReg' = TRUE, OpsIn(code') \cap Moving = {},
         Left > 1 /\ ~(Left' > 1) /\ Here \in FuncsUpTo(Here) /\ LeafAt(Here) => exprInReg' = TRUE,
         Left \in Nat, Left' \in Nat, Here \in Nat
  PROVE  PromiseInv'
<1>1. /\ FuncsUpTo(Here)' = FuncsUpTo(Here)
      /\ \A j : LeafAt(j)' = LeafAt(j)
  BY DEF FuncsUpTo, LeafAt
<1>2. ASSUME NEW j \in FuncsUpTo(Here), LeafAt(j), j < Here \/ Left' <= 1
      PROVE  exprInReg' = TRUE
  <2>1. CASE j < Here \/ Left <= 1
    BY <1>2, <2>1 DEF PromiseInv
  <2>2. CASE ~(j < Here \/ Left <= 1)
    <3>1. j = Here /\ Left > 1 /\ ~(Left' > 1)
      BY <1>2, <2>2 DEF FuncsUpTo
    <3> QED BY <1>2, <3>1
  <2> QED BY <2>1, <2>2
<1> QED BY <1>1, <1>2 DEF PromiseInv

\* The last statement of a supported function is its return.
LEMMA ReturnsAtEnd ==
  ASSUME FlowInv, WhereInv, todo # <<>>, WellShaped(ast), Left = 2, ast[Here].k = "func"
  PROVE  S = Last(ast[Here].body) /\ S.k = "return"
<1> DEFINE b == ast[Here].body
<1>1. IsStack(todo) /\ S = todo[1]
  BY LeftFacts, RestAt DEF WhereInv, S
<1>2. Here \in 1..Len(ast) /\ EndsWith(todo[1], b)
  BY DEF WhereInv, OnTrack, Here
<1>3. SupportedBody(b, ParamsAt(Here), "return")
  BY <1>2, SupportedAt DEF LastAt
<1>4. Last(b).k = "return"
  BY <1>3 DEF SupportedBody
<1> QED BY <1>1, <1>2, <1>4 DEF EndsWith

LEMMA NoMoves ==
  ASSUME FlowInv, PromiseInv, NEW places, Added(places, {})
  PROVE  OpsIn(code') \cap Moving = {}
<1>1. PICK d : Emission(d, places, {}) /\ code' = code \o d
  BY DEF Added
<1>2. IsStack(code) /\ IsStack(d) /\ OpsIn(d) \cap Moving = {}
  BY <1>1 DEF FlowInv, GInv, Sound, Emission
<1> QED BY <1>1, <1>2, OpsJoined DEF PromiseInv

LEMMA PromiseNext ==
  ASSUME FlowInv, WhereInv, PromiseInv, WellShaped(ast), NextMove, Left > 0,
         UNCHANGED <<ast, generated, thrown>>, NEW places, Added(places, {}),
         exprInReg = TRUE => exprInReg' = TRUE,
         S.k = "return" => exprInReg' = FlagAfter(S.value)
  PROVE  PromiseInv'
<1>1. Left \in Nat /\ Len(ast) \in Nat /\ todo # <<>>
  BY LeftFacts, ProgramBodies DEF WhereInv, FlowInv, NextMove
<1>2. Left' = Left - 1 /\ Here' = Here
  BY <1>1, AfterNext DEF WhereInv
<1>3. Here \in Nat
  BY <1>1 DEF WhereInv, OnTrack, Here
<1>4. ASSUME Left > 1, ~(Left' > 1), Here \in FuncsUpTo(Here), LeafAt(Here)
      PROVE  exprInReg' = TRUE
  <2>1. Left = 2
    BY <1>1, <1>2, <1>4
  <2>2. S = Last(ast[Here].body) /\ S.k = "return"
    BY <1>1, <1>4, <2>1, ReturnsAtEnd DEF FuncsUpTo
  <2>3. S.value.k \in {"num", "var", "neq"}
    BY <1>4, <2>2 DEF LeafAt
  <2> QED BY <2>2, <2>3 DEF FlagAfter
<1>5. OpsIn(code') \cap Moving = {} /\ Left' \in Nat
  BY <1>1, <1>2, NoMoves
<1> QED BY <1>1, <1>2, <1>3, <1>4, <1>5, PromiseStays

LEMMA PromiseBody ==
  ASSUME FlowInv, WhereInv, PromiseInv, BodyMove,
         UNCHANGED <<ast, generated, thrown>>, Added({}, {}),
         exprInReg = TRUE => exprInReg' = TRUE
  PROVE  PromiseInv'
<1>1. Left > 1 /\ Left' > 1 /\ Left' \in Nat /\ Here' = Here
  BY AfterBody DEF WhereInv, FlowInv
<1>2. Left \in Nat /\ Len(ast) \in Nat
  BY LeftFacts, ProgramBodies DEF WhereInv, FlowInv
<1>3. Here \in Nat
  BY <1>2 DEF WhereInv, OnTrack, Here
<1>4. OpsIn(code') \cap Moving = {}
  BY NoMoves
<1> QED BY <1>1, <1>2, <1>3, <1>4, PromiseStays

\* A function begins: if it is not main, it is one more that is known.
LEMMA PromiseTop ==
  ASSUME FlowInv, WhereInv, PromiseInv, WellShaped(ast), NEW name, TopMove(name),
         UNCHANGED <<ast, thrown, exprInReg>>,
         NEW label, NEW rest, code' = code \o Header(label, name, rest),
         S.k = "main" => generated' = generated,
         S.k = "func" => generated' = FP!Assign(generated, S.name, [label |-> label, argCnt |-> Len(S.args)])
  PROVE  PromiseInv'
<1>1. /\ Left = 0 /\ Left' = Len(S.body) + 1 /\ Here' = Here + 1 /\ ast[Here'] = S
      /\ Here' \in 1..Len(ast) /\ Left' \in Nat
  BY AfterTop DEF WhereInv, FlowInv
<1>2. Here \in Nat /\ Len(ast) \in Nat /\ S.k \in {"func", "main"}
  BY TopHead, ProgramBodies, <1>1 DEF TopMove, FlowInv
<1>3. OpsIn(code') \cap Moving = {}
  <2>1. /\ IsStack(Header(label, name, rest)) /\ OpsIn(Header(label, name, rest)) \cap Moving = {}
        /\ IsStack(code) /\ OpsIn(code) \cap Moving = {}
    BY HeaderOps DEF FlowInv, GInv, Sound, PromiseInv, Moving
  <2> QED BY <2>1, OpsJoined
<1>4. Left' > 1
  <2>1. S.body # <<>>
    BY <1>1, SupportedAt DEF SupportedBody
  <2>2. S.body \in Seq(Statements)
    <3>1. Here' \in P!FunctionsOf
      BY <1>1, <1>2 DEF P!FunctionsOf, P!Of
    <3> QED BY <1>1, <3>1, ProgramBodies DEF FlowInv
  <2>3. Len(S.body) \in Nat \ {0}
    BY <2>1, <2>2, LenProperties, EmptySeq
  <2> QED BY <1>1, <2>3
<1>5. \A j : LeafAt(j)' = LeafAt(j)
  BY DEF LeafAt
<1>6. FuncsUpTo(Here)' = FuncsUpTo(Here) \cup {j \in {Here + 1} : S.k = "func"}
  <2>1. 1..Here' = (1..Here) \cup {Here + 1}
    BY <1>1, <1>2
  <2> QED BY <1>1, <2>1 DEF FuncsUpTo
<1>7. \A j \in FuncsUpTo(Here) : j < Here' /\ LeafAt(j) => exprInReg = TRUE
  BY <1>1, <1>2 DEF PromiseInv, FuncsUpTo
<1>8. \A j \in FuncsUpTo(Here)' : LeafAt(j) /\ (j < Here' \/ Left' <= 1) => exprInReg = TRUE
  BY <1>1, <1>2, <1>4, <1>6, <1>7
<1>9. CASE S.k = "main"
  BY <1>3, <1>5, <1>6, <1>8, <1>9 DEF PromiseInv
<1>10. CASE S.k = "func"
  <2>1. generated' = FP!Assign(generated, S.name, [label |-> label, argCnt |-> Len(S.args)])
    BY <1>10
  <2>2. DOMAIN generated' = DOMAIN generated \cup {S.name}
        /\ generated'[S.name].argCnt = Len(S.args)
        /\ \A f \in DOMAIN generated : f # S.name => generated'[f] = generated[f]
    BY <2>1 DEF FP!Assign
  <2>3. \A j \in FuncsUpTo(Here) : ast[j].name # S.name /\ ast[j].name \in DOMAIN generated
    <3>1. \A j \in FuncsUpTo(Here) : j \in 1..Len(ast) /\ j # Here + 1 /\ ast[j].k = "func"
      BY <1>1, <1>2 DEF FuncsUpTo
    <3>2. \A j \in FuncsUpTo(Here) : ast[j].name # S.name
      BY <1>1, <1>10, <3>1 DEF WellShaped
    <3> QED BY <3>2 DEF PromiseInv
  <2>4. FuncsUpTo(Here)' = FuncsUpTo(Here) \cup {Here + 1} /\ ast[Here + 1] = S
    BY <1>1, <1>6, <1>10
  <2>5. DOMAIN generated' = {ast[j].name : j \in FuncsUpTo(Here)'}
    BY <2>2, <2>4 DEF PromiseInv
  <2>6. \A j \in FuncsUpTo(Here)' : generated'[ast[j].name].argCnt = Len(ast[j].args)
    BY <2>2, <2>3, <2>4 DEF PromiseInv
  <2> QED BY <1>3, <1>5, <1>8, <2>5, <2>6 DEF PromiseInv
<1> QED BY <1>2, <1>9, <1>10

\* The passes throw nothing at a supported program.
LEMMA PassesLetThrough ==
  ASSUME FlowInv, ast' = ast, WellShaped(ast), thrown = "none", Passes
  PROVE  thrown' = "none"
<1>1. P!PassesInv'
  <2>1. phase # "done" /\ P!PassesInv
    BY PassesRunFirst DEF FlowInv, Composed
  <2> QED BY <2>1, SamePasses, PassesStep DEF Passes
<1>2. (ast \in Programs /\ WellShaped(ast) => P!WellFormed)'
  BY SupportedPasses, PTL
<1>3. P!WellFormed'
  BY <1>2, SameProgram DEF FlowInv
<1> QED BY <1>1, <1>3 DEF P!PassesInv, P!AcceptInv

\* A supported program has no types.
LEMMA NoTypes == ASSUME FlowInv, WhereInv, phase = "done", WellShaped(ast) PROVE ~SkipType
<1> SUFFICES ASSUME SkipType PROVE FALSE
  OBVIOUS
<1>1. ast \in Programs /\ GInv /\ Left \in Nat
  BY LeftFacts DEF FlowInv, WhereInv
<1>2. S \in Statements /\ S.k = "type" /\ todo # <<>>
  BY <1>1, AtStatement DEF SkipType
<1>3. CASE Left = 0
  BY <1>1, <1>2, <1>3, TopHead, SupportedAt
<1>4. CASE Left = 1
  BY <1>2, <1>4, LeftFacts, HeadLayer DEF WhereInv
<1>5. CASE Left > 1
  BY <1>2, <1>5, SupportedHead
<1> QED BY <1>1, <1>3, <1>4, <1>5

LEMMA PromiseStep ==
  ASSUME FlowInv, WhereInv, PromiseInv, Supported(ast), [Next]_vars
  PROVE  PromiseInv'
<1>1. /\ ast \in Programs /\ GInv /\ IsStack(code) /\ NInv /\ WellShaped(ast) /\ ast' = ast
      /\ StacksFit(todo, contexts, currentFunction, Left) /\ Left \in Nat
  BY LeftFacts, AstStays DEF FlowInv, WhereInv, GInv, Sound, Supported
<1>2. ASSUME UNCHANGED <<todo, code, generated, exprInReg, thrown>>
      PROVE  PromiseInv'
  <2>1. Left' = Left /\ Here' = Here
    BY <1>1, <1>2 DEF Left, Layered, Here, Spot
  <2> QED BY <1>1, <1>2, <2>1 DEF PromiseInv, FuncsUpTo, LeafAt
<1>3. CASE UNCHANGED vars
  BY <1>2, <1>3 DEF vars, genVars
<1>4. CASE Passes
  <2>1. thrown' = "none" /\ thrown = "none"
    BY <1>1, <1>4, PassesLetThrough DEF PromiseInv
  <2> QED BY <1>2, <1>4, <2>1 DEF Passes, genVars
<1>5. CASE Generate
  <2>1. phase = "done"
    BY <1>5, GeneratesLast
  <2>2. ~(Undefined \/ ValueThrows \/ DeclThrows \/ AssignThrows \/ FuncThrows)
    BY <1>1, <2>1, PromisedSteps
  <2>3. ASSUME todo # <<>>, S \in Statements, HasValue(S)
        PROVE  Left > 1 /\ Moves(S.value) = {} /\ S.k \notin {"func", "main", "type"}
    <3>1. Left > 1 /\ S.k \notin {"func", "main", "type"}
      BY <2>3, InABody DEF HasValue
    <3> QED BY <1>1, <2>1, <2>3, <3>1, PromisedValues
  <2>4. CASE Write
    BY <1>2, <2>4 DEF Write
  <2>5. CASE GenDecl \/ GenAssign \/ GenReturn \/ GenExit
    <3>1. S \in Statements /\ HasValue(S) /\ todo # <<>>
      BY <1>1, <2>5, AtStatement DEF GenDecl, GenAssign, GenReturn, GenExit, HasValue
    <3>2. Left > 1 /\ Left > 0 /\ Moves(S.value) = {}
      BY <1>1, <2>3, <3>1
    <3>3. PICK places : Added(places, Moves(S.value))
      BY <1>1, <2>5, DeclEmits, AssignEmits, LeaveEmits
    <3>4. NextMove /\ UNCHANGED <<generated, thrown>> /\ exprInReg' = FlagAfter(S.value)
      BY <2>5 DEF GenDecl, GenAssign, GenReturn, GenExit, NextMove, At
    <3>5. exprInReg = TRUE => exprInReg' = TRUE
      BY <3>4 DEF FlagAfter
    <3> QED BY <1>1, <3>2, <3>3, <3>4, <3>5, PromiseNext
  <2>6. CASE GenCall \/ EndIf \/ Loop \/ GenAsm
    <3>1. NextMove /\ UNCHANGED <<generated, thrown>> /\ S.k \in {"call", "endif", "loop", "asm"}
      BY <2>6 DEF GenCall, EndIf, Loop, GenAsm, NextMove, At, S
    <3>2. Left > 1 /\ Left > 0
      BY <1>1, <3>1, InABody DEF NextMove
    <3>4. Added({}, {})
      <4>1. CASE GenCall
        <5>1. S \in Statements /\ S.k = "call" /\ todo # <<>>
          BY <1>1, <4>1, AtStatement DEF GenCall
        <5>2. CallMoves(S) = {}
          BY <1>1, <2>1, <3>2, <5>1, PromisedValues
        <5> QED BY <1>1, <4>1, <5>2, CallEmits
      <4> QED BY <1>1, <2>6, <4>1, RestEmits
    <3>3. exprInReg = TRUE => exprInReg' = TRUE
      BY <2>6 DEF GenCall, EndIf, Loop, GenAsm
    <3> QED BY <1>1, <3>1, <3>2, <3>3, <3>4, PromiseNext
  <2>7. CASE EndMain \/ EndFunc
    <3>1. NextMove /\ UNCHANGED <<generated, thrown, exprInReg, code>>
          /\ S.k \in {"endmain", "endfunc"}
      BY <2>7 DEF EndMain, EndFunc, NextMove, At, S
    <3>2. Left > 0 /\ Added({}, {})
      <4>1. Left # 0
        <5>1. ~AtTop(S)
          BY <3>1 DEF AtTop
        <5> QED BY <3>1, <5>1, LeftFacts, HeadLayer DEF WhereInv, NextMove
      <4> QED BY <1>1, <3>1, <4>1, AddedNothing
    <3> QED BY <1>1, <3>1, <3>2, PromiseNext
  <2>8. ~SkipType
    BY <1>1, <2>1, NoTypes
  <2>9. CASE GenMain
    <3>1. TopMove("main") /\ UNCHANGED <<thrown, exprInReg, generated>> /\ S.k = "main"
      BY <2>9, MainMoves DEF GenMain, At, S
    <3>2. \E label, rest : code' = code \o Header(label, "main", rest)
      BY <2>9 DEF GenMain, Header
    <3> QED BY <1>1, <3>1, <3>2, PromiseTop
  <2>10. CASE GenFunc
    <3>1. TopMove(S.name) /\ UNCHANGED <<thrown, exprInReg>> /\ S.k = "func"
      BY <2>10, FuncMoves DEF GenFunc, At, S
    <3>2. \E label, rest : /\ code' = code \o Header(label, S.name, rest)
                           /\ generated' = FP!Assign(generated, S.name, [label |-> label, argCnt |-> Len(S.args)])
      BY <2>10 DEF GenFunc, Header
    <3> QED BY <1>1, <3>1, <3>2, PromiseTop
  <2>11. CASE GenIf \/ GenWhile
    <3>1. S \in Statements /\ HasValue(S) /\ todo # <<>>
      BY <1>1, <2>11, AtStatement DEF GenIf, GenWhile, HasValue
    <3>2. Added({}, {})
      BY <1>1, <2>3, <2>11, <3>1, IfEmits, WhileEmits
    <3>3. BodyMove /\ UNCHANGED <<generated, thrown>> /\ exprInReg' = FlagAfter(S.value)
      BY <1>1, <2>11, BodyMoves DEF GenIf, GenWhile
    <3>4. exprInReg = TRUE => exprInReg' = TRUE
      BY <3>3 DEF FlagAfter
    <3> QED BY <1>1, <3>2, <3>3, <3>4, PromiseBody
  <2>12. CASE GenElse
    <3>1. BodyMove /\ UNCHANGED <<generated, thrown, exprInReg>> /\ Added({}, {})
      BY <1>1, <2>12, BodyMoves, RestEmits DEF GenElse
    <3> QED BY <1>1, <3>1, PromiseBody
  <2>13. \/ Write \/ (GenDecl \/ GenAssign \/ GenReturn \/ GenExit)
         \/ (GenCall \/ EndIf \/ Loop \/ GenAsm) \/ (EndMain \/ EndFunc)
         \/ GenMain \/ GenFunc \/ (GenIf \/ GenWhile) \/ GenElse
    BY <1>5, <2>2, <2>8 DEF Generate
  <2> QED BY <2>4, <2>5, <2>6, <2>7, <2>9, <2>10, <2>11, <2>12, <2>13
<1> QED BY <1>3, <1>4, <1>5 DEF Next

\* A supported program is never refused, by neither pass nor by any handler, none of its values
\* is fetched with a pop and no argument is pushed, however many functions, calls and statements it has
\* (generate_call, generate_expression and what they find in _functions and _exprInReg).
THEOREM SupportedIsGenerated == GenSpec => []SupportedGenerates
<1> DEFINE Inv == /\ FlowInv /\ (Structured(ast) => WhereInv)
                  /\ (Supported(ast) => PromiseInv)
<1>1. Init => Inv
  <2> SUFFICES ASSUME Init PROVE Inv
    OBVIOUS
  <2>1. FlowInv /\ (Structured(ast) => WhereInv)
    BY FlowAtFirst, WhereStart
  <2>2. ASSUME Supported(ast) PROVE PromiseInv
    <3>1. WhereInv /\ phase # "done"
      BY <2>1, <2>2, SupportedShape DEF Init, FP!Init
    <3>2. Left = 0 /\ Len(ast) \in Nat
      BY <2>1, <3>1, LeftFacts, ProgramBodies DEF WhereInv, FlowInv
    <3>3. Here = 0
      BY <3>2 DEF Here, Spot, Init
    <3>4. FuncsUpTo(Here) = {}
      BY <3>3 DEF FuncsUpTo
    <3>5. thrown = "none" /\ DOMAIN generated = {}
      <4>1. generated = <<>> /\ thrown = "none"
        BY DEF Init, FP!Init
      <4>2. DOMAIN <<>> = {}
        OBVIOUS
      <4> QED BY <4>1, <4>2, Zenon
    <3>6. OpsIn(code) \cap Moving = {}
      <4>1. \A i : i \notin 1..Len(code)
        BY Nothing DEF Init
      <4> QED BY <4>1 DEF OpsIn
    <3> QED BY <3>4, <3>5, <3>6 DEF PromiseInv
  <2> QED BY <2>1, <2>2
<1>2. Inv /\ [Next]_vars => Inv'
  <2> SUFFICES ASSUME Inv, [Next]_vars PROVE Inv'
    OBVIOUS
  <2>1. /\ Structured(ast)' = Structured(ast) /\ Supported(ast)' = Supported(ast)
        /\ Supported(ast) => Structured(ast)
    BY AstStays, SameProgram, SupportedShape
  <2>2. FlowInv' /\ (Structured(ast) => WhereInv')
    BY FlowStep, WhereStep
  <2>3. Supported(ast) => PromiseInv'
    BY <2>1, PromiseStep
  <2> QED BY <2>1, <2>2, <2>3
<1>3. Inv => SupportedGenerates
  BY DEF SupportedGenerates, OnlyFramesMove, PromiseInv, OpsIn, LabelsAt, Moving
<1> HIDE DEF Inv
<1> QED BY <1>1, <1>2, <1>3, PTL DEF GenSpec

-----------------------------------------------------------------------------
(* With the machine that runs the code.                                    *)

\* The machine leaves the generator alone.
LEMMA MachineWaits == ExecSpec => GenSpec
<1>1. ExecInit => Init
  BY DEF ExecInit
<1>2. [Compile \/ Execute]_allVars => [Next]_vars
  BY DEF allVars, Compile, Execute, Begin, DoLabel, DoEnter, DoEval, DoMov, DoStore, DoJump, DoCall,
         DoReturn, DoExit
<1> QED BY <1>1, <1>2, PTL DEF ExecSpec, GenSpec

\* What is said of the generator is so of the whole: compiled, and then run.
COROLLARY SoOfTheWhole ==
  ExecSpec => [](/\ TypeOK /\ LabelsUnique /\ JumpsLand /\ StaysDefined
                 /\ ContextIsTheFunctions /\ StoresStayInFrame /\ SupportedGenerates)
BY MachineWaits, TypeCorrect, LabelsAreUnique, JumpsHaveLabels, NeverUndefined, ContextsAreOwn,
   StoresHitTheFrame, SupportedIsGenerated, PTL

-----------------------------------------------------------------------------
(* Control stays in its function.                                          *)

\* The header of a function is its label and the instruction that pushes its frame.
HeaderLabel(r) == r.op = "label" /\ r.arg[1] # "label"
Opens(r)  == r.op = "enter" \/ HeaderLabel(r)
Leaves(r) == r.op \in {"return", "exit"}
Jumps(r)  == r.op \in {"je", "jmp"}

\* No frame is pushed between these places.
Together(c, i, j) == EntersBefore(c, i) = EntersBefore(c, j)

\* The frame at place i is that of main.
LastEnter(c, i) == CHOOSE j \in EntersBefore(c, i) : \A k \in EntersBefore(c, i) : k <= j
InMain(c, i)    == c[LastEnter(c, i) - 1].arg = Start

\* What a return in code c at place i relies on.
Returns(c, i, n) == Entered(c, i) /\ n = FrameIn(c, i) /\ ~InMain(c, i)

\* No instruction of a function but one that leaves it has a header behind it, a jump goes to a
\* label of the same function, and a return pops the frame.  The labels in `owed` are still to
\* come, those in `starts` will be jumped back to.
FlowsAt(c, i) ==
  /\ HeaderLabel(c[i]) => i + 1 \in 1..Len(c) /\ c[i + 1].op = "enter"
  /\ c[i].op = "enter" => i > 1 /\ Len(c[i].arg.regs) \in Nat /\ c[i].arg.zeros \in Nat
  /\ i + 1 \in 1..Len(c) /\ ~Leaves(c[i]) /\ ~HeaderLabel(c[i]) => ~Opens(c[i + 1])

JumpsAt(c, i, owed, starts) ==
  /\ Jumps(c[i]) => /\ c[i].arg[1] = "label"
                    /\ \A j \in 1..Len(c) : c[j].op = "label" /\ c[j].arg = c[i].arg => Together(c, i, j)
                    /\ c[i].arg \in owed => Together(c, i, Len(c) + 1)
  /\ c[i].op = "label" /\ c[i].arg \in starts => Together(c, i, Len(c) + 1)
  /\ c[i].op = "call" => c[i].arg[1] = "func"
  /\ c[i].op = "return" => Returns(c, i, c[i].arg)

Closed(c, owed, starts) == \A i \in 1..Len(c) : FlowsAt(c, i) /\ JumpsAt(c, i, owed, starts)

\* Instruction r can come behind code c.
Follows(r, c, owed, starts) ==
  /\ ~Opens(r)
  /\ r.op = "label" => r.arg \in owed \/ r.arg \notin GoalsIn(c)
  /\ Jumps(r) => r.arg[1] = "label" /\ (r.arg \in starts \/ r.arg \notin LabelsIn(c))
  /\ r.op = "call" => r.arg[1] = "func"
  /\ r.op = "return" => Returns(c, Len(c) + 1, r.arg)

Following(d, c, owed, starts) ==
  IsStack(d) /\ \A i \in 1..Len(d) : Follows(d[i], c, owed, starts)

LEMMA LastEnterIs ==
  \A c, i : IsStack(c) /\ Entered(c, i) => LastEnter(c, i) \in EntersIn(c)
BY DEF Entered, LastEnter, EntersBefore

\* A place with the same frames before it has the same frame.
LEMMA SamePlace ==
  \A c, e, i, j :
    /\ IsStack(c)
    /\ EntersBefore(c, i) = EntersBefore(e, j)
    /\ \A k \in 1..Len(c) : e[k] = c[k]
    /\ \A k \in 1..Len(c) : c[k].op = "enter" => k > 1
    /\ Entered(c, i)
    => /\ Entered(e, j) /\ FrameIn(e, j) = FrameIn(c, i)
       /\ InMain(e, j) <=> InMain(c, i)
<1> SUFFICES ASSUME NEW c, NEW e, NEW i, NEW j,
                    IsStack(c), EntersBefore(c, i) = EntersBefore(e, j), Entered(c, i),
                    \A k \in 1..Len(c) : e[k] = c[k],
                    \A k \in 1..Len(c) : c[k].op = "enter" => k > 1
             PROVE  /\ Entered(e, j) /\ FrameIn(e, j) = FrameIn(c, i)
                    /\ InMain(e, j) <=> InMain(c, i)
  OBVIOUS
<1>1. Entered(e, j) /\ FrameIn(e, j) = FrameIn(c, i)
  BY SameFrame
<1>2. LastEnter(e, j) = LastEnter(c, i)
  BY DEF LastEnter
<1>3. LastEnter(c, i) \in 1..Len(c) /\ c[LastEnter(c, i)].op = "enter"
  BY LastEnterIs DEF EntersIn
<1>4. Len(c) \in Nat
  BY DEF IsStack
<1>5. LastEnter(c, i) - 1 \in 1..Len(c)
  BY <1>3, <1>4
<1> QED BY <1>1, <1>2, <1>5 DEF InMain

\* Where frames are pushed does not change when none is pushed.
LEMMA EntersGrown ==
  \A c, d : IsStack(c) /\ IsStack(d) /\ (\A i \in 1..Len(d) : d[i].op # "enter") =>
    /\ \A i \in 1..(Len(c) + 1) : EntersBefore(c \o d, i) = EntersBefore(c, i)
    /\ \A i \in (Len(c) + 1)..(Len(c) + Len(d) + 1) :
         EntersBefore(c \o d, i) = EntersBefore(c, Len(c) + 1)
<1> SUFFICES ASSUME NEW c, NEW d, IsStack(c), IsStack(d), \A i \in 1..Len(d) : d[i].op # "enter"
             PROVE  /\ \A i \in 1..(Len(c) + 1) : EntersBefore(c \o d, i) = EntersBefore(c, i)
                    /\ \A i \in (Len(c) + 1)..(Len(c) + Len(d) + 1) :
                         EntersBefore(c \o d, i) = EntersBefore(c, Len(c) + 1)
  OBVIOUS
<1> DEFINE e == c \o d
<1>1. /\ IsStack(e) /\ Len(c) \in Nat /\ Len(d) \in Nat /\ Len(e) = Len(c) + Len(d)
      /\ \A i \in 1..Len(c) : e[i] = c[i]
      /\ \A i \in 1..Len(d) : e[Len(c) + i] = d[i]
  BY JoinedAt
<1> HIDE DEF e
<1>2. \A i \in 1..Len(e) : i <= Len(c) \/ e[i].op # "enter"
  <2> SUFFICES ASSUME NEW i \in 1..Len(e), i > Len(c) PROVE e[i].op # "enter"
    BY <1>1
  <2>1. i - Len(c) \in 1..Len(d) /\ Len(c) + (i - Len(c)) = i
    BY <1>1
  <2> QED BY <1>1, <2>1
<1>3. EntersIn(e) = EntersIn(c)
  BY <1>1, <1>2 DEF EntersIn
<1>4. \A j \in EntersIn(c) : j \in 1..Len(c)
  BY DEF EntersIn
<1>5. \A i \in (Len(c) + 1)..(Len(c) + Len(d) + 1) : EntersBefore(e, i) = EntersBefore(c, Len(c) + 1)
  BY <1>1, <1>3, <1>4 DEF EntersBefore
<1>6. \A i : EntersBefore(e, i) = EntersBefore(c, i)
  BY <1>3 DEF EntersBefore
<1> QED BY <1>5, <1>6 DEF e

\* Code that follows keeps control in its functions, if what is owed and started anew is new.
LEMMA ClosedGrown ==
  ASSUME NEW c, NEW d, NEW owed, NEW starts, NEW more, NEW others,
         IsStack(c), Closed(c, owed, starts), Following(d, c, owed, starts),
         \A l \in more : l \in owed \/ l \notin GoalsIn(c),
         \A l \in others : l \in starts \/ l \notin LabelsIn(c)
  PROVE  Closed(c \o d, more, others)
<1> DEFINE e == c \o d
           p == Len(c) + 1
<1>1. /\ IsStack(e) /\ Len(c) \in Nat /\ Len(d) \in Nat /\ Len(e) = Len(c) + Len(d)
      /\ \A i \in 1..Len(c) : e[i] = c[i]
      /\ \A i \in 1..Len(d) : e[Len(c) + i] = d[i]
  BY JoinedAt DEF Following
<1>2. \A i \in 1..Len(d) : d[i].op # "enter"
  BY DEF Following, Follows, Opens
<1>3. /\ \A i \in 1..Len(c) : EntersBefore(e, i) = EntersBefore(c, i)
      /\ EntersBefore(e, p) = EntersBefore(c, p)
      /\ \A i \in p..(Len(e) + 1) : EntersBefore(e, i) = EntersBefore(c, p)
  <2>1. \A i \in 1..Len(c) : i \in 1..(Len(c) + 1)
    BY <1>1
  <2>2. p \in 1..(Len(c) + 1)
    BY <1>1
  <2> QED BY <1>1, <1>2, <2>1, <2>2, EntersGrown DEF Following
<1>4. Len(e) + 1 \in p..(Len(e) + 1)
  BY <1>1
<1> HIDE DEF e
<1>5. \A i, j : /\ EntersBefore(e, i) = EntersBefore(c, j) /\ Entered(c, j)
                => /\ Entered(e, i) /\ FrameIn(e, i) = FrameIn(c, j)
                   /\ InMain(e, i) <=> InMain(c, j)
  <2>1. \A k \in 1..Len(c) : c[k].op = "enter" => k > 1
    BY DEF Closed, FlowsAt
  <2> QED BY <1>1, <2>1, SamePlace
<1>6. \A i \in 1..Len(d) : Follows(d[i], c, owed, starts)
  BY DEF Following
<1>7. \A i \in 1..Len(e) : \/ i \in 1..Len(c)
                           \/ i \in p..Len(e) /\ i - Len(c) \in 1..Len(d) /\ e[i] = d[i - Len(c)]
  <2> SUFFICES ASSUME NEW i \in 1..Len(e), i > Len(c)
               PROVE  i \in p..Len(e) /\ i - Len(c) \in 1..Len(d) /\ e[i] = d[i - Len(c)]
    BY <1>1
  <2>1. i - Len(c) \in 1..Len(d) /\ Len(c) + (i - Len(c)) = i
    BY <1>1
  <2> QED BY <1>1, <2>1
<1>8. \A i \in p..Len(e) : Follows(e[i], c, owed, starts)
  <2> SUFFICES ASSUME NEW i \in p..Len(e) PROVE Follows(e[i], c, owed, starts)
    OBVIOUS
  <2>1. i \in 1..Len(e) /\ i \notin 1..Len(c)
    BY <1>1
  <2> QED BY <1>6, <1>7, <2>1
<1>9. \A i \in 1..Len(c) : /\ c[i].op = "label" => c[i].arg \in LabelsIn(c)
                           /\ Jumps(c[i]) => c[i].arg \in GoalsIn(c)
  BY DEF LabelsIn, GoalsIn, Jumps
<1>10. ASSUME NEW i \in 1..Len(c) PROVE FlowsAt(e, i)
  <2>1. FlowsAt(c, i) /\ e[i] = c[i]
    BY <1>1 DEF Closed
  <2>2. i + 1 \in 1..Len(c) => e[i + 1] = c[i + 1] /\ i + 1 \in 1..Len(e)
    BY <1>1
  <2>3. i + 1 \in 1..Len(e) /\ i + 1 \notin 1..Len(c) => ~Opens(e[i + 1])
    <3> SUFFICES ASSUME i + 1 \in 1..Len(e), i + 1 \notin 1..Len(c) PROVE ~Opens(e[i + 1])
      OBVIOUS
    <3>1. i + 1 \in p..Len(e)
      BY <1>1
    <3> QED BY <1>8, <3>1 DEF Follows
  <2> QED BY <2>1, <2>2, <2>3 DEF FlowsAt
<1>11. ASSUME NEW i \in p..Len(e) PROVE FlowsAt(e, i)
  <2>1. ~Opens(e[i])
    BY <1>8 DEF Follows
  <2>2. i + 1 \in 1..Len(e) => ~Opens(e[i + 1])
    <3> SUFFICES ASSUME i + 1 \in 1..Len(e) PROVE ~Opens(e[i + 1])
      OBVIOUS
    <3>1. i + 1 \in p..Len(e)
      BY <1>1
    <3> QED BY <1>8, <3>1 DEF Follows
  <2> QED BY <2>1, <2>2 DEF FlowsAt, Opens
<1>12. ASSUME NEW i \in 1..Len(c) PROVE JumpsAt(e, i, more, others)
  <2>1. JumpsAt(c, i, owed, starts) /\ e[i] = c[i]
    BY <1>1 DEF Closed
  <2>2. EntersBefore(e, i) = EntersBefore(c, i) /\ EntersBefore(e, Len(e) + 1) = EntersBefore(c, p)
    BY <1>3, <1>4
  <2>3. ASSUME Jumps(e[i]), NEW j \in 1..Len(e), e[j].op = "label", e[j].arg = e[i].arg
        PROVE  Together(e, i, j)
    <3>1. CASE j \in 1..Len(c)
      <4>1. e[j] = c[j] /\ EntersBefore(e, j) = EntersBefore(c, j)
        BY <1>1, <1>3, <3>1
      <4>2. Together(c, i, j)
        BY <2>1, <2>3, <3>1, <4>1 DEF JumpsAt
      <4> QED BY <2>2, <4>1, <4>2 DEF Together
    <3>2. CASE j \in p..Len(e)
      <4>1. e[j].arg \in owed
        BY <1>8, <1>9, <2>1, <2>3, <3>2 DEF Follows
      <4>2. Together(c, i, p)
        BY <2>1, <2>3, <4>1 DEF JumpsAt
      <4>3. EntersBefore(e, j) = EntersBefore(c, p)
        BY <1>1, <1>3, <3>2
      <4> QED BY <2>2, <4>2, <4>3 DEF Together
    <3> QED BY <1>7, <3>1, <3>2
  <2>4. ASSUME Jumps(e[i]), e[i].arg \in more PROVE Together(e, i, Len(e) + 1)
    <3>1. c[i].arg \in owed
      BY <1>9, <2>1, <2>4
    <3>2. Together(c, i, p)
      BY <2>1, <2>4, <3>1 DEF JumpsAt
    <3> QED BY <2>2, <3>2 DEF Together
  <2>5. ASSUME e[i].op = "label", e[i].arg \in others PROVE Together(e, i, Len(e) + 1)
    <3>1. c[i].arg \in starts
      BY <1>9, <2>1, <2>5
    <3>2. Together(c, i, p)
      BY <2>1, <2>5, <3>1 DEF JumpsAt
    <3> QED BY <2>2, <3>2 DEF Together
  <2>6. e[i].op = "return" => Returns(e, i, e[i].arg)
    <3>1. Returns(c, i, c[i].arg) => Returns(e, i, c[i].arg)
      BY <1>5, <2>2 DEF Returns
    <3> QED BY <2>1, <3>1 DEF JumpsAt
  <2>7. /\ Jumps(e[i]) => e[i].arg[1] = "label"
        /\ e[i].op = "call" => e[i].arg[1] = "func"
    BY <2>1 DEF JumpsAt
  <2> QED BY <2>3, <2>4, <2>5, <2>6, <2>7 DEF JumpsAt
<1>13. ASSUME NEW i \in p..Len(e) PROVE JumpsAt(e, i, more, others)
  <2>1. Follows(e[i], c, owed, starts)
    BY <1>8
  <2>2. EntersBefore(e, i) = EntersBefore(c, p) /\ EntersBefore(e, Len(e) + 1) = EntersBefore(c, p)
    BY <1>1, <1>3, <1>4
  <2>3. Together(e, i, Len(e) + 1)
    BY <2>2 DEF Together
  <2>4. ASSUME Jumps(e[i]), NEW j \in 1..Len(e), e[j].op = "label", e[j].arg = e[i].arg
        PROVE  Together(e, i, j)
    <3>1. CASE j \in 1..Len(c)
      <4>1. e[j] = c[j] /\ EntersBefore(e, j) = EntersBefore(c, j)
        BY <1>1, <1>3, <3>1
      <4>2. c[j].arg \in starts
        BY <1>9, <2>1, <2>4, <3>1, <4>1 DEF Follows
      <4>3. Together(c, j, p)
        BY <2>4, <3>1, <4>1, <4>2 DEF Closed, JumpsAt
      <4> QED BY <2>2, <4>1, <4>3 DEF Together
    <3>2. CASE j \in p..Len(e)
      <4>1. EntersBefore(e, j) = EntersBefore(c, p)
        BY <1>1, <1>3, <3>2
      <4> QED BY <2>2, <4>1 DEF Together
    <3> QED BY <1>7, <3>1, <3>2
  <2>5. e[i].op = "return" => Returns(e, i, e[i].arg)
    BY <1>5, <2>1, <2>2 DEF Returns, Follows
  <2> QED BY <2>1, <2>3, <2>4, <2>5 DEF JumpsAt, Follows
<1> QED BY <1>7, <1>10, <1>11, <1>12, <1>13 DEF Closed, e

\* A list made by number has as many elements.
LEMMA ListLength == \A n \in Nat : \A T : \A r \in [1..n -> T] : Len(r) = n /\ r \in Seq(T)
<1> SUFFICES ASSUME NEW n \in Nat, NEW T, NEW r \in [1..n -> T] PROVE Len(r) = n /\ r \in Seq(T)
  OBVIOUS
<1>1. r \in Seq(T)
  BY SeqDef
<1>2. Len(r) \in Nat /\ DOMAIN r = 1..Len(r) /\ DOMAIN r = 1..n
  BY <1>1, LenProperties
<1> QED BY <1>1, <1>2, SameInterval

\* A function can begin behind code that leaves the one before.
LEMMA ClosedHeader ==
  ASSUME NEW c, NEW owed, NEW starts, IsStack(c), Closed(c, owed, starts),
         c # <<>> => Leaves(Last(c)),
         NEW label, label[1] # "label", NEW f, Len(Saved(f)) \in Nat, Len(Zeroed(f)) \in Nat, NEW rest
  PROVE  LET e == c \o Header(label, f, rest)
         IN  /\ Closed(e, {}, {})
             /\ InMain(e, Len(e) + 1) <=> label = Start
<1> DEFINE d == Header(label, f, rest)
           e == c \o d
           p == Len(c) + 1
<1>1. /\ IsStack(e) /\ Len(c) \in Nat /\ Len(d) = 2 /\ Len(e) = Len(c) + 2
      /\ \A i \in 1..Len(c) : e[i] = c[i]
      /\ \A i \in 1..2 : e[Len(c) + i] = d[i]
  <2>1. IsStack(d) /\ Len(d) = 2
    BY HeaderOps
  <2> HIDE DEF d
  <2>2. /\ IsStack(c \o d) /\ Len(c) \in Nat /\ Len(c \o d) = Len(c) + Len(d)
        /\ \A i \in 1..Len(c) : (c \o d)[i] = c[i]
        /\ \A i \in 1..Len(d) : (c \o d)[Len(c) + i] = d[i]
    <3>1. IsStack(c) /\ IsStack(d)
      BY <2>1
    <3>2. IsStack(c \o d) /\ Len(c) \in Nat /\ Len(c \o d) = Len(c) + Len(d)
      BY <3>1, JoinedAt
    <3>3. \A i \in 1..Len(c) : (c \o d)[i] = c[i]
      BY <3>1, JoinedAt
    <3>4. \A i \in 1..Len(d) : (c \o d)[Len(c) + i] = d[i]
      BY <3>1, JoinedAt
    <3> QED BY <3>2, <3>3, <3>4
  <2> QED BY <2>1, <2>2
<1>2. /\ d[1].op = "label" /\ d[1].arg = label /\ d[2].op = "enter"
      /\ Len(d[2].arg.regs) \in Nat /\ d[2].arg.zeros \in Nat
  <2>1. d[1] = Instr("label", label, rest, FALSE)
    BY DEF Header
  <2>2. Len([i \in 1..Len(Saved(f)) |-> functions[f].params[Saved(f)[i]].location.reg]) \in Nat
    <3> DEFINE n == Len(Saved(f))
               r == [i \in 1..n |-> functions[f].params[Saved(f)[i]].location.reg]
               T == {r[i] : i \in 1..n}
    <3>1. r \in [1..n -> T] /\ n \in Nat
      OBVIOUS
    <3> HIDE DEF r, T, n
    <3>2. Len(r) \in Nat
      BY <3>1, ListLength
    <3> QED BY <3>2 DEF r, n
  <2>3. d[1].arg = label
    BY <2>1 DEF Instr
  <2>4. /\ d[1].op = "label" /\ d[2].op = "enter" /\ d[2].arg.zeros = Len(Zeroed(f))
        /\ Len(d[2].arg.regs) = Len([i \in 1..Len(Saved(f)) |-> functions[f].params[Saved(f)[i]].location.reg])
    BY HeaderOps
  <2> HIDE DEF d
  <2> QED BY <2>2, <2>3, <2>4
<1>3. e[p] = d[1] /\ e[p + 1] = d[2] /\ p \in Nat /\ p + 1 = Len(e) /\ p > 0
  BY <1>1
<1> HIDE DEF d, e
<1>4. \A i \in 1..Len(e) : i \in 1..Len(c) \/ i = p \/ i = p + 1
  BY <1>1, <1>3
<1>5. EntersIn(e) = EntersIn(c) \cup {p + 1}
  <2>1. e[p].op # "enter" /\ e[p + 1].op = "enter"
    BY <1>2, <1>3
  <2> QED BY <1>1, <1>3, <1>4, <2>1 DEF EntersIn
<1>6. \A j \in EntersIn(c) : j \in 1..Len(c)
  BY DEF EntersIn
<1>7. \A i \in 1..Len(c) : EntersBefore(e, i) = EntersBefore(c, i)
  BY <1>1, <1>5 DEF EntersBefore
<1>8. LastEnter(e, Len(e) + 1) = p + 1
  <2>1. EntersBefore(e, Len(e) + 1) = EntersIn(c) \cup {p + 1}
    BY <1>1, <1>5, <1>6 DEF EntersBefore
  <2>2. \A k \in EntersIn(c) : k \in Int /\ k < p + 1
    BY <1>1, <1>6
  <2>3. \A j \in EntersIn(c) \cup {p + 1} : (\A k \in EntersIn(c) \cup {p + 1} : k <= j) <=> j = p + 1
    BY <1>3, <2>2
  <2>4. LastEnter(e, Len(e) + 1) = CHOOSE j \in EntersIn(c) \cup {p + 1} : \A k \in EntersIn(c) \cup {p + 1} : k <= j
    BY <2>1 DEF LastEnter
  <2> QED BY <2>3, <2>4
<1>9. InMain(e, Len(e) + 1) <=> label = Start
  <2>1. p + 1 - 1 = p
    BY <1>3
  <2> QED BY <1>2, <1>3, <1>8, <2>1 DEF InMain
<1>10. ASSUME NEW i \in 1..Len(c) PROVE FlowsAt(e, i) /\ JumpsAt(e, i, {}, {})
  <2>1. FlowsAt(c, i) /\ JumpsAt(c, i, owed, starts) /\ e[i] = c[i]
    BY <1>1 DEF Closed
  <2>2. i + 1 \in 1..Len(c) => e[i + 1] = c[i + 1] /\ i + 1 \in 1..Len(e)
    BY <1>1
  <2>3. i + 1 \notin 1..Len(c) => Leaves(c[i])
    <3> SUFFICES ASSUME i + 1 \notin 1..Len(c) PROVE Leaves(c[i])
      OBVIOUS
    <3>1. i = Len(c) /\ Len(c) # 0
      BY <1>1
    <3>2. c # <<>>
      BY <3>1, Nothing
    <3> QED BY <3>1, <3>2, PopAt
  <2>4. FlowsAt(e, i)
    BY <2>1, <2>2, <2>3 DEF FlowsAt
  <2>5. ASSUME Jumps(e[i]), NEW j \in 1..Len(e), e[j].op = "label", e[j].arg = e[i].arg
        PROVE  Together(e, i, j)
    <3>1. e[i].arg[1] = "label"
      BY <2>1, <2>5 DEF JumpsAt
    <3>2. j \in 1..Len(c)
      BY <1>2, <1>3, <1>4, <2>5, <3>1
    <3>3. Together(c, i, j)
      BY <1>1, <2>1, <2>5, <3>2 DEF JumpsAt
    <3> QED BY <1>7, <3>2, <3>3 DEF Together
  <2>6. e[i].op = "return" => Returns(e, i, e[i].arg)
    <3> SUFFICES ASSUME e[i].op = "return" PROVE Returns(e, i, e[i].arg)
      OBVIOUS
    <3>1. Returns(c, i, c[i].arg)
      BY <2>1 DEF JumpsAt
    <3>2. \A k \in 1..Len(c) : c[k].op = "enter" => k > 1
      BY DEF Closed, FlowsAt
    <3> QED BY <1>1, <1>7, <2>1, <3>1, <3>2, SamePlace DEF Returns
  <2> QED BY <2>1, <2>4, <2>5, <2>6 DEF JumpsAt
<1>11. FlowsAt(e, p) /\ JumpsAt(e, p, {}, {})
  BY <1>1, <1>2, <1>3 DEF FlowsAt, JumpsAt, HeaderLabel, Jumps, Leaves
<1>12. FlowsAt(e, p + 1) /\ JumpsAt(e, p + 1, {}, {})
  BY <1>1, <1>2, <1>3 DEF FlowsAt, JumpsAt, HeaderLabel, Jumps, Leaves
<1> QED BY <1>4, <1>9, <1>10, <1>11, <1>12 DEF Closed, e, d

\* The labels that the loops among these items jump back to.
StartsOf(items) == {items[i].start : i \in {i \in 1..Len(items) : items[i].k = "loop"}}

\* What can come behind the code as it is.
CanFollow(r)   == Follows(r, code, OwedBy(todo), StartsOf(todo))
Fitting(d) == Following(d, code, OwedBy(todo), StartsOf(todo))
Continued  == \E d : Fitting(d) /\ code' = code \o d

LEMMA FittingJoined == \A c, d : Fitting(c) /\ Fitting(d) => Fitting(c \o d)
<1> SUFFICES ASSUME NEW c, NEW d, Fitting(c), Fitting(d) PROVE Fitting(c \o d)
  OBVIOUS
<1>1. IsStack(c) /\ IsStack(d)
  BY DEF Fitting, Following
<1> DEFINE e == c \o d
<1>2. /\ IsStack(e) /\ Len(c) \in Nat /\ Len(d) \in Nat /\ Len(e) = Len(c) + Len(d)
      /\ \A i \in 1..Len(c) : e[i] = c[i]
      /\ \A i \in 1..Len(d) : e[Len(c) + i] = d[i]
  BY <1>1, JoinedAt
<1> HIDE DEF e
<1>3. ASSUME NEW i \in 1..Len(e) PROVE CanFollow(e[i])
  <2>1. CASE i <= Len(c)
    <3>1. i \in 1..Len(c)
      BY <1>2, <2>1
    <3> QED BY <1>2, <3>1 DEF Fitting, Following, CanFollow
  <2>2. CASE i > Len(c)
    <3>1. i - Len(c) \in 1..Len(d) /\ Len(c) + (i - Len(c)) = i
      BY <1>2, <2>2
    <3>2. e[i] = d[i - Len(c)]
      BY <1>2, <3>1
    <3> QED BY <3>1, <3>2 DEF Fitting, Following, CanFollow
  <2> QED BY <1>2, <2>1, <2>2
<1> QED BY <1>2, <1>3 DEF Fitting, Following, CanFollow, e

LEMMA FittingNothing == Fitting(<<>>)
BY Nothing DEF Fitting, Following

LEMMA FittingOne == \A r : CanFollow(r) => Fitting(<<r>>)
<1> SUFFICES ASSUME NEW r, CanFollow(r) PROVE Fitting(<<r>>)
  OBVIOUS
<1> DEFINE s == <<r>>
<1>1. Len(s) = 1 /\ s[1] = r
  OBVIOUS
<1>2. IsStack(s)
  BY InstrStack
<1> HIDE DEF s
<1>3. \A i \in 1..Len(s) : s[i] = r
  BY <1>1
<1>4. Fitting(s)
  BY <1>2, <1>3 DEF Fitting, Following, CanFollow
<1> QED BY <1>4 DEF s

\* An instruction that only computes, or ends the program, can come anywhere.
Simple == {"eval", "mov", "push", "store", "pop", "exit", "asm"}

LEMMA SimpleFits ==
  \A op, arg, rest, awaited : op \in Simple =>
    CanFollow(Instr(op, arg, rest, awaited)) /\ Fitting(<<Instr(op, arg, rest, awaited)>>)
<1> SUFFICES ASSUME NEW op \in Simple,
                    NEW arg, NEW rest, NEW awaited
             PROVE  CanFollow(Instr(op, arg, rest, awaited)) /\ Fitting(<<Instr(op, arg, rest, awaited)>>)
  OBVIOUS
<1>1. Instr(op, arg, rest, awaited).op = op
  BY DEF Instr
<1>2. CanFollow(Instr(op, arg, rest, awaited))
  BY <1>1 DEF CanFollow, Follows, Opens, HeaderLabel, Jumps, Simple
<1> QED BY <1>2, FittingOne

\* The functions that are known have labels of functions.
FunctionLabels == \A f \in DOMAIN generated : generated[f].label[1] = "func"

LEMMA CallFits ==
  ASSUME FunctionLabels, NEW e, Len(e.values) \in Nat, e.name \in DOMAIN generated
  PROVE  Fitting(CallCode(e))
<1> DEFINE f == [i \in 1..2 * Len(e.values) |->
                   IF i % 2 = 1 THEN EvalArg(e, (i + 1) \div 2) ELSE PlaceArg(i \div 2)]
           goal == Instr("call", generated[e.name].label, todo, FALSE)
<1>1. PICK k \in Nat : k = 2 * Len(e.values)
  OBVIOUS
<1>2. \A i \in 1..k : CanFollow(f[i])
  <2> SUFFICES ASSUME NEW i \in 1..k PROVE CanFollow(f[i])
    OBVIOUS
  <2>1. CASE i % 2 = 1
    <3>1. f[i] = EvalArg(e, (i + 1) \div 2)
      BY <1>1, <2>1
    <3>2. "eval" \in Simple
      BY DEF Simple
    <3> HIDE DEF f
    <3> QED BY <3>1, <3>2, SimpleFits DEF Eval, EvalArg
  <2>2. CASE i % 2 # 1
    <3>1. f[i] = PlaceArg(i \div 2)
      BY <1>1, <2>2
    <3>2. "mov" \in Simple /\ "push" \in Simple
      BY DEF Simple
    <3> HIDE DEF f
    <3> QED BY <3>1, <3>2, SimpleFits DEF PlaceArg
  <2> QED BY <2>1, <2>2
<1>3. f = [i \in 1..k |-> f[i]]
  BY <1>1
<1> HIDE DEF f
<1>4. f \in [1..k -> {f[i] : i \in 1..k}]
  BY <1>3
<1>5. IsStack(f) /\ Len(f) = k
  BY <1>4, ListLength, StackOfSeq
<1>6. Fitting(f)
  BY <1>2, <1>5 DEF Fitting, Following, CanFollow
<1>7. CanFollow(goal)
  <2>1. goal.op = "call" /\ goal.arg[1] = "func"
    BY DEF Instr, FunctionLabels
  <2> HIDE DEF goal
  <2> QED BY <2>1 DEF CanFollow, Follows, Opens, HeaderLabel, Jumps
<1>8. Fitting(f \o <<goal>>)
  BY <1>6, <1>7, FittingOne, FittingJoined
<1> QED BY <1>8 DEF CallCode, f, goal

LEMMA ValueFits ==
  ASSUME FunctionLabels, NEW e, Countable(e), ~BadCall(e)
  PROVE  Fitting(ValueCode(e))
<1>1. CASE e.k # "call"
  <2>1. ValueCode(e) = <<Eval(e, Variables)>>
    BY <1>1 DEF ValueCode
  <2>2. "eval" \in Simple
    BY DEF Simple
  <2> QED BY <2>1, <2>2, SimpleFits DEF Eval
<1>2. CASE e.k = "call"
  <2> DEFINE p == IF FlagAfter(e) THEN <<>> ELSE <<Instr("pop", "RAX", todo, TRUE)>>
  <2>1. Fitting(CallCode(e))
    BY <1>2, CallFits DEF Countable, BadCall
  <2>2. Fitting(p)
    <3>1. "pop" \in Simple
      BY DEF Simple
    <3>2. Fitting(<<Instr("pop", "RAX", todo, TRUE)>>)
      BY <3>1, SimpleFits
    <3> QED BY <3>2, FittingNothing
  <2>3. ValueCode(e) = CallCode(e) \o p
    BY <1>2 DEF ValueCode
  <2> HIDE DEF p
  <2> QED BY <2>1, <2>2, <2>3, FittingJoined
<1> QED BY <1>1, <1>2

\* The value of a statement, or nothing, and an instruction behind it.
LEMMA ValueAndFits ==
  ASSUME GInv, FunctionLabels, NEW e, Countable(e), ~BadCall(e),
         NEW c, c = ValueCode(e) \/ c = <<>>, NEW r, CanFollow(r), code' = (code \o c) \o <<r>>
  PROVE  Continued
<1>1. Fitting(c) /\ Fitting(<<r>>)
  BY ValueFits, FittingNothing, FittingOne
<1>2. IsStack(c) /\ IsStack(<<r>>) /\ IsStack(code)
  BY <1>1 DEF Fitting, Following, GInv, Sound
<1>3. code' = code \o (c \o <<r>>)
  BY <1>2, Regrouped
<1> QED BY <1>1, <1>3, FittingJoined DEF Continued

\* What is owed, and where loops begin, when a body and an item take the place of the first.
LEMMA OpeningOwes ==
  ASSUME NEW t, IsStack(t), t # <<>>, NEW b \in Seq(Statements), NEW x
  PROVE  /\ OwedBy(Opening(b, x, Tail(t))) \subseteq Owed(x) \cup OwedBy(t)
         /\ StartsOf(Opening(b, x, Tail(t))) \subseteq {y.start : y \in {y \in {x} : y.k = "loop"}} \cup StartsOf(t)
<1> DEFINE u == Opening(b, x, Tail(t))
<1>1. /\ Len(u) = Len(b) + Len(t) /\ Len(b) \in Nat /\ Len(t) \in Nat \ {0}
      /\ \A i \in 1..Len(b) : u[i] = b[i]
      /\ u[Len(b) + 1] = x
      /\ \A i \in 2..Len(t) : u[Len(b) + i] = t[i]
  BY BodyBefore
<1> HIDE DEF u
<1>2. \A i \in 1..Len(b) : Owed(b[i]) = {} /\ b[i].k # "loop"
  <2>1. \A i \in 1..Len(b) : b[i] \in Statements
    BY InsideBody
  <2>2. \A s \in Statements : s.k \notin {"else", "endif", "loop"}
    BY StatementsAssumption
  <2> QED BY <2>1, <2>2 DEF Owed
<1>3. ASSUME NEW i \in 1..Len(u)
      PROVE  \/ i \in 1..Len(b) /\ u[i] = b[i]
             \/ u[i] = x
             \/ \E j \in 1..Len(t) : u[i] = t[j]
  <2>1. CASE i <= Len(b)
    BY <1>1, <2>1
  <2>2. CASE i = Len(b) + 1
    BY <1>1, <2>2
  <2>3. CASE i > Len(b) + 1
    <3>1. i - Len(b) \in 2..Len(t) /\ Len(b) + (i - Len(b)) = i /\ i - Len(b) \in 1..Len(t)
      BY <1>1, <2>3
    <3> QED BY <1>1, <3>1
  <2> QED BY <1>1, <2>1, <2>2, <2>3
<1>4. OwedBy(u) \subseteq Owed(x) \cup OwedBy(t)
  BY <1>2, <1>3 DEF OwedBy
<1>5. StartsOf(u) \subseteq {y.start : y \in {y \in {x} : y.k = "loop"}} \cup StartsOf(t)
  BY <1>2, <1>3 DEF StartsOf
<1> QED BY <1>4, <1>5 DEF u

\* When the first item goes.
LEMMA RestOwes ==
  ASSUME NEW t, IsStack(t), t # <<>>
  PROVE  OwedBy(Tail(t)) \subseteq OwedBy(t) /\ StartsOf(Tail(t)) \subseteq StartsOf(t)
<1>1. /\ Len(Tail(t)) = Len(t) - 1 /\ Len(t) \in Nat \ {0}
      /\ \A i \in 1..(Len(t) - 1) : Tail(t)[i] = t[i + 1]
  BY RestAt
<1>2. \A i \in 1..Len(Tail(t)) : i + 1 \in 1..Len(t) /\ Tail(t)[i] = t[i + 1]
  BY <1>1
<1> QED BY <1>2 DEF OwedBy, StartsOf

\* What is owed are labels of jumps, and not there yet; nor are the next two numbers taken.
LEMMA OwedLabels ==
  ASSUME GInv
  PROVE  /\ \A l \in OwedBy(todo) : l[1] = "label" /\ l \notin LabelsIn(code)
         /\ \A l \in Next2(labelCount) : l[1] = "label" /\ l \notin LabelsIn(code) /\ l \notin GoalsIn(code)
<1>1. \A n : Label(n)[1] = "label"
  BY DEF Label
<1>2. \A l \in OwedBy(todo) : l[1] = "label" /\ l \notin LabelsIn(code)
  BY <1>1 DEF GInv, Sound, Taken
<1>3. \A l \in Next2(labelCount) : l[1] = "label" /\ l \notin LabelsIn(code) /\ l \notin GoalsIn(code)
  <2>1. labelCount \in Nat /\ \A l \in Next2(labelCount) :
          l \notin Taken(labelCount) /\ l \notin {Start} \cup FunctionTaken(generated)
    BY FreshLabels DEF GInv, Sound
  <2>2. \A l \in Next2(labelCount) : l[1] = "label"
    BY <1>1 DEF Next2
  <2> QED BY <2>1, <2>2 DEF GInv, Sound
<1> QED BY <1>2, <1>3

\* A label, and a jump.
LEMMA LabelFits ==
  \A l, rest : l[1] = "label" /\ (l \in OwedBy(todo) \/ l \notin GoalsIn(code)) =>
    CanFollow(Instr("label", l, rest, FALSE))
BY DEF Instr, CanFollow, Follows, Opens, HeaderLabel, Jumps

LEMMA JumpFits ==
  \A op, l, rest, awaited : op \in {"je", "jmp"} /\ l[1] = "label" /\ (l \in StartsOf(todo) \/ l \notin LabelsIn(code)) =>
    CanFollow(Instr(op, l, rest, awaited))
<1> SUFFICES ASSUME NEW op \in {"je", "jmp"}, NEW l, NEW rest, NEW awaited, l[1] = "label",
                    l \in StartsOf(todo) \/ l \notin LabelsIn(code)
             PROVE  CanFollow(Instr(op, l, rest, awaited))
  OBVIOUS
<1> DEFINE r == Instr(op, l, rest, awaited)
<1>1. r.op = op /\ r.arg = l
  BY DEF Instr
<1> HIDE DEF r
<1>2. CanFollow(r)
  BY <1>1 DEF CanFollow, Follows, Opens, HeaderLabel, Jumps
<1> QED BY <1>2 DEF r

LEMMA DeclContinues == ASSUME GInv, FunctionLabels, GenDecl PROVE Continued
<1> DEFINE r == Instr("store", LocalsHere[S.name].location, todo, S.value.k = "call")
<1>1. S \in Statements /\ Countable(S.value) /\ ~BadCall(S.value)
  BY AtStatement, StatementValues DEF GenDecl, CanEvaluate, Throws
<1>2. CASE S.value.k = "none"
  <2>1. code' = code \o <<>>
    BY <1>2 DEF GenDecl
  <2> QED BY <2>1, FittingNothing DEF Continued
<1>3. CASE S.value.k # "none"
  <2>1. code' = code \o (ValueCode(S.value) \o <<r>>)
    BY <1>3 DEF GenDecl
  <2>2. "store" \in Simple
    BY DEF Simple
  <2>3. Fitting(<<r>>)
    BY <2>2, SimpleFits
  <2> HIDE DEF r
  <2> QED BY <1>1, <2>1, <2>3, ValueFits, FittingJoined DEF Continued
<1> QED BY <1>2, <1>3

LEMMA AssignContinues == ASSUME GInv, FunctionLabels, GenAssign PROVE Continued
<1> DEFINE r == Instr("store", Located(VariablesAfter(S.value)[S.name], S.attr), todo, S.value.k = "call")
<1>1. S \in Statements /\ Countable(S.value) /\ ~BadCall(S.value)
  BY AtStatement, StatementValues DEF GenAssign, CanEvaluate, Throws
<1>2. code' = (code \o ValueCode(S.value)) \o <<r>>
  BY DEF GenAssign
<1>3. "store" \in Simple
  BY DEF Simple
<1>4. CanFollow(r)
  BY <1>3, SimpleFits
<1> HIDE DEF r
<1> QED BY <1>1, <1>2, <1>4, ValueAndFits

LEMMA ExitContinues == ASSUME GInv, FunctionLabels, GenExit PROVE Continued /\ Leaves(Last(code'))
<1> DEFINE c == IF S.value.k = "none" THEN <<>> ELSE ValueCode(S.value)
           r == Instr("exit", S.value.k = "none", todo, S.value.k = "call")
<1>1. S \in Statements /\ Countable(S.value) /\ ~BadCall(S.value)
  BY AtStatement, StatementValues DEF GenExit, CanEvaluate, Throws
<1>2. code' = (code \o c) \o <<r>> /\ (c = ValueCode(S.value) \/ c = <<>>)
  BY DEF GenExit
<1>3. "exit" \in Simple
  BY DEF Simple
<1>4. CanFollow(r)
  BY <1>3, SimpleFits
<1>5. Leaves(r)
  BY DEF Leaves, Instr
<1> HIDE DEF r, c
<1>6. Continued
  BY <1>1, <1>2, <1>4, ValueAndFits
<1>7. Last(code') = r
  <2>1. IsStack(code \o c)
    BY <1>1, <1>2, ValueFits, FittingNothing, JoinedAt DEF Fitting, Following, GInv, Sound
  <2>2. code' = Append(code \o c, r)
    BY <1>2, <2>1, AppendedCode
  <2> QED BY <2>1, <2>2, PushAt
<1> QED BY <1>5, <1>6, <1>7

LEMMA ReturnContinues ==
  ASSUME GInv, FunctionLabels, GenReturn, Returns(code, Len(code) + 1, Cardinality(OnStack))
  PROVE  Continued /\ Leaves(Last(code'))
<1> DEFINE c == IF S.value.k = "none" THEN <<>> ELSE ValueCode(S.value)
           r == Instr("return", Cardinality(OnStack), todo, S.value.k = "call")
<1>1. S \in Statements /\ Countable(S.value) /\ ~BadCall(S.value)
  BY AtStatement, StatementValues DEF GenReturn, CanEvaluate, Throws
<1>2. code' = (code \o c) \o <<r>> /\ (c = ValueCode(S.value) \/ c = <<>>)
  BY DEF GenReturn
<1>3. r.op = "return" /\ r.arg = Cardinality(OnStack)
  BY DEF Instr
<1> HIDE DEF r, c
<1>4. CanFollow(r) /\ Leaves(r)
  BY <1>3 DEF CanFollow, Follows, Opens, HeaderLabel, Jumps, Leaves
<1>5. Continued
  BY <1>1, <1>2, <1>4, ValueAndFits
<1>6. Last(code') = r
  <2>1. IsStack(code \o c)
    BY <1>1, <1>2, ValueFits, FittingNothing, JoinedAt DEF Fitting, Following, GInv, Sound
  <2>2. code' = Append(code \o c, r)
    BY <1>2, <2>1, AppendedCode
  <2> QED BY <2>1, <2>2, PushAt
<1> QED BY <1>4, <1>5, <1>6

LEMMA CallContinues == ASSUME GInv, FunctionLabels, GenCall PROVE Continued
<1>1. S \in Statements /\ S.k = "call" /\ Countable(S) /\ ~BadCall(S)
  BY AtStatement, StatementValues DEF GenCall, Throws
<1>2. Len(S.values) \in Nat /\ S.name \in DOMAIN generated
  BY <1>1 DEF Countable, BadCall
<1>3. code' = code \o CallCode(S)
  BY DEF GenCall
<1> QED BY <1>2, <1>3, CallFits DEF Continued

\* What is said of jumps and labels.
JumpsInv ==
  /\ Closed(code, OwedBy(todo), StartsOf(todo))
  /\ \A l \in StartsOf(todo) : l[1] = "label"

LEMMA JumpsGoOn ==
  ASSUME GInv, JumpsInv, Continued,
         \A l \in OwedBy(todo') : l \in OwedBy(todo) \/ l \in Next2(labelCount),
         \A l \in StartsOf(todo') : l \in StartsOf(todo) \/ l \in Next2(labelCount)
  PROVE  JumpsInv'
<1>1. PICK d : Fitting(d) /\ code' = code \o d
  BY DEF Continued
<1>2. IsStack(code)
  BY DEF GInv, Sound
<1>3. /\ \A l \in OwedBy(todo') : l \in OwedBy(todo) \/ l \notin GoalsIn(code)
      /\ \A l \in StartsOf(todo') : l \in StartsOf(todo) \/ l \notin LabelsIn(code)
      /\ \A l \in StartsOf(todo') : l[1] = "label"
  BY OwedLabels DEF JumpsInv
<1>4. Closed(code \o d, OwedBy(todo'), StartsOf(todo'))
  BY <1>1, <1>2, <1>3, ClosedGrown DEF Fitting, JumpsInv
<1> QED BY <1>1, <1>3, <1>4 DEF JumpsInv

\* The first item is done.
LEMMA JumpsNext ==
  ASSUME GInv, JumpsInv, Continued, NextMove
  PROVE  JumpsInv'
<1>1. IsStack(todo)
  BY DEF GInv, Sound
<1>2. OwedBy(todo') \subseteq OwedBy(todo) /\ StartsOf(todo') \subseteq StartsOf(todo)
  BY <1>1, RestOwes DEF NextMove
<1> QED BY <1>2, JumpsGoOn

LEMMA JumpsOpen ==
  ASSUME GInv, JumpsInv, Continued, todo # <<>>, NEW b \in Seq(Statements), NEW x,
         todo' = Opening(b, x, Tail(todo)),
         Owed(x) \subseteq OwedBy(todo) \cup Next2(labelCount),
         x.k = "loop" => x.start \in Next2(labelCount)
  PROVE  JumpsInv'
<1>1. IsStack(todo)
  BY DEF GInv, Sound
<1>2. /\ OwedBy(todo') \subseteq Owed(x) \cup OwedBy(todo)
      /\ StartsOf(todo') \subseteq {y.start : y \in {y \in {x} : y.k = "loop"}} \cup StartsOf(todo)
  BY <1>1, OpeningOwes
<1> QED BY <1>2, JumpsGoOn

LEMMA FittingPair == \A q, r : CanFollow(q) /\ CanFollow(r) => Fitting(<<q, r>>)
<1> SUFFICES ASSUME NEW q, NEW r, CanFollow(q), CanFollow(r) PROVE Fitting(<<q, r>>)
  OBVIOUS
<1> DEFINE s == <<q, r>>
<1>1. Len(s) = 2 /\ s[1] = q /\ s[2] = r
  OBVIOUS
<1>2. IsStack(s)
  BY Pair
<1> HIDE DEF s
<1>3. \A i \in 1..Len(s) : s[i] = q \/ s[i] = r
  BY <1>1
<1>4. Fitting(s)
  BY <1>2, <1>3 DEF Fitting, Following, CanFollow
<1> QED BY <1>4 DEF s

\* A condition and its jump, to a label that is new.
LEMMA TestFits ==
  ASSUME GInv, FunctionLabels, NEW e, Countable(e), ~BadCall(e), NEW l \in Next2(labelCount)
  PROVE  Fitting(Test(e, l))
<1> DEFINE r == Instr("je", l, todo, e.k = "call")
<1>1. CanFollow(r)
  <2>1. "je" \in {"je", "jmp"} /\ l[1] = "label" /\ l \notin LabelsIn(code)
    BY OwedLabels
  <2> QED BY <2>1, JumpFits
<1>2. Test(e, l) = ValueCode(e) \o <<r>>
  BY DEF Test
<1> HIDE DEF r
<1> QED BY <1>1, <1>2, ValueFits, FittingOne, FittingJoined

LEMMA JumpsIf == ASSUME GInv, JumpsInv, FunctionLabels, GenIf PROVE JumpsInv' /\ Continued
<1> DEFINE elseLabel == Label(labelCount)
           endLabel  == Label(labelCount + 1)
<1>1. S \in Statements /\ S.k = "if" /\ todo # <<>> /\ ~BadCall(S.value)
  BY AtStatement DEF GenIf, CanEvaluate, Throws
<1>2. S.body \in Seq(Statements) /\ Countable(S.value)
  BY <1>1, Bodies, StatementValues
<1>3. elseLabel \in Next2(labelCount) /\ endLabel \in Next2(labelCount)
  BY DEF Next2
<1>4. CASE S.else = <<>>
  <2> DEFINE x == [k |-> "endif", end |-> endLabel]
  <2>1. code' = code \o Test(S.value, endLabel) /\ todo' = Opening(S.body, x, Tail(todo))
    BY <1>4 DEF GenIf, Opening
  <2>2. Owed(x) = {endLabel} /\ x.k # "loop"
    BY DEF Owed
  <2> HIDE DEF x
  <2>3. Continued
    BY <1>1, <1>2, <1>3, <2>1, TestFits DEF Continued
  <2> QED BY <1>1, <1>2, <1>3, <2>1, <2>2, <2>3, JumpsOpen
<1>5. CASE S.else # <<>>
  <2> DEFINE x == [k |-> "else", body |-> S.else, label |-> elseLabel, end |-> endLabel]
  <2>1. code' = code \o Test(S.value, elseLabel) /\ todo' = Opening(S.body, x, Tail(todo))
    BY <1>5 DEF GenIf, Opening
  <2>2. Owed(x) = {elseLabel, endLabel} /\ x.k # "loop"
    BY DEF Owed
  <2> HIDE DEF x
  <2>3. Continued
    BY <1>1, <1>2, <1>3, <2>1, TestFits DEF Continued
  <2> QED BY <1>1, <1>2, <1>3, <2>1, <2>2, <2>3, JumpsOpen
<1> QED BY <1>4, <1>5

LEMMA JumpsWhile == ASSUME GInv, JumpsInv, FunctionLabels, GenWhile PROVE JumpsInv' /\ Continued
<1> DEFINE startLabel == Label(labelCount)
           endLabel   == Label(labelCount + 1)
           l == Instr("label", startLabel, todo, FALSE)
           v == Test(S.value, endLabel)
           x == [k |-> "loop", while |-> S, start |-> startLabel, end |-> endLabel]
<1>1. S \in Statements /\ S.k = "while" /\ todo # <<>> /\ ~BadCall(S.value)
  BY AtStatement DEF GenWhile, CanEvaluate, Throws
<1>2. S.body \in Seq(Statements) /\ Countable(S.value)
  BY <1>1, Bodies, StatementValues
<1>3. startLabel \in Next2(labelCount) /\ endLabel \in Next2(labelCount)
  BY DEF Next2
<1>4. code' = (code \o <<l>>) \o v /\ todo' = Opening(S.body, x, Tail(todo))
  BY DEF GenWhile, Opening
<1>5. CanFollow(l)
  <2>1. startLabel[1] = "label" /\ startLabel \notin GoalsIn(code)
    BY <1>3, OwedLabels
  <2> QED BY <2>1, LabelFits
<1>6. Fitting(v)
  BY <1>1, <1>2, <1>3, TestFits
<1>7. Owed(x) = {endLabel} /\ x.start = startLabel
  BY DEF Owed
<1> HIDE DEF x, l, v
<1>8. Fitting(<<l>>)
  BY <1>5, FittingOne
<1>9. code' = code \o (<<l>> \o v)
  BY <1>4, <1>6, <1>8, Regrouped DEF GInv, Sound, Fitting, Following
<1>10. Continued
  BY <1>6, <1>8, <1>9, FittingJoined DEF Continued
<1> QED BY <1>1, <1>2, <1>3, <1>4, <1>7, <1>10, JumpsOpen

LEMMA JumpsElse == ASSUME GInv, JumpsInv, GenElse PROVE JumpsInv' /\ Continued
<1> DEFINE q == Instr("jmp", S.end, todo, FALSE)
           l == Instr("label", S.label, todo', FALSE)
           x == [k |-> "endif", end |-> S.end]
<1>1. /\ todo # <<>> /\ S.k = "else" /\ todo' = Opening(S.body, x, Tail(todo))
      /\ code' = code \o <<q, l>>
  BY DEF GenElse, At, S, Opening
<1>2. ItemOK(S, LabelsIn(code)) /\ OwedBy(todo) = Owed(S) \cup OwedBy(Tail(todo))
  BY <1>1, RestItems DEF S, GInv, Sound
<1>3. Owed(S) = {S.label, S.end} /\ S.body \in Seq(Statements)
  BY <1>1, <1>2, StatementsAssumption DEF Owed, ItemOK
<1>4. Owed(x) = {S.end} /\ x.k # "loop"
  BY DEF Owed
<1>5. S.label \in OwedBy(todo) /\ S.end \in OwedBy(todo)
  BY <1>2, <1>3
<1>6. CanFollow(q) /\ CanFollow(l)
  <2>1. "jmp" \in {"je", "jmp"} /\ S.end[1] = "label" /\ S.label[1] = "label" /\ S.end \notin LabelsIn(code)
    BY <1>5, OwedLabels
  <2> QED BY <1>5, <2>1, LabelFits, JumpFits
<1> HIDE DEF q, l, x
<1>7. Continued
  BY <1>1, <1>6, FittingPair DEF Continued
<1> QED BY <1>1, <1>3, <1>4, <1>5, <1>7, JumpsOpen

LEMMA JumpsEndIf == ASSUME GInv, JumpsInv, EndIf PROVE JumpsInv' /\ Continued
<1> DEFINE l == Instr("label", S.end, todo, FALSE)
<1>1. NextMove /\ S.k = "endif" /\ code' = Append(code, l)
  BY DEF EndIf, At, S, NextMove
<1>2. S.end \in OwedBy(todo)
  <2>1. OwedBy(todo) = Owed(S) \cup OwedBy(Tail(todo))
    BY <1>1, RestItems DEF S, GInv, Sound, NextMove
  <2> QED BY <1>1, <2>1 DEF Owed
<1>3. CanFollow(l)
  BY <1>2, OwedLabels, LabelFits
<1> HIDE DEF l
<1>4. code' = code \o <<l>>
  BY <1>1, AppendedCode DEF GInv, Sound
<1>5. Continued
  BY <1>3, <1>4, FittingOne DEF Continued
<1> QED BY <1>1, <1>5, JumpsNext

LEMMA JumpsLoop == ASSUME GInv, JumpsInv, Loop PROVE JumpsInv' /\ Continued
<1> DEFINE q == Instr("jmp", S.start, todo, FALSE)
           l == Instr("label", S.end, todo', FALSE)
<1>1. NextMove /\ S.k = "loop" /\ code' = code \o <<q, l>>
  BY DEF Loop, At, S, NextMove
<1>2. S.end \in OwedBy(todo)
  <2>1. OwedBy(todo) = Owed(S) \cup OwedBy(Tail(todo))
    BY <1>1, RestItems DEF S, GInv, Sound, NextMove
  <2> QED BY <1>1, <2>1 DEF Owed
<1>3. S.start \in StartsOf(todo)
  <2>1. S = todo[1] /\ 1 \in 1..Len(todo)
    BY <1>1, RestAt DEF S, NextMove, GInv, Sound
  <2> QED BY <1>1, <2>1 DEF StartsOf
<1>4. CanFollow(q) /\ CanFollow(l)
  <2>1. "jmp" \in {"je", "jmp"} /\ S.start[1] = "label" /\ S.end[1] = "label"
    BY <1>2, <1>3, OwedLabels DEF JumpsInv
  <2> QED BY <1>2, <1>3, <2>1, LabelFits, JumpFits
<1> HIDE DEF q, l
<1>5. Continued
  BY <1>1, <1>4, FittingPair DEF Continued
<1> QED BY <1>1, <1>5, JumpsNext

-----------------------------------------------------------------------------
(* The code of a supported program keeps control in its functions.         *)

\* The variables of function f that are on the stack from its header on.
FrameNames(f) == {x \in DOMAIN FrameOf(f) : FrameOf(f)[x].location.reg = "RSP"}

\* In a supported function they are as many as the quadwords it pushes.
LEMMA FrameCounts ==
  ASSUME FlowInv, phase = "done", WellShaped(ast), NEW i \in P!Of("func")
  PROVE  Cardinality(FrameNames(P!NameAt(i))) = FrameSize(P!NameAt(i))
<1> DEFINE f == P!NameAt(i)
           params == DOMAIN functions[f].params
           locals == DOMAIN functions[f].locals
           r == RegParams(f)
           z == Zeroed(f)
<1>1. i \in P!FunctionsOf /\ i \in 1..Len(ast) /\ ast[i].k = "func" /\ P!FunctionsOf # {}
  BY DEF P!FunctionsOf, P!Of
<1>2. f \in FunctionNames
  BY <1>1, RecordedFacts DEF P!Recorded, FunctionNames
<1>3. /\ P!FrameRecorded(functions[f], P!NamesIn(ast)) /\ P!NamesIn(ast) \in SUBSET VariableNames
      /\ P!IntInv
  BY <1>2, RecordedFacts DEF P!Recorded
<1>4. /\ params \subseteq VariableNames /\ locals \subseteq VariableNames
      /\ \A x \in params : functions[f].params[x].location = P!InRDI
      /\ functions[f].dirty \in BOOLEAN
  BY <1>3 DEF P!FrameRecorded, P!HasPlaces
<1>5. Lists(r, params)
  <2>1. {x \in params : functions[f].params[x].location.reg # "RSP"} = params
    BY <1>4 DEF P!InRDI
  <2> QED BY <1>4, <2>1, InOrderLists DEF RegParams
<1>6. Lists(z, locals)
  BY <1>4, InOrderLists DEF Zeroed
<1>7. DOMAIN FrameOf(f) = params \cup locals
  BY <1>3, FrameFacts
<1>8. params \cap locals = {}
  <2>1. SupportedBody(ast[i].body, ast[i].args, "return")
    BY <1>1, SupportedAt DEF ParamsAt, LastAt
  <2>2. locals = DeclaredBefore(ast[i].body, Len(ast[i].body) + 1)
    BY <1>1, KnownNames
  <2>3. params = NamesOf(ast[i].args)
    <3>1. P!DeclaredIn(ast) = {}
      <4>1. \A j \in 1..Len(ast) : ast[j].k \in {"func", "main"}
        BY SupportedAt
      <4> QED BY <4>1 DEF P!DeclaredIn, P!Members
    <3>2. params = P!ParamsOf(i, Len(ast[i].args))
      BY <1>1, <3>1, RecordedFacts DEF P!Recorded
    <3> QED BY <3>2 DEF P!ParamsOf, NamesOf
  <2> HIDE DEF f, params, locals
  <2> QED BY <2>1, <2>2, <2>3 DEF SupportedBody
<1>9. \A x \in locals : FrameOf(f)[x].location.reg = "RSP"
  BY <1>7 DEF FrameOf
<1>10. \A x \in params : FrameOf(f)[x].location.reg = IF functions[f].dirty THEN "RSP" ELSE "RDI"
  <2> SUFFICES ASSUME NEW x \in params
               PROVE  FrameOf(f)[x].location.reg = IF functions[f].dirty THEN "RSP" ELSE "RDI"
    OBVIOUS
  <2>1. x \notin locals /\ x \in DOMAIN FrameOf(f)
    BY <1>7, <1>8
  <2>2. functions[f].params[x].location = P!InRDI
    BY <1>4
  <2>3. FrameOf(f)[x] =
          IF functions[f].dirty
          THEN [type |-> functions[f].params[x].type,
                location |-> [reg |-> "RSP",
                              disp |-> QWORD * (Len(Saved(f)) + Len(z) - Position(Saved(f), x))]]
          ELSE [type |-> 0, location |-> [functions[f].params[x].location EXCEPT !.disp = QWORD * Len(z)]]
    BY <2>1 DEF FrameOf
  <2>4. CASE functions[f].dirty
    BY <2>3, <2>4
  <2>5. CASE ~functions[f].dirty
    BY <2>2, <2>3, <2>5 DEF P!InRDI
  <2> QED BY <2>4, <2>5
<1> HIDE DEF f, params, locals, r, z
<1>11. /\ IsFiniteSet(params) /\ Cardinality(params) = Len(r) /\ Len(r) \in Nat
       /\ IsFiniteSet(locals) /\ Cardinality(locals) = Len(z) /\ Len(z) \in Nat
  BY <1>5, <1>6 DEF Lists
<1>12. CASE functions[f].dirty
  <2>1. FrameNames(f) = params \cup locals
    BY <1>7, <1>9, <1>10, <1>12 DEF FrameNames
  <2>2. Saved(f) = r
    BY <1>12 DEF Saved, r
  <2>3. Cardinality(params \cup locals) = Len(r) + Len(z)
    <3>1. Cardinality(params \cup locals)
            = Cardinality(params) + Cardinality(locals) - Cardinality(params \cap locals)
      BY <1>11, FS_Union, Zenon
    <3>2. Cardinality(params \cap locals) = 0
      BY <1>8, FS_EmptySet, Zenon
    <3> QED BY <1>11, <3>1, <3>2
  <2> QED BY <2>1, <2>2, <2>3 DEF FrameSize, f, z
<1>13. CASE ~functions[f].dirty
  <2>1. FrameNames(f) = locals
    BY <1>7, <1>9, <1>10, <1>13 DEF FrameNames
  <2>2. Saved(f) = <<>> /\ Len(<<>>) = 0
    BY <1>13 DEF Saved
  <2>3. FrameSize(f) = Len(z)
    BY <1>11, <2>2 DEF FrameSize, z
  <2> QED BY <1>11, <2>1, <2>3 DEF f
<1> QED BY <1>12, <1>13

\* What is supported is made of quadwords.
LEMMA SupportedQuads == ASSUME Supported(ast) PROVE Quadwords(ast)
<1>1. Structured(ast) /\ WellShaped(ast)
  BY SupportedShape DEF Supported
<1>2. ASSUME NEW i \in 1..Len(ast)
      PROVE  /\ \A s \in Inside(ast[i].body) : s.k = "decl" => s.type = "int"
             /\ ast[i].k = "func" => \A j \in 1..Len(ast[i].args) : ast[i].args[j].type = "int"
             /\ DeclaredOnce(ast[i].body)
  BY <1>1, SupportedAt DEF SupportedBody, ParamsAt
<1> QED BY <1>1, <1>2 DEF Quadwords

\* In a body, the frame is that of the function at hand, and on the stack is what its header
\* pushed.
AtHome ==
  Left > 1 => /\ InMain(code, Len(code) + 1) <=> ast[Here].k = "main"
              /\ OnStack = FrameNames(Last(currentFunction))

\* Between two functions the first of them has been left.
LeftBehind == code # <<>> /\ ~(Left > 1) => Leaves(Last(code))

\* When main is generated there is a place to start at.
MainThere == (\E j \in 1..Here : ast[j].k = "main") => Start \in LabelsIn(code)

ClosedInv == JumpsInv /\ FunctionLabels /\ AtHome /\ LeftBehind /\ MainThere

\* What follows leaves the labels and the frame as they are.
LEMMA ContinuedKeeps ==
  ASSUME GInv, JumpsInv, Continued
  PROVE  /\ LabelsIn(code) \subseteq LabelsIn(code')
         /\ Entered(code, Len(code) + 1) =>
              (InMain(code', Len(code') + 1) <=> InMain(code, Len(code) + 1))
<1>1. PICK d : Fitting(d) /\ code' = code \o d
  BY DEF Continued
<1>2. IsStack(code) /\ IsStack(d) /\ \A i \in 1..Len(d) : d[i].op # "enter"
  BY <1>1 DEF GInv, Sound, Fitting, Following, Follows, Opens
<1>3. LabelsIn(code') = LabelsIn(code) \cup LabelsIn(d)
  BY <1>1, <1>2, Joined
<1>4. /\ Len(code') = Len(code) + Len(d) /\ Len(code) \in Nat /\ Len(d) \in Nat
      /\ \A i \in 1..Len(code) : code'[i] = code[i]
  BY <1>1, <1>2, JoinedAt
<1>5. EntersBefore(code', Len(code') + 1) = EntersBefore(code, Len(code) + 1)
  <2>1. Len(code') + 1 \in (Len(code) + 1)..(Len(code) + Len(d) + 1)
    BY <1>4
  <2>2. \A i \in (Len(code) + 1)..(Len(code) + Len(d) + 1) :
          EntersBefore(code \o d, i) = EntersBefore(code, Len(code) + 1)
    BY <1>2, EntersGrown
  <2> QED BY <1>1, <2>1, <2>2
<1>6. \A k \in 1..Len(code) : code[k].op = "enter" => k > 1
  BY DEF JumpsInv, Closed, FlowsAt
<1>7. Entered(code, Len(code) + 1) =>
        (InMain(code', Len(code') + 1) <=> InMain(code, Len(code) + 1))
  BY <1>2, <1>4, <1>5, <1>6, SamePlace
<1> QED BY <1>3, <1>7

\* In a body of a supported program there is a frame.
LEMMA FrameHere ==
  ASSUME StoreInv, PromiseInv, Left > 1
  PROVE  /\ Entered(code, Len(code) + 1)
         /\ FrameIn(code, Len(code) + 1) = FrameSize(Last(currentFunction))
BY DEF StoreInv, PromiseInv

LEMMA ClosedNext ==
  ASSUME FlowInv, WhereInv, StoreInv, PromiseInv, ClosedInv, NextMove, Left > 0, Continued,
         UNCHANGED <<ast, functions, generated>>,
         Left > 2 => currentFunction' = currentFunction /\ OnStack' = OnStack,
         Left = 2 => Leaves(Last(code')),
         Left = 1 => code' = code
  PROVE  ClosedInv'
<1>1. Left \in Nat /\ Len(ast) \in Nat /\ GInv
  BY LeftFacts, ProgramBodies DEF WhereInv, FlowInv
<1>2. Left' = Left - 1 /\ Here' = Here
  BY <1>1, AfterNext DEF WhereInv
<1>3. JumpsInv'
  BY <1>1, JumpsNext DEF ClosedInv
<1>4. /\ LabelsIn(code) \subseteq LabelsIn(code')
      /\ Entered(code, Len(code) + 1) =>
           (InMain(code', Len(code') + 1) <=> InMain(code, Len(code) + 1))
  BY <1>1, ContinuedKeeps DEF ClosedInv
<1>5. FunctionLabels'
  BY DEF ClosedInv, FunctionLabels
<1>6. AtHome'
  <2> SUFFICES ASSUME Left' > 1
               PROVE  /\ InMain(code', Len(code') + 1) <=> ast[Here].k = "main"
                      /\ OnStack' = FrameNames(Last(currentFunction))'
    BY <1>2 DEF AtHome
  <2>1. Left > 2 /\ Left > 1
    BY <1>1, <1>2
  <2>2. FrameNames(Last(currentFunction))' = FrameNames(Last(currentFunction))
    <3>1. currentFunction' = currentFunction /\ functions' = functions
      BY <2>1
    <3> QED BY <3>1 DEF FrameNames, FrameOf, Saved, Zeroed, RegParams
  <2> QED BY <1>4, <2>1, <2>2, FrameHere DEF ClosedInv, AtHome
<1>7. LeftBehind'
  <2> SUFFICES ASSUME code' # <<>>, ~(Left' > 1) PROVE Leaves(Last(code'))
    BY DEF LeftBehind
  <2>1. Left = 1 \/ Left = 2
    BY <1>1, <1>2
  <2>2. CASE Left = 1
    BY <2>2 DEF ClosedInv, LeftBehind
  <2> QED BY <2>1, <2>2
<1>8. MainThere'
  BY <1>2, <1>4 DEF ClosedInv, MainThere
<1> QED BY <1>3, <1>5, <1>6, <1>7, <1>8 DEF ClosedInv

LEMMA ClosedBody ==
  ASSUME FlowInv, WhereInv, StoreInv, PromiseInv, ClosedInv, BodyMove, Continued, JumpsInv',
         UNCHANGED <<ast, functions, generated, currentFunction>>, OnStack' = OnStack
  PROVE  ClosedInv'
<1>1. Left > 1 /\ Left' > 1 /\ Here' = Here /\ GInv
  BY AfterBody DEF WhereInv, FlowInv
<1>2. /\ LabelsIn(code) \subseteq LabelsIn(code')
      /\ Entered(code, Len(code) + 1) =>
           (InMain(code', Len(code') + 1) <=> InMain(code, Len(code) + 1))
  BY <1>1, ContinuedKeeps DEF ClosedInv
<1>3. FunctionLabels'
  BY DEF ClosedInv, FunctionLabels
<1>4. AtHome'
  <2>1. FrameNames(Last(currentFunction))' = FrameNames(Last(currentFunction))
    BY DEF FrameNames, FrameOf, Saved, Zeroed, RegParams
  <2> QED BY <1>1, <1>2, <2>1, FrameHere DEF ClosedInv, AtHome
<1>5. LeftBehind' /\ MainThere'
  BY <1>1, <1>2 DEF ClosedInv, LeftBehind, MainThere
<1> QED BY <1>3, <1>4, <1>5 DEF ClosedInv

\* At top level nothing is owed.
LEMMA TopOwesNothing ==
  ASSUME NInv, Left = 0
  PROVE  OwedBy(todo) = {} /\ StartsOf(todo) = {}
<1>1. \A i \in 1..Len(todo) : AtTop(todo[i])
  <2>1. Layered(todo, 0)
    BY LeftFacts
  <2>2. \A i \in (0 + 1)..Len(todo) : AtTop(todo[i])
    BY <2>1 DEF Layered
  <2> QED BY <2>2
<1>2. \A i \in 1..Len(todo) : Owed(todo[i]) = {} /\ todo[i].k # "loop"
  BY <1>1 DEF AtTop, Owed
<1> QED BY <1>2 DEF OwedBy, StartsOf

LEMMA ClosedTop ==
  ASSUME FlowInv, WhereInv, ClosedInv, phase = "done", WellShaped(ast), NEW name, TopMove(name),
         UNCHANGED <<ast, functions>>,
         NEW label, label[1] # "label", NEW rest, code' = code \o Header(label, name, rest),
         S.k = "main" => label = Start /\ generated' = generated,
         S.k = "func" => /\ label[1] = "func"
                         /\ generated' = FP!Assign(generated, S.name, [label |-> label, argCnt |-> Len(S.args)])
  PROVE  ClosedInv'
<1>1. /\ Left = 0 /\ Left' = Len(S.body) + 1 /\ Here' = Here + 1 /\ ast[Here'] = S
      /\ Here' \in 1..Len(ast) /\ Last(currentFunction') = name /\ P!NameAt(Here') = name
  BY AfterTop DEF WhereInv, FlowInv
<1>2. /\ Here \in Nat /\ Len(ast) \in Nat /\ S.k \in {"func", "main"} /\ todo # <<>>
      /\ IsStack(code) /\ IsStack(todo)
  BY TopHead, ProgramBodies, <1>1 DEF TopMove, FlowInv, GInv, Sound
<1>3. Here' \in P!FunctionsOf /\ S.body \in Seq(Statements)
  BY <1>1, <1>2, ProgramBodies DEF P!FunctionsOf, P!Of, FlowInv
<1>4. Left' > 1
  <2>1. S.body # <<>>
    BY <1>1, SupportedAt DEF SupportedBody
  <2>2. Len(S.body) \in Nat \ {0}
    BY <1>3, <2>1, LenProperties, EmptySeq
  <2> QED BY <1>1, <2>2
<1>5. name \in FunctionNames
  BY <1>1, <1>3, RecordedFacts DEF P!Recorded, FunctionNames
<1>6. Len(Saved(name)) \in Nat /\ Len(Zeroed(name)) \in Nat
  BY <1>5, RecordedFacts, FrameFacts DEF P!Recorded
<1>7. code # <<>> => Leaves(Last(code))
  BY <1>1 DEF ClosedInv, LeftBehind
<1>8. /\ Closed(code', {}, {})
      /\ InMain(code', Len(code') + 1) <=> label = Start
  BY <1>2, <1>6, <1>7, ClosedHeader DEF ClosedInv, JumpsInv
<1>9. OwedBy(todo') = {} /\ StartsOf(todo') = {}
  <2>1. PICK x : EndsBody(x) /\ todo' = Opening(S.body, x, Tail(todo))
    BY DEF TopMove
  <2>2. Owed(x) = {} /\ x.k # "loop"
    BY <2>1 DEF EndsBody, Owed
  <2>3. /\ OwedBy(todo') \subseteq Owed(x) \cup OwedBy(todo)
        /\ StartsOf(todo') \subseteq {y.start : y \in {y \in {x} : y.k = "loop"}} \cup StartsOf(todo)
    BY <1>2, <1>3, <2>1, OpeningOwes
  <2> QED BY <1>1, <2>2, <2>3, TopOwesNothing DEF WhereInv
<1>10. JumpsInv'
  BY <1>8, <1>9 DEF JumpsInv
<1>11. FunctionLabels'
  BY <1>2 DEF ClosedInv, FunctionLabels, FP!Assign
<1>12. AtHome'
  <2>1. Variables' = FrameOf(name)
    <3>1. contexts' # <<>> /\ Last(contexts') = FrameOf(name)
      BY PushAt DEF TopMove, FlowInv, ContextsOK
    <3> QED BY <3>1 DEF Variables
  <2>2. OnStack' = FrameNames(name)
    BY <2>1 DEF OnStack, FrameNames
  <2>3. FrameNames(Last(currentFunction))' = FrameNames(name)
    BY <1>1 DEF FrameNames, FrameOf, Saved, Zeroed, RegParams
  <2>4. label = Start <=> S.k = "main"
    BY <1>2 DEF Start
  <2>5. ast'[Here'].k = S.k
    BY <1>1
  <2> QED BY <1>8, <2>2, <2>3, <2>4, <2>5 DEF AtHome
<1>13. LeftBehind'
  BY <1>4 DEF LeftBehind
<1>14. MainThere'
  <2>1. LabelsIn(code') = LabelsIn(code) \cup {label}
    <3> DEFINE d == Header(label, name, rest)
    <3>1. IsStack(d) /\ LabelsIn(d) = {label}
      BY HeaderFacts DEF Header
    <3> HIDE DEF d
    <3>2. LabelsIn(code \o d) = LabelsIn(code) \cup LabelsIn(d)
      BY <1>2, <3>1, Joined
    <3> QED BY <3>1, <3>2 DEF d
  <2>2. \A j \in 1..Here' : j \in 1..Here \/ j = Here'
    BY <1>1, <1>2
  <2> QED BY <1>1, <2>1, <2>2 DEF ClosedInv, MainThere
<1> QED BY <1>10, <1>11, <1>12, <1>13, <1>14 DEF ClosedInv

\* What ends the body of a supported function leaves it.
LEMMA LeavesLast ==
  ASSUME FlowInv, WhereInv, todo # <<>>, WellShaped(ast), Left = 2
  PROVE  S.k \in {"return", "exit"}
<1> DEFINE b == ast[Here].body
<1>1. IsStack(todo) /\ S = todo[1]
  BY LeftFacts, RestAt DEF WhereInv, S
<1>2. Here \in 1..Len(ast) /\ EndsWith(todo[1], b)
  BY DEF WhereInv, OnTrack, Here
<1>3. SupportedBody(b, ParamsAt(Here), LastAt(Here))
  BY <1>2, SupportedAt
<1>4. Last(b).k \in {"return", "exit"}
  BY <1>3 DEF SupportedBody, LastAt
<1> QED BY <1>1, <1>2, <1>4 DEF EndsWith

\* A declaration puts its variable where it was: on the stack.
LEMMA DeclOnStack ==
  ASSUME FlowInv, WhereInv, ClosedInv, GenDecl, Left > 1, Moves(S.value) = {}
  PROVE  OnStack' = OnStack
<1> DEFINE f == Last(currentFunction)
           x == S.name
           v == [type |-> typeIDs[S.type], location |-> LocalsHere[S.name].location]
<1>1. /\ ContextsOK(contexts) /\ contexts # <<>> /\ phase = "done" /\ x \in DOMAIN functions[f].locals
      /\ contexts' = WithVariables(FP!Assign(VariablesAfter(S.value), x, v))
      /\ Countable(S.value)
  BY AtStatement, StatementValues DEF FlowInv, GenDecl, At, LocalsHere
<1>2. f \in FunctionNames /\ v \in Entry
  BY DeclaredEntry
<1>3. P!FrameRecorded(functions[f], P!NamesIn(ast)) /\ P!IntInv /\ P!NamesIn(ast) \in SUBSET VariableNames
  BY <1>1, <1>2, RecordedFacts DEF P!Recorded
<1>4. v.location.reg = "RSP"
  BY <1>1, <1>3 DEF P!FrameRecorded, P!HasPlaces, P!OnTheStack, LocalsHere
<1>5. x \in OnStack
  <2>1. x \in DOMAIN FrameOf(f)
    BY <1>1, <1>3, FrameFacts
  <2>2. FrameOf(f)[x].location.reg = "RSP"
    BY <1>1, <2>1 DEF FrameOf
  <2> QED BY <2>1, <2>2 DEF ClosedInv, AtHome, FrameNames
<1> HIDE DEF f, x, v
<1>6. /\ ContextOK(VariablesAfter(S.value)) /\ VariablesAfter(S.value) = Variables
      /\ ContextOK(FP!Assign(Variables, x, v))
  BY <1>1, <1>2, AfterOK, AssignOK
<1>7. Variables' = FP!Assign(Variables, x, v)
  BY <1>1, <1>6, OnTop
<1>8. x \in DOMAIN Variables
  BY <1>5 DEF OnStack
<1>9. /\ DOMAIN Variables' = DOMAIN Variables
      /\ \A y \in DOMAIN Variables : Variables'[y] = IF y = x THEN v ELSE Variables[y]
  BY <1>7, <1>8 DEF FP!Assign
<1> QED BY <1>4, <1>5, <1>9 DEF OnStack

\* A return of a supported function pops what its header has pushed.
LEMMA ReturnPopsFrame ==
  ASSUME FlowInv, WhereInv, StoreInv, PromiseInv, ClosedInv, WellShaped(ast), GenReturn, Left > 1
  PROVE  Returns(code, Len(code) + 1, Cardinality(OnStack))
<1>1. phase = "done" /\ todo # <<>> /\ S \in Statements /\ S.k = "return"
  BY AtStatement DEF GenReturn, At, S, FlowInv
<1>2. /\ S \in Inside(ast[Here].body) /\ Here \in 1..Len(ast) /\ Here \in P!FunctionsOf
      /\ Last(currentFunction) = P!NameAt(Here)
  BY <1>1, SupportedHead, HeadInside DEF FlowInv, P!FunctionsOf, P!Of
<1>3. ast[Here].k = "func"
  BY <1>1, <1>2, SupportedAt DEF SupportedBody, LastAt
<1>4. Here \in P!Of("func")
  BY <1>2, <1>3 DEF P!Of
<1>5. Cardinality(FrameNames(P!NameAt(Here))) = FrameSize(P!NameAt(Here))
  BY <1>1, <1>4, FrameCounts
<1>6. /\ Entered(code, Len(code) + 1) /\ ~InMain(code, Len(code) + 1)
      /\ FrameIn(code, Len(code) + 1) = FrameSize(Last(currentFunction))
      /\ OnStack = FrameNames(Last(currentFunction))
  BY <1>3, FrameHere DEF ClosedInv, AtHome
<1> QED BY <1>2, <1>5, <1>6 DEF Returns

LEMMA ClosedAtFirst == ASSUME Init, NInv, Left = 0, Len(ast) \in Nat PROVE ClosedInv
<1>1. \A i : i \notin 1..Len(code)
  BY Nothing DEF Init
<1>2. OwedBy(todo) = {} /\ StartsOf(todo) = {}
  BY TopOwesNothing
<1>3. JumpsInv
  BY <1>1, <1>2 DEF JumpsInv, Closed
<1>4. FunctionLabels
  <2>1. generated = <<>>
    BY DEF Init
  <2>2. DOMAIN <<>> = {}
    OBVIOUS
  <2>3. DOMAIN generated = {}
    BY <2>1, <2>2, Zenon
  <2> QED BY <2>3 DEF FunctionLabels
<1>5. Here = 0
  BY DEF Here, Spot, Init
<1>6. LeftBehind /\ MainThere /\ AtHome
  BY <1>5 DEF LeftBehind, MainThere, AtHome, Init
<1> QED BY <1>3, <1>4, <1>6 DEF ClosedInv

LEMMA ClosedStep ==
  ASSUME FlowInv, WhereInv, StoreInv, PromiseInv, ClosedInv, Supported(ast), [Next]_vars
  PROVE  ClosedInv'
<1>1. /\ ast \in Programs /\ GInv /\ IsStack(code) /\ NInv /\ WellShaped(ast) /\ ast' = ast
      /\ StacksFit(todo, contexts, currentFunction, Left) /\ Left \in Nat
      /\ ContextsOK(contexts) /\ contexts # <<>> /\ JumpsInv /\ FunctionLabels
  BY LeftFacts, AstStays DEF FlowInv, WhereInv, GInv, Sound, Supported, ClosedInv
<1>6. GenAssign \/ GenExit \/ GenIf \/ GenWhile => Countable(S.value)
  BY <1>1, AtStatement, StatementValues DEF GenAssign, GenExit, GenIf, GenWhile
<1>2. ASSUME UNCHANGED <<todo, code, contexts, currentFunction, generated>>,
             Left > 1 => UNCHANGED functions
      PROVE  ClosedInv'
  <2>1. Left' = Left /\ Here' = Here
    BY <1>1, <1>2 DEF Left, Layered, Here, Spot
  <2>2. OnStack' = OnStack
    BY <1>2 DEF OnStack, Variables
  <2>3. ASSUME Left > 1
        PROVE  FrameNames(Last(currentFunction))' = FrameNames(Last(currentFunction))
    <3>1. currentFunction' = currentFunction /\ functions' = functions
      BY <1>2, <2>3
    <3> QED BY <3>1 DEF FrameNames, FrameOf, Saved, Zeroed, RegParams
  <2>4. JumpsInv' /\ FunctionLabels'
    BY <1>1, <1>2 DEF JumpsInv, FunctionLabels
  <2>5. AtHome'
    BY <1>1, <1>2, <2>1, <2>2, <2>3 DEF ClosedInv, AtHome
  <2>6. LeftBehind' /\ MainThere'
    BY <1>1, <1>2, <2>1 DEF ClosedInv, LeftBehind, MainThere
  <2> QED BY <2>4, <2>5, <2>6 DEF ClosedInv
<1>3. CASE UNCHANGED vars
  BY <1>2, <1>3 DEF vars, passVars, genVars
<1>4. CASE Passes
  <2>1. ~(Left > 1)
    BY <1>1, <1>4, PassesRunFirst DEF WhereInv
  <2> QED BY <1>2, <1>4, <2>1 DEF Passes, genVars
<1>5. CASE Generate
  <2>1. phase = "done" /\ UNCHANGED functions
    BY <1>5, GeneratesLast DEF passVars
  <2>2. ~(Undefined \/ ValueThrows \/ DeclThrows \/ AssignThrows \/ FuncThrows)
    BY <1>1, <2>1, PromisedSteps
  <2>3. ASSUME todo # <<>>, S \in Statements, HasValue(S)
        PROVE  Left > 1 /\ Moves(S.value) = {}
    <3>1. Left > 1
      BY <2>3, InABody DEF HasValue
    <3> QED BY <1>1, <2>1, <2>3, <3>1, PromisedValues
  <2>4. todo # <<>> /\ Left = 2 => S.k \in {"return", "exit"}
    BY <1>1, LeavesLast
  <2>5. CASE Write
    BY <1>2, <2>1, <2>5 DEF Write
  <2>6. CASE GenDecl \/ GenAssign
    <3>1. S \in Statements /\ HasValue(S) /\ NextMove /\ S.k \notin {"return", "exit"}
          /\ UNCHANGED <<generated, currentFunction>>
      BY <1>1, <2>6, AtStatement DEF GenDecl, GenAssign, HasValue, NextMove, At, S
    <3>2. Left > 1 /\ Moves(S.value) = {} /\ Left # 2 /\ Left > 0 /\ Left # 1
      BY <1>1, <2>3, <2>4, <3>1 DEF NextMove
    <3>3. Continued
      BY <1>1, <2>6, DeclContinues, AssignContinues
    <3>4. OnStack' = OnStack
      <4>1. CASE GenDecl
        BY <3>2, <4>1, DeclOnStack
      <4>2. CASE GenAssign
        <5>1. Variables' = Variables
          BY <1>1, <1>6, <3>2, <4>2, SameAfter DEF GenAssign
        <5> QED BY <5>1 DEF OnStack
      <4> QED BY <2>6, <4>1, <4>2
    <3> QED BY <1>1, <2>1, <3>1, <3>2, <3>3, <3>4, ClosedNext
  <2>7. CASE GenReturn
    <3>1. S \in Statements /\ HasValue(S) /\ NextMove /\ S.k = "return" /\ UNCHANGED generated
      BY <1>1, <2>7, AtStatement DEF GenReturn, HasValue, NextMove, At, S
    <3>2. Left = 2 /\ Left > 1
      BY <1>1, <3>1, Placed DEF NextMove
    <3>3. Continued /\ Leaves(Last(code'))
      BY <1>1, <2>7, <3>2, ReturnPopsFrame, ReturnContinues
    <3> QED BY <1>1, <2>1, <3>1, <3>2, <3>3, ClosedNext
  <2>8. CASE GenExit
    <3>1. S \in Statements /\ HasValue(S) /\ NextMove /\ UNCHANGED <<generated, currentFunction>>
      BY <1>1, <2>8, AtStatement DEF GenExit, HasValue, NextMove, At, S
    <3>2. Left > 1 /\ Left > 0 /\ Left # 1 /\ Moves(S.value) = {}
      BY <1>1, <2>3, <3>1 DEF NextMove
    <3>3. Continued /\ Leaves(Last(code'))
      BY <1>1, <2>8, ExitContinues
    <3>4. Variables' = Variables
      BY <1>1, <1>6, <2>8, <3>2, SameAfter DEF GenExit
    <3>5. OnStack' = OnStack
      BY <3>4 DEF OnStack
    <3> QED BY <1>1, <2>1, <3>1, <3>2, <3>3, <3>5, ClosedNext
  <2>9. CASE GenCall \/ EndIf \/ Loop
    <3>1. NextMove /\ UNCHANGED <<generated, currentFunction>> /\ S.k \in {"call", "endif", "loop"}
      BY <2>9 DEF GenCall, EndIf, Loop, NextMove, At, S
    <3>2. Left > 1 /\ Left > 0 /\ Left # 1 /\ Left # 2
      BY <1>1, <2>4, <3>1, InABody DEF NextMove
    <3>3. Continued
      BY <1>1, <2>9, CallContinues, JumpsEndIf, JumpsLoop
    <3>4. OnStack' = OnStack
      <4>1. CASE GenCall
        <5>1. S \in Statements /\ S.k = "call" /\ todo # <<>>
          BY <1>1, <4>1, AtStatement DEF GenCall
        <5>2. CallMoves(S) = {}
          BY <1>1, <2>1, <3>2, <5>1, PromisedValues
        <5>3. Variables' = Variables
          BY <1>1, <4>1, <5>2, CallContexts
        <5> QED BY <5>3 DEF OnStack
      <4>2. CASE EndIf \/ Loop
        BY <4>2 DEF EndIf, Loop, OnStack, Variables
      <4> QED BY <2>9, <4>1, <4>2
    <3> QED BY <1>1, <2>1, <3>1, <3>2, <3>3, <3>4, ClosedNext
  <2>10. ~GenAsm
    <3> SUFFICES ASSUME GenAsm PROVE FALSE
      OBVIOUS
    <3>1. S \in Statements /\ S.k = "asm" /\ todo # <<>>
      BY <1>1, AtStatement DEF GenAsm
    <3>2. Left > 1
      BY <3>1, InABody
    <3> QED BY <1>1, <2>1, <3>1, <3>2, SupportedHead
  <2>11. CASE EndMain \/ EndFunc
    <3>1. NextMove /\ UNCHANGED <<generated, code>> /\ S.k \in {"endmain", "endfunc"}
      BY <2>11 DEF EndMain, EndFunc, NextMove, At, S
    <3>2. Left = 1
      <4>1. ~AtTop(S)
        BY <3>1 DEF AtTop
      <4>2. ~InBody(S, TRUE) /\ ~InBody(S, FALSE)
        BY <3>1, StatementsAssumption DEF InBody
      <4>3. Left # 0
        BY <3>1, <4>1, LeftFacts, HeadLayer DEF WhereInv, NextMove
      <4>4. ~(Left > 1)
        BY <3>1, <4>2, LeftFacts, HeadLayer DEF WhereInv, NextMove
      <4> QED BY <1>1, <4>3, <4>4
    <3>3. Continued
      BY <1>1, <3>1, NothingMore, FittingNothing DEF Continued
    <3>4. Left > 0 /\ Left # 2 /\ ~(Left > 2)
      BY <3>2
    <3> QED BY <1>1, <2>1, <3>1, <3>3, <3>4, ClosedNext
  <2>12. ~SkipType
    BY <1>1, <2>1, NoTypes
  <2>13. CASE GenMain
    <3>1. TopMove("main") /\ UNCHANGED generated /\ S.k = "main"
      BY <2>13, MainMoves DEF GenMain, At, S
    <3>2. \E rest : code' = code \o Header(Start, "main", rest)
      BY <2>13 DEF GenMain, Header, Start
    <3>3. Start[1] # "label"
      BY DEF Start
    <3> QED BY <1>1, <2>1, <3>1, <3>2, <3>3, ClosedTop
  <2>14. CASE GenFunc
    <3>1. TopMove(S.name) /\ S.k = "func"
      BY <2>14, FuncMoves DEF GenFunc, At, S
    <3>2. \E label, rest : /\ label[1] = "func"
                           /\ code' = code \o Header(label, S.name, rest)
                           /\ generated' = FP!Assign(generated, S.name, [label |-> label, argCnt |-> Len(S.args)])
      <4>1. \A n : <<"func", n>>[1] = "func"
        OBVIOUS
      <4> QED BY <2>14, <4>1 DEF GenFunc, Header
    <3> QED BY <1>1, <2>1, <3>1, <3>2, ClosedTop
  <2>15. CASE GenIf \/ GenWhile \/ GenElse
    <3>1. BodyMove /\ UNCHANGED <<generated, currentFunction>>
      BY <1>1, <2>15, BodyMoves DEF GenIf, GenWhile, GenElse
    <3>2. Continued /\ JumpsInv'
      BY <1>1, <2>15, JumpsIf, JumpsWhile, JumpsElse
    <3>3. OnStack' = OnStack
      <4>1. CASE GenElse
        BY <4>1 DEF GenElse, OnStack, Variables
      <4>2. CASE GenIf \/ GenWhile
        <5>1. S \in Statements /\ HasValue(S) /\ todo # <<>>
          BY <1>1, <4>2, AtStatement DEF GenIf, GenWhile, HasValue
        <5>2. Variables' = Variables
          BY <1>1, <1>6, <2>3, <4>2, <5>1, SameAfter DEF GenIf, GenWhile, ContextsAfterTest
        <5> QED BY <5>2 DEF OnStack
      <4> QED BY <2>15, <4>1, <4>2
    <3> QED BY <1>1, <2>1, <3>1, <3>2, <3>3, ClosedBody
  <2>16. \/ Write \/ (GenDecl \/ GenAssign) \/ GenReturn \/ GenExit
         \/ (GenCall \/ EndIf \/ Loop) \/ (EndMain \/ EndFunc)
         \/ GenMain \/ GenFunc \/ (GenIf \/ GenWhile \/ GenElse)
    BY <1>5, <2>2, <2>10, <2>12 DEF Generate
  <2> QED BY <2>5, <2>6, <2>7, <2>8, <2>9, <2>11, <2>13, <2>14, <2>15, <2>16
<1> QED BY <1>3, <1>4, <1>5 DEF Next

-----------------------------------------------------------------------------
(* Code that can be run.                                                   *)

Runnable ==
  /\ IsStack(code) /\ Closed(code, {}, {}) /\ Framed(code)
  /\ Start \in LabelsIn(code) /\ GoalsIn(code) \subseteq LabelsIn(code)
  /\ code # <<>> => Leaves(Last(code))

\* What is written of a supported program.
LEMMA WrittenRuns ==
  ASSUME FlowInv, WhereInv, StoreInv, PromiseInv, ClosedInv, WellShaped(ast), WrittenLast,
         output = "written"
  PROVE  Runnable
<1>1. todo = <<>> /\ Len(todo) = 0 /\ Len(ast) \in Nat
  BY ProgramBodies DEF WrittenLast, FlowInv
<1>2. Left = 0
  <2>1. Layered(todo, Left) /\ Left \in Nat
    BY LeftFacts DEF WhereInv
  <2>2. Left \in 0..0
    BY <1>1, <2>1 DEF Layered
  <2> QED BY <2>2
<1>3. Here = Len(ast)
  BY <1>1, <1>2 DEF Here, Spot
<1>4. OwedBy(todo) = {} /\ StartsOf(todo) = {}
  BY <1>2, TopOwesNothing DEF WhereInv
<1>5. IsStack(code) /\ GoalsIn(code) \subseteq LabelsIn(code)
  BY <1>4 DEF FlowInv, GInv, Sound
<1>6. Closed(code, {}, {})
  BY <1>4 DEF ClosedInv, JumpsInv
<1>7. Framed(code)
  BY DEF StoreInv, PromiseInv
<1>8. Start \in LabelsIn(code)
  <2>1. \E j \in 1..Len(ast) : ast[j].k = "main"
    BY DEF WellShaped
  <2> QED BY <1>3, <2>1 DEF ClosedInv, MainThere
<1>9. code # <<>> => Leaves(Last(code))
  BY <1>2 DEF ClosedInv, LeftBehind
<1> QED BY <1>5, <1>6, <1>7, <1>8, <1>9 DEF Runnable

\* Places q and p are in the same frame.
Alike(p, q) == /\ Entered(code, q) /\ FrameIn(code, q) = FrameIn(code, p)
               /\ InMain(code, q) <=> InMain(code, p)

LEMMA TogetherAlike ==
  \A p, q : Entered(code, p) /\ Together(code, p, q) => Alike(p, q)
BY DEF Together, Alike, Entered, FrameIn, InMain, LastEnter

LEMMA FrameSizes ==
  ASSUME Runnable, NEW p, Entered(code, p)
  PROVE  FrameIn(code, p) \in Nat
<1>1. PICK j \in EntersBefore(code, p) : \A k \in EntersBefore(code, p) : k <= j
  BY DEF Entered
<1> DEFINE l == LastEnter(code, p)
<1>2. l \in EntersBefore(code, p)
  BY <1>1 DEF LastEnter
<1>3. l \in 1..Len(code) /\ code[l].op = "enter"
  BY <1>2 DEF EntersBefore, EntersIn
<1>4. Len(code[l].arg.regs) \in Nat /\ code[l].arg.zeros \in Nat
  BY <1>3 DEF Runnable, Closed, FlowsAt
<1>5. FrameIn(code, p) = Len(code[l].arg.regs) + code[l].arg.zeros
  BY DEF FrameIn, LastEnter
<1> QED BY <1>4, <1>5

\* An instruction in the code of a function that does not leave it has another behind it, in
\* the same frame.
LEMMA GoesOn ==
  ASSUME Runnable, NEW p \in 1..Len(code), ~Opens(code[p]), ~Leaves(code[p]), Entered(code, p)
  PROVE  p + 1 \in 1..Len(code) /\ ~Opens(code[p + 1]) /\ Alike(p, p + 1)
<1>1. Len(code) \in Nat /\ code # <<>> /\ Last(code) = code[Len(code)]
  <2>1. code # <<>>
    BY DEF Runnable, LabelsIn
  <2> QED BY <2>1, PopAt DEF Runnable
<1>2. p + 1 \in 1..Len(code)
  BY <1>1 DEF Runnable
<1>3. ~Opens(code[p + 1])
  BY <1>2 DEF Runnable, Closed, FlowsAt, Opens
<1>4. EntersBefore(code, p) = EntersBefore(code, p + 1)
  <2>1. p \notin EntersIn(code)
    BY DEF EntersIn, Opens
  <2>2. \A j \in EntersIn(code) : j < p + 1 <=> j < p
    BY <1>1, <2>1 DEF EntersIn
  <2> QED BY <2>2 DEF EntersBefore
<1> QED BY <1>2, <1>3, <1>4, TogetherAlike DEF Together

LEMMA LabelIs ==
  ASSUME NEW l \in LabelsIn(code)
  PROVE  LabelAt(l) \in 1..Len(code) /\ code[LabelAt(l)].op = "label" /\ code[LabelAt(l)].arg = l
<1>1. PICK i \in 1..Len(code) : code[i].op = "label" /\ code[i].arg = l
  BY DEF LabelsIn
<1>2. \E j \in LabelsAt("label") : code[j].arg = l
  BY <1>1 DEF LabelsAt
<1>3. LabelAt(l) \in LabelsAt("label") /\ code[LabelAt(l)].arg = l
  BY <1>2 DEF LabelAt
<1> QED BY <1>3 DEF LabelsAt

\* A jump stays in its frame.
LEMMA JumpsStay ==
  ASSUME Runnable, NEW p \in 1..Len(code), Jumps(code[p]), Entered(code, p)
  PROVE  LET q == LabelAt(code[p].arg)
         IN  q \in 1..Len(code) /\ ~Opens(code[q]) /\ Alike(p, q)
<1> DEFINE q == LabelAt(code[p].arg)
<1>1. code[p].arg \in LabelsIn(code)
  BY DEF Runnable, GoalsIn, Jumps
<1>2. q \in 1..Len(code) /\ code[q].op = "label" /\ code[q].arg = code[p].arg
  BY <1>1, LabelIs
<1> HIDE DEF q
<1>3. Together(code, p, q) /\ code[p].arg[1] = "label"
  BY <1>2 DEF Runnable, Closed, JumpsAt
<1>4. ~Opens(code[q])
  BY <1>2, <1>3 DEF Opens, HeaderLabel
<1> QED BY <1>2, <1>3, <1>4, TogetherAlike DEF q

\* A call goes to the header of a function.
LEMMA CallsHeaders ==
  ASSUME Runnable, NEW p \in 1..Len(code), code[p].op = "call"
  PROVE  LET q == LabelAt(code[p].arg)
         IN  q \in 1..Len(code) /\ HeaderLabel(code[q])
<1> DEFINE q == LabelAt(code[p].arg)
<1>1. code[p].arg \in LabelsIn(code)
  BY DEF Runnable, GoalsIn
<1>2. q \in 1..Len(code) /\ code[q].op = "label" /\ code[q].arg = code[p].arg
  BY <1>1, LabelIs
<1> HIDE DEF q
<1>3. code[p].arg[1] = "func"
  BY DEF Runnable, Closed, JumpsAt
<1>4. HeaderLabel(code[q])
  BY <1>2, <1>3 DEF HeaderLabel
<1> QED BY <1>2, <1>4 DEF q

\* Behind a header is the code of its function, in the frame it has pushed.
LEMMA EntersFrame ==
  ASSUME Runnable, NEW p \in 1..Len(code), code[p].op = "enter"
  PROVE  /\ p + 1 \in 1..Len(code) /\ ~Opens(code[p + 1]) /\ Entered(code, p + 1)
         /\ FrameIn(code, p + 1) = Len(code[p].arg.regs) + code[p].arg.zeros
         /\ Len(code[p].arg.regs) \in Nat /\ code[p].arg.zeros \in Nat
         /\ InMain(code, p + 1) <=> code[p - 1].arg = Start
<1>1. Len(code) \in Nat /\ code # <<>> /\ Last(code) = code[Len(code)]
  <2>1. code # <<>>
    BY DEF Runnable, LabelsIn
  <2> QED BY <2>1, PopAt DEF Runnable
<1>2. ~Leaves(code[p]) /\ ~HeaderLabel(code[p])
  BY DEF Leaves, HeaderLabel
<1>3. p + 1 \in 1..Len(code)
  BY <1>1, <1>2 DEF Runnable
<1>4. /\ ~Opens(code[p + 1])
      /\ Len(code[p].arg.regs) \in Nat /\ code[p].arg.zeros \in Nat
  BY <1>2, <1>3 DEF Runnable, Closed, FlowsAt
<1>5. p \in EntersBefore(code, p + 1) /\ \A k \in EntersBefore(code, p + 1) : k <= p
  BY DEF EntersBefore, EntersIn
<1>6. LastEnter(code, p + 1) = p
  <2>1. \A j \in EntersBefore(code, p + 1) : (\A k \in EntersBefore(code, p + 1) : k <= j) <=> j = p
    BY <1>5 DEF EntersBefore, EntersIn
  <2> QED BY <1>5, <2>1 DEF LastEnter
<1>7. FrameIn(code, p + 1) = Len(code[p].arg.regs) + code[p].arg.zeros
  BY <1>6 DEF FrameIn, LastEnter
<1>8. Entered(code, p + 1)
  BY <1>5 DEF Entered
<1>9. InMain(code, p + 1) <=> code[p - 1].arg = Start
  BY <1>6 DEF InMain
<1> QED BY <1>3, <1>4, <1>7, <1>8, <1>9

-----------------------------------------------------------------------------
(* Running it: returns find what their calls have left.                    *)

\* What Begin and DoCall make.
Frame(f) == DOMAIN f = {"fn", "ret", "entry", "entered"} /\ f.entry \in Int

\* Frame i is pushed, and control is, or will be, at place p of its function with d bytes on
\* the stack.
Inner(i, p, d) ==
  /\ p \in 1..Len(code) /\ Entered(code, p) /\ ~Opens(code[p])
  /\ frames[i].entered = TRUE /\ d = frames[i].entry + QWORD * FrameIn(code, p)
  /\ i = 1 => InMain(code, p)

\* The call of frame i has left its return address, and its caller will go on there.
Called(i) ==
  /\ frames[i].entry \in DOMAIN mem /\ mem[frames[i].entry] = <<"ret", frames[i].ret>>
  /\ Inner(i - 1, frames[i].ret, frames[i].entry - QWORD)

\* Frame i is about to be pushed, by the header at p.
Entering(i, p, d) ==
  /\ p \in 1..Len(code) /\ frames[i].entered = FALSE /\ d = frames[i].entry
  /\ \/ HeaderLabel(code[p]) /\ (i = 1 => code[p].arg = Start)
     \/ code[p].op = "enter" /\ (i = 1 => code[p - 1].arg = Start)

FramesInv ==
  /\ IsStack(frames) /\ Len(frames) > 0
  /\ \A i \in 1..Len(frames) : Frame(frames[i])
  /\ \A i, j \in 1..Len(frames) : i < j => frames[i].entry < frames[j].entry
  /\ \A i \in 2..Len(frames) : Called(i)
  /\ Inner(Len(frames), pc, depth) \/ Entering(Len(frames), pc, depth)

LEMMA FramesFacts ==
  ASSUME Runnable, FramesInv
  PROVE  /\ Len(frames) \in Nat \ {0} /\ Len(frames) \in 1..Len(frames)
         /\ pc \in 1..Len(code) /\ depth \in Int
         /\ \A i \in 1..Len(frames) : frames[i].entry \in Int /\ frames[i].entry <= depth
         /\ \A i \in 1..Len(frames) : i < Len(frames) => frames[i].entry < frames[Len(frames)].entry
         /\ frames[Len(frames)].entry <= depth
<1> DEFINE n == Len(frames)
<1>1. n \in Nat \ {0} /\ n \in 1..n
  BY LenProperties DEF FramesInv, IsStack
<1>2. \A i \in 1..n : frames[i].entry \in Int
  BY DEF FramesInv, Frame
<1>3. pc \in 1..Len(code)
  BY DEF FramesInv, Inner, Entering
<1>4. depth \in Int /\ frames[n].entry <= depth
  <2>1. frames[n].entry \in Int
    BY <1>1, <1>2
  <2>2. CASE Inner(n, pc, depth)
    <3>1. FrameIn(code, pc) \in Nat /\ depth = frames[n].entry + QWORD * FrameIn(code, pc)
      BY <2>2, FrameSizes DEF Inner
    <3> QED BY <2>1, <3>1 DEF QWORD
  <2>3. CASE Entering(n, pc, depth)
    BY <2>1, <2>3 DEF Entering
  <2> QED BY <2>2, <2>3 DEF FramesInv
<1>5. \A i \in 1..n : i < n => frames[i].entry < frames[n].entry
  BY <1>1 DEF FramesInv
<1>6. \A i \in 1..n : frames[i].entry <= depth
  <2> SUFFICES ASSUME NEW i \in 1..n PROVE frames[i].entry <= depth
    OBVIOUS
  <2>1. CASE i = n
    BY <1>4, <2>1
  <2>2. CASE i < n
    BY <1>1, <1>2, <1>4, <1>5, <2>2
  <2> QED BY <1>1, <2>1, <2>2
<1> QED BY <1>1, <1>2, <1>3, <1>4, <1>5, <1>6

\* The frames below are as they were, if what is on the stack below stays.
LEMMA CallsKept ==
  ASSUME Runnable, FramesInv, code' = code, NEW n \in 1..Len(frames),
         \A i \in 1..n : /\ frames'[i].entry = frames[i].entry /\ frames'[i].ret = frames[i].ret
                         /\ frames[i].entered = TRUE => frames'[i].entered = TRUE,
         \A p \in DOMAIN mem : p \in Int /\ p <= frames[n].entry => p \in DOMAIN mem' /\ mem'[p] = mem[p]
  PROVE  \A i \in 2..n : Called(i)'
<1> SUFFICES ASSUME NEW i \in 2..n PROVE Called(i)'
  OBVIOUS
<1>1. /\ i \in 2..Len(frames) /\ i \in 1..n /\ i - 1 \in 1..n /\ Len(frames) \in Nat
      /\ n \in 1..Len(frames) /\ i \in 1..Len(frames) /\ i \in Int /\ n \in Int
  BY FramesFacts
<1>2. Called(i)
  BY <1>1 DEF FramesInv
<1>3. frames[i].entry \in Int /\ frames[i].entry <= frames[n].entry
  <2>1. frames[i].entry \in Int /\ frames[n].entry \in Int
    BY <1>1, FramesFacts
  <2>2. i < n => frames[i].entry < frames[n].entry
    BY <1>1 DEF FramesInv
  <2>3. i < n \/ i = n
    BY <1>1
  <2> QED BY <2>1, <2>2, <2>3
<1>4. frames'[i].entry \in DOMAIN mem' /\ mem'[frames'[i].entry] = <<"ret", frames'[i].ret>>
  BY <1>1, <1>2, <1>3 DEF Called
<1>5. Inner(i - 1, frames[i].ret, frames[i].entry - QWORD)'
  <2>1. /\ frames'[i - 1].entry = frames[i - 1].entry
        /\ frames'[i].entry = frames[i].entry /\ frames'[i].ret = frames[i].ret
        /\ frames[i - 1].entered = TRUE => frames'[i - 1].entered = TRUE
    BY <1>1
  <2> QED BY <1>2, <2>1 DEF Called, Inner
<1> QED BY <1>4, <1>5 DEF Called

\* A step inside a function, or into it, that leaves the frames and what is below them.
LEMMA FramesStay ==
  ASSUME Runnable, FramesInv, UNCHANGED <<code, frames>>,
         \A p \in DOMAIN mem : p \in Int /\ p <= frames[Len(frames)].entry => p \in DOMAIN mem' /\ mem'[p] = mem[p],
         Inner(Len(frames), pc', depth') \/ Entering(Len(frames), pc', depth')
  PROVE  FramesInv'
<1>1. Len(frames) \in 1..Len(frames)
  BY FramesFacts
<1>2. \A i \in 2..Len(frames) : Called(i)'
  BY <1>1, CallsKept
<1>3. (Inner(Len(frames), pc, depth) \/ Entering(Len(frames), pc, depth))'
  BY DEF Inner, Entering
<1> QED BY <1>2, <1>3 DEF FramesInv, Frame

\* The frame at hand is pushed if the instruction at hand is no header.
LEMMA InnerHere ==
  ASSUME FramesInv, ~Opens(code[pc])
  PROVE  Inner(Len(frames), pc, depth)
BY DEF FramesInv, Entering, Opens

\* The next instruction, with the stack as it is.
LEMMA InnerGoesOn ==
  ASSUME Runnable, FramesInv, ~Opens(code[pc]), ~Leaves(code[pc])
  PROVE  Inner(Len(frames), pc + 1, depth)
<1>1. Inner(Len(frames), pc, depth) /\ pc \in 1..Len(code)
  BY InnerHere, FramesFacts
<1>2. pc + 1 \in 1..Len(code) /\ ~Opens(code[pc + 1]) /\ Alike(pc, pc + 1)
  BY <1>1, GoesOn DEF Inner
<1> QED BY <1>1, <1>2 DEF Inner, Alike

\* What is pushed goes on top.
LEMMA PushKeeps ==
  \A vs, p : p \in DOMAIN mem /\ p \in Int /\ p <= depth /\ depth \in Int =>
    p \in DOMAIN PushAll(vs) /\ PushAll(vs)[p] = mem[p]
<1> SUFFICES ASSUME NEW vs, NEW p, p \in DOMAIN mem, p \in Int, p <= depth, depth \in Int
             PROVE  p \in DOMAIN PushAll(vs) /\ PushAll(vs)[p] = mem[p]
  OBVIOUS
<1>1. ~(p > depth)
  OBVIOUS
<1> QED BY <1>1 DEF PushAll

LEMMA FramesAtBegin == ASSUME Runnable, depth = 0, Begin PROVE FramesInv'
<1> DEFINE q == LabelAt(Start)
           m == [fn |-> "main", ret |-> 0, entry |-> 0, entered |-> FALSE]
<1>1. /\ pc' = q /\ code' = code /\ depth' = 0 /\ frames' = <<m>>
  BY DEF Begin, vars, genVars, Start
<1>2. q \in 1..Len(code) /\ code[q].op = "label" /\ code[q].arg = Start
  BY LabelIs DEF Runnable
<1> HIDE DEF q
<1>3. HeaderLabel(code[q])
  BY <1>2 DEF HeaderLabel, Start
<1>4. Len(frames') = 1 /\ frames'[1] = m /\ IsStack(frames')
  BY <1>1, InstrStack
<1>5. Frame(m)
  BY DEF Frame
<1>6. Entering(Len(frames), pc, depth)'
  BY <1>1, <1>2, <1>3, <1>4 DEF Entering
<1>7. \A i \in 1..Len(frames') : i = 1
  BY <1>4
<1>8. (\A i \in 1..Len(frames) : Frame(frames[i]))'
  BY <1>4, <1>5, <1>7 DEF Frame
<1>9. \A i, j \in 1..Len(frames') : i < j => frames'[i].entry < frames'[j].entry
  BY <1>4, <1>7
<1>10. \A i \in 2..Len(frames') : Called(i)'
  BY <1>4
<1> QED BY <1>4, <1>6, <1>8, <1>9, <1>10 DEF FramesInv

LEMMA FramesLabel == ASSUME Runnable, FramesInv, DoLabel PROVE FramesInv'
<1>1. UNCHANGED <<code, frames, mem, depth>> /\ pc' = pc + 1 /\ code[pc].op = "label"
  BY DEF DoLabel, Fetched, vars, genVars
<1>2. pc \in 1..Len(code)
  BY FramesFacts
<1>3. CASE ~Opens(code[pc])
  <2>1. Inner(Len(frames), pc + 1, depth)
    BY <1>1, <1>3, InnerGoesOn DEF Leaves
  <2> QED BY <1>1, <2>1, FramesStay
<1>4. CASE Opens(code[pc])
  <2>1. Entering(Len(frames), pc, depth) /\ HeaderLabel(code[pc])
    BY <1>1, <1>4 DEF FramesInv, Inner, Opens
  <2>2. Len(frames) = 1 => code[pc].arg = Start
    BY <1>1, <2>1 DEF Entering
  <2>3. pc + 1 \in 1..Len(code) /\ code[pc + 1].op = "enter" /\ (pc + 1) - 1 = pc
    BY <1>2, <2>1 DEF Runnable, Closed, FlowsAt
  <2>4. Entering(Len(frames), pc + 1, depth)
    BY <2>1, <2>2, <2>3 DEF Entering
  <2> QED BY <1>1, <2>4, FramesStay
<1> QED BY <1>3, <1>4

LEMMA FramesEval == ASSUME Runnable, FramesInv, DoEval \/ DoMov PROVE FramesInv'
<1>1. /\ UNCHANGED <<code, frames, mem, depth>> /\ pc' = pc + 1
      /\ code[pc].op \in {"eval", "mov"}
  BY DEF DoEval, DoMov, Fetched, vars, genVars
<1>2. Inner(Len(frames), pc + 1, depth)
  BY <1>1, InnerGoesOn DEF Opens, HeaderLabel, Leaves
<1> QED BY <1>1, <1>2, FramesStay

\* A store hits the frame at hand.
LEMMA FramesStore == ASSUME Runnable, FramesInv, DoStore PROVE FramesInv'
<1> DEFINE top == frames[Len(frames)].entry
<1>1. /\ UNCHANGED <<code, frames, depth>> /\ pc' = pc + 1
      /\ code[pc].op = "store" /\ pc \in 1..Len(code)
  BY DEF DoStore, Fetched, vars, genVars
<1>2. Inner(Len(frames), pc + 1, depth) /\ Inner(Len(frames), pc, depth)
  BY <1>1, InnerGoesOn, InnerHere DEF Opens, HeaderLabel, Leaves
<1>3. \A p \in DOMAIN mem : p \in Int /\ p <= top => p \in DOMAIN mem' /\ mem'[p] = mem[p]
  <2>1. CASE code[pc].arg.reg = "RSP"
    <3> DEFINE d == code[pc].arg.disp
    <3>1. d \in 0..QWORD * (FrameIn(code, pc) - 1)
      BY <1>1, <2>1 DEF Runnable, Framed
    <3>2. depth = top + QWORD * FrameIn(code, pc) /\ FrameIn(code, pc) \in Nat /\ top \in Int
      BY <1>2, FrameSizes, FramesFacts DEF Inner
    <3>3. mem' = WriteMem(mem, depth - d, regs["RAX"])
      BY <2>1 DEF DoStore, I
    <3> HIDE DEF d, top
    <3>4. depth - d > top /\ depth - d \in Int
      BY <3>1, <3>2 DEF QWORD
    <3> SUFFICES ASSUME NEW p \in DOMAIN mem, p \in Int, p <= top
                 PROVE  p \in DOMAIN mem' /\ mem'[p] = mem[p]
      OBVIOUS
    <3>5. p # depth - d
      BY <3>2, <3>4
    <3> QED BY <3>3, <3>5 DEF WriteMem
  <2>2. CASE code[pc].arg.reg # "RSP"
    <3>1. mem' = mem
      BY <2>2 DEF DoStore, I
    <3> QED BY <3>1
  <2> QED BY <2>1, <2>2
<1> HIDE DEF top
<1> QED BY <1>1, <1>2, <1>3, FramesStay DEF top

LEMMA FramesJump == ASSUME Runnable, FramesInv, DoJump PROVE FramesInv'
<1> DEFINE q == LabelAt(code[pc].arg)
<1>1. /\ UNCHANGED <<code, frames, mem, depth>> /\ pc' \in {pc + 1, q}
      /\ code[pc].op \in {"je", "jmp"} /\ pc \in 1..Len(code)
  BY DEF DoJump, Fetched, I, vars, genVars
<1> HIDE DEF q
<1>2. ~Opens(code[pc]) /\ ~Leaves(code[pc]) /\ Jumps(code[pc])
  BY <1>1 DEF Opens, HeaderLabel, Leaves, Jumps
<1>3. Inner(Len(frames), pc + 1, depth) /\ Inner(Len(frames), pc, depth)
  BY <1>2, InnerGoesOn, InnerHere
<1>4. q \in 1..Len(code) /\ ~Opens(code[q]) /\ Alike(pc, q)
  BY <1>1, <1>2, <1>3, JumpsStay DEF Inner, q
<1>5. Inner(Len(frames), q, depth)
  BY <1>3, <1>4 DEF Inner, Alike
<1> QED BY <1>1, <1>3, <1>5, FramesStay

\* The header pushes the frame of its function.
LEMMA FramesEnter == ASSUME Runnable, FramesInv, DoEnter PROVE FramesInv'
<1> DEFINE n == Len(frames)
           a == code[pc].arg
           r == [i \in 1..Len(a.regs) |-> regs[a.regs[i]]]
           z == [i \in 1..a.zeros |-> Num(0)]
           g == [frames[n] EXCEPT !.entered = TRUE]
<1>1. /\ code' = code /\ pc' = pc + 1 /\ code[pc].op = "enter" /\ pc \in 1..Len(code)
      /\ mem' = PushAll(r \o z) /\ depth' = depth + QWORD * Len(r \o z)
      /\ frames' = [frames EXCEPT ![n] = g]
  BY DEF DoEnter, Fetched, I, vars, genVars
<1>2. /\ pc + 1 \in 1..Len(code) /\ ~Opens(code[pc + 1]) /\ Entered(code, pc + 1)
      /\ FrameIn(code, pc + 1) = Len(a.regs) + a.zeros
      /\ Len(a.regs) \in Nat /\ a.zeros \in Nat
      /\ InMain(code, pc + 1) <=> code[pc - 1].arg = Start
  BY <1>1, EntersFrame
<1>3. Len(r \o z) = Len(a.regs) + a.zeros
  <2> DEFINE T == {r[i] : i \in 1..Len(a.regs)} \cup {z[i] : i \in 1..a.zeros}
  <2>1. r \in [1..Len(a.regs) -> T] /\ z \in [1..a.zeros -> T]
    OBVIOUS
  <2> HIDE DEF r, z, T
  <2>2. Len(r) = Len(a.regs) /\ r \in Seq(T) /\ Len(z) = a.zeros /\ z \in Seq(T)
    BY <1>2, <2>1, ListLength
  <2> QED BY <2>2, ConcatProperties
<1> HIDE DEF r, z
<1>4. Entering(n, pc, depth) /\ ~Inner(n, pc, depth)
  BY <1>1 DEF FramesInv, Inner, Opens
<1>5. depth = frames[n].entry /\ (n = 1 => code[pc - 1].arg = Start)
  BY <1>1, <1>4 DEF Entering, HeaderLabel
<1>6. n \in 1..n /\ n \in Nat /\ depth \in Int
  BY FramesFacts
<1>7. Len(frames') = n /\ IsStack(frames') /\ frames'[n] = g
      /\ \A i \in 1..n : i # n => frames'[i] = frames[i]
  <2> HIDE DEF g
  <2>1. frames \in Seq({frames[i] : i \in 1..n})
    BY DEF FramesInv, IsStack
  <2>2. DOMAIN frames = 1..n
    BY <2>1, LenProperties
  <2>3. /\ DOMAIN frames' = 1..n /\ frames'[n] = g
        /\ \A i \in 1..n : i # n => frames'[i] = frames[i]
    BY <1>1, <1>6, <2>2
  <2>4. frames' \in [1..n -> {frames'[i] : i \in 1..n}]
    BY <1>1, <2>2, <2>3
  <2>5. Len(frames') = n /\ frames' \in Seq({frames'[i] : i \in 1..n})
    BY <1>6, <2>4, ListLength
  <2> QED BY <2>3, <2>5 DEF IsStack
<1>8. g.entry = frames[n].entry /\ g.ret = frames[n].ret /\ g.entered = TRUE /\ Frame(g)
  <2>1. Frame(frames[n])
    BY <1>6 DEF FramesInv
  <2> QED BY <2>1 DEF Frame
<1> HIDE DEF g
<1>9. \A i \in 1..n : /\ frames'[i].entry = frames[i].entry /\ frames'[i].ret = frames[i].ret
                      /\ frames[i].entered = TRUE => frames'[i].entered = TRUE
  BY <1>7, <1>8
<1>10. \A p \in DOMAIN mem : p \in Int /\ p <= frames[n].entry => p \in DOMAIN mem' /\ mem'[p] = mem[p]
  BY <1>1, <1>5, <1>6, PushKeeps
<1>11. \A i \in 2..n : Called(i)'
  BY <1>1, <1>6, <1>9, <1>10, CallsKept
<1>12. (\A i \in 1..Len(frames) : Frame(frames[i]))'
  BY <1>7, <1>8 DEF FramesInv, Frame
<1>13. \A i, j \in 1..n : i < j => frames'[i].entry < frames'[j].entry
  BY <1>9 DEF FramesInv
<1>14. Inner(Len(frames), pc, depth)'
  BY <1>1, <1>2, <1>3, <1>5, <1>7, <1>8 DEF Inner
<1> QED BY <1>6, <1>7, <1>11, <1>12, <1>13, <1>14 DEF FramesInv

\* A call leaves the return address, on top of the frame of its caller.
LEMMA FramesCall == ASSUME Runnable, FramesInv, DoCall PROVE FramesInv'
<1> PICK n \in Nat \ {0} : n = Len(frames)
  BY FramesFacts
<1> DEFINE q == LabelAt(code[pc].arg)
           f == [fn |-> CHOOSE f \in DOMAIN generated : generated[f].label = I.arg,
                 ret |-> pc + 1, entry |-> depth + QWORD, entered |-> FALSE]
<1>1. /\ code' = code /\ pc' = q /\ code[pc].op = "call" /\ pc \in 1..Len(code)
      /\ mem' = PushAll(<< <<"ret", pc + 1>> >>) /\ depth' = depth + QWORD
      /\ frames' = Append(frames, f)
  BY DEF DoCall, Fetched, I, vars, genVars
<1>2. f.ret = pc + 1 /\ f.entry = depth + QWORD /\ f.entered = FALSE
  OBVIOUS
<1>3. Frame(f) /\ depth \in Int /\ f.entry \in Int
  <2>1. depth \in Int
    BY FramesFacts
  <2>2. f.entry \in Int
    BY <2>1 DEF QWORD
  <2> QED BY <2>1, <2>2 DEF Frame
<1>4. q \in 1..Len(code) /\ HeaderLabel(code[q])
  BY <1>1, CallsHeaders
<1> HIDE DEF f, q
<1>5. Inner(n, pc + 1, depth)
  BY <1>1, InnerGoesOn DEF Opens, HeaderLabel, Leaves
<1>6. /\ n \in 1..n /\ n \in Nat /\ n + 1 # 1
      /\ \A i \in 1..n : frames[i].entry \in Int /\ frames[i].entry <= depth
  BY FramesFacts
<1>7. /\ IsStack(frames') /\ Len(frames') = n + 1
      /\ \A i \in 1..n : frames'[i] = frames[i]
      /\ frames'[n + 1] = f
  BY <1>1, PushAt DEF FramesInv
<1>8. \A p \in DOMAIN mem : p \in Int /\ p <= frames[n].entry => p \in DOMAIN mem' /\ mem'[p] = mem[p]
  <2> SUFFICES ASSUME NEW p \in DOMAIN mem, p \in Int, p <= frames[n].entry
               PROVE  p \in DOMAIN mem' /\ mem'[p] = mem[p]
    OBVIOUS
  <2>1. p <= depth
    BY <1>3, <1>6
  <2> QED BY <1>1, <1>3, <2>1, PushKeeps
<1>9. \A i \in 2..n : Called(i)'
  BY <1>1, <1>6, <1>7, <1>8, CallsKept
<1>10. f.entry \in DOMAIN mem' /\ mem'[f.entry] = <<"ret", f.ret>>
  <2> DEFINE vs == << <<"ret", pc + 1>> >>
  <2>1. Len(vs) = 1 /\ vs[1] = <<"ret", pc + 1>>
    OBVIOUS
  <2> HIDE DEF vs
  <2>2. 1 \in 1..Len(vs) /\ depth + QWORD * 1 = f.entry
    BY <1>2, <1>3, <2>1 DEF QWORD
  <2>3. f.entry \in DOMAIN mem \cup {depth + QWORD * i : i \in 1..Len(vs)}
    BY <2>2
  <2>4. f.entry > depth /\ (f.entry - depth) \div QWORD = 1
    BY <1>2, <1>3 DEF QWORD
  <2>5. mem' = PushAll(vs)
    BY <1>1 DEF vs
  <2> QED BY <1>2, <2>1, <2>3, <2>4, <2>5 DEF PushAll
<1>11. Called(n + 1)'
  <2>1. frames'[n + 1].ret = pc + 1 /\ frames'[n + 1].entry - QWORD = depth /\ (n + 1) - 1 = n
    BY <1>2, <1>3, <1>6, <1>7 DEF QWORD
  <2>2. Inner((n + 1) - 1, frames[n + 1].ret, frames[n + 1].entry - QWORD)'
    BY <1>1, <1>5, <1>6, <1>7, <2>1 DEF Inner
  <2> QED BY <1>7, <1>10, <2>2 DEF Called
<1>12. \A i \in 2..Len(frames') : Called(i)'
  <2> SUFFICES ASSUME NEW i \in 2..(n + 1) PROVE Called(i)'
    BY <1>7
  <2>1. i \in 2..n \/ i = n + 1
    BY <1>6
  <2> QED BY <1>9, <1>11, <2>1
<1>13. (\A i \in 1..Len(frames) : Frame(frames[i]))'
  <2> SUFFICES ASSUME NEW i \in 1..(n + 1) PROVE Frame(frames'[i])
    BY <1>7 DEF Frame
  <2>1. i \in 1..n \/ i = n + 1
    BY <1>6
  <2> QED BY <1>3, <1>7, <2>1 DEF FramesInv
<1>14. \A i, j \in 1..Len(frames') : i < j => frames'[i].entry < frames'[j].entry
  <2> SUFFICES ASSUME NEW i \in 1..(n + 1), NEW j \in 1..(n + 1), i < j
               PROVE  frames'[i].entry < frames'[j].entry
    BY <1>7
  <2>1. i \in 1..n
    BY <1>6
  <2>2. CASE j \in 1..n
    BY <1>7, <2>1, <2>2 DEF FramesInv
  <2>3. CASE j = n + 1
    <3>1. frames[i].entry < depth + QWORD
      BY <1>3, <1>6, <2>1 DEF QWORD
    <3> QED BY <1>2, <1>7, <2>1, <2>3, <3>1
  <2> QED BY <1>6, <2>2, <2>3
<1>15. Entering(Len(frames), pc, depth)'
  BY <1>1, <1>2, <1>4, <1>6, <1>7 DEF Entering
<1> QED BY <1>6, <1>7, <1>12, <1>13, <1>14, <1>15 DEF FramesInv

\* What a return finds: its frame is just what is on the stack above the return address.
LEMMA ReturnFinds ==
  ASSUME Runnable, FramesInv, NEW n \in Nat, n = Len(frames), code[pc].op = "return"
  PROVE  /\ n > 1 /\ depth - QWORD * code[pc].arg = frames[n].entry
         /\ frames[n].entry \in Int /\ Called(n) /\ Last(frames) = frames[n]
<1>1. pc \in 1..Len(code) /\ n \in 1..n /\ depth \in Int /\ frames[n].entry \in Int
  BY FramesFacts
<1>2. Inner(n, pc, depth)
  BY InnerHere DEF Opens, HeaderLabel
<1>3. Returns(code, pc, code[pc].arg)
  BY <1>1 DEF Runnable, Closed, JumpsAt
<1>4. n # 1
  BY <1>2, <1>3 DEF Inner, Returns
<1>5. FrameIn(code, pc) \in Nat /\ depth = frames[n].entry + QWORD * FrameIn(code, pc)
      /\ code[pc].arg = FrameIn(code, pc)
  BY <1>2, <1>3, FrameSizes DEF Inner, Returns
<1>6. n > 1 /\ n \in 2..n
  BY <1>1, <1>4
<1>7. Called(n)
  BY <1>6 DEF FramesInv
<1>8. frames # <<>>
  BY <1>1 DEF FramesInv
<1>9. Last(frames) = frames[n]
  BY <1>8, PopAt DEF FramesInv
<1>10. depth - QWORD * code[pc].arg = frames[n].entry
  BY <1>1, <1>5 DEF QWORD
<1> QED BY <1>1, <1>6, <1>7, <1>9, <1>10

\* A return leaves its caller as it was before the call.
LEMMA FramesReturn == ASSUME Runnable, FramesInv, DoReturn PROVE FramesInv'
<1> PICK n \in Nat \ {0} : n = Len(frames)
  BY FramesFacts
<1> DEFINE top == frames[n].entry
           m == n - 1
<1>1. /\ code' = code /\ code[pc].op = "return" /\ frames' = Front(frames)
  BY DEF DoReturn, Fetched, vars, genVars
<1>2. /\ n > 1 /\ depth - QWORD * code[pc].arg = top /\ top \in Int /\ Called(n)
  BY <1>1, ReturnFinds
<1>3. top \in DOMAIN mem /\ mem[top] = <<"ret", frames[n].ret>>
      /\ Inner(m, frames[n].ret, top - QWORD)
  BY <1>2 DEF Called
<1>4. pc' = frames[n].ret /\ depth' = top - QWORD /\ mem' = Release(mem, top)
  <2>1. /\ pc' = ReadMem(mem, depth - QWORD * I.arg)[2]
        /\ depth' = (depth - QWORD * I.arg) - QWORD
        /\ mem' = Release(mem, depth - QWORD * I.arg)
    BY DEF DoReturn
  <2>2. depth - QWORD * I.arg = top
    BY <1>2 DEF I
  <2>3. ReadMem(mem, top) = <<"ret", frames[n].ret>>
    BY <1>3 DEF ReadMem
  <2>4. ReadMem(mem, top)[2] = frames[n].ret
    BY <2>3
  <2> QED BY <2>1, <2>2, <2>4
<1> HIDE DEF top
<1>5. m \in 1..n /\ m < n /\ m \in Nat /\ m > 0 /\ n \in 1..n
  BY <1>2
<1>6. /\ IsStack(frames') /\ Len(frames') = m
      /\ \A i \in 1..m : frames'[i] = frames[i]
  <2>1. frames # <<>>
    BY <1>2
  <2> QED BY <1>1, <2>1, PopAt DEF FramesInv
<1> HIDE DEF m
<1>7. \A p \in DOMAIN mem : p \in Int /\ p <= frames[m].entry => p \in DOMAIN mem' /\ mem'[p] = mem[p]
  <2>1. frames[m].entry < top /\ frames[m].entry \in Int
    <3>1. \A i \in 1..n : frames[i].entry \in Int
      BY FramesFacts
    <3>2. frames[m].entry < frames[n].entry
      BY <1>5 DEF FramesInv
    <3> QED BY <1>5, <3>1, <3>2 DEF top
  <2> SUFFICES ASSUME NEW p \in DOMAIN mem, p \in Int, p <= frames[m].entry
               PROVE  p \in DOMAIN mem' /\ mem'[p] = mem[p]
    OBVIOUS
  <2>2. p < top
    BY <1>2, <2>1
  <2> QED BY <1>4, <2>2 DEF Release
<1>8. \A i \in 2..m : Called(i)'
  <2>1. \A i \in 1..m : /\ frames'[i].entry = frames[i].entry /\ frames'[i].ret = frames[i].ret
                        /\ frames[i].entered = TRUE => frames'[i].entered = TRUE
    BY <1>6
  <2> QED BY <1>1, <1>5, <1>7, <2>1, CallsKept
<1>9. Inner(Len(frames), pc, depth)'
  BY <1>1, <1>3, <1>4, <1>5, <1>6 DEF Inner
<1>10. \A i \in 1..m : i \in 1..n
  BY <1>5
<1>11. (\A i \in 1..Len(frames) : Frame(frames[i]))'
  BY <1>6, <1>10 DEF FramesInv, Frame
<1>12. \A i, j \in 1..m : i < j => frames'[i].entry < frames'[j].entry
  BY <1>6, <1>10 DEF FramesInv
<1> QED BY <1>5, <1>6, <1>8, <1>9, <1>11, <1>12 DEF FramesInv

\* The code stays as it was written.
LEMMA WrittenStays ==
  ASSUME WrittenLast, output = "written", [Next]_vars
  PROVE  UNCHANGED <<code, output, ast>>
<1>1. ast' = ast
  BY AstStays
<1>2. CASE UNCHANGED genVars
  BY <1>1, <1>2 DEF genVars
<1>3. CASE Passes
  BY <1>1, <1>3 DEF Passes, genVars
<1>4. CASE Undefined \/ ValueThrows \/ DeclThrows \/ AssignThrows \/ FuncThrows
  BY <1>1, <1>4 DEF Undefined, ValueThrows, DeclThrows, AssignThrows, FuncThrows, Throw, genVars
<1>5. CASE Write
  BY <1>5 DEF Write
<1>6. CASE UNCHANGED vars
  BY <1>1, <1>6 DEF vars, genVars
<1>7. CASE \/ GenDecl \/ GenAssign \/ GenMain \/ EndMain \/ GenFunc \/ EndFunc
           \/ GenCall \/ GenReturn \/ GenExit
           \/ GenIf \/ GenElse \/ EndIf \/ GenWhile \/ Loop \/ GenAsm \/ SkipType
  <2>1. todo # <<>>
    BY <1>7 DEF At, GenDecl, GenAssign, GenMain, EndMain, GenFunc, EndFunc, GenCall, GenReturn,
                GenExit, GenIf, GenElse, EndIf, GenWhile, Loop, GenAsm, SkipType
  <2> QED BY <2>1 DEF WrittenLast
<1> QED BY <1>3, <1>4, <1>5, <1>6, <1>7 DEF Next, Generate

-----------------------------------------------------------------------------
(* All together.                                                           *)

Running == /\ status = "off" => depth = 0
           /\ status = "running" => output = "written" /\ Supported(ast) /\ FramesInv

\* What holds of the generator, whatever the program is.
Compiling ==
  /\ FlowInv /\ WrittenLast
  /\ Structured(ast) => WhereInv
  /\ Supported(ast) => StoreInv /\ PromiseInv /\ ClosedInv

LEMMA CompilingAtFirst == ASSUME Init PROVE Compiling
<1>1. FlowInv /\ (Structured(ast) => WhereInv)
  BY FlowAtFirst, WhereStart
<1>2. WrittenLast
  BY DEF Init, WrittenLast
<1> SUFFICES ASSUME Supported(ast) PROVE StoreInv /\ PromiseInv /\ ClosedInv
  BY <1>1, <1>2 DEF Compiling
<1>3. WhereInv /\ phase # "done" /\ NInv
  BY <1>1, SupportedShape DEF Init, FP!Init, WhereInv
<1>4. Left = 0 /\ Len(ast) \in Nat
  BY <1>1, <1>3, LeftFacts, ProgramBodies DEF WhereInv, FlowInv
<1>5. Here = 0
  BY <1>4 DEF Here, Spot, Init
<1>6. \A i : i \notin 1..Len(code)
  BY Nothing DEF Init
<1>7. PromiseInv
  <2>1. FuncsUpTo(Here) = {}
    BY <1>5 DEF FuncsUpTo
  <2>2. thrown = "none" /\ DOMAIN generated = {}
    <3>1. generated = <<>> /\ thrown = "none"
      BY DEF Init, FP!Init
    <3>2. DOMAIN <<>> = {}
      OBVIOUS
    <3> QED BY <3>1, <3>2, Zenon
  <2>3. OpsIn(code) \cap Moving = {}
    BY <1>6 DEF OpsIn
  <2> QED BY <2>1, <2>2, <2>3 DEF PromiseInv
<1>8. StoreInv
  <2>1. Framed(code)
    BY <1>6 DEF Framed
  <2>2. ~(Left > 1)
    BY <1>4
  <2> QED BY <2>1, <2>2 DEF StoreInv
<1>9. ClosedInv
  BY <1>3, <1>4, ClosedAtFirst
<1> QED BY <1>7, <1>8, <1>9

LEMMA CompilingStep == ASSUME Compiling, [Next]_vars PROVE Compiling'
<1>1. /\ Structured(ast)' = Structured(ast) /\ Supported(ast)' = Supported(ast)
      /\ Supported(ast) => Structured(ast) /\ Quadwords(ast)
  BY AstStays, SameProgram, SupportedShape, SupportedQuads
<1>2. FlowInv' /\ WrittenLast' /\ (Structured(ast) => WhereInv')
  BY FlowStep, WhereStep, WrittenLastNext DEF Compiling
<1>3. ASSUME Supported(ast) PROVE StoreInv' /\ PromiseInv' /\ ClosedInv'
  <2>1. FlowInv /\ WhereInv /\ StoreInv /\ PromiseInv /\ ClosedInv /\ Quadwords(ast)
    BY <1>1, <1>3 DEF Compiling
  <2> QED BY <1>3, <2>1, StoreStep, PromiseStep, ClosedStep
<1> QED BY <1>1, <1>2, <1>3 DEF Compiling

\* Code that is written of a supported program can be run.
LEMMA SupportedRuns == ASSUME Compiling, output = "written", Supported(ast) PROVE Runnable
<1>1. WellShaped(ast)
  BY DEF Supported
<1>2. WhereInv
  BY SupportedShape DEF Compiling
<1> QED BY <1>1, <1>2, WrittenRuns DEF Compiling

LEMMA RunningKept ==
  ASSUME Running, UNCHANGED <<status, pc, mem, depth, frames, code, output, ast>>
  PROVE  Running'
<1>1. ASSUME FramesInv PROVE FramesInv'
  <2>1. \A i \in 2..Len(frames) : Called(i)'
    BY <1>1 DEF FramesInv, Called, Inner
  <2>2. (Inner(Len(frames), pc, depth) \/ Entering(Len(frames), pc, depth))'
    BY <1>1 DEF FramesInv, Entering, Inner
  <2> QED BY <1>1, <2>1, <2>2 DEF FramesInv, Frame
<1> QED BY <1>1, SameProgram DEF Running

LEMMA RunningStep ==
  ASSUME Compiling, Running, [Compile \/ Execute]_allVars
  PROVE  Running'
<1>1. CASE UNCHANGED allVars
  <2>1. UNCHANGED <<status, pc, mem, depth, frames, code, output, ast>>
    BY <1>1 DEF allVars, machine, vars, genVars, passVars
  <2> QED BY <2>1, RunningKept
<1>2. CASE Compile
  <2>1. UNCHANGED <<status, pc, mem, depth, frames>> /\ Next
    BY <1>2 DEF Compile, machine
  <2>2. CASE status = "running"
    <3>1. UNCHANGED <<code, output, ast>>
      BY <2>1, <2>2, WrittenStays DEF Compiling, Running
    <3> QED BY <2>1, <3>1, RunningKept
  <2>3. CASE status # "running"
    BY <2>1, <2>3 DEF Running
  <2> QED BY <2>2, <2>3
<1>3. CASE Begin
  <2>1. output = "written" /\ Supported(ast) /\ depth = 0
    BY <1>3 DEF Begin, Running
  <2>2. FramesInv'
    BY <1>3, <2>1, SupportedRuns, FramesAtBegin
  <2>3. status' = "running" /\ ast' = ast /\ output' = output
    BY <1>3 DEF Begin, vars, genVars, passVars
  <2> QED BY <2>1, <2>2, <2>3, SameProgram DEF Running
<1>4. CASE DoExit
  BY <1>4 DEF DoExit, Running
<1>5. CASE \/ DoLabel \/ DoEnter \/ DoEval \/ DoMov \/ DoStore \/ DoJump \/ DoCall \/ DoReturn
  <2>1. status = "running" /\ status' = status /\ ast' = ast /\ output' = output
    BY <1>5 DEF Fetched, DoLabel, DoEnter, DoEval, DoMov, DoStore, DoJump, DoCall, DoReturn,
                vars, genVars, passVars
  <2>2. output = "written" /\ Supported(ast) /\ FramesInv
    BY <2>1 DEF Running
  <2>3. Runnable
    BY <2>2, SupportedRuns
  <2>4. FramesInv'
    BY <1>5, <2>2, <2>3, FramesLabel, FramesEnter, FramesEval, FramesStore, FramesJump, FramesCall,
       FramesReturn
  <2> QED BY <2>1, <2>2, <2>4, SameProgram DEF Running
<1> QED BY <1>1, <1>2, <1>3, <1>4, <1>5 DEF Execute

\* A function that returns has popped just what it has pushed, wherever in the text its code
\* is and however deep the calls are: the frame that enter_context pushes, from the Context of
\* the function, is the one leave_context pops, from the Context of the return; stores stay in
\* between, no jump leads out of the function, and main does not return.  So RET finds what
\* the CALL of generate_call left there.
THEOREM ReturnsAreBalanced == ExecSpec => []ReturnsBalanced
<1>1. ExecInit => Compiling /\ Running
  BY CompilingAtFirst DEF ExecInit, Running
<1>2. Compiling /\ Running /\ [Compile \/ Execute]_allVars => (Compiling /\ Running)'
  <2>1. [Compile \/ Execute]_allVars => [Next]_vars
    BY DEF allVars, Compile, Execute, Begin, DoLabel, DoEnter, DoEval, DoMov, DoStore, DoJump,
           DoCall, DoReturn, DoExit
  <2> QED BY <2>1, CompilingStep, RunningStep
<1>3. Compiling /\ Running => ReturnsBalanced
  <2> SUFFICES ASSUME Compiling, Running, Fetched("return")
               PROVE  /\ depth - QWORD * I.arg = Last(frames).entry
                      /\ ReadMem(mem, Last(frames).entry) = <<"ret", Last(frames).ret>>
    BY DEF ReturnsBalanced
  <2>1. Runnable /\ FramesInv /\ code[pc].op = "return"
    BY SupportedRuns DEF Running, Fetched
  <2>2. PICK n \in Nat : n = Len(frames)
    BY <2>1, FramesFacts
  <2>3. depth - QWORD * code[pc].arg = frames[n].entry /\ Called(n) /\ Last(frames) = frames[n]
    BY <2>1, <2>2, ReturnFinds
  <2> QED BY <2>3 DEF Called, ReadMem, I
<1> QED BY <1>1, <1>2, <1>3, PTL DEF ExecSpec
================================================================================
