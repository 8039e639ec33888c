---------------------------- MODULE FirstPassProofs ----------------------------
(***************************************************************************)
(* For every program, the first pass gives the locals of a function        *)
(* separate places inside its frame (FrameFits), the attributes of a type  *)
(* places inside its size (LayoutFits) and each type an id of its own      *)
(* (IdsNameTypes); and what it has recorded of a function is only ever     *)
(* added to (InfoOnlyGrows).                                               *)
(***************************************************************************)
EXTENDS FirstPass, CallStack

\* The types ts: ids are positions, every type has a size.
IdsOf(ts) == 0..(Len(ts) - 1)
Bytes(ts, id) == ts[id + 1].size

SizesOK(ts) ==
  /\ Len(ts) \in Nat /\ ts = [i \in 1..Len(ts) |-> ts[i]]
  /\ \A id \in IdsOf(ts) : Bytes(ts, id) \in Nat

TypesOK ==
  /\ SizesOK(types)
  /\ \A name \in DOMAIN typeIDs : typeIDs[name] \in IdsOf(types)
  /\ newType.size \in Nat

\* Two locals of a frame.
Separate(ts, info, x, y) ==
  Apart(info.locals[x].location.disp, Bytes(ts, info.locals[x].type),
        info.locals[y].location.disp, Bytes(ts, info.locals[y].type))

LocalOK(ts, info, x) ==
  /\ info.locals[x].type \in IdsOf(ts)
  /\ info.locals[x].location.disp \in Nat
  /\ info.locals[x].location.disp + Bytes(ts, info.locals[x].type) <= info.size

InfoOK(ts, info) ==
  /\ DOMAIN info = {"size", "stack", "locals", "params", "dirty"}
  /\ DOMAIN info.stack = {"reg", "disp"}
  /\ info.size \in Nat /\ info.stack.disp = info.size
  /\ \A x \in DOMAIN info.locals : LocalOK(ts, info, x)
  /\ \A x \in DOMAIN info.locals : \A y \in DOMAIN info.locals \ {x} :
       Separate(ts, info, x, y)

FramesOK(ts, frames) == \A f \in DOMAIN frames : InfoOK(ts, frames[f])

\* The function whose parameters are being passed is not registered yet.
NotYetRegistered ==
  phase = "params" => Current.name \notin DOMAIN functions

FInv ==
  /\ TypesOK
  /\ InfoOK(types, newFunc)
  /\ FramesOK(types, functions)
  /\ NotYetRegistered

-----------------------------------------------------------------------------
(* The types.                                                              *)

\* A step that adds at most one type leaves the others where they are.
TypesKept ==
  \A id \in IdsOf(types) : id \in IdsOf(types') /\ Bytes(types', id) = Bytes(types, id)

LEMMA AppendedType ==
  ASSUME TypesOK, AddType
  PROVE  TypesOK' /\ TypesKept
<1> DEFINE n == Len(types)
<1>1. /\ n \in Nat /\ types = [i \in 1..n |-> types[i]]
      /\ types' = Append(types, newType) /\ newType' = newType
      /\ typeIDs' = Assign(typeIDs, Current.name, n)
      /\ newType.size \in Nat
  BY DEF TypesOK, SizesOK, AddType
<1> HIDE DEF n
<1>2. /\ Len(types') = n + 1
      /\ types' = [i \in 1..(n + 1) |-> IF i = n + 1 THEN newType ELSE types[i]]
  BY <1>1, AppendToStack
<1>3. IdsOf(types') = 0..n /\ IdsOf(types) = 0..(n - 1)
  BY <1>1, <1>2 DEF IdsOf, n
<1>4. \A id \in IdsOf(types) : id \in IdsOf(types') /\ types'[id + 1] = types[id + 1]
  BY <1>1, <1>2, <1>3
<1>5. types'[n + 1] = newType
  BY <1>1, <1>2
<1>6. \A id \in IdsOf(types') : id \in IdsOf(types) \/ id = n
  BY <1>1, <1>3
<1>7. \A id \in IdsOf(types') : Bytes(types', id) \in Nat
  BY <1>1, <1>4, <1>5, <1>6 DEF TypesOK, SizesOK, Bytes
<1>8. \A name \in DOMAIN typeIDs' : typeIDs'[name] \in IdsOf(types')
  <2>1. n \in IdsOf(types')
    BY <1>1, <1>3
  <2>2. \A name \in DOMAIN typeIDs : typeIDs[name] \in IdsOf(types')
    BY <1>4 DEF TypesOK
  <2> QED BY <2>1, <2>2, <1>1 DEF Assign
<1>9. types' = [i \in 1..Len(types') |-> types'[i]]
  BY <1>2
<1>10. SizesOK(types')
  BY <1>1, <1>2, <1>7, <1>9 DEF SizesOK
<1>11. TypesKept
  BY <1>4 DEF TypesKept, Bytes
<1> QED BY <1>1, <1>8, <1>10, <1>11 DEF TypesOK

LEMMA TypesSteps ==
  ASSUME TypesOK, [Next]_vars
  PROVE  TypesOK' /\ TypesKept
<1>1. CASE AddType
  BY <1>1, AppendedType
<1>2. CASE UNCHANGED <<types, typeIDs>> /\ newType'.size \in Nat
  BY <1>2 DEF TypesOK, TypesKept
<1>3. CASE UNCHANGED <<types, typeIDs, newType>>
  BY <1>2, <1>3 DEF TypesOK
<1>4. CASE GenerateType
  BY <1>2, <1>4 DEF GenerateType, Sized, QWORD
<1>5. CASE GenerateAttribute
  <2> DEFINE t == Current.attrs[sub].type
  <2>1. t \in DOMAIN typeIDs /\ newType'.size = newType.size + TypeOf(t).size
    BY <1>5 DEF GenerateAttribute
  <2>2. TypeOf(t).size \in Nat
    BY <2>1 DEF TypesOK, SizesOK, TypeOf, Bytes
  <2>3. newType'.size \in Nat
    BY <2>1, <2>2 DEF TypesOK
  <2> QED BY <1>2, <1>5, <2>3 DEF GenerateAttribute
<1> QED
  BY <1>1, <1>3, <1>4, <1>5
     DEF Next, vars, Throw, SkipInTypes, GenerateTypeTwice, GenerateAttributeUnknown,
         TypesEnd, NoEntryPoint, PassFunc, PassFuncTwice, PassParam, PassParamUnknown,
         RegisterFunc, PassMain, PassMainTwice, PassDecl, PassDeclUnknown,
         PassExpression, SkipItem, EndBody, FunctionsEnd

-----------------------------------------------------------------------------
(* The frames.                                                             *)

LEMMA FreshInfoOK == \A ts, r : InfoOK(ts, FreshInfo(r))
BY DEF InfoOK, FreshInfo

LEMMA InfoKept ==
  \A info : TypesKept /\ InfoOK(types, info) => InfoOK(types', info)
<1> SUFFICES ASSUME NEW info, TypesKept, InfoOK(types, info)
             PROVE  InfoOK(types', info)
  OBVIOUS
<1>1. \A x \in DOMAIN info.locals :
        /\ info.locals[x].type \in IdsOf(types')
        /\ Bytes(types', info.locals[x].type) = Bytes(types, info.locals[x].type)
  BY DEF InfoOK, LocalOK, TypesKept
<1>2. \A x \in DOMAIN info.locals : LocalOK(types', info, x)
  BY <1>1 DEF InfoOK, LocalOK
<1>3. \A x \in DOMAIN info.locals : \A y \in DOMAIN info.locals \ {x} : 
        Separate(types', info, x, y)
  BY <1>1 DEF InfoOK, Separate, Apart
<1> QED BY <1>2, <1>3 DEF InfoOK

\* A declaration: the new local starts where the frame ended.
WithLocal(info, name, id, bytes) ==
  Grow([info EXCEPT !.locals = Assign(@, name, [type |-> id, location |-> info.stack])],
       bytes)

LEMMA LocalAdded ==
  \A ts, info, name : SizesOK(ts) /\ InfoOK(ts, info) =>
    \A id \in IdsOf(ts) : InfoOK(ts, WithLocal(info, name, id, Bytes(ts, id)))
<1> SUFFICES ASSUME NEW ts, SizesOK(ts), NEW info, InfoOK(ts, info), NEW name,
                    NEW id \in IdsOf(ts)
             PROVE  InfoOK(ts, WithLocal(info, name, id, Bytes(ts, id)))
  OBVIOUS
<1> DEFINE variable == [type |-> id, location |-> info.stack]
           mid  == [info EXCEPT !.locals = Assign(@, name, variable)]
           next == Grow(mid, Bytes(ts, id))
           bytes == Bytes(ts, id)
<1>1. bytes \in Nat /\ info.size \in Nat /\ info.stack.disp = info.size
  BY DEF SizesOK, InfoOK
<1>2. /\ DOMAIN mid = DOMAIN info /\ mid.locals = Assign(info.locals, name, variable)
      /\ mid.size = info.size /\ mid.stack = info.stack
  BY DEF InfoOK
<1> HIDE DEF mid
<1>3. /\ DOMAIN next = DOMAIN info /\ DOMAIN next.stack = {"reg", "disp"}
      /\ next.size = info.size + bytes /\ next.stack.disp = info.size + bytes
      /\ next.locals = Assign(info.locals, name, variable)
  BY <1>1, <1>2 DEF Grow, InfoOK
<1> HIDE DEF next
<1>4. /\ DOMAIN next.locals = DOMAIN info.locals \cup {name}
      /\ next.locals[name] = variable
      /\ \A x \in DOMAIN info.locals \ {name} : next.locals[x] = info.locals[x]
  BY <1>3 DEF Assign
<1>5. next.locals[name].type = id /\ next.locals[name].location.disp = info.size
  BY <1>1, <1>4
<1> HIDE DEF variable, bytes
<1>6. LocalOK(ts, next, name)
  BY <1>1, <1>3, <1>5 DEF LocalOK, bytes
<1>7. ASSUME NEW x \in DOMAIN info.locals \ {name}
      PROVE  LocalOK(ts, next, x) /\ Separate(ts, next, x, name) /\ Separate(ts, next, name, x)
  <2>1. /\ next.locals[x] = info.locals[x] /\ LocalOK(ts, info, x)
        /\ Bytes(ts, info.locals[x].type) \in Nat
    BY <1>4, <1>7 DEF InfoOK, SizesOK, LocalOK
  <2> QED BY <2>1, <1>1, <1>3, <1>5 DEF LocalOK, Separate, Apart, bytes
<1>8. \A x, y \in DOMAIN info.locals \ {name} : x # y => Separate(ts, next, x, y)
  BY <1>4 DEF InfoOK, Separate
<1> QED BY <1>1, <1>3, <1>4, <1>6, <1>7, <1>8 DEF InfoOK, WithLocal, next, mid, variable, bytes

\* A parameter that lives on the stack grows the frame under the locals, one in a
\* register leaves it alone.
LEMMA ParamAdded ==
  ASSUME NEW ts, SizesOK(ts), NEW info, InfoOK(ts, info), NEW params, NEW bytes \in Nat
  PROVE  /\ InfoOK(ts, [info EXCEPT !.params = params])
         /\ InfoOK(ts, Grow([info EXCEPT !.params = params], bytes))
<1> DEFINE mid  == [info EXCEPT !.params = params]
           next == Grow(mid, bytes)
<1>1. /\ DOMAIN mid = DOMAIN info /\ mid.locals = info.locals
      /\ mid.size = info.size /\ mid.stack = info.stack
  BY DEF InfoOK
<1> HIDE DEF mid
<1>2. InfoOK(ts, mid)
  BY <1>1 DEF InfoOK, LocalOK, Separate
<1>3. /\ DOMAIN next = DOMAIN info /\ DOMAIN next.stack = {"reg", "disp"}
      /\ next.size = info.size + bytes /\ next.stack.disp = info.size + bytes
      /\ next.locals = info.locals
  BY <1>1 DEF Grow, InfoOK
<1> HIDE DEF next
<1>4. \A x \in DOMAIN info.locals : LocalOK(ts, next, x)
  <2>1. ASSUME NEW x \in DOMAIN info.locals PROVE LocalOK(ts, next, x)
    <3>1. LocalOK(ts, info, x) /\ info.size \in Nat /\ Bytes(ts, info.locals[x].type) \in Nat
      BY DEF InfoOK, LocalOK, SizesOK
    <3> QED BY <3>1, <1>3 DEF LocalOK
  <2> QED BY <2>1
<1>5. InfoOK(ts, next)
  BY <1>3, <1>4 DEF InfoOK, Separate
<1> QED BY <1>2, <1>5 DEF next, mid

LEMMA FramesSteps ==
  ASSUME FInv, [Next]_vars, TypesKept
  PROVE  InfoOK(types', newFunc') /\ FramesOK(types', functions')
<1>1. TypesOK /\ InfoOK(types, newFunc) /\ FramesOK(types, functions)
  BY DEF FInv
<1>2. \A info : InfoOK(types, info) => InfoOK(types', info)
  BY InfoKept
<1>3. \A name : InfoOK(types, Info(name))
  BY <1>1, FreshInfoOK DEF Info, FramesOK
<1>4. ASSUME InfoOK(types, newFunc'), FramesOK(types, functions')
      PROVE  InfoOK(types', newFunc') /\ FramesOK(types', functions')
  BY <1>2, <1>4 DEF FramesOK
<1>5. ASSUME NEW info, InfoOK(types, info), NEW f, functions' = Assign(functions, f, info),
             newFunc' = newFunc
      PROVE  InfoOK(types', newFunc') /\ FramesOK(types', functions')
  BY <1>1, <1>4, <1>5 DEF Assign, FramesOK
<1>6. CASE UNCHANGED <<functions, newFunc>>
  BY <1>1, <1>4, <1>6
<1>7. CASE PassFunc
  BY <1>1, <1>4, <1>7, FreshInfoOK DEF PassFunc
<1>8. CASE PassParam
  <2> DEFINE a == Current.args[sub]
             reg == parameter_reg(paramIndex)
             here == [type |-> typeIDs[a.type], location |-> [reg |-> reg, disp |-> 0]]
             there == [type |-> typeIDs[a.type], location |-> newFunc.stack]
  <2>1. /\ a.type \in DOMAIN typeIDs /\ functions' = functions
        /\ newFunc' = IF reg # "NONE"
                      THEN [newFunc EXCEPT !.params = Assign(@, a.name, here)]
                      ELSE Grow([newFunc EXCEPT !.params = Assign(@, a.name, there)],
                                TypeOf(a.type).size)
    BY <1>8 DEF PassParam
  <2>2. TypeOf(a.type).size \in Nat
    BY <2>1, <1>1 DEF TypesOK, SizesOK, TypeOf, Bytes
  <2> HIDE DEF a, reg, here, there
  <2>3. newFunc' = IF reg # "NONE"
                   THEN [newFunc EXCEPT !.params = Assign(newFunc.params, a.name, here)]
                   ELSE Grow([newFunc EXCEPT !.params =
                                Assign(newFunc.params, a.name, there)],
                             TypeOf(a.type).size)
    BY <2>1
  <2>4. InfoOK(types, newFunc')
    BY <2>2, <2>3, <1>1, ParamAdded DEF TypesOK
  <2> QED BY <2>1, <2>4, <1>1, <1>4
<1>9. CASE RegisterFunc
  BY <1>1, <1>5, <1>9 DEF RegisterFunc
<1>10. CASE PassMain
  BY <1>5, <1>10, FreshInfoOK DEF PassMain
<1>11. CASE PassDecl
  <2> DEFINE id == typeIDs[Item.type]
             added == WithLocal(Info(currFunc), Item.name, id, Bytes(types, id))
  <2>1. functions' = Assign(functions, currFunc, added) /\ newFunc' = newFunc
    BY <1>11 DEF PassDecl, WithLocal, TypeOf, Bytes
  <2>2. id \in IdsOf(types)
    BY <1>1, <1>11 DEF PassDecl, TypesOK
  <2> HIDE DEF id
  <2>3. InfoOK(types, added)
    BY <2>2, <1>1, <1>3, LocalAdded DEF TypesOK
  <2> HIDE DEF added
  <2> QED BY <2>1, <2>3, <1>5
<1>12. CASE PassDeclUnknown
  BY <1>3, <1>5, <1>12 DEF PassDeclUnknown
<1>13. CASE PassExpression
  <2> DEFINE info == Info(currFunc)
             marked == [info EXCEPT !.dirty = TRUE]
  <2>1. functions' = Assign(functions, currFunc, marked) /\ newFunc' = newFunc
    BY <1>13 DEF PassExpression
  <2>2. InfoOK(types, info)
    BY <1>3
  <2> HIDE DEF info
  <2>3. /\ DOMAIN marked = DOMAIN info /\ marked.locals = info.locals
        /\ marked.size = info.size /\ marked.stack = info.stack
    BY <2>2 DEF InfoOK
  <2> HIDE DEF marked
  <2>4. InfoOK(types, marked)
    BY <2>2, <2>3 DEF InfoOK, LocalOK, Separate
  <2> QED BY <2>1, <2>4, <1>5
<1> QED
  BY <1>6, <1>7, <1>8, <1>9, <1>10, <1>11, <1>12, <1>13
     DEF Next, vars, Throw, SkipInTypes, GenerateType, GenerateTypeTwice,
         GenerateAttribute, GenerateAttributeUnknown, AddType, TypesEnd, NoEntryPoint,
         PassFuncTwice, PassParamUnknown, PassMainTwice, SkipItem, EndBody, FunctionsEnd

LEMMA RegisteredSteps ==
  ASSUME NotYetRegistered, [Next]_vars
  PROVE  NotYetRegistered'
<1>1. CASE UNCHANGED <<ast, pos, phase, functions>>
  BY <1>1 DEF NotYetRegistered, Current
<1>2. CASE phase' # "params"
  BY <1>2 DEF NotYetRegistered
<1>3. CASE PassFunc
  BY <1>3 DEF PassFunc, AtStatement, NotYetRegistered, Current
<1>4. CASE SkipInTypes \/ GenerateAttribute
  BY <1>2, <1>4 DEF SkipInTypes, GenerateAttribute, Running
<1>5. CASE PassDecl \/ PassDeclUnknown \/ PassExpression \/ SkipItem
  BY <1>2, <1>5 DEF PassDecl, PassDeclUnknown, PassExpression, SkipItem, AtItem, InBody,
                    AtStatement, Running, CallIsPassed
<1>6. CASE GenerateType \/ AddType \/ TypesEnd \/ RegisterFunc \/ PassMain \/ EndBody
           \/ FunctionsEnd
  BY <1>2, <1>6 DEF GenerateType, AddType, TypesEnd, RegisterFunc, PassMain, EndBody,
                    FunctionsEnd
<1> QED
  BY <1>1, <1>3, <1>4, <1>5, <1>6
     DEF Next, vars, Throw, GenerateTypeTwice, GenerateAttributeUnknown, NoEntryPoint,
         PassFuncTwice, PassParam, PassParamUnknown, PassMainTwice

LEMMA FInvAtFirst ==
  ASSUME Init
  PROVE  FInv
<1>1. /\ Len(types) = 2 /\ types = [i \in 1..2 |-> types[i]]
      /\ types[1].size = 0 /\ types[2].size = 8
  <2>1. \A x, y : /\ Len(<<x, y>>) = 2 /\ <<x, y>>[1] = x /\ <<x, y>>[2] = y
                  /\ <<x, y>> = [i \in 1..2 |-> <<x, y>>[i]]
    OBVIOUS
  <2>2. types = <<Sized(0), Sized(QWORD)>>
    BY DEF Init
  <2>3. Sized(0).size = 0 /\ Sized(QWORD).size = 8
    BY DEF Sized, QWORD
  <2> HIDE DEF Sized
  <2> QED BY <2>1, <2>2, <2>3
<1>2. IdsOf(types) = {0, 1}
  BY <1>1 DEF IdsOf
<1>3. SizesOK(types)
  BY <1>1, <1>2 DEF SizesOK, Bytes
<1>4. TypesOK
  BY <1>2, <1>3 DEF Init, TypesOK, Sized, QWORD
<1>5. InfoOK(types, newFunc)
  BY FreshInfoOK DEF Init
<1>6. FramesOK(types, functions)
  <2>1. functions = <<>>
    BY DEF Init
  <2>2. \A x \in DOMAIN <<>> : FALSE
    OBVIOUS
  <2> QED BY <2>1, <2>2 DEF FramesOK
<1>7. NotYetRegistered
  BY DEF Init, NotYetRegistered
<1> QED BY <1>4, <1>5, <1>6, <1>7 DEF FInv

LEMMA FInvSteps ==
  ASSUME FInv, [Next]_vars
  PROVE  FInv' /\ TypesKept
<1>1. TypesOK' /\ TypesKept
  BY TypesSteps DEF FInv
<1>2. InfoOK(types', newFunc') /\ FramesOK(types', functions')
  BY <1>1, FramesSteps
<1>3. NotYetRegistered'
  BY RegisteredSteps DEF FInv
<1> QED BY <1>1, <1>2, <1>3 DEF FInv

LEMMA FInvHolds == Spec => []FInv
BY FInvAtFirst, FInvSteps, PTL DEF Spec

-----------------------------------------------------------------------------
(* What follows.                                                           *)

\* Whatever a program declares, function_pass gives the locals of a function separate
\* places inside the frame it counts for it.
THEOREM FramesFit == Spec => []FrameFits
<1>1. FInv => FrameFits
  <2> SUFFICES ASSUME FInv, NEW f \in DOMAIN functions,
                      NEW x \in DOMAIN functions[f].locals
               PROVE  /\ Fits(functions[f], x)
                      /\ \A y \in DOMAIN functions[f].locals \ {x} :
                           Separate(types, functions[f], x, y)
    BY DEF FrameFits, Separate, Bytes, SizeOf
  <2> QED BY DEF FInv, FramesOK, InfoOK, LocalOK, Fits, Bytes, SizeOf
<1> QED BY <1>1, FInvHolds, PTL

\* No statement of a program, and no later function, takes back or moves what
\* function_pass has recorded of a function.
THEOREM InfoGrows == Spec => InfoOnlyGrows
<1> DEFINE Kept == \A f \in DOMAIN functions :
                     /\ f \in DOMAIN functions'
                     /\ functions'[f].params = functions[f].params
                     /\ DOMAIN functions[f].locals \subseteq DOMAIN functions'[f].locals
                     /\ functions'[f].size >= functions[f].size
                     /\ functions[f].dirty => functions'[f].dirty
<1>1. ASSUME FInv, [Next]_vars
      PROVE  Kept
  <2>1. CASE functions' = functions
    BY <1>1, <2>1 DEF FInv, FramesOK, InfoOK
  <2>2. ASSUME NEW name, name \notin DOMAIN functions, NEW info,
               functions' = Assign(functions, name, info)
        PROVE  Kept
    BY <1>1, <2>2 DEF FInv, FramesOK, InfoOK, Assign
  <2>3. ASSUME NEW name, NEW info, functions' = Assign(functions, name, info),
               LET old == Info(name)
               IN  /\ info.params = old.params
                   /\ DOMAIN old.locals \subseteq DOMAIN info.locals
                   /\ info.size >= old.size
                   /\ old.dirty => info.dirty
        PROVE  Kept
    BY <1>1, <2>3 DEF FInv, FramesOK, InfoOK, Assign, Info
  <2>4. \A name : InfoOK(types, Info(name))
    BY <1>1, FreshInfoOK DEF Info, FInv, FramesOK
  <2>5. CASE RegisterFunc
    BY <1>1, <2>2, <2>5 DEF RegisterFunc, FInv, NotYetRegistered, Running
  <2>6. CASE PassMain
    BY <2>2, <2>6 DEF PassMain
  <2>7. CASE PassDecl
    <3> DEFINE old == Info(currFunc)
               bytes == TypeOf(Item.type).size
               variable == [type |-> typeIDs[Item.type], location |-> old.stack]
               mid == [old EXCEPT !.locals = Assign(@, Item.name, variable)]
               added == Grow(mid, bytes)
    <3>1. /\ functions' = Assign(functions, currFunc, added)
          /\ bytes \in Nat /\ InfoOK(types, old)
      BY <1>1, <2>4, <2>7 DEF PassDecl, FInv, TypesOK, SizesOK, TypeOf, Bytes
    <3> HIDE DEF bytes, variable
    <3>2. /\ DOMAIN mid = DOMAIN old /\ mid.locals = Assign(old.locals, Item.name, variable)
          /\ mid.size = old.size /\ mid.params = old.params /\ mid.dirty = old.dirty
      BY <3>1 DEF InfoOK
    <3> HIDE DEF mid
    <3>3. /\ added.locals = Assign(old.locals, Item.name, variable)
          /\ added.size = old.size + bytes /\ added.params = old.params
          /\ added.dirty = old.dirty
      BY <3>1, <3>2 DEF Grow, InfoOK
    <3>4. DOMAIN old.locals \subseteq DOMAIN added.locals /\ added.size >= old.size
      BY <3>1, <3>3 DEF Assign, InfoOK
    <3> HIDE DEF added
    <3> QED BY <2>3, <3>1, <3>3, <3>4
  <2>8. CASE PassDeclUnknown
    <3>1. functions' = Assign(functions, currFunc, Info(currFunc))
      BY <2>8 DEF PassDeclUnknown
    <3>2. Info(currFunc).size \in Nat
      BY <2>4 DEF InfoOK
    <3> QED BY <2>3, <3>1, <3>2
  <2>9. CASE PassExpression
    <3> DEFINE old == Info(currFunc)
               marked == [old EXCEPT !.dirty = TRUE]
    <3>1. functions' = Assign(functions, currFunc, marked) /\ InfoOK(types, old)
      BY <2>4, <2>9 DEF PassExpression
    <3>2. /\ marked.locals = old.locals /\ marked.size = old.size
          /\ marked.params = old.params /\ marked.dirty = TRUE /\ old.size \in Nat
      BY <3>1 DEF InfoOK
    <3> HIDE DEF marked
    <3> QED BY <2>3, <3>1, <3>2
  <2> QED
    BY <1>1, <2>1, <2>5, <2>6, <2>7, <2>8, <2>9
       DEF Next, vars, Throw, SkipInTypes, GenerateType, GenerateTypeTwice,
           GenerateAttribute, GenerateAttributeUnknown, AddType, TypesEnd, NoEntryPoint,
           PassFunc, PassFuncTwice, PassParam, PassParamUnknown, PassMainTwice, SkipItem,
           EndBody, FunctionsEnd
<1>2. Spec => [][Kept]_vars
  BY <1>1, FInvHolds, PTL DEF Spec
<1> QED BY <1>2 DEF InfoOnlyGrows

-----------------------------------------------------------------------------
(* The types: their names, and the layout of their attributes.             *)

\* The attributes of a type: each has a place, a size and an end before that of the type.
AttributeOK(ts, t, a) ==
  /\ t.fields[a] \in IdsOf(ts)
  /\ t.offsets[a] \in Nat
  /\ t.offsets[a] + Bytes(ts, t.fields[a]) <= t.end

AttributesApart(ts, t, a, b) ==
  Apart(t.offsets[a], Bytes(ts, t.fields[a]), t.offsets[b], Bytes(ts, t.fields[b]))

LaidOut(ts, t) ==
  /\ t.end \in Nat /\ t.size \in Nat /\ t.end <= t.size
  /\ DOMAIN t.offsets = DOMAIN t.fields
  /\ \A a \in DOMAIN t.fields : AttributeOK(ts, t, a)
  /\ \A a \in DOMAIN t.fields : \A b \in DOMAIN t.fields \ {a} : AttributesApart(ts, t, a, b)

\* Every type is laid out, and made of types with smaller ids.
LayoutInv ==
  /\ LaidOut(types, newType)
  /\ \A id \in IdsOf(types) :
       /\ LaidOut(types, types[id + 1])
       /\ \A a \in DOMAIN types[id + 1].fields : types[id + 1].fields[a] \in 0..(id - 1)

\* Ids and names correspond, and the type that is being generated has a new name.
NamesInv ==
  /\ \A id \in IdsOf(types) : \E name \in DOMAIN typeIDs : typeIDs[name] = id
  /\ \A a, b \in DOMAIN typeIDs : typeIDs[a] = typeIDs[b] => a = b
  /\ phase = "attributes" => Current.name \notin DOMAIN typeIDs

\* The parameters of a function have types, and its frame lies on the stack.
HeaderOK(ts, info) ==
  /\ \A x \in DOMAIN info.params : info.params[x].type \in IdsOf(ts)
  /\ info.stack.reg \in {"RSP", "NONE"}
  /\ info.dirty \in BOOLEAN

HeadersInv ==
  /\ HeaderOK(types, newFunc)
  /\ \A f \in DOMAIN functions : HeaderOK(types, functions[f])

\* An attribute that is added where the type ends.
LEMMA AttributeAdded ==
  ASSUME NEW ts, SizesOK(ts), NEW t, LaidOut(ts, t), NEW name, NEW id \in IdsOf(ts), NEW u,
         u.size = t.size + Bytes(ts, id),
         u.end = t.end + Bytes(ts, id),
         u.offsets = Assign(t.offsets, name, t.end),
         u.fields = Assign(t.fields, name, id)
  PROVE  LaidOut(ts, u)
<1> DEFINE bytes == Bytes(ts, id)
<1>1. bytes \in Nat /\ t.end \in Nat /\ t.size \in Nat /\ t.end <= t.size
  BY DEF SizesOK, LaidOut
<1>2. /\ DOMAIN u.fields = DOMAIN t.fields \cup {name} /\ DOMAIN u.offsets = DOMAIN u.fields
      /\ u.fields[name] = id /\ u.offsets[name] = t.end
      /\ \A a \in DOMAIN t.fields \ {name} :
           u.fields[a] = t.fields[a] /\ u.offsets[a] = t.offsets[a]
  BY DEF Assign, LaidOut
<1>3. u.end \in Nat /\ u.size \in Nat /\ u.end <= u.size
  BY <1>1
<1>4. AttributeOK(ts, u, name)
  BY <1>1, <1>2 DEF AttributeOK
<1>5. ASSUME NEW a \in DOMAIN t.fields \ {name}
      PROVE  /\ AttributeOK(ts, u, a)
             /\ AttributesApart(ts, u, a, name) /\ AttributesApart(ts, u, name, a)
  <2>1. AttributeOK(ts, t, a) /\ Bytes(ts, t.fields[a]) \in Nat
    BY DEF LaidOut, AttributeOK, SizesOK
  <2> QED BY <2>1, <1>1, <1>2 DEF AttributeOK, AttributesApart, Apart
<1>6. \A a, b \in DOMAIN t.fields \ {name} : a # b => AttributesApart(ts, u, a, b)
  BY <1>2 DEF LaidOut, AttributesApart
<1> QED BY <1>2, <1>3, <1>4, <1>5, <1>6 DEF LaidOut

LEMMA LayoutKept ==
  ASSUME NEW t, LaidOut(types, t), TypesKept
  PROVE  LaidOut(types', t)
<1>1. \A a \in DOMAIN t.fields : /\ t.fields[a] \in IdsOf(types')
                                 /\ Bytes(types', t.fields[a]) = Bytes(types, t.fields[a])
  BY DEF LaidOut, AttributeOK, TypesKept
<1>2. \A a \in DOMAIN t.fields : AttributeOK(types', t, a)
  BY <1>1 DEF LaidOut, AttributeOK
<1>3. \A a \in DOMAIN t.fields : \A b \in DOMAIN t.fields \ {a} : AttributesApart(types', t, a, b)
  BY <1>1 DEF LaidOut, AttributesApart
<1> QED BY <1>2, <1>3 DEF LaidOut

LEMMA SizedIsLaidOut == \A ts : LaidOut(ts, Sized(0)) /\ LaidOut(ts, Sized(QWORD))
<1>1. \A x \in DOMAIN <<>> : FALSE
  OBVIOUS
<1> QED BY <1>1 DEF LaidOut, Sized, QWORD

\* What add_type does to the maps.
LEMMA TypeAdded ==
  ASSUME TypesOK, AddType
  PROVE  /\ Len(types) \in Nat
         /\ IdsOf(types') = IdsOf(types) \cup {Len(types)} /\ Len(types) \notin IdsOf(types)
         /\ types'[Len(types) + 1] = newType
         /\ \A id \in IdsOf(types) : types'[id + 1] = types[id + 1]
         /\ typeIDs' = Assign(typeIDs, Current.name, Len(types))
         /\ newType' = newType
<1> DEFINE n == Len(types)
<1>1. /\ n \in Nat /\ types = [i \in 1..n |-> types[i]]
      /\ types' = Append(types, newType) /\ newType' = newType
      /\ typeIDs' = Assign(typeIDs, Current.name, n)
  BY DEF TypesOK, SizesOK, AddType
<1> HIDE DEF n
<1>2. /\ Len(types') = n + 1
      /\ types' = [i \in 1..(n + 1) |-> IF i = n + 1 THEN newType ELSE types[i]]
  BY <1>1, AppendToStack
<1>3. IdsOf(types') = 0..n /\ IdsOf(types) = 0..(n - 1)
  BY <1>1, <1>2 DEF IdsOf, n
<1>4. \A id \in IdsOf(types) : types'[id + 1] = types[id + 1]
  BY <1>1, <1>2, <1>3
<1>5. types'[n + 1] = newType
  BY <1>1, <1>2
<1>6. IdsOf(types') = IdsOf(types) \cup {n} /\ n \notin IdsOf(types)
  BY <1>1, <1>3
<1> QED BY <1>1, <1>4, <1>5, <1>6 DEF n

LEMMA LayoutSteps ==
  ASSUME TypesOK, TypesKept, LayoutInv, [Next]_vars
  PROVE  LayoutInv'
<1>1. CASE AddType
  <2>1. /\ IdsOf(types') = IdsOf(types) \cup {Len(types)}
        /\ types'[Len(types) + 1] = newType /\ newType' = newType
        /\ \A id \in IdsOf(types) : types'[id + 1] = types[id + 1]
    BY <1>1, TypeAdded
  <2>2. LaidOut(types', newType)
    BY LayoutKept DEF LayoutInv
  <2>3. ASSUME NEW id \in IdsOf(types)
        PROVE  LaidOut(types', types'[id + 1])
    BY <2>1, LayoutKept DEF LayoutInv
  <2>4. \A a \in DOMAIN newType.fields : newType.fields[a] \in 0..(Len(types) - 1)
    BY DEF LayoutInv, LaidOut, AttributeOK, IdsOf
  <2> QED BY <2>1, <2>2, <2>3, <2>4 DEF LayoutInv
<1>2. ASSUME UNCHANGED types, LaidOut(types, newType')
      PROVE  LayoutInv'
  BY <1>2 DEF LayoutInv
<1>3. CASE UNCHANGED <<types, newType>>
  BY <1>2, <1>3 DEF LayoutInv
<1>4. CASE GenerateType
  BY <1>2, <1>4, SizedIsLaidOut DEF GenerateType
<1>5. CASE GenerateAttribute
  <2> DEFINE a == Current.attrs[sub]
  <2>1. /\ a.type \in DOMAIN typeIDs
        /\ newType' = [size    |-> newType.size + TypeOf(a.type).size,
                       offsets |-> Assign(newType.offsets, a.name, newType.end),
                       end     |-> newType.end + TypeOf(a.type).size,
                       fields  |-> Assign(newType.fields, a.name, typeIDs[a.type])]
        /\ types' = types
    BY <1>5 DEF GenerateAttribute
  <2> HIDE DEF a
  <2>2. typeIDs[a.type] \in IdsOf(types) /\ TypeOf(a.type).size = Bytes(types, typeIDs[a.type])
    BY <2>1 DEF TypesOK, TypeOf, Bytes
  <2>3. /\ newType'.size = newType.size + Bytes(types, typeIDs[a.type])
        /\ newType'.end = newType.end + Bytes(types, typeIDs[a.type])
        /\ newType'.offsets = Assign(newType.offsets, a.name, newType.end)
        /\ newType'.fields = Assign(newType.fields, a.name, typeIDs[a.type])
    BY <2>1, <2>2
  <2>4. LaidOut(types, newType')
    BY <2>2, <2>3, AttributeAdded DEF TypesOK, LayoutInv
  <2> QED BY <1>2, <2>1, <2>4
<1> QED
  BY <1>1, <1>3, <1>4, <1>5
     DEF Next, vars, Throw, SkipInTypes, GenerateTypeTwice, GenerateAttributeUnknown,
         TypesEnd, NoEntryPoint, PassFunc, PassFuncTwice, PassParam, PassParamUnknown,
         RegisterFunc, PassMain, PassMainTwice, PassDecl, PassDeclUnknown,
         PassExpression, SkipItem, EndBody, FunctionsEnd

LEMMA NamesSteps ==
  ASSUME TypesOK, NamesInv, [Next]_vars
  PROVE  NamesInv'
<1>1. CASE AddType
  <2>1. /\ IdsOf(types') = IdsOf(types) \cup {Len(types)} /\ Len(types) \notin IdsOf(types)
        /\ typeIDs' = Assign(typeIDs, Current.name, Len(types))
    BY <1>1, TypeAdded
  <2>2. Current.name \notin DOMAIN typeIDs /\ phase' # "attributes"
    BY <1>1 DEF AddType, Running, NamesInv
  <2>3. /\ DOMAIN typeIDs' = DOMAIN typeIDs \cup {Current.name}
        /\ typeIDs'[Current.name] = Len(types)
        /\ \A name \in DOMAIN typeIDs : /\ typeIDs'[name] = typeIDs[name]
                                        /\ typeIDs[name] \in IdsOf(types)
    BY <2>1, <2>2 DEF Assign, TypesOK
  <2> QED BY <2>1, <2>2, <2>3 DEF NamesInv
<1>2. CASE UNCHANGED <<types, typeIDs>> /\ phase' # "attributes"
  BY <1>2 DEF NamesInv
<1>3. CASE UNCHANGED <<types, typeIDs, ast, pos, phase>>
  BY <1>3 DEF NamesInv, Current
<1>4. CASE GenerateType
  BY <1>4 DEF GenerateType, NamesInv, Current
<1>5. CASE SkipInTypes
  BY <1>2, <1>5 DEF SkipInTypes, Running
<1>6. CASE PassDecl \/ PassDeclUnknown \/ PassExpression \/ SkipItem
  BY <1>2, <1>6 DEF PassDecl, PassDeclUnknown, PassExpression, SkipItem, AtItem, InBody,
                    AtStatement, Running, CallIsPassed
<1>7. CASE TypesEnd \/ PassFunc \/ RegisterFunc \/ PassMain \/ EndBody \/ FunctionsEnd
  BY <1>2, <1>7 DEF TypesEnd, PassFunc, RegisterFunc, PassMain, EndBody, FunctionsEnd
<1> QED
  BY <1>1, <1>3, <1>4, <1>5, <1>6, <1>7
     DEF Next, vars, Throw, GenerateTypeTwice, GenerateAttribute, GenerateAttributeUnknown,
         NoEntryPoint, PassFuncTwice, PassParam, PassParamUnknown, PassMainTwice

\* The fields of an info that are not written keep their values.
LEMMA FieldsOfGrown ==
  ASSUME NEW ts, NEW info, InfoOK(ts, info), NEW bytes \in Nat
  PROVE  /\ Grow(info, bytes).params = info.params
         /\ Grow(info, bytes).locals = info.locals
         /\ Grow(info, bytes).dirty = info.dirty
         /\ Grow(info, bytes).stack.reg = info.stack.reg
BY DEF InfoOK, Grow

LEMMA FieldsOfExcept ==
  ASSUME NEW ts, NEW info, InfoOK(ts, info), NEW v
  PROVE  LET p == [info EXCEPT !.params = v]
             l == [info EXCEPT !.locals = v]
             d == [info EXCEPT !.dirty = v]
         IN  /\ p.params = v /\ p.locals = info.locals /\ p.dirty = info.dirty
             /\ p.stack = info.stack /\ p.size = info.size /\ DOMAIN p = DOMAIN info
             /\ l.params = info.params /\ l.locals = v /\ l.dirty = info.dirty
             /\ l.stack = info.stack /\ l.size = info.size /\ DOMAIN l = DOMAIN info
             /\ d.params = info.params /\ d.locals = info.locals /\ d.dirty = v
             /\ d.stack = info.stack /\ d.size = info.size /\ DOMAIN d = DOMAIN info
BY DEF InfoOK

\* The frame after a declaration.
VariableAt(id, place) == [type |-> id, location |-> place]

LEMMA FieldsOfWithLocal ==
  \A ts, info, name, id, bytes : InfoOK(ts, info) /\ bytes \in Nat =>
         /\ WithLocal(info, name, id, bytes).params = info.params
         /\ WithLocal(info, name, id, bytes).dirty = info.dirty
         /\ WithLocal(info, name, id, bytes).locals
              = Assign(info.locals, name, VariableAt(id, info.stack))
         /\ WithLocal(info, name, id, bytes).stack.reg = info.stack.reg
<1> SUFFICES ASSUME NEW ts, NEW info, NEW name, NEW id, NEW bytes, InfoOK(ts, info), bytes \in Nat
             PROVE  /\ WithLocal(info, name, id, bytes).params = info.params
                    /\ WithLocal(info, name, id, bytes).dirty = info.dirty
                    /\ WithLocal(info, name, id, bytes).locals
                         = Assign(info.locals, name, VariableAt(id, info.stack))
                    /\ WithLocal(info, name, id, bytes).stack.reg = info.stack.reg
  OBVIOUS
<1> DEFINE locals == Assign(info.locals, name, VariableAt(id, info.stack))
           mid == [info EXCEPT !.locals = locals]
<1>1. WithLocal(info, name, id, bytes) = Grow(mid, bytes)
  BY DEF WithLocal, VariableAt
<1> HIDE DEF locals
<1>2. /\ DOMAIN mid = DOMAIN info /\ mid.locals = locals /\ mid.params = info.params
      /\ mid.dirty = info.dirty /\ mid.stack = info.stack /\ mid.size = info.size
  BY FieldsOfExcept
<1> HIDE DEF mid
<1>3. /\ Grow(mid, bytes).params = mid.params /\ Grow(mid, bytes).locals = mid.locals
      /\ Grow(mid, bytes).dirty = mid.dirty /\ Grow(mid, bytes).stack.reg = mid.stack.reg
  BY <1>2 DEF InfoOK, Grow
<1> QED BY <1>1, <1>2, <1>3 DEF locals

\* What pass_param makes of the info: the parameter is added, the frame may grow.
LEMMA ParamPassed ==
  ASSUME TypesOK, InfoOK(types, newFunc), PassParam
  PROVE  \E name, param :
           /\ name = Current.args[sub].name
           /\ param.type \in IdsOf(types)
           /\ newFunc'.params = Assign(newFunc.params, name, param)
           /\ newFunc'.locals = newFunc.locals /\ newFunc'.dirty = newFunc.dirty
           /\ newFunc'.stack.reg = newFunc.stack.reg
<1> DEFINE a == Current.args[sub]
           reg == parameter_reg(paramIndex)
           place == IF reg # "NONE" THEN [reg |-> reg, disp |-> 0] ELSE newFunc.stack
           param == [type |-> typeIDs[a.type], location |-> place]
           params == Assign(newFunc.params, a.name, param)
           with == [newFunc EXCEPT !.params = params]
           bytes == TypeOf(a.type).size
<1>1. /\ a.type \in DOMAIN typeIDs
      /\ newFunc' = IF reg # "NONE" THEN with ELSE Grow(with, bytes)
  BY DEF PassParam
<1>2. param.type \in IdsOf(types) /\ bytes \in Nat
  BY <1>1 DEF TypesOK, SizesOK, TypeOf, Bytes
<1> HIDE DEF param, a, reg, bytes
<1> HIDE DEF params
<1>3. /\ with.params = params /\ with.locals = newFunc.locals /\ with.dirty = newFunc.dirty
      /\ with.stack = newFunc.stack
  BY FieldsOfExcept
<1>4. InfoOK(types, with)
  BY <1>2, ParamAdded DEF TypesOK
<1> HIDE DEF with
<1>5. /\ newFunc'.params = params /\ newFunc'.locals = newFunc.locals
      /\ newFunc'.dirty = newFunc.dirty /\ newFunc'.stack.reg = newFunc.stack.reg
  BY <1>1, <1>2, <1>3, <1>4, FieldsOfGrown
<1> WITNESS a.name, param
<1> QED BY <1>2, <1>5 DEF params, a

LEMMA HeadersSteps ==
  ASSUME FInv, TypesKept, HeadersInv, [Next]_vars
  PROVE  HeadersInv'
<1>a. TypesOK /\ InfoOK(types, newFunc) /\ \A name : InfoOK(types, Info(name))
  BY FreshInfoOK DEF FInv, FramesOK, Info
<1>1. \A info : HeaderOK(types, info) => HeaderOK(types', info)
  BY DEF HeaderOK, TypesKept
<1>2. \A r \in {"RSP", "NONE"} : HeaderOK(types, FreshInfo(r))
  <2>1. \A x \in DOMAIN <<>> : FALSE
    OBVIOUS
  <2> QED BY <2>1 DEF HeaderOK, FreshInfo
<1>3. \A name : HeaderOK(types, Info(name))
  BY <1>2 DEF HeadersInv, Info
<1>4. ASSUME HeaderOK(types, newFunc'), UNCHANGED functions
      PROVE  HeadersInv'
  BY <1>1, <1>4 DEF HeadersInv
<1>5. ASSUME NEW f, NEW info, HeaderOK(types, info), UNCHANGED newFunc,
             functions' = Assign(functions, f, info)
      PROVE  HeadersInv'
  BY <1>1, <1>5 DEF HeadersInv, Assign
<1>6. CASE UNCHANGED <<newFunc, functions>>
  BY <1>4, <1>6 DEF HeadersInv
<1>7. CASE PassFunc
  BY <1>2, <1>4, <1>7 DEF PassFunc
<1>8. CASE PassParam
  <2>1. PICK name, param :
           /\ param.type \in IdsOf(types)
           /\ newFunc'.params = Assign(newFunc.params, name, param)
           /\ newFunc'.dirty = newFunc.dirty /\ newFunc'.stack.reg = newFunc.stack.reg
    BY <1>a, <1>8, ParamPassed
  <2>2. HeaderOK(types, newFunc')
    BY <2>1 DEF HeadersInv, HeaderOK, Assign
  <2> QED BY <1>4, <1>8, <2>2 DEF PassParam
<1>9. CASE RegisterFunc
  BY <1>5, <1>9 DEF RegisterFunc, HeadersInv
<1>10. CASE PassMain
  BY <1>2, <1>5, <1>10 DEF PassMain
<1>11. CASE PassDecl
  <2> DEFINE id == typeIDs[Item.type]
             old == Info(currFunc)
             bytes == Bytes(types, id)
             added == WithLocal(old, Item.name, id, bytes)
  <2>1. functions' = Assign(functions, currFunc, added) /\ newFunc' = newFunc
    BY <1>11 DEF PassDecl, WithLocal, TypeOf, Bytes
  <2>2. bytes \in Nat /\ InfoOK(types, old)
    BY <1>a, <1>11 DEF PassDecl, TypesOK, SizesOK
  <2> HIDE DEF bytes, id, old
  <2>3. /\ added.params = old.params /\ added.dirty = old.dirty
        /\ added.stack.reg = old.stack.reg
    BY <2>2, FieldsOfWithLocal
  <2>4. HeaderOK(types, old)
    BY <1>3 DEF old
  <2> HIDE DEF added
  <2> QED BY <2>4, <1>5, <2>1, <2>3 DEF HeaderOK
<1>12. CASE PassDeclUnknown
  BY <1>3, <1>5, <1>12 DEF PassDeclUnknown
<1>13. CASE PassExpression
  <2> DEFINE marked == [Info(currFunc) EXCEPT !.dirty = TRUE]
  <2>1. functions' = Assign(functions, currFunc, marked) /\ newFunc' = newFunc
    BY <1>13 DEF PassExpression
  <2>2. /\ marked.params = Info(currFunc).params /\ marked.dirty = TRUE
        /\ marked.stack = Info(currFunc).stack
    BY <1>a, FieldsOfExcept
  <2> HIDE DEF marked
  <2> QED BY <1>3, <1>5, <2>1, <2>2 DEF HeaderOK
<1> QED
  BY <1>6, <1>7, <1>8, <1>9, <1>10, <1>11, <1>12, <1>13
     DEF Next, vars, Throw, SkipInTypes, GenerateType, GenerateTypeTwice,
         GenerateAttribute, GenerateAttributeUnknown, AddType, TypesEnd, NoEntryPoint,
         PassFuncTwice, PassParamUnknown, PassMainTwice, SkipItem, EndBody, FunctionsEnd

\* Where the loops are.
PlaceInv ==
  /\ ast \in Programs
  /\ phase \in {"types", "attributes", "functions", "params", "body", "done"}
  /\ pos \in Nat /\ 1 <= pos /\ pos <= Len(ast) + 1
  /\ phase \in {"attributes", "params", "body"} => pos <= Len(ast)
  /\ phase = "attributes" => Current.k = "type"
  /\ phase = "params" => Current.k = "func"
  /\ phase = "body" => Current.k \in {"func", "main"}
  /\ phase = "done" => pos = Len(ast) + 1
  /\ sub \in Nat \ {0}
  /\ thrown \in {"none", "FirstPassException", "runtime_error"}

LEMMA PlaceSteps ==
  ASSUME PlaceInv, [Next]_vars
  PROVE  PlaceInv'
<1>0. Len(ast) \in Nat
  BY ProgramsAssumption DEF PlaceInv
<1>1. CASE UNCHANGED <<ast, phase, pos>> /\ sub' \in Nat \ {0} /\ UNCHANGED thrown
  BY <1>1 DEF PlaceInv, Current
<1>2. CASE UNCHANGED <<ast, phase, pos, sub>> /\ thrown' \in {"FirstPassException", "runtime_error"}
  BY <1>2 DEF PlaceInv, Current
<1>3. CASE SkipInTypes \/ AddType \/ EndBody
  BY <1>0, <1>3 DEF PlaceInv, SkipInTypes, AddType, EndBody, Running
<1>4. CASE GenerateType
  BY <1>0, <1>4 DEF PlaceInv, GenerateType, AtType, Running, Current
<1>5. CASE TypesEnd \/ FunctionsEnd
  BY <1>0, <1>5 DEF PlaceInv, TypesEnd, FunctionsEnd, Running
<1>6. CASE PassFunc \/ PassMain
  BY <1>0, <1>6 DEF PlaceInv, PassFunc, PassMain, AtStatement, Running, Current
<1>7. CASE RegisterFunc
  BY <1>0, <1>7 DEF PlaceInv, RegisterFunc, Running, Current
<1>8. ASSUME NextItem, UNCHANGED <<ast, phase, thrown>>,
             InBody \/ AtStatement({"decl"} \cup Evaluating) \/ AtStatement({"type", "return", "exit", "asm", "call"})
      PROVE  PlaceInv'
  BY <1>0, <1>8 DEF PlaceInv, NextItem, InBody, AtStatement, Running, Current
<1>9. CASE PassDecl \/ PassExpression \/ SkipItem
  BY <1>8, <1>9 DEF PassDecl, PassExpression, SkipItem, AtItem, AtStatement, CallIsPassed
<1>10. CASE GenerateAttribute \/ PassParam
  BY <1>1, <1>10 DEF GenerateAttribute, PassParam, PlaceInv
<1>11. CASE UNCHANGED vars
  BY <1>1, <1>11 DEF vars, PlaceInv
<1> QED
  BY <1>2, <1>3, <1>4, <1>5, <1>6, <1>7, <1>9, <1>10, <1>11
     DEF Next, Throw, GenerateTypeTwice, GenerateAttributeUnknown, NoEntryPoint,
         PassFuncTwice, PassParamUnknown, PassMainTwice, PassDeclUnknown

\* All that is known of the passes' records.
TInv == FInv /\ LayoutInv /\ NamesInv /\ HeadersInv

LEMMA TInvAtFirst ==
  ASSUME Init
  PROVE  TInv /\ PlaceInv
<1>1. FInv
  BY FInvAtFirst
<1>2. IdsOf(types) = {0, 1} /\ types[1] = Sized(0) /\ types[2] = Sized(QWORD)
  <2>1. \A x, y : Len(<<x, y>>) = 2 /\ <<x, y>>[1] = x /\ <<x, y>>[2] = y
    OBVIOUS
  <2>2. types = <<Sized(0), Sized(QWORD)>>
    BY DEF Init
  <2>3. IdsOf(types) = 0..(2 - 1)
    BY <2>1, <2>2 DEF IdsOf
  <2> QED BY <2>1, <2>2, <2>3
<1>3. \A x \in DOMAIN <<>> : FALSE
  OBVIOUS
<1>4. LayoutInv
  <2>1. DOMAIN types[1].fields = {} /\ DOMAIN types[2].fields = {}
    BY <1>2, <1>3 DEF Sized
  <2>2. \A id \in IdsOf(types) : LaidOut(types, types[id + 1])
    BY <1>2, SizedIsLaidOut
  <2>3. \A id \in IdsOf(types) : DOMAIN types[id + 1].fields = {}
    BY <1>2, <2>1
  <2>4. LaidOut(types, newType)
    BY SizedIsLaidOut DEF Init
  <2> QED BY <2>2, <2>3, <2>4 DEF LayoutInv
<1>5. NamesInv
  <2>1. DOMAIN typeIDs = {"none", "int"} /\ typeIDs["none"] = 0 /\ typeIDs["int"] = 1
    BY DEF Init
  <2>2. phase # "attributes"
    BY DEF Init
  <2> QED BY <1>2, <2>1, <2>2 DEF NamesInv
<1>6. HeadersInv
  <2>1. functions = <<>> /\ newFunc = FreshInfo("NONE")
    BY DEF Init
  <2> QED BY <1>3, <2>1 DEF HeadersInv, HeaderOK, FreshInfo
<1>7. PlaceInv
  <2>1. ast \in Programs /\ phase = "types" /\ pos = 1 /\ sub = 1 /\ thrown = "none"
    BY DEF Init
  <2>2. Len(ast) \in Nat
    BY <2>1, ProgramsAssumption
  <2> QED BY <2>1, <2>2 DEF PlaceInv
<1> QED BY <1>1, <1>4, <1>5, <1>6, <1>7 DEF TInv

LEMMA TInvSteps ==
  ASSUME TInv, [Next]_vars
  PROVE  TInv' /\ TypesKept
<1>1. FInv /\ FInv' /\ TypesKept /\ TypesOK
  BY FInvSteps DEF TInv, FInv
<1>2. LayoutInv' /\ NamesInv' /\ HeadersInv'
  BY <1>1, LayoutSteps, NamesSteps, HeadersSteps DEF TInv
<1> QED BY <1>1, <1>2 DEF TInv

LEMMA TInvHolds == Spec => [](TInv /\ PlaceInv)
<1>1. TInv /\ PlaceInv /\ [Next]_vars => TInv' /\ PlaceInv'
  BY TInvSteps, PlaceSteps
<1> QED BY <1>1, TInvAtFirst, PTL DEF Spec

\* For every program the passes' variables keep their types: sizes never become negative
\* and the loops stay within what they run over.
THEOREM TypeCorrect == Spec => []TypeOK
<1>1. TInv /\ PlaceInv => TypeOK
  <2> SUFFICES ASSUME TInv, PlaceInv PROVE TypeOK
    OBVIOUS
  <2>1. pos \in 1..(Len(ast) + 1)
    <3>1. Len(ast) \in Nat
      BY ProgramsAssumption DEF PlaceInv
    <3> QED BY <3>1 DEF PlaceInv
  <2>2. \A f \in DOMAIN functions :
          /\ functions[f].size \in Nat /\ functions[f].dirty \in BOOLEAN
          /\ functions[f].stack.reg \in {"RSP", "NONE"}
    BY DEF TInv, FInv, FramesOK, InfoOK, HeadersInv, HeaderOK
  <2>3. \A i \in Ids : SizeOf(i) \in Nat
    BY DEF TInv, FInv, TypesOK, SizesOK, Ids, IdsOf, SizeOf, Bytes
  <2> QED BY <2>1, <2>2, <2>3 DEF TypeOK, PlaceInv
<1> QED BY <1>1, TInvHolds, PTL

\* For every program ids and type names correspond, no type contains itself, and every
\* variable and parameter that function_pass records has a type.
THEOREM TypesAreNamed == Spec => []IdsNameTypes
<1>1. TInv => IdsNameTypes
  <2> SUFFICES ASSUME TInv PROVE IdsNameTypes
    OBVIOUS
  <2>1. Ids = IdsOf(types)
    BY DEF Ids, IdsOf
  <2>2. \A f \in DOMAIN functions : \A x \in DOMAIN functions[f].locals :
          functions[f].locals[x].type \in Ids
    BY <2>1 DEF TInv, FInv, FramesOK, InfoOK, LocalOK
  <2>3. \A f \in DOMAIN functions : \A x \in DOMAIN functions[f].params :
          functions[f].params[x].type \in Ids
    BY <2>1 DEF TInv, HeadersInv, HeaderOK
  <2>4. \A a, b \in DOMAIN typeIDs : typeIDs[a] \in Ids /\ (typeIDs[a] = typeIDs[b] => a = b)
    BY <2>1 DEF TInv, FInv, TypesOK, NamesInv
  <2> QED BY <2>1, <2>2, <2>3, <2>4 DEF TInv, NamesInv, LayoutInv, IdsNameTypes
<1> QED BY <1>1, TInvHolds, PTL

\* For every program the attributes of a type lie inside it, apart from each other, also
\* when a name is given to two of them.
THEOREM AttributesFit == Spec => []LayoutFits
<1>1. TInv => LayoutFits
  <2> SUFFICES ASSUME TInv, NEW id \in Ids, NEW a \in DOMAIN types[id + 1].offsets
               PROVE  LET t == types[id + 1]
                      IN  /\ t.offsets[a] >= 0
                          /\ t.offsets[a] + SizeOf(t.fields[a]) <= t.size
                          /\ \A b \in DOMAIN t.offsets \ {a} :
                               Apart(t.offsets[a], SizeOf(t.fields[a]),
                                     t.offsets[b], SizeOf(t.fields[b]))
    BY DEF LayoutFits
  <2> DEFINE t == types[id + 1]
  <2>1. LaidOut(types, t) /\ id \in IdsOf(types) /\ \A i : SizeOf(i) = Bytes(types, i)
    BY DEF TInv, LayoutInv, Ids, IdsOf, SizeOf, Bytes
  <2>2. a \in DOMAIN t.fields /\ AttributeOK(types, t, a) /\ Bytes(types, t.fields[a]) \in Nat
    BY <2>1 DEF LaidOut, AttributeOK, TInv, FInv, TypesOK, SizesOK
  <2> HIDE DEF t
  <2>3. t.offsets[a] >= 0 /\ t.offsets[a] + SizeOf(t.fields[a]) <= t.size
    BY <2>1, <2>2 DEF LaidOut, AttributeOK
  <2>4. \A b \in DOMAIN t.offsets \ {a} :
          Apart(t.offsets[a], SizeOf(t.fields[a]), t.offsets[b], SizeOf(t.fields[b]))
    BY <2>1, <2>2 DEF LaidOut, AttributesApart
  <2> QED BY <2>3, <2>4 DEF t
<1> QED BY <1>1, TInvHolds, PTL

=============================================================================
