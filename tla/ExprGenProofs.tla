---------------------------- MODULE ExprGenProofs ----------------------------
(***************************************************************************)
(* Theorems of ExprGen for every set of variables, functions and operators *)
(* and for trees of every size.                                            *)
(***************************************************************************)
EXTENDS ExprGen, CallStack

-----------------------------------------------------------------------------
(* The displacements.                                                      *)

\* What DispTracksStack needs to be inductive: the machine and the addresses are
\* numbers, and they agree.
Tracks(g) ==
  /\ g.depth \in Int
  /\ \A v \in Vars : /\ g.variables[v].disp \in Int
                       /\ g.variables[v].reg = home[v].reg
  /\ \A v \in Vars : g.variables[v].reg = "RSP" =>
                       g.depth - g.variables[v].disp = home[v].pos

\* Every way the generator touches the machine keeps the addresses right.
LEMMA PushTracks == \A g, r : Tracks(g) => Tracks(Push(g, r))
BY DEF Tracks, Push, Shift, QWORD

LEMMA PopTracks == \A g, r : Tracks(g) => Tracks(Pop(g, r))
BY DEF Tracks, Pop, Shift, QWORD

LEMMA SetTracks == \A g, r, v : Tracks(g) => Tracks(Set(g, r, v))
BY DEF Tracks, Set

LEMMA FetchTracks == \A g : Tracks(g) => Tracks(Fetch(g))
BY PopTracks DEF Fetch

LEMMA CallTracks == \A g, f, n : Tracks(g) => Tracks(AfterCall(g, f, n))
BY DEF Tracks, AfterCall

LEMMA HomePosition ==
  ASSUME NEW h \in Homes
  PROVE  /\ h.pos \in Int
         /\ h.reg \in {"RSP", "RDI"}
         /\ h = [reg |-> h.reg, pos |-> h.pos]
         /\ h.reg = "RSP" => \E s \in 1..FrameSlots : h.pos = QWORD * s
BY ConstantsAssumption DEF Homes, QWORD, ConstantsAssumption

LEMMA InitTracks == Init => Tracks(m)
<1> SUFFICES ASSUME Init PROVE Tracks(m)
  OBVIOUS
<1>1. Base \in Int
  BY ConstantsAssumption DEF Base, QWORD, ConstantsAssumption
<1>2. \A v \in Vars : home[v].pos \in Int
  BY HomePosition DEF Init
<1> QED BY <1>1, <1>2 DEF Init, Tracks

LEMMA NextTracks == Tracks(m) /\ [Next]_vars => Tracks(m)'
<1> SUFFICES ASSUME Tracks(m), [Next]_vars PROVE Tracks(m)'
  OBVIOUS
<1>1. home' = home
  BY DEF Next, vars, GenExpression, ExprEnd, GenBinary, GenLeft, CombineRDX, CombineDiv,
         CombineMod, GenUnary, UnaryEnd, GenParen, GenNumber, GenNumberTooLarge,
         GenString, GenVariable, GenUnknownVariable, GenCall, GenBadCall,
         GenUnknownCall, PlaceArg, EmitCall, Throw
<1>2. SUFFICES Tracks(m')
  BY <1>1 DEF Tracks
<1>3. CASE m' = m
  BY <1>3
<1>4. CASE ExprEnd
  BY <1>4, FetchTracks DEF ExprEnd
<1>5. CASE GenLeft
  BY <1>5, PushTracks DEF GenLeft
<1>6. CASE CombineRDX
  BY <1>6, FetchTracks, PopTracks, SetTracks DEF CombineRDX
<1>7. CASE CombineDiv
  BY <1>7, FetchTracks, PopTracks, SetTracks DEF CombineDiv
<1>8. CASE CombineMod
  BY <1>8, FetchTracks DEF CombineMod
<1>9. CASE UnaryEnd
  BY <1>9, FetchTracks, SetTracks DEF UnaryEnd
<1>10. CASE GenNumber
  BY <1>10, SetTracks DEF GenNumber
<1>11. CASE \E v \in Idents, offset \in Offsets : GenVariable(v, offset)
  BY <1>11, SetTracks DEF GenVariable
<1>12. CASE PlaceArg
  BY <1>12, PushTracks, SetTracks DEF PlaceArg
<1>13. CASE EmitCall
  BY <1>13, CallTracks DEF EmitCall
<1> QED
  BY <1>3, <1>4, <1>5, <1>6, <1>7, <1>8, <1>9, <1>10, <1>11, <1>12, <1>13
     DEF Next, vars, GenExpression, GenBinary, GenUnary, GenParen, GenNumberTooLarge,
         GenString, GenUnknownVariable, GenCall, GenBadCall, GenUnknownCall, Throw

\* In every state of every generation, whatever the tree and the calls in it, the
\* address held for a stack variable names the quadword the variable lives in.
THEOREM DisplacementsCorrect == Spec => []DispTracksStack
<1>1. Tracks(m) => DispTracksStack
  BY DEF Tracks, DispTracksStack
<1> QED BY <1>1, InitTracks, NextTracks, PTL DEF Spec

-----------------------------------------------------------------------------
(* The call stack of the generator.                                        *)

Shape ==
  /\ IsStack(work)
  /\ \A i \in 1..Len(work) : work[i].sp \in Int

LEMMA StackLength ==
  ASSUME NEW s, IsStack(s)
  PROVE  Len(s) \in Nat /\ (s = <<>> <=> Len(s) = 0)
BY EmptySeq, LenProperties DEF IsStack

LEMMA ShapePop ==
  Shape /\ work # <<>> /\ work' = Rest => Shape' /\ Popped(work', work)
<1> SUFFICES ASSUME Shape, work # <<>>, work' = Rest
             PROVE  Shape' /\ Popped(work', work)
  OBVIOUS
<1>1. Popped(work', work)
  BY PopStack DEF Shape, Rest, Below
<1> QED BY <1>1 DEF Shape, Popped

LEMMA ShapeOne ==
  \A a : Shape /\ work # <<>> /\ work' = Rest \o <<a>> /\ a.sp \in Int
          => Shape' /\ Topped(work', work, a)
<1> SUFFICES ASSUME NEW a, Shape, work # <<>>, work' = Rest \o <<a>>, a.sp \in Int
             PROVE  Shape' /\ Topped(work', work, a)
  OBVIOUS
<1>1. work' = Below(work) \o <<a>> /\ IsStack(work)
  BY DEF Rest, Below, Shape
<1>2. Topped(work', work, a)
  BY <1>1, ReplaceByOne
<1>3. \A i \in 1..Len(work') : i = Len(work) \/ i \in 1..(Len(work) - 1)
  BY <1>2 DEF Topped
<1>4. \A i \in 1..Len(work') : work'[i].sp \in Int
  BY <1>2, <1>3 DEF Shape, Topped
<1> QED BY <1>2, <1>4 DEF Shape, Topped

LEMMA ShapeTwo ==
  \A a, b : /\ Shape /\ work # <<>> /\ work' = Rest \o <<a, b>>
            /\ a.sp \in Int /\ b.sp \in Int
            => Shape' /\ ToppedByTwo(work', work, a, b)
<1> SUFFICES ASSUME NEW a, NEW b, Shape, work # <<>>, work' = Rest \o <<a, b>>,
                    a.sp \in Int, b.sp \in Int
             PROVE  Shape' /\ ToppedByTwo(work', work, a, b)
  OBVIOUS
<1>1. work' = Below(work) \o <<a, b>> /\ IsStack(work)
  BY DEF Rest, Below, Shape
<1>2. ToppedByTwo(work', work, a, b)
  BY <1>1, ReplaceByTwo
<1>3. \A i \in 1..Len(work') :
        i = Len(work) + 1 \/ i = Len(work) \/ i \in 1..(Len(work) - 1)
  BY <1>2 DEF ToppedByTwo
<1>4. \A i \in 1..Len(work') : work'[i].sp \in Int
  BY <1>2, <1>3 DEF Shape, ToppedByTwo
<1> QED BY <1>2, <1>4 DEF Shape, ToppedByTwo

LEMMA TopInShape == Shape /\ work # <<>> => Top.sp \in Int
BY StackLength DEF Shape, Top

LEMMA NextShape == Shape /\ [Next]_vars => Shape'
<1> SUFFICES ASSUME Shape, [Next]_vars PROVE Shape'
  OBVIOUS
<1>1. CASE work' = work
  BY <1>1 DEF Shape
<1>2. CASE work # <<>> /\ work' = Rest
  BY <1>2, ShapePop
<1>3. CASE work # <<>> /\ \E a : a.sp \in Int /\ work' = Rest \o <<a>>
  BY <1>3, ShapeOne
<1>4. CASE work # <<>> /\ \E a, b : /\ a.sp \in Int /\ b.sp \in Int
                                    /\ work' = Rest \o <<a, b>>
  BY <1>4, ShapeTwo
<1>5. CASE GenExpression
  BY <1>4, <1>5, TopInShape DEF GenExpression, Running, End, Node
<1>6. CASE \E op \in Ops : GenBinary(op)
  BY <1>4, <1>6, TopInShape DEF GenBinary, Running, PushRight, Node
<1>7. CASE GenLeft
  <2> DEFINE a == Combine(Top.op, want, Top.sp + QWORD)
             b == Node(Level(Top.op) + 1, Top.sp + QWORD)
  <2>1. work # <<>> /\ work' = Rest \o <<a, b>>
    BY <1>7 DEF GenLeft, Running
  <2>2. a.sp \in Int /\ b.sp \in Int
    BY <2>1, TopInShape DEF Combine, Node, QWORD
  <2> HIDE DEF a, b
  <2> QED BY <2>1, <2>2, <1>4
<1>8. CASE \E op \in UnaryOps : GenUnary(op)
  BY <1>4, <1>8, TopInShape DEF GenUnary, Running, Prefix, Node
<1>9. CASE GenParen
  BY <1>3, <1>9, TopInShape DEF GenParen, AtPrimary, Running, Expr
<1>10. CASE \E f \in Callees, n \in ArgCounts : GenCall(f, n)
  BY <1>3, <1>4, <1>10, TopInShape DEF GenCall, AtPrimary, Running, Expr, Call, Place
<1>11. CASE PlaceArg
  BY <1>3, <1>4, <1>11, TopInShape DEF PlaceArg, Running, Expr, Call, Place
<1>12. CASE ExprEnd \/ CombineRDX \/ CombineDiv \/ CombineMod \/ UnaryEnd
              \/ GenNumber \/ EmitCall
              \/ \E v \in Idents, offset \in Offsets : GenVariable(v, offset)
  BY <1>2, <1>12 DEF ExprEnd, CombineRDX, CombineDiv, CombineMod, UnaryEnd, GenNumber,
                     EmitCall, GenVariable, AtPrimary, Running
<1> QED
  BY <1>1, <1>5, <1>6, <1>7, <1>8, <1>9, <1>10, <1>11, <1>12
     DEF Next, vars, GenNumberTooLarge, GenString, GenUnknownVariable, GenBadCall,
         GenUnknownCall, Throw

LEMMA InitShape == Init => Shape /\ Len(work) = 1 /\ work[1] = Expr(Base)
<1> SUFFICES ASSUME Init PROVE Shape /\ Len(work) = 1 /\ work[1] = Expr(Base)
  OBVIOUS
<1> DEFINE a == Expr(Base)
<1>1. work = <<a>> /\ a.sp = Base
  BY DEF Init, Expr
<1>2. Base \in Int
  BY ConstantsAssumption DEF ConstantsAssumption, Base, QWORD
<1> HIDE DEF a
<1>3. \A x : <<x>> \in Seq({x}) /\ Len(<<x>>) = 1 /\ <<x>>[1] = x
  OBVIOUS
<1>4. work \in Seq({a}) /\ Len(work) = 1 /\ work[1] = a
  BY <1>1, <1>3, Zenon
<1>5. IsStack(work)
  BY <1>4, StackOfSeq
<1>6. \A i \in 1..Len(work) : work[i].sp \in Int
  BY <1>1, <1>2, <1>4
<1> QED BY <1>4, <1>5, <1>6 DEF Shape, a

-----------------------------------------------------------------------------
(* The types.                                                              *)

\* The machine, and the addresses the generator knows.
MachineOK(g) ==
  /\ DOMAIN g = {"regs", "mem", "depth", "variables"}
  /\ DOMAIN g.regs = Registers
  /\ g.depth \in Int
  /\ g.variables \in [Vars -> [reg : {"RSP", "RDI"}, disp : Int]]

ItemOK(item) ==
  /\ item.k = "node" => item.level \in 0..6
  /\ item.k = "push" => item.op \in Ops

ItemsOK == \A i \in 1..Len(work) : ItemOK(work[i])

\* What TypeOK needs to be inductive: the operator that waits for its left side has a level.
TypeInv ==
  /\ MachineOK(m)
  /\ home \in [Vars -> Homes]
  /\ exprInReg \in BOOLEAN /\ clean \in BOOLEAN
  /\ fuel \in 0..MaxNodes
  /\ Shape /\ ItemsOK

LEMMA ShiftOK ==
  ASSUME NEW f \in [Vars -> [reg : {"RSP", "RDI"}, disp : Int]], NEW d \in Int
  PROVE  Shift(f, d) \in [Vars -> [reg : {"RSP", "RDI"}, disp : Int]]
BY DEF Shift

LEMMA MachineSteps ==
  \A g : MachineOK(g) =>
    /\ \A r : MachineOK(Push(g, r)) /\ MachineOK(Pop(g, r)) /\ \A v : MachineOK(Set(g, r, v))
    /\ MachineOK(Fetch(g))
    /\ \A f, n : MachineOK(AfterCall(g, f, n))
<1> SUFFICES ASSUME NEW g, MachineOK(g)
             PROVE  /\ \A r : /\ MachineOK(Push(g, r)) /\ MachineOK(Pop(g, r))
                              /\ \A v : MachineOK(Set(g, r, v))
                    /\ MachineOK(Fetch(g))
                    /\ \A f, n : MachineOK(AfterCall(g, f, n))
  OBVIOUS
<1>1. /\ DOMAIN g.regs = Registers /\ g.depth \in Int
      /\ g.variables \in [Vars -> [reg : {"RSP", "RDI"}, disp : Int]]
      /\ Shift(g.variables, QWORD) \in [Vars -> [reg : {"RSP", "RDI"}, disp : Int]]
      /\ Shift(g.variables, -QWORD) \in [Vars -> [reg : {"RSP", "RDI"}, disp : Int]]
  BY ShiftOK DEF MachineOK, QWORD
<1>2. \A r, v : DOMAIN WriteReg(g.regs, r, v) = Registers
  BY DEF WriteReg
<1>3. \A r : MachineOK(Push(g, r))
  BY <1>1 DEF MachineOK, Push, QWORD
<1>4. \A r : MachineOK(Pop(g, r))
  BY <1>1, <1>2 DEF MachineOK, Pop, QWORD
<1>5. \A r, v : MachineOK(Set(g, r, v))
  BY <1>1, <1>2 DEF MachineOK, Set
<1>6. \A f, n : MachineOK(AfterCall(g, f, n))
  BY <1>1 DEF MachineOK, AfterCall
<1> QED BY <1>3, <1>4, <1>5, <1>6 DEF Fetch

LEMMA NextMachine == MachineOK(m) /\ [Next]_vars => MachineOK(m')
<1> SUFFICES ASSUME MachineOK(m), [Next]_vars PROVE MachineOK(m')
  OBVIOUS
<1>1. CASE m' = m
  BY <1>1
<1>2. CASE ExprEnd \/ CombineMod
  BY <1>2, MachineSteps DEF ExprEnd, CombineMod
<1>3. CASE GenLeft
  BY <1>3, MachineSteps DEF GenLeft
<1>4. CASE CombineRDX
  BY <1>4, MachineSteps DEF CombineRDX
<1>5. CASE CombineDiv
  BY <1>5, MachineSteps DEF CombineDiv
<1>6. CASE UnaryEnd
  BY <1>6, MachineSteps DEF UnaryEnd
<1>7. CASE GenNumber \/ \E v \in Idents, offset \in Offsets : GenVariable(v, offset)
  BY <1>7, MachineSteps DEF GenNumber, GenVariable
<1>8. CASE PlaceArg
  BY <1>8, MachineSteps DEF PlaceArg
<1>9. CASE EmitCall
  BY <1>9, MachineSteps DEF EmitCall
<1> QED
  BY <1>1, <1>2, <1>3, <1>4, <1>5, <1>6, <1>7, <1>8, <1>9
     DEF Next, vars, GenExpression, GenBinary, GenUnary, GenParen, GenNumberTooLarge,
         GenString, GenUnknownVariable, GenCall, GenBadCall, GenUnknownCall, Throw

\* The items that replace the top.
LEMMA ItemsPop == Shape /\ ItemsOK /\ work # <<>> /\ work' = Rest => ItemsOK'
<1> SUFFICES ASSUME Shape, ItemsOK, work # <<>>, work' = Rest PROVE ItemsOK'
  OBVIOUS
<1>1. Popped(work', work)
  BY ShapePop
<1>2. ItemsOK' <=> \A i \in 1..Len(work') : ItemOK(work'[i])
  BY DEF ItemsOK, ItemOK
<1> QED BY <1>1, <1>2 DEF ItemsOK, Popped

LEMMA ItemsOne ==
  \A a : /\ Shape /\ ItemsOK /\ work # <<>> /\ work' = Rest \o <<a>> /\ a.sp \in Int
         /\ ItemOK(a)
         => ItemsOK'
<1> SUFFICES ASSUME NEW a, Shape, ItemsOK, work # <<>>, work' = Rest \o <<a>>, a.sp \in Int,
                    ItemOK(a)
             PROVE  ItemsOK'
  OBVIOUS
<1>1. Topped(work', work, a)
  BY ShapeOne
<1>2. ItemsOK' <=> \A i \in 1..Len(work') : ItemOK(work'[i])
  BY DEF ItemsOK, ItemOK
<1>3. \A i \in 1..Len(work') : i = Len(work) \/ i \in 1..(Len(work) - 1)
  BY <1>1 DEF Topped
<1> QED BY <1>1, <1>2, <1>3 DEF ItemsOK, Topped

LEMMA ItemsTwo ==
  \A a, b : /\ Shape /\ ItemsOK /\ work # <<>> /\ work' = Rest \o <<a, b>>
            /\ a.sp \in Int /\ b.sp \in Int /\ ItemOK(a) /\ ItemOK(b)
            => ItemsOK'
<1> SUFFICES ASSUME NEW a, NEW b, Shape, ItemsOK, work # <<>>, work' = Rest \o <<a, b>>,
                    a.sp \in Int, b.sp \in Int, ItemOK(a), ItemOK(b)
             PROVE  ItemsOK'
  OBVIOUS
<1>1. ToppedByTwo(work', work, a, b)
  BY ShapeTwo
<1>2. ItemsOK' <=> \A i \in 1..Len(work') : ItemOK(work'[i])
  BY DEF ItemsOK, ItemOK
<1>3. \A i \in 1..Len(work') :
        i = Len(work) + 1 \/ i = Len(work) \/ i \in 1..(Len(work) - 1)
  BY <1>1 DEF ToppedByTwo
<1>4. /\ work'[Len(work) + 1] = b /\ work'[Len(work)] = a /\ Len(work) \in Nat
      /\ \A i \in 1..(Len(work) - 1) : work'[i] = work[i] /\ i \in 1..Len(work)
  BY <1>1 DEF ToppedByTwo
<1>5. \A i \in 1..(Len(work) - 1) : ItemOK(work'[i])
  BY <1>4 DEF ItemsOK
<1> QED BY <1>2, <1>3, <1>4, <1>5

\* The items that the steps put there.
LEMMA MadeItems ==
  \A sp \in Int :
    /\ ItemOK(Expr(sp)) /\ Expr(sp).sp = sp /\ ItemOK(End(sp)) /\ End(sp).sp = sp
    /\ \A l \in 0..6 : ItemOK(Node(l, sp)) /\ Node(l, sp).sp = sp
    /\ \A op \in Ops : ItemOK(PushRight(op, sp)) /\ PushRight(op, sp).sp = sp
    /\ \A op, r : ItemOK(Combine(op, r, sp)) /\ Combine(op, r, sp).sp = sp
    /\ \A op : ItemOK(Prefix(op, sp)) /\ Prefix(op, sp).sp = sp
    /\ \A f, n, args : /\ ItemOK(Place(f, n, args, sp)) /\ Place(f, n, args, sp).sp = sp
                       /\ ItemOK(Call(f, n, args, sp)) /\ Call(f, n, args, sp).sp = sp
BY DEF ItemOK, Expr, End, Node, PushRight, Combine, Prefix, Place, Call

LEMMA OpLevel == \A op \in Ops : Level(op) \in 1..4
BY ConstantsAssumption
   DEF ConstantsAssumption, Level, BinaryOps, EqualityOps, ComparisonOps, TermOps, FactorOps

LEMMA NextItems == Shape /\ ItemsOK /\ [Next]_vars => ItemsOK'
<1> SUFFICES ASSUME Shape, ItemsOK, [Next]_vars PROVE ItemsOK'
  OBVIOUS
<1>1. CASE work' = work
  BY <1>1 DEF ItemsOK, ItemOK
<1>2. CASE work # <<>> /\ work' = Rest
  BY <1>2, ItemsPop
<1>3. CASE work # <<>> /\ \E a : a.sp \in Int /\ ItemOK(a) /\ work' = Rest \o <<a>>
  BY <1>3, ItemsOne
<1>4. CASE work # <<>> /\ \E a, b : /\ a.sp \in Int /\ b.sp \in Int /\ ItemOK(a) /\ ItemOK(b)
                                    /\ work' = Rest \o <<a, b>>
  BY <1>4, ItemsTwo
<1>5. work # <<>> => ItemOK(Top)
  BY StackLength DEF Shape, ItemsOK, Top
<1>6. CASE GenExpression
  <2> DEFINE a == End(Top.sp)
             b == Node(1, Top.sp)
  <2>1. work # <<>> /\ work' = Rest \o <<a, b>>
    BY <1>6 DEF GenExpression, Running
  <2>2. a.sp \in Int /\ b.sp \in Int /\ ItemOK(a) /\ ItemOK(b)
    BY <2>1, TopInShape, MadeItems
  <2> HIDE DEF a, b
  <2> QED BY <2>1, <2>2, <1>4
<1>7. CASE \E op \in Ops : GenBinary(op)
  <2>1. PICK op \in Ops : GenBinary(op)
    BY <1>7
  <2> DEFINE a == PushRight(op, Top.sp)
             b == Node(Level(op), Top.sp)
  <2>2. work # <<>> /\ work' = Rest \o <<a, b>>
    BY <2>1 DEF GenBinary, Running
  <2>3. a.sp \in Int /\ b.sp \in Int /\ ItemOK(a) /\ ItemOK(b)
    BY <2>2, TopInShape, OpLevel DEF PushRight, Node, ItemOK
  <2> HIDE DEF a, b
  <2> QED BY <2>2, <2>3, <1>4
<1>8. CASE GenLeft
  <2> DEFINE a == Combine(Top.op, want, Top.sp + QWORD)
             b == Node(Level(Top.op) + 1, Top.sp + QWORD)
  <2>1. work # <<>> /\ work' = Rest \o <<a, b>> /\ Top.k = "push"
    BY <1>8 DEF GenLeft, Running
  <2>2. Top.sp \in Int /\ Level(Top.op) \in 1..4
    BY <2>1, <1>5, TopInShape, OpLevel DEF ItemOK
  <2>3. a.sp \in Int /\ b.sp \in Int /\ ItemOK(a) /\ ItemOK(b)
    BY <2>2 DEF Combine, Node, QWORD, ItemOK
  <2> HIDE DEF a, b
  <2> QED BY <2>1, <2>3, <1>4
<1>9. CASE \E op \in UnaryOps : GenUnary(op)
  <2>1. PICK op \in UnaryOps : GenUnary(op)
    BY <1>9
  <2> DEFINE a == Prefix(op, Top.sp)
             b == Node(5, Top.sp)
  <2>2. work # <<>> /\ work' = Rest \o <<a, b>>
    BY <2>1 DEF GenUnary, Running
  <2>3. a.sp \in Int /\ b.sp \in Int /\ ItemOK(a) /\ ItemOK(b)
    BY <2>2, TopInShape, MadeItems
  <2> HIDE DEF a, b
  <2> QED BY <2>2, <2>3, <1>4
<1>10. CASE GenParen
  <2>1. work # <<>> /\ work' = Rest \o <<Expr(Top.sp)>>
    BY <1>10 DEF GenParen, AtPrimary, Running
  <2> QED BY <2>1, <1>3, TopInShape, MadeItems
<1>11. CASE \E f \in Callees, n \in ArgCounts : GenCall(f, n)
  <2>1. PICK f \in Callees, n \in ArgCounts : GenCall(f, n)
    BY <1>11
  <2> DEFINE c == Call(f, n, <<>>, Top.sp)
             a == Place(f, n, <<>>, Top.sp)
             b == Expr(Top.sp)
  <2>2. work # <<>> /\ (work' = Rest \o <<c>> \/ work' = Rest \o <<a, b>>)
    BY <2>1 DEF GenCall, AtPrimary, Running
  <2>3. /\ a.sp \in Int /\ b.sp \in Int /\ c.sp \in Int
        /\ ItemOK(a) /\ ItemOK(b) /\ ItemOK(c)
    BY <2>2, TopInShape, MadeItems
  <2> HIDE DEF a, b, c
  <2> QED BY <2>2, <2>3, <1>3, <1>4
<1>12. CASE PlaceArg
  <2> DEFINE args == Append(Top.args, want)
             c == Call(Top.f, Top.n, args, Top.sp)
             a == Place(Top.f, Top.n, args, Top.sp)
             b == Expr(Top.sp)
  <2>1. work # <<>> /\ (work' = Rest \o <<c>> \/ work' = Rest \o <<a, b>>)
    BY <1>12 DEF PlaceArg, Running
  <2>2. /\ a.sp \in Int /\ b.sp \in Int /\ c.sp \in Int
        /\ ItemOK(a) /\ ItemOK(b) /\ ItemOK(c)
    BY <2>1, TopInShape, MadeItems
  <2> HIDE DEF a, b, c, args
  <2> QED BY <2>1, <2>2, <1>3, <1>4
<1>13. CASE ExprEnd \/ CombineRDX \/ CombineDiv \/ CombineMod \/ UnaryEnd
              \/ GenNumber \/ EmitCall
              \/ \E v \in Idents, offset \in Offsets : GenVariable(v, offset)
  BY <1>2, <1>13 DEF ExprEnd, CombineRDX, CombineDiv, CombineMod, UnaryEnd, GenNumber,
                     EmitCall, GenVariable, AtPrimary, Running
<1> QED
  BY <1>1, <1>6, <1>7, <1>8, <1>9, <1>10, <1>11, <1>12, <1>13
     DEF Next, vars, GenNumberTooLarge, GenString, GenUnknownVariable, GenBadCall,
         GenUnknownCall, Throw

LEMMA NextFlags ==
  TypeInv /\ [Next]_vars => /\ exprInReg' \in BOOLEAN /\ clean' \in BOOLEAN
                            /\ fuel' \in 0..MaxNodes /\ home' = home
<1> SUFFICES ASSUME TypeInv, [Next]_vars
             PROVE  /\ exprInReg' \in BOOLEAN /\ clean' \in BOOLEAN
                    /\ fuel' \in 0..MaxNodes /\ home' = home
  OBVIOUS
<1>1. /\ exprInReg \in BOOLEAN /\ clean \in BOOLEAN
      /\ fuel \in Nat /\ fuel <= MaxNodes /\ MaxNodes \in Nat
  BY ConstantsAssumption DEF TypeInv, ConstantsAssumption
<1>2. home' = home
  BY DEF Next, vars, GenExpression, ExprEnd, GenBinary, GenLeft, CombineRDX, CombineDiv,
         CombineMod, GenUnary, UnaryEnd, GenParen, GenNumber, GenNumberTooLarge,
         GenString, GenVariable, GenUnknownVariable, GenCall, GenBadCall,
         GenUnknownCall, PlaceArg, EmitCall, Throw
<1>3. exprInReg' \in {exprInReg, TRUE}
  BY DEF Next, vars, GenExpression, ExprEnd, GenBinary, GenLeft, CombineRDX, CombineDiv,
         CombineMod, GenUnary, UnaryEnd, GenParen, GenNumber, GenNumberTooLarge,
         GenString, GenVariable, GenUnknownVariable, GenCall, GenBadCall,
         GenUnknownCall, PlaceArg, EmitCall, Throw
<1>4. clean' \in BOOLEAN
  BY <1>1, Zenon
     DEF Next, vars, GenExpression, ExprEnd, GenBinary, GenLeft, CombineRDX, CombineDiv,
         CombineMod, GenUnary, UnaryEnd, GenParen, GenNumber, GenNumberTooLarge,
         GenString, GenVariable, GenUnknownVariable, GenCall, GenBadCall,
         GenUnknownCall, PlaceArg, EmitCall, Throw
<1>5. fuel' = fuel \/ (fuel > 0 /\ fuel' = fuel - 1)
        \/ \E n \in ArgCounts : fuel >= Cost(n) /\ fuel' = fuel - Cost(n)
  BY DEF Next, vars, GenExpression, ExprEnd, GenBinary, GenLeft, CombineRDX, CombineDiv,
         CombineMod, GenUnary, UnaryEnd, GenParen, GenNumber, GenNumberTooLarge,
         GenString, GenVariable, GenUnknownVariable, GenCall, GenBadCall,
         GenUnknownCall, PlaceArg, EmitCall, Throw
<1>6. \A n \in ArgCounts : Cost(n) \in Nat
  BY ConstantsAssumption DEF ConstantsAssumption, Cost
<1>7. fuel' \in 0..MaxNodes
  BY <1>1, <1>5, <1>6
<1> QED BY <1>1, <1>2, <1>3, <1>4, <1>7

\* The registers and the addresses stay what they are, and every node that is left to visit
\* is at one of the levels of ast.hpp.
THEOREM TypeCorrect == Spec => []TypeOK
<1>1. Init => TypeInv
  <2> SUFFICES ASSUME Init PROVE TypeInv
    OBVIOUS
  <2>1. /\ home \in [Vars -> Homes] /\ exprInReg \in BOOLEAN /\ clean \in BOOLEAN
        /\ fuel \in 0..MaxNodes
    BY ConstantsAssumption DEF Init, ConstantsAssumption
  <2>2. Shape /\ ItemsOK
    <3>1. Shape /\ Len(work) = 1 /\ work[1] = Expr(Base)
      BY InitShape
    <3>2. ItemOK(Expr(Base))
      BY DEF ItemOK, Expr
    <3> QED BY <3>1, <3>2 DEF ItemsOK
  <2>3. MachineOK(m)
    <3>1. Base \in Int
      BY ConstantsAssumption DEF Base, QWORD, ConstantsAssumption
    <3>2. \A v \in Vars : /\ home[v].reg \in {"RSP", "RDI"}
                          /\ home[v].pos \in Int
      BY <2>1, HomePosition
    <3> DEFINE f == [v \in Vars |-> [reg  |-> home[v].reg,
                                     disp |-> IF home[v].reg = "RSP"
                                              THEN Base - home[v].pos ELSE 0]]
    <3>3. f \in [Vars -> [reg : {"RSP", "RDI"}, disp : Int]]
      BY <3>1, <3>2
    <3>4. m.variables = f
      BY DEF Init
    <3> HIDE DEF f
    <3>5. /\ DOMAIN m = {"regs", "mem", "depth", "variables"} /\ m.depth = Base
          /\ DOMAIN m.regs = Registers
      BY DEF Init
    <3> QED BY <3>1, <3>3, <3>4, <3>5 DEF MachineOK
  <2> QED BY <2>1, <2>2, <2>3 DEF TypeInv
<1>2. TypeInv /\ [Next]_vars => TypeInv'
  <2> SUFFICES ASSUME TypeInv, [Next]_vars PROVE TypeInv'
    OBVIOUS
  <2>1. MachineOK(m')
    BY NextMachine DEF TypeInv
  <2>2. MachineOK(m)' <=> MachineOK(m')
    BY DEF MachineOK
  <2>3. Shape' /\ ItemsOK'
    BY NextShape, NextItems DEF TypeInv
  <2> QED BY <2>1, <2>2, <2>3, NextFlags DEF TypeInv
<1>3. TypeInv => TypeOK
  BY DEF TypeInv, TypeOK, MachineOK, Shape, ItemsOK, ItemOK
<1> QED BY <1>1, <1>2, <1>3, PTL DEF Spec

-----------------------------------------------------------------------------
(* The machine.                                                            *)

\* Memory that both machines have allocated is the same in both.
MemKept(g, h) ==
  \A p \in Int : p <= g.depth /\ p <= h.depth => ReadMem(h.mem, p) = ReadMem(g.mem, p)

LEMMA PushMachine ==
  \A g, r : g.depth \in Int =>
    /\ Push(g, r).depth = g.depth + 8
    /\ Push(g, r).regs = g.regs
    /\ MemKept(g, Push(g, r))
    /\ ReadMem(Push(g, r).mem, g.depth + 8) = g.regs[r]
BY DEF Push, QWORD, MemKept, ReadMem, WriteMem

LEMMA PopMachine ==
  \A g : g.depth \in Int => \A r \in Registers :
    /\ Pop(g, r).depth = g.depth - 8
    /\ Pop(g, r).regs[r] = ReadMem(g.mem, g.depth)
    /\ \A x \in Registers \ {r} : Pop(g, r).regs[x] = g.regs[x]
    /\ MemKept(g, Pop(g, r))
BY DEF Pop, QWORD, MemKept, ReadMem, Release, WriteReg

LEMMA SetMachine ==
  \A g, v : \A r \in Registers :
    /\ Set(g, r, v).depth = g.depth
    /\ Set(g, r, v).mem = g.mem
    /\ Set(g, r, v).regs[r] = v
    /\ \A x \in Registers \ {r} : Set(g, r, v).regs[x] = g.regs[x]
BY DEF Set, WriteReg

\* The argument registers are six different registers, none of them RAX; RDX and RCX
\* carry the third and the fourth argument.
LEMMA ParameterRegisters ==
  /\ Len(ParameterRegs) = 6
  /\ \A i \in 0..5 : parameter_reg(i) \in Registers \ {"RAX"}
  /\ \A i \in 0..5, j \in 0..5 : parameter_reg(i) = parameter_reg(j) => i = j
  /\ \A i \in 0..1 : parameter_reg(i) \notin {"RDX", "RCX"}
  /\ \A i \in Nat : parameter_reg(i) # "NONE" => i \in 0..5
<1>1. ParameterRegs = <<"RDI", "RSI", "RDX", "RCX", "R8", "R9">>
  BY DEF ParameterRegs
<1>2. /\ parameter_reg(0) = "RDI" /\ parameter_reg(1) = "RSI" /\ parameter_reg(2) = "RDX"
      /\ parameter_reg(3) = "RCX" /\ parameter_reg(4) = "R8" /\ parameter_reg(5) = "R9"
  BY <1>1 DEF parameter_reg
<1>3. \A i \in 0..5 : i = 0 \/ i = 1 \/ i = 2 \/ i = 3 \/ i = 4 \/ i = 5
  OBVIOUS
<1>4. \A i \in 0..5 : parameter_reg(i) \in Registers \ {"RAX"}
  BY <1>2, <1>3 DEF Registers
<1>5. \A i \in 0..5, j \in 0..5 : parameter_reg(i) = parameter_reg(j) => i = j
  BY <1>2, <1>3
<1>6. \A i \in 0..1 : parameter_reg(i) \notin {"RDX", "RCX"}
  BY <1>2
<1>7. Len(ParameterRegs) = 6
  BY <1>1
<1>8. \A i \in Nat : parameter_reg(i) # "NONE" => i \in 0..5
  BY <1>7 DEF parameter_reg
<1> QED BY <1>4, <1>5, <1>6, <1>7, <1>8

-----------------------------------------------------------------------------
(* The clean fragment.                                                     *)

\* The inductive invariant: CleanInv, and the types its proof uses.
Inv ==
  /\ Shape
  /\ Tracks(m)
  /\ home \in [Vars -> Homes]
  /\ clean \in BOOLEAN
  /\ CleanInv

\* What every step that stays in the fragment does for the items it leaves alone.
ArgRegsKept ==
  \A i \in 1..(Len(work) - 1) : work[i].k = "place" =>
    \A a \in 1..Len(work[i].args) :
      m'.regs[parameter_reg(a - 1)] = m.regs[parameter_reg(a - 1)]

HomeRegsKept ==
  (\E v \in Vars : home[v].reg # "RSP") => m'.regs["RDI"] = m.regs["RDI"]

Undisturbed ==
  /\ home' = home
  /\ MemKept(m, m')
  /\ ArgRegsKept
  /\ HomeRegsKept

LEMMA HomeRegister ==
  ASSUME NEW v \in Vars, home \in [Vars -> Homes], home[v].reg # "RSP"
  PROVE  home[v].reg = "RDI"
BY HomePosition

\* The values in memory survive as long as the depth stays above them.
LEMMA FrameValuesKept ==
  /\ Inv /\ clean /\ MemKept(m, m')
  /\ m'.depth \in Int /\ Base <= m.depth /\ Base <= m'.depth
  => FrameValues'
<1> SUFFICES ASSUME Inv, clean, MemKept(m, m'), Base <= m.depth, Base <= m'.depth,
                    m'.depth \in Int
             PROVE  FrameValues'
  OBVIOUS
<1> SUFFICES ASSUME NEW s \in 1..FrameSlots
             PROVE  ReadMem(m'.mem, QWORD * s) = ReadMem(m.mem, QWORD * s)
  BY DEF Inv, CleanInv, FrameValues, Initially
<1>0. m.depth \in Int
  BY DEF Inv, Tracks
<1>1. QWORD * s \in Int /\ QWORD * s <= Base /\ Base \in Int
  BY ConstantsAssumption DEF QWORD, Base, ConstantsAssumption
<1>2. QWORD * s <= m.depth /\ QWORD * s <= m'.depth
  BY <1>0, <1>1
<1> QED BY <1>1, <1>2 DEF MemKept

\* A step that finishes the top item and leaves a value in RAX.
LEMMA PopStep ==
  /\ Inv /\ clean /\ work # <<>> /\ work' = Rest
  /\ Undisturbed
  /\ m'.depth = Exit(Top)
  /\ exprInReg' /\ m'.regs["RAX"] = want'
  => CleanInv'
<1> SUFFICES ASSUME Inv, clean, work # <<>>, work' = Rest, Undisturbed,
                    m'.depth = Exit(Top), exprInReg', m'.regs["RAX"] = want'
             PROVE  CleanInv'
  OBVIOUS
<1> DEFINE n == Len(work)
<1>1. /\ n \in Nat \ {0} /\ Len(work') = n - 1
      /\ \A i \in 1..(n - 1) : work'[i] = work[i]
      /\ work' = <<>> <=> n = 1
  BY ShapePop, StackLength DEF Inv, Popped
<1>2. /\ DepthIsExpected /\ NothingReachesBelow /\ RightsOnStack /\ FrameValues
      /\ ArgsInRegisters /\ OuterCallsEmpty /\ RegisterHomesKept
  BY DEF Inv, CleanInv
<1>3. Top = work[n] /\ \A i \in 1..n : work[i].sp \in Int
  BY DEF Top, Inv, Shape
<1>4. Base \in Int /\ m.depth \in Int
  BY ConstantsAssumption DEF Base, QWORD, ConstantsAssumption, Inv, Tracks
<1>5. m.depth = work[n].sp /\ m'.depth \in Int /\ m'.depth <= m.depth
  BY <1>1, <1>2, <1>3 DEF DepthIsExpected, Exit, QWORD
<1>6. DepthIsExpected'
  <2>1. m'.depth = IF n = 1 THEN Base ELSE work[n - 1].sp
    BY <1>1, <1>2, <1>3 DEF DepthIsExpected
  <2>2. n # 1 => work'[n - 1] = work[n - 1]
    BY <1>1
  <2>3. m'.depth = IF work' = <<>> THEN Base ELSE Top'.sp
    BY <2>1, <2>2, <1>1 DEF Top
  <2>5. ASSUME NEW i \in 1..(n - 1)
        PROVE  Exit(work'[i]) = IF i = 1 THEN Base ELSE work'[i - 1].sp
    <3>1. i \in 1..n /\ work'[i] = work[i]
      BY <1>1
    <3>2. i # 1 => work'[i - 1] = work[i - 1]
      BY <1>1
    <3>3. Exit(work[i]) = IF i = 1 THEN Base ELSE work[i - 1].sp
      BY <3>1, <1>2 DEF DepthIsExpected
    <3> QED BY <3>1, <3>2, <3>3
  <2> QED BY <2>3, <2>5, <1>1 DEF DepthIsExpected
<1>7. NothingReachesBelow'
  <2>1. \A j \in 1..(n - 1) : \A i \in 1..(j - 1) : i \in 1..(n - 1) /\ j \in 1..n
    BY <1>1
  <2> QED BY <2>1, <1>1, <1>2 DEF NothingReachesBelow
<1>8. RightsOnStack'
  <2>1. ASSUME NEW i \in 1..(n - 1), work[i].k = "combine"
        PROVE  ReadMem(m'.mem, work[i].sp) = work[i].right
    <3>1. i \in 1..n /\ n \in 1..n /\ i \in 1..(n - 1)
      BY <1>1
    <3>2. work[i].sp <= m'.depth /\ work[i].sp \in Int
      BY <3>1, <1>2, <1>3 DEF NothingReachesBelow
    <3>3. work[i].sp <= m.depth
      BY <3>2, <1>4, <1>5
    <3>4. ReadMem(m.mem, work[i].sp) = work[i].right
      BY <2>1, <3>1, <1>2 DEF RightsOnStack
    <3> QED BY <3>2, <3>3, <3>4 DEF Undisturbed, MemKept
  <2> QED BY <2>1, <1>1 DEF RightsOnStack
<1>9. FrameValues'
  <2>1. Base <= m'.depth
    BY <1>1, <1>2, <1>3 DEF NothingReachesBelow
  <2> QED BY <2>1, <1>4, <1>5, FrameValuesKept DEF Undisturbed
<1>10. ResultInRAX'
  BY DEF ResultInRAX
<1>11. ArgsInRegisters'
  <2>1. ASSUME NEW i \in 1..(n - 1), work[i].k \in {"place", "call"}
        PROVE  /\ work[i].k = "place"
               /\ Len(work[i].args) \in 0..Len(ParameterRegs)
               /\ work[i].args =
                    [a \in 1..Len(work[i].args) |-> m'.regs[parameter_reg(a - 1)]]
    <3>1. i \in 1..n /\ i # n
      BY <1>1
    <3>2. /\ work[i].k = "place"
          /\ Len(work[i].args) \in 0..Len(ParameterRegs)
          /\ work[i].args =
               [a \in 1..Len(work[i].args) |-> m.regs[parameter_reg(a - 1)]]
      BY <2>1, <3>1, <1>2 DEF ArgsInRegisters
    <3>3. \A a \in 1..Len(work[i].args) :
            m'.regs[parameter_reg(a - 1)] = m.regs[parameter_reg(a - 1)]
      BY <3>2 DEF Undisturbed, ArgRegsKept
    <3> QED BY <3>2, <3>3
  <2> QED BY <2>1, <1>1 DEF ArgsInRegisters
<1>12. OuterCallsEmpty'
  <2>1. \A j \in 1..(n - 1) : \A i \in 1..(j - 1) : i \in 1..(n - 1) /\ j \in 1..n
    BY <1>1
  <2>2. \A j \in 1..(n - 1) : j \in 1..n
    BY <1>1
  <2> QED BY <2>1, <2>2, <1>1, <1>2 DEF OuterCallsEmpty
<1>13. RegisterHomesKept'
  <2>1. ASSUME NEW v \in Vars, home[v].reg # "RSP"
        PROVE  /\ m'.regs[home[v].reg] = Initially(home[v])
               /\ \A i \in 1..(n - 1) : work[i].k \notin {"place", "call"}
    <3>1. home[v].reg = "RDI"
      BY <2>1, HomeRegister DEF Inv
    <3>2. m'.regs["RDI"] = m.regs["RDI"]
      BY <2>1 DEF Undisturbed, HomeRegsKept
    <3>3. \A i \in 1..(n - 1) : i \in 1..n
      BY <1>1
    <3> QED BY <2>1, <3>1, <3>2, <3>3, <1>2 DEF RegisterHomesKept
  <2> QED BY <2>1, <1>1 DEF RegisterHomesKept, Undisturbed, Initially
<1> QED
  BY <1>6, <1>7, <1>8, <1>9, <1>10, <1>11, <1>12, <1>13 DEF CleanInv

\* Item a takes the place of the top, alone or with a node on it.
Opened(a) ==
  \/ Topped(work', work, a) /\ a.k \in {"node", "call"}
  \/ /\ a.k # "call"
     /\ \E b : ToppedByTwo(work', work, a, b) /\ b.k = "node" /\ b.sp = a.sp

\* What a must bring along: the value it will pop, or the arguments placed so far.
Supplied(a) ==
  /\ a.k = "combine" => ReadMem(m'.mem, a.sp) = a.right
  /\ a.k \in {"place", "call"} =>
       /\ Len(a.args) \in 0..Len(ParameterRegs)
       /\ a.args = [x \in 1..Len(a.args) |-> m'.regs[parameter_reg(x - 1)]]
       /\ a.k = "call" => Len(a.args) = a.n
       /\ \A i \in 1..(Len(work) - 1) : work[i].k = "place" => work[i].args = <<>>
       /\ \A v \in Vars : home[v].reg = "RSP"

\* A step that goes down the tree.
LEMMA PushStep ==
  \A a :
    /\ Inv /\ clean /\ work # <<>> /\ Top.k # "combine"
    /\ Undisturbed
    /\ Opened(a) /\ Supplied(a)
    /\ a.sp \in Int /\ Exit(a) = Top.sp /\ m'.depth = a.sp
    => CleanInv'
<1> SUFFICES ASSUME NEW a, Inv, clean, work # <<>>, Top.k # "combine", Undisturbed,
                    Opened(a), Supplied(a),
                    a.sp \in Int, Exit(a) = Top.sp, m'.depth = a.sp
             PROVE  CleanInv'
  OBVIOUS
<1> DEFINE n == Len(work)
           N == Len(work')
<1>1. /\ n \in Nat \ {0} /\ N \in {n, n + 1}
      /\ work'[n] = a
      /\ \A i \in 1..(n - 1) : work'[i] = work[i]
      /\ N = n => a.k \in {"node", "call"}
      /\ N = n + 1 => work'[N].k = "node" /\ work'[N].sp = a.sp /\ a.k # "call"
      /\ IsStack(work')
  BY DEF Opened, Topped, ToppedByTwo
<1>2. /\ DepthIsExpected /\ NothingReachesBelow /\ RightsOnStack /\ FrameValues
      /\ ArgsInRegisters /\ OuterCallsEmpty /\ RegisterHomesKept
  BY DEF Inv, CleanInv
<1>3. Top = work[n] /\ \A i \in 1..n : work[i].sp \in Int
  BY DEF Top, Inv, Shape
<1>4. Base \in Int /\ m.depth \in Int
  BY ConstantsAssumption DEF Base, QWORD, ConstantsAssumption, Inv, Tracks
<1>5. /\ Exit(work[n]) = work[n].sp /\ m.depth = work[n].sp
      /\ Exit(a) = work[n].sp /\ work[n].sp <= a.sp
  BY <1>1, <1>2, <1>3 DEF DepthIsExpected, Exit, QWORD
<1>6. work' # <<>> /\ Top' = work'[N]
  BY <1>1, StackLength DEF Top
<1>7. Top'.sp = a.sp /\ Top'.k \in {"node", "call"}
  BY <1>1, <1>6
<1>8. N = n + 1 => Exit(work'[N]) = a.sp
  BY <1>1 DEF Exit
<1>9. \A i \in 1..N : i \in 1..(n - 1) \/ i = n \/ (i = n + 1 /\ N = n + 1)
  BY <1>1
<1>10. DepthIsExpected'
  <2>1. ASSUME NEW i \in 1..N
        PROVE  Exit(work'[i]) = IF i = 1 THEN Base ELSE work'[i - 1].sp
    <3>1. CASE i \in 1..(n - 1)
      <4>1. i \in 1..n /\ work'[i] = work[i] /\ (i # 1 => work'[i - 1] = work[i - 1])
        BY <1>1, <3>1
      <4>2. Exit(work[i]) = IF i = 1 THEN Base ELSE work[i - 1].sp
        BY <4>1, <1>2 DEF DepthIsExpected
      <4> QED BY <4>1, <4>2
    <3>2. CASE i = n
      <4>0. n \in 1..n /\ (n # 1 => n - 1 \in 1..(n - 1))
        <5>1. \A k \in Nat \ {0} : k \in 1..k /\ (k # 1 => k - 1 \in 1..(k - 1))
          OBVIOUS
        <5>2. n \in Nat \ {0}
          BY <1>1
        <5> HIDE DEF n
        <5> QED BY <5>1, <5>2
      <4>1. n \in 1..n /\ (n # 1 => work'[n - 1] = work[n - 1])
        BY <4>0, <1>1
      <4>2. Exit(work[n]) = IF n = 1 THEN Base ELSE work[n - 1].sp
        BY <4>1, <1>2 DEF DepthIsExpected
      <4> QED BY <3>2, <4>1, <4>2, <1>1, <1>5
    <3>3. CASE i = n + 1 /\ N = n + 1
      <4>1. i # 1 /\ i - 1 = n
        BY <3>3, <1>1
      <4> QED BY <3>3, <4>1, <1>1, <1>8
    <3> QED BY <3>1, <3>2, <3>3, <1>9
  <2> QED BY <2>1, <1>6, <1>7 DEF DepthIsExpected
<1>11. NothingReachesBelow'
  <2>1. ASSUME NEW j \in 1..N
        PROVE  /\ Base <= Exit(work'[j])
               /\ \A i \in 1..(j - 1) : work'[i].sp <= Exit(work'[j])
    <3>1. n \in 1..n /\ Base <= work[n].sp /\ \A i \in 1..(n - 1) : work[i].sp <= work[n].sp
      BY <1>1, <1>2, <1>5 DEF NothingReachesBelow
    <3>2. CASE j \in 1..(n - 1)
      <4>1. j \in 1..n /\ \A i \in 1..(j - 1) : i \in 1..(n - 1)
        BY <3>2, <1>1
      <4> QED BY <3>2, <4>1, <1>1, <1>2 DEF NothingReachesBelow
    <3>3. CASE j = n
      BY <3>1, <3>3, <1>1, <1>5
    <3>4. CASE j = n + 1 /\ N = n + 1
      <4>1. Base <= a.sp
        BY <3>1, <1>3, <1>4, <1>5
      <4>2. \A i \in 1..(j - 1) : i = n \/ i \in 1..(n - 1)
        BY <3>4, <1>1
      <4>3. ASSUME NEW i \in 1..(n - 1) PROVE work'[i].sp <= a.sp
        <5>1. i \in 1..n /\ work[i].sp <= work[n].sp
          BY <3>1, <1>1
        <5>2. work[i].sp \in Int /\ work[n].sp \in Int
          BY <5>1, <3>1, <1>3
        <5> QED BY <5>1, <5>2, <1>1, <1>5
      <4> QED BY <3>4, <4>1, <4>2, <4>3, <1>1, <1>8
    <3> QED BY <3>2, <3>3, <3>4, <1>9
  <2> QED BY <2>1 DEF NothingReachesBelow
<1>12. RightsOnStack'
  <2>1. ASSUME NEW i \in 1..(n - 1), work[i].k = "combine"
        PROVE  ReadMem(m'.mem, work[i].sp) = work[i].right
    <3>1. i \in 1..n /\ n \in 1..n
      BY <1>1
    <3>2. work[i].sp <= m.depth /\ work[i].sp \in Int
      BY <3>1, <1>2, <1>3, <1>5 DEF NothingReachesBelow
    <3>3. work[i].sp <= m'.depth
      BY <3>2, <1>3, <1>4, <1>5
    <3>4. ReadMem(m.mem, work[i].sp) = work[i].right
      BY <2>1, <3>1, <1>2 DEF RightsOnStack
    <3> QED BY <3>2, <3>3, <3>4 DEF Undisturbed, MemKept
  <2> QED BY <2>1, <1>1, <1>9 DEF RightsOnStack, Supplied
<1>13. FrameValues'
  <2>1. Base <= m.depth
    BY <1>1, <1>2, <1>5 DEF NothingReachesBelow
  <2>2. Base <= m'.depth
    BY <2>1, <1>4, <1>5
  <2> QED BY <2>1, <2>2, FrameValuesKept DEF Undisturbed
<1>14. ResultInRAX'
  BY <1>6, <1>7 DEF ResultInRAX
<1>15. ArgsInRegisters'
  <2>1. ASSUME NEW i \in 1..(n - 1), work[i].k \in {"place", "call"}
        PROVE  /\ work[i].k = "place"
               /\ Len(work[i].args) \in 0..Len(ParameterRegs)
               /\ work[i].args =
                    [x \in 1..Len(work[i].args) |-> m'.regs[parameter_reg(x - 1)]]
    <3>1. i \in 1..n /\ i # n
      BY <1>1
    <3>2. /\ work[i].k = "place"
          /\ Len(work[i].args) \in 0..Len(ParameterRegs)
          /\ work[i].args =
               [x \in 1..Len(work[i].args) |-> m.regs[parameter_reg(x - 1)]]
      BY <2>1, <3>1, <1>2 DEF ArgsInRegisters
    <3>3. \A x \in 1..Len(work[i].args) :
            m'.regs[parameter_reg(x - 1)] = m.regs[parameter_reg(x - 1)]
      BY <3>2 DEF Undisturbed, ArgRegsKept
    <3> QED BY <3>2, <3>3
  <2>2. ASSUME NEW i \in 1..N, work'[i].k \in {"place", "call"}
        PROVE  /\ Len(work'[i].args) \in 0..Len(ParameterRegs)
               /\ work'[i].args =
                    [x \in 1..Len(work'[i].args) |-> m'.regs[parameter_reg(x - 1)]]
               /\ work'[i].k = "call" => i = N /\ Len(work'[i].args) = work'[i].n
    <3>1. CASE i \in 1..(n - 1)
      BY <3>1, <2>1, <2>2, <1>1
    <3>2. CASE i = n
      BY <3>2, <2>2, <1>1 DEF Supplied
    <3>3. CASE i = n + 1 /\ N = n + 1
      BY <3>3, <2>2, <1>1
    <3> QED BY <3>1, <3>2, <3>3, <1>9
  <2> QED BY <2>2 DEF ArgsInRegisters
<1>16. OuterCallsEmpty'
  <2>1. ASSUME NEW j \in 1..(n - 1), work[j].k \in {"place", "call"},
               NEW i \in 1..(j - 1), work[i].k = "place"
        PROVE  work[i].args = <<>>
    <3>1. j \in 1..n
      BY <1>1
    <3> QED BY <2>1, <3>1, <1>2 DEF OuterCallsEmpty
  <2>2. ASSUME NEW j \in 1..N, work'[j].k \in {"place", "call"},
               NEW i \in 1..(j - 1), work'[i].k = "place"
        PROVE  work'[i].args = <<>>
    <3>1. CASE j \in 1..(n - 1)
      <4>1. i \in 1..(n - 1)
        BY <3>1, <1>1
      <4> QED BY <3>1, <4>1, <2>1, <2>2, <1>1
    <3>2. CASE j = n
      BY <3>2, <2>2, <1>1 DEF Supplied
    <3>3. CASE j = n + 1 /\ N = n + 1
      BY <3>3, <2>2, <1>1
    <3> QED BY <3>1, <3>2, <3>3, <1>9
  <2> QED BY <2>2 DEF OuterCallsEmpty
<1>17. RegisterHomesKept'
  <2>1. ASSUME NEW v \in Vars, home[v].reg # "RSP"
        PROVE  /\ m'.regs[home[v].reg] = Initially(home[v])
               /\ \A i \in 1..N : work'[i].k \notin {"place", "call"}
    <3>1. home[v].reg = "RDI"
      BY <2>1, HomeRegister DEF Inv
    <3>2. m'.regs["RDI"] = m.regs["RDI"]
      BY <2>1 DEF Undisturbed, HomeRegsKept
    <3>3. \A i \in 1..(n - 1) : i \in 1..n
      BY <1>1
    <3>4. a.k \notin {"place", "call"}
      BY <2>1 DEF Supplied
    <3>5. \A i \in 1..(n - 1) : work[i].k \notin {"place", "call"}
      BY <2>1, <3>3, <1>2 DEF RegisterHomesKept
    <3> QED BY <2>1, <3>1, <3>2, <3>4, <3>5, <1>1, <1>2, <1>9 DEF RegisterHomesKept
  <2> QED BY <2>1 DEF RegisterHomesKept, Undisturbed, Initially
<1> QED
  BY <1>10, <1>11, <1>12, <1>13, <1>14, <1>15, <1>16, <1>17 DEF CleanInv

\* A step that changes no more than RAX disturbs nothing.
LEMMA OnlyRAX ==
  ASSUME Inv, clean, home' = home, m'.mem = m.mem, m'.depth = m.depth,
         \A x \in Registers \ {"RAX"} : m'.regs[x] = m.regs[x]
  PROVE  Undisturbed
<1>1. MemKept(m, m')
  BY DEF MemKept
<1>2. HomeRegsKept
  BY DEF HomeRegsKept, Registers
<1>3. ArgRegsKept
  <2>1. ASSUME NEW i \in 1..(Len(work) - 1), work[i].k = "place",
               NEW a \in 1..Len(work[i].args)
        PROVE  m'.regs[parameter_reg(a - 1)] = m.regs[parameter_reg(a - 1)]
    <3>1. i \in 1..Len(work)
      BY StackLength DEF Inv, Shape
    <3>2. Len(work[i].args) \in 0..6
      BY <2>1, <3>1, ParameterRegisters DEF Inv, CleanInv, ArgsInRegisters
    <3>3. a - 1 \in 0..5
      <4>1. \A k \in 0..6 : \A j \in 1..k : j - 1 \in 0..5
        OBVIOUS
      <4> QED BY <3>2, <4>1
    <3> QED BY <3>3, ParameterRegisters
  <2> QED BY <2>1 DEF ArgRegsKept
<1> QED BY <1>1, <1>2, <1>3 DEF Undisturbed

\* A step that changes the machine not at all.
LEMMA SameMachine == Inv /\ clean /\ home' = home /\ m' = m => Undisturbed
BY OnlyRAX

\* What a handler finds when a child has returned to it.
LEMMA ChildDone ==
  ASSUME Inv, clean, work # <<>>, Top.k \notin {"node", "call"}
  PROVE  exprInReg /\ m.regs["RAX"] = want /\ Fetch(m) = m
BY DEF Inv, CleanInv, ResultInRAX, Fetch

LEMMA TopFacts ==
  ASSUME Inv, clean, work # <<>>
  PROVE  /\ Len(work) \in Nat \ {0} /\ Len(work) \in 1..Len(work)
         /\ Top = work[Len(work)]
         /\ m.depth = Top.sp /\ Top.sp \in Int
<1>1. Len(work) \in Nat \ {0}
  BY StackLength DEF Inv, Shape
<1> QED BY <1>1 DEF Inv, CleanInv, Shape, DepthIsExpected, Top

-----------------------------------------------------------------------------
(* One lemma per kind of action.                                           *)

LEMMA ExprEndInv == Inv /\ clean /\ ExprEnd => CleanInv'
<1> SUFFICES ASSUME Inv, clean, ExprEnd PROVE CleanInv'
  OBVIOUS
<1>1. /\ work # <<>> /\ Top.k = "end" /\ work' = Rest /\ m' = Fetch(m)
      /\ exprInReg' = exprInReg /\ want' = want /\ home' = home
  BY DEF ExprEnd, Running
<1>2. exprInReg /\ m.regs["RAX"] = want /\ m' = m
  BY <1>1, ChildDone
<1>3. m'.depth = Exit(Top)
  BY <1>1, <1>2, TopFacts DEF Exit
<1> QED BY <1>1, <1>2, <1>3, SameMachine, PopStep

LEMMA LeafInv ==
  \A v : /\ Inv /\ clean /\ AtPrimary
         /\ m' = Set(m, "RAX", v) /\ want' = v
         /\ work' = Rest /\ exprInReg' = TRUE /\ home' = home
         => CleanInv'
<1> SUFFICES ASSUME NEW v, Inv, clean, AtPrimary,
                    m' = Set(m, "RAX", v), want' = v,
                    work' = Rest, exprInReg' = TRUE, home' = home
             PROVE  CleanInv'
  OBVIOUS
<1>1. work # <<>> /\ Top.k = "node"
  BY DEF AtPrimary, Running
<1>2. /\ m'.depth = m.depth /\ m'.mem = m.mem /\ m'.regs["RAX"] = v
      /\ \A x \in Registers \ {"RAX"} : m'.regs[x] = m.regs[x]
  BY SetMachine DEF Registers
<1>3. m'.depth = Exit(Top)
  BY <1>1, <1>2, TopFacts DEF Exit
<1> QED BY <1>1, <1>2, <1>3, OnlyRAX, PopStep

\* A variable is read from where it is: its address is right, and its home intact.
LEMMA VariableRead ==
  ASSUME Inv, clean, NEW v \in Vars
  PROVE  Load(m, m.variables[v]) = Initially(home[v])
<1>1. home[v] \in Homes /\ m.variables[v].reg = home[v].reg
  BY DEF Inv, Tracks
<1>2. CASE home[v].reg = "RSP"
  <2>1. /\ home[v] = [reg |-> "RSP", pos |-> home[v].pos]
        /\ \E s \in 1..FrameSlots : home[v].pos = QWORD * s
    BY <1>1, <1>2, HomePosition
  <2>2. m.depth - m.variables[v].disp = home[v].pos
    BY <1>1, <1>2 DEF Inv, Tracks
  <2>3. ReadMem(m.mem, home[v].pos) = Initially(home[v])
    BY <2>1 DEF Inv, CleanInv, FrameValues
  <2> QED BY <1>1, <1>2, <2>2, <2>3 DEF Load
<1>3. CASE home[v].reg # "RSP"
  BY <1>1, <1>3 DEF Load, Inv, CleanInv, RegisterHomesKept
<1> QED BY <1>2, <1>3

LEMMA VariableInv ==
  ASSUME Inv, clean, clean', NEW v, NEW offset, GenVariable(v, offset)
  PROVE  CleanInv'
<1>1. v \in Vars /\ offset = 0
  BY DEF GenVariable
<1>2. home[v] \in Homes
  BY <1>1 DEF Inv
<1>3. home[v].pos - offset = home[v].pos /\ home[v] = [reg |-> home[v].reg, pos |-> home[v].pos]
  BY <1>1, <1>2, HomePosition
<1>4. want' = Initially(home[v])
  BY <1>3 DEF GenVariable
<1>5. m' = Set(m, "RAX", Initially(home[v]))
  BY <1>1, VariableRead DEF GenVariable
<1> QED BY <1>4, <1>5, LeafInv DEF GenVariable

LEMMA NumberInv == Inv /\ clean /\ GenNumber => CleanInv'
BY LeafInv DEF GenNumber

LEMMA UnaryEndInv ==
  ASSUME Inv, clean, clean', UnaryEnd
  PROVE  CleanInv'
<1>1. /\ work # <<>> /\ Top.k = "prefix" /\ Top.op = "SUB" /\ work' = Rest
      /\ exprInReg' = TRUE /\ home' = home /\ want' = <<"SUB", want>>
  BY DEF UnaryEnd, Running
<1>2. m.regs["RAX"] = want /\ m' = Set(m, "RAX", <<"SUB", want>>)
  BY <1>1, ChildDone DEF UnaryEnd
<1>3. /\ m'.depth = m.depth /\ m'.mem = m.mem /\ m'.regs["RAX"] = want'
      /\ \A x \in Registers \ {"RAX"} : m'.regs[x] = m.regs[x]
  BY <1>1, <1>2, SetMachine DEF Registers
<1>4. m'.depth = Exit(Top)
  BY <1>1, <1>3, TopFacts DEF Exit
<1> QED BY <1>1, <1>3, <1>4, OnlyRAX, PopStep

\* An operator whose scratch registers hold no argument, in a machine where only RAX,
\* RDX and RCX changed and one quadword was popped.
LEMMA CombineInv ==
  ASSUME Inv, clean, Running("combine"), ScratchIsFree,
         work' = Rest, exprInReg' = TRUE, home' = home,
         m'.regs["RAX"] = want',
         m'.depth = m.depth - 8, MemKept(m, m'),
         \A x \in Registers \ {"RAX", "RDX", "RCX"} : m'.regs[x] = m.regs[x]
  PROVE  CleanInv'
<1>1. work # <<>> /\ Top.k = "combine"
  BY DEF Running
<1>2. m'.depth = Exit(Top)
  BY <1>1, TopFacts DEF Exit, QWORD
<1>3. HomeRegsKept
  BY DEF HomeRegsKept, Registers
<1>4. ArgRegsKept
  <2>1. ASSUME NEW i \in 1..(Len(work) - 1), work[i].k = "place",
               NEW a \in 1..Len(work[i].args)
        PROVE  m'.regs[parameter_reg(a - 1)] = m.regs[parameter_reg(a - 1)]
    <3>1. i \in 1..Len(work)
      BY StackLength DEF Inv, Shape
    <3>2. Len(work[i].args) \in 0..6 /\ Len(work[i].args) < 3
      BY <2>1, <3>1, ParameterRegisters
         DEF Inv, CleanInv, ArgsInRegisters, ScratchIsFree, Pending
    <3>3. a - 1 \in 0..1 /\ a - 1 \in 0..5
      <4>1. \A k \in 0..6 : \A j \in 1..k : k < 3 => j - 1 \in 0..1 /\ j - 1 \in 0..5
        OBVIOUS
      <4> QED BY <3>2, <4>1
    <3>4. parameter_reg(a - 1) \in Registers \ {"RAX", "RDX", "RCX"}
      BY <3>3, ParameterRegisters
    <3> QED BY <3>4
  <2> QED BY <2>1 DEF ArgRegsKept
<1> QED BY <1>1, <1>2, <1>3, <1>4, PopStep DEF Undisturbed

LEMMA RightIsOnTop ==
  ASSUME Inv, clean, work # <<>>, Top.k = "combine"
  PROVE  ReadMem(m.mem, m.depth) = Top.right
BY TopFacts DEF Inv, CleanInv, RightsOnStack

LEMMA CombineRDXInv ==
  ASSUME Inv, clean, clean', CombineRDX
  PROVE  CleanInv'
<1>1. work # <<>> /\ Top.k = "combine" /\ ScratchIsFree
  BY DEF CombineRDX, Running
<1>2. m.regs["RAX"] = want /\ Fetch(m) = m
  BY <1>1, ChildDone
<1> DEFINE g == Pop(m, "RDX")
<1>3. /\ g.depth = m.depth - 8
      /\ g.regs["RDX"] = Top.right
      /\ g.regs["RAX"] = want
      /\ \A x \in Registers \ {"RDX"} : g.regs[x] = m.regs[x]
      /\ MemKept(m, g)
  <2>1. m.depth \in Int /\ "RDX" \in Registers /\ "RAX" \in Registers \ {"RDX"}
    BY DEF Inv, Tracks, Registers
  <2> QED BY <1>1, <1>2, <2>1, PopMachine, RightIsOnTop
<1>4. m' = Set(g, "RAX", <<Top.op, want, Top.right>>)
  BY <1>2, <1>3 DEF CombineRDX
<1> HIDE DEF g
<1>5. want' = <<Top.op, want, Top.right>>
  BY DEF CombineRDX
<1>6. /\ m'.depth = g.depth /\ m'.mem = g.mem /\ m'.regs["RAX"] = want'
      /\ \A x \in Registers \ {"RAX"} : m'.regs[x] = g.regs[x]
  BY <1>4, <1>5, SetMachine DEF Registers
<1>7. MemKept(m, m')
  BY <1>3, <1>6 DEF MemKept
<1> QED BY <1>1, <1>3, <1>6, <1>7, CombineInv DEF CombineRDX

LEMMA CombineDivInv ==
  ASSUME Inv, clean, clean', CombineDiv
  PROVE  CleanInv'
<1>1. work # <<>> /\ Top.k = "combine" /\ ScratchIsFree
  BY DEF CombineDiv, Running
<1>2. m.regs["RAX"] = want /\ Fetch(m) = m
  BY <1>1, ChildDone
<1> DEFINE g == Pop(m, "RCX")
           h == Set(g, "RDX", Junk)
<1>3. /\ g.depth = m.depth - 8
      /\ g.regs["RCX"] = Top.right
      /\ g.regs["RAX"] = want
      /\ \A x \in Registers \ {"RCX"} : g.regs[x] = m.regs[x]
      /\ MemKept(m, g)
  <2>1. m.depth \in Int /\ "RCX" \in Registers /\ "RAX" \in Registers \ {"RCX"}
    BY DEF Inv, Tracks, Registers
  <2> QED BY <1>1, <1>2, <2>1, PopMachine, RightIsOnTop
<1>4. m' = Set(h, "RAX", <<"DIV", want, Top.right>>)
  BY <1>2, <1>3 DEF CombineDiv
<1> HIDE DEF g
<1>5. /\ h.depth = g.depth /\ h.mem = g.mem
      /\ \A x \in Registers \ {"RDX"} : h.regs[x] = g.regs[x]
  BY SetMachine DEF Registers
<1> HIDE DEF h
<1>6. want' = <<"DIV", want, Top.right>>
  BY DEF CombineDiv
<1>7. /\ m'.depth = h.depth /\ m'.mem = h.mem /\ m'.regs["RAX"] = want'
      /\ \A x \in Registers \ {"RAX"} : m'.regs[x] = h.regs[x]
  BY <1>4, <1>6, SetMachine DEF Registers
<1>8. MemKept(m, m')
  BY <1>3, <1>5, <1>7 DEF MemKept
<1> QED BY <1>1, <1>3, <1>5, <1>7, <1>8, CombineInv DEF CombineDiv

\* CALL: nothing waits for the registers it destroys.
LEMMA EmitCallInv ==
  ASSUME Inv, clean, clean', EmitCall
  PROVE  CleanInv'
<1>1. /\ work # <<>> /\ Top.k = "call" /\ work' = Rest /\ home' = home
      /\ exprInReg' /\ m' = AfterCall(m, Top.f, Top.n)
      /\ want' = <<"call", Top.f, Top.args>>
  BY DEF EmitCall, Running
<1>2. /\ Len(work) \in Nat \ {0} /\ Len(work) \in 1..Len(work)
      /\ Top = work[Len(work)] /\ m.depth = Top.sp
  BY <1>1, TopFacts
<1>3. /\ Len(Top.args) \in 0..6 /\ Len(Top.args) = Top.n
      /\ Top.args = [a \in 1..Len(Top.args) |-> m.regs[parameter_reg(a - 1)]]
  BY <1>1, <1>2, ParameterRegisters DEF Inv, CleanInv, ArgsInRegisters
<1>4. Received(m, Top.n) = Top.args
  <2>1. \A a \in 1..Top.n : parameter_reg(a - 1) # "NONE"
    <3>1. \A k \in 0..6 : \A j \in 1..k : j - 1 \in 0..5
      OBVIOUS
    <3> QED BY <1>3, <3>1, ParameterRegisters DEF Registers
  <2> QED BY <2>1, <1>3 DEF Received
<1>5. m'.regs["RAX"] = want' /\ m'.depth = m.depth /\ m'.mem = m.mem
  BY <1>1, <1>4 DEF AfterCall, Registers
<1>6. m'.depth = Exit(Top)
  BY <1>1, <1>2, <1>5 DEF Exit
<1>7. MemKept(m, m')
  BY <1>5 DEF MemKept
<1>8. HomeRegsKept
  BY <1>1, <1>2 DEF HomeRegsKept, Inv, CleanInv, RegisterHomesKept
<1>9. ArgRegsKept
  <2>1. ASSUME NEW i \in 1..(Len(work) - 1), work[i].k = "place"
        PROVE  work[i].args = <<>>
    BY <1>1, <1>2, <2>1 DEF Inv, CleanInv, OuterCallsEmpty
  <2> QED BY <2>1 DEF ArgRegsKept
<1> QED BY <1>1, <1>5, <1>6, <1>7, <1>8, <1>9, PopStep DEF Undisturbed

\* Going down the tree without touching the machine, to an item that waits for the
\* node on it.
LEMMA DescendInv ==
  \A a, b :
    /\ Inv /\ clean /\ Running("node") /\ m' = m /\ home' = home
    /\ work' = Rest \o <<a, b>>
    /\ a.sp = Top.sp /\ b.sp = Top.sp
    /\ b.k = "node" /\ a.k \notin {"combine", "call"}
    /\ Supplied(a)
    => CleanInv'
<1> SUFFICES ASSUME NEW a, NEW b, Inv, clean, Running("node"), m' = m, home' = home,
                    work' = Rest \o <<a, b>>, a.sp = Top.sp, b.sp = Top.sp,
                    b.k = "node", a.k \notin {"combine", "call"}, Supplied(a)
             PROVE  CleanInv'
  OBVIOUS
<1>1. work # <<>> /\ Top.k = "node"
  BY DEF Running
<1>2. Top.sp \in Int /\ m.depth = Top.sp
  BY <1>1, TopFacts
<1>3. ToppedByTwo(work', work, a, b)
  BY <1>1, <1>2, ShapeTwo DEF Inv
<1>4. Opened(a)
  BY <1>3 DEF Opened
<1> QED BY <1>1, <1>2, <1>4, SameMachine, PushStep DEF Exit

LEMMA DescendPlainInv ==
  ASSUME Inv, clean,
         \/ GenExpression
         \/ \E op \in Ops : GenBinary(op)
         \/ \E op \in UnaryOps : GenUnary(op)
  PROVE  CleanInv'
<1>1. CASE GenExpression
  <2> DEFINE a == End(Top.sp)
             b == Node(1, Top.sp)
  <2>1. a.sp = Top.sp /\ b.sp = Top.sp /\ b.k = "node" /\ a.k = "end"
    BY DEF End, Node
  <2>2. Running("node") /\ m' = m /\ home' = home /\ work' = Rest \o <<a, b>>
    BY <1>1 DEF GenExpression
  <2> HIDE DEF a, b
  <2> QED BY <2>1, <2>2, DescendInv DEF Supplied
<1>2. ASSUME NEW op \in Ops, GenBinary(op) PROVE CleanInv'
  <2> DEFINE a == PushRight(op, Top.sp)
             b == Node(Level(op), Top.sp)
  <2>1. a.sp = Top.sp /\ b.sp = Top.sp /\ b.k = "node" /\ a.k = "push"
    BY DEF PushRight, Node
  <2>2. Running("node") /\ m' = m /\ home' = home /\ work' = Rest \o <<a, b>>
    BY <1>2 DEF GenBinary
  <2> HIDE DEF a, b
  <2> QED BY <2>1, <2>2, DescendInv DEF Supplied
<1>3. ASSUME NEW op \in UnaryOps, GenUnary(op) PROVE CleanInv'
  <2> DEFINE a == Prefix(op, Top.sp)
             b == Node(5, Top.sp)
  <2>1. a.sp = Top.sp /\ b.sp = Top.sp /\ b.k = "node" /\ a.k = "prefix"
    BY DEF Prefix, Node
  <2>2. Running("node") /\ m' = m /\ home' = home /\ work' = Rest \o <<a, b>>
    BY <1>3 DEF GenUnary
  <2> HIDE DEF a, b
  <2> QED BY <2>1, <2>2, DescendInv DEF Supplied
<1> QED BY <1>1, <1>2, <1>3

\* One item in place of a node or of a call's bookkeeping.
LEMMA OneInv ==
  \A a :
    /\ Inv /\ clean /\ work # <<>> /\ Top.k # "combine"
    /\ Undisturbed /\ m'.depth = m.depth
    /\ work' = Rest \o <<a>> /\ a.sp = Top.sp /\ a.k \in {"node", "call"}
    /\ Supplied(a)
    => CleanInv'
<1> SUFFICES ASSUME NEW a, Inv, clean, work # <<>>, Top.k # "combine",
                    Undisturbed, m'.depth = m.depth,
                    work' = Rest \o <<a>>, a.sp = Top.sp, a.k \in {"node", "call"},
                    Supplied(a)
             PROVE  CleanInv'
  OBVIOUS
<1>1. Top.sp \in Int /\ m.depth = Top.sp
  BY TopFacts
<1>2. Topped(work', work, a)
  BY <1>1, ShapeOne DEF Inv
<1>3. Opened(a)
  BY <1>2 DEF Opened
<1> QED BY <1>1, <1>3, PushStep DEF Exit

LEMMA ParenInv == Inv /\ clean /\ GenParen => CleanInv'
<1> SUFFICES ASSUME Inv, clean, GenParen PROVE CleanInv'
  OBVIOUS
<1> DEFINE a == Expr(Top.sp)
<1>1. a.sp = Top.sp /\ a.k = "node"
  BY DEF Expr
<1>2. /\ work # <<>> /\ Top.k # "combine" /\ m' = m /\ home' = home
      /\ work' = Rest \o <<a>>
  BY DEF GenParen, AtPrimary, Running
<1> HIDE DEF a
<1> QED BY <1>1, <1>2, SameMachine, OneInv DEF Supplied

\* The left side: the right one goes to the stack.
LEMMA LeftInv == Inv /\ clean /\ GenLeft => CleanInv'
<1> SUFFICES ASSUME Inv, clean, GenLeft PROVE CleanInv'
  OBVIOUS
<1> DEFINE a == Combine(Top.op, want, Top.sp + QWORD)
           b == Node(Level(Top.op) + 1, Top.sp + QWORD)
<1>1. /\ work # <<>> /\ Top.k = "push" /\ home' = home
      /\ work' = Rest \o <<a, b>>
  BY DEF GenLeft, Running
<1>2. m' = Push(m, "RAX") /\ m.regs["RAX"] = want
  BY <1>1, ChildDone DEF GenLeft
<1>3. Top.sp \in Int /\ m.depth = Top.sp
  BY <1>1, TopFacts
<1>4. /\ m'.depth = m.depth + 8 /\ m'.regs = m.regs /\ MemKept(m, m')
      /\ ReadMem(m'.mem, m.depth + 8) = want
  BY <1>2, <1>3, PushMachine
<1>5. /\ a.sp = Top.sp + 8 /\ b.sp = Top.sp + 8 /\ b.k = "node" /\ a.k = "combine"
      /\ a.right = want /\ Exit(a) = a.sp - 8
  BY DEF Combine, Node, QWORD, Exit
<1> HIDE DEF a, b
<1>6. a.sp \in Int /\ b.sp \in Int /\ Exit(a) = Top.sp /\ m'.depth = a.sp
  BY <1>3, <1>4, <1>5
<1>7. ToppedByTwo(work', work, a, b)
  BY <1>1, <1>6, ShapeTwo DEF Inv
<1>8. Opened(a)
  BY <1>5, <1>7 DEF Opened
<1>9. Supplied(a)
  BY <1>3, <1>4, <1>5 DEF Supplied
<1>10. Undisturbed
  BY <1>1, <1>4 DEF Undisturbed, ArgRegsKept, HomeRegsKept
<1> QED BY <1>1, <1>6, <1>8, <1>9, <1>10, PushStep

LEMMA NoArguments ==
  ASSUME NEW r
  PROVE  /\ Len(<<>>) = 0
         /\ <<>> = [x \in 1..Len(<<>>) |-> r[parameter_reg(x - 1)]]
<1>1. Len(<<>>) = 0
  BY EmptySeq
<1>2. <<>> \in Seq({}) /\ [x \in 1..0 |-> r[parameter_reg(x - 1)]] \in [1..0 -> {}]
  BY EmptySeq
<1>3. <<>> \in [1..0 -> {}]
  BY <1>1, <1>2, LenProperties
<1> QED BY <1>1, <1>2, <1>3

\* A call: it is begun only when no argument and no parameter is in the registers.
LEMMA CallInv ==
  ASSUME Inv, clean, clean', NEW f, NEW k, GenCall(f, k)
  PROVE  CleanInv'
<1>1. /\ Running("node") /\ work # <<>> /\ Top.k = "node" /\ m' = m /\ home' = home
      /\ RegistersAreFree
  BY DEF GenCall, AtPrimary, Running
<1>2. ASSUME NEW a, a.k \in {"place", "call"}, a.args = <<>>, a.n = k,
             a.k = "call" => k = 0
      PROVE  Supplied(a)
  <2>1. Len(a.args) = 0 /\ a.args = [x \in 1..Len(a.args) |-> m.regs[parameter_reg(x - 1)]]
    BY <1>2, NoArguments
  <2>2. \A i \in 1..(Len(work) - 1) : work[i].k = "place" => work[i].args = <<>>
    BY <1>1, StackLength DEF RegistersAreFree, Pending, Inv, Shape
  <2>3. a.k # "combine"
    BY <1>2
  <2>4. 0 \in 0..Len(ParameterRegs)
    BY ParameterRegisters
  <2> QED BY <1>1, <1>2, <2>1, <2>2, <2>3, <2>4 DEF Supplied, RegistersAreFree
<1>3. CASE k = 0
  <2> DEFINE a == Call(f, k, <<>>, Top.sp)
  <2>1. a.sp = Top.sp /\ a.k = "call" /\ a.args = <<>> /\ a.n = k
    BY DEF Call
  <2>2. work' = Rest \o <<a>>
    BY <1>3 DEF GenCall
  <2> HIDE DEF a
  <2>3. Supplied(a)
    BY <1>2, <1>3, <2>1
  <2> QED BY <1>1, <2>1, <2>2, <2>3, SameMachine, OneInv
<1>4. CASE k # 0
  <2> DEFINE a == Place(f, k, <<>>, Top.sp)
             b == Expr(Top.sp)
  <2>1. /\ a.sp = Top.sp /\ a.k = "place" /\ a.args = <<>> /\ a.n = k
        /\ b.sp = Top.sp /\ b.k = "node"
    BY DEF Place, Expr
  <2>2. work' = Rest \o <<a, b>>
    BY <1>4 DEF GenCall
  <2> HIDE DEF a, b
  <2>3. Supplied(a)
    BY <1>2, <2>1
  <2> QED BY <1>1, <2>1, <2>2, <2>3, DescendInv
<1> QED BY <1>3, <1>4

\* An argument is placed: no other call has arguments in the registers.
LEMMA PlaceArgInv ==
  ASSUME Inv, clean, clean', PlaceArg
  PROVE  CleanInv'
<1> DEFINE i == Len(Top.args)
           r == parameter_reg(i)
           args == Append(Top.args, want)
<1>1. /\ work # <<>> /\ Top.k = "place" /\ home' = home /\ r # "NONE"
      /\ m' = Set(m, r, m.regs["RAX"])
      /\ work' = Rest \o (IF i + 1 = Top.n
                         THEN <<Call(Top.f, Top.n, args, Top.sp)>>
                         ELSE <<Place(Top.f, Top.n, args, Top.sp), Expr(Top.sp)>>)
  BY DEF PlaceArg, Running
<1>2. m.regs["RAX"] = want
  BY <1>1, ChildDone
<1>3. /\ Len(work) \in Nat \ {0} /\ Len(work) \in 1..Len(work)
      /\ Top = work[Len(work)] /\ m.depth = Top.sp /\ Top.sp \in Int
  BY <1>1, TopFacts
<1>4. /\ i \in 0..6
      /\ Top.args = [a \in 1..i |-> m.regs[parameter_reg(a - 1)]]
  BY <1>1, <1>3, ParameterRegisters DEF Inv, CleanInv, ArgsInRegisters
<1>5. i \in 0..5 /\ r \in Registers \ {"RAX"}
  <2>1. i \in Nat
    <3>1. \A k \in 0..6 : k \in Nat
      OBVIOUS
    <3> QED BY <1>4, <3>1
  <2>2. r # "NONE"
    BY <1>1
  <2> HIDE DEF i
  <2>3. i \in 0..5
    BY <2>1, <2>2, ParameterRegisters
  <2> QED BY <2>3, ParameterRegisters
<1>6. /\ m'.depth = m.depth /\ m'.mem = m.mem /\ m'.regs[r] = want
      /\ \A x \in Registers \ {r} : m'.regs[x] = m.regs[x]
  BY <1>1, <1>2, <1>5, SetMachine
<1>7. /\ Len(args) = i + 1
      /\ args = [a \in 1..(i + 1) |-> IF a = i + 1 THEN want ELSE Top.args[a]]
  <2>1. i \in Nat /\ Top.args = [a \in 1..i |-> Top.args[a]]
    BY <1>4
  <2> QED BY <2>1, AppendToStack
<1> HIDE DEF args
<1>8. args = [a \in 1..Len(args) |-> m'.regs[parameter_reg(a - 1)]]
  <2>1. ASSUME NEW a \in 1..i
        PROVE  Top.args[a] = m'.regs[parameter_reg(a - 1)]
    <3>1. a - 1 \in 0..5 /\ a - 1 # i
      <4>1. \A k \in 0..5 : \A j \in 1..k : j - 1 \in 0..5 /\ j - 1 # k
        OBVIOUS
      <4> HIDE DEF i
      <4> QED BY <4>1, <1>5
    <3>2. parameter_reg(a - 1) \in Registers \ {r}
      BY <3>1, <1>5, ParameterRegisters
    <3> QED BY <3>2, <1>4, <1>6
  <2>2. \A a \in 1..(i + 1) : a = i + 1 \/ a \in 1..i
    BY <1>5
  <2>3. \A a \in 1..(i + 1) :
          (IF a = i + 1 THEN want ELSE Top.args[a]) = m'.regs[parameter_reg(a - 1)]
    <3>1. (i + 1) - 1 = i
      BY <1>5
    <3> QED BY <2>1, <2>2, <3>1, <1>6
  <2> QED BY <2>3, <1>7
<1>9. \A j \in 1..(Len(work) - 1) : work[j].k = "place" => work[j].args = <<>>
  BY <1>1, <1>3 DEF Inv, CleanInv, OuterCallsEmpty
<1>10. \A v \in Vars : home[v].reg = "RSP"
  BY <1>1, <1>3 DEF Inv, CleanInv, RegisterHomesKept
<1>11. Undisturbed
  <2>1. MemKept(m, m')
    BY <1>6 DEF MemKept
  <2>2. ArgRegsKept
    <3>1. Len(<<>>) = 0
      BY EmptySeq
    <3> QED BY <1>9, <3>1 DEF ArgRegsKept
  <2>3. HomeRegsKept
    BY <1>10 DEF HomeRegsKept
  <2> QED BY <1>1, <2>1, <2>2, <2>3 DEF Undisturbed
<1>12. ASSUME NEW a, a.k \in {"place", "call"}, a.args = args,
              a.k = "call" => i + 1 = a.n
       PROVE  Supplied(a)
  <2>1. Len(args) \in 0..Len(ParameterRegs)
    BY <1>5, <1>7, ParameterRegisters
  <2>2. a.k # "combine"
    BY <1>12
  <2> QED BY <1>7, <1>8, <1>9, <1>10, <1>12, <2>1, <2>2 DEF Supplied
<1>13. CASE i + 1 = Top.n
  <2> DEFINE a == Call(Top.f, Top.n, args, Top.sp)
  <2>1. a.sp = Top.sp /\ a.k = "call" /\ a.args = args /\ a.n = Top.n
    BY DEF Call
  <2>2. work' = Rest \o <<a>>
    BY <1>1, <1>13
  <2> HIDE DEF a
  <2>3. Supplied(a)
    BY <1>12, <1>13, <2>1
  <2> QED BY <1>1, <1>6, <1>11, <2>1, <2>2, <2>3, OneInv
<1>14. CASE i + 1 # Top.n
  <2> DEFINE a == Place(Top.f, Top.n, args, Top.sp)
             b == Expr(Top.sp)
  <2>1. /\ a.sp = Top.sp /\ a.k = "place" /\ a.args = args
        /\ b.sp = Top.sp /\ b.k = "node"
    BY DEF Place, Expr
  <2>2. work' = Rest \o <<a, b>>
    BY <1>1, <1>14
  <2> HIDE DEF a, b
  <2>3. Supplied(a)
    BY <1>12, <2>1
  <2>4. Opened(a)
    BY <1>1, <1>3, <2>1, <2>2, ShapeTwo DEF Inv, Opened
  <2> QED BY <1>1, <1>3, <1>6, <1>11, <2>1, <2>3, <2>4, PushStep DEF Exit
<1> QED BY <1>13, <1>14

\* A step that leaves all that CleanInv speaks of alone.
LEMMA UnchangedInv ==
  CleanInv /\ UNCHANGED <<work, m, exprInReg, home, want, clean>> => CleanInv'
BY DEF CleanInv, DepthIsExpected, NothingReachesBelow, RightsOnStack, FrameValues,
       ResultInRAX, ArgsInRegisters, OuterCallsEmpty, RegisterHomesKept, Top, Exit

-----------------------------------------------------------------------------
(* The induction.                                                          *)

LEMMA InitFrame == Init => FrameValues
<1> SUFFICES ASSUME Init, NEW s \in 1..FrameSlots
             PROVE  ReadMem(m.mem, QWORD * s) = Initially([reg |-> "RSP", pos |-> QWORD * s])
  BY DEF FrameValues
<1> DEFINE slots == {QWORD * x : x \in 1..FrameSlots}
<1>1. QWORD * s \in slots
  OBVIOUS
<1>2. m.mem = [p \in slots |-> Initially([reg |-> "RSP", pos |-> p])]
  BY DEF Init
<1> HIDE DEF slots
<1> QED BY <1>1, <1>2 DEF ReadMem

LEMMA InitInv == Init => Inv
<1> SUFFICES ASSUME Init PROVE Inv
  OBVIOUS
<1>1. Shape /\ Len(work) = 1 /\ work[1] = Expr(Base)
  BY InitShape
<1>2. /\ \A i \in 1..Len(work) : i = 1
      /\ \A j \in 1..Len(work) : \A i \in 1..(j - 1) : FALSE
      /\ work # <<>>
  BY <1>1, EmptySeq
<1>3. /\ Expr(Base).k = "node" /\ Expr(Base).sp = Base /\ Exit(Expr(Base)) = Base
      /\ Top = Expr(Base)
  BY <1>1 DEF Expr, Exit, Top
<1>4. Base \in Int
  BY ConstantsAssumption DEF ConstantsAssumption, Base, QWORD
<1>5. m.depth = Base
  BY DEF Init
<1>6. DepthIsExpected
  BY <1>2, <1>1, <1>3, <1>5 DEF DepthIsExpected
<1>7. NothingReachesBelow
  BY <1>2, <1>1, <1>3, <1>4 DEF NothingReachesBelow
<1>8. RightsOnStack /\ ArgsInRegisters /\ OuterCallsEmpty
  BY <1>2, <1>1, <1>3 DEF RightsOnStack, ArgsInRegisters, OuterCallsEmpty
<1>9. ResultInRAX
  BY <1>2, <1>3 DEF ResultInRAX
<1>10. RegisterHomesKept
  <2>1. ASSUME NEW v \in Vars, home[v].reg # "RSP"
        PROVE  m.regs[home[v].reg] = Initially(home[v])
    <3>1. home[v] \in Homes
      BY DEF Init
    <3>2. home[v] = [reg |-> "RDI", pos |-> 0]
      BY <2>1, <3>1 DEF Homes
    <3>3. home[v].reg = "RDI" /\ "RDI" \in Registers
      BY <3>2 DEF Registers
    <3>4. m.regs["RDI"] = Initially([reg |-> "RDI", pos |-> 0])
      BY <3>3 DEF Init
    <3> QED BY <3>2, <3>3, <3>4
  <2> QED BY <2>1, <1>2, <1>1, <1>3 DEF RegisterHomesKept
<1>11. CleanInv
  BY <1>6, <1>7, <1>8, <1>9, <1>10, InitFrame DEF CleanInv
<1>12. home \in [Vars -> Homes] /\ clean \in BOOLEAN
  BY DEF Init
<1> QED BY <1>1, <1>11, <1>12, InitTracks DEF Inv

\* No step returns to the clean fragment.
LEMMA CleanNeverReturns ==
  ASSUME clean \in BOOLEAN, [Next]_vars
  PROVE  clean' \in BOOLEAN /\ (clean' => clean) /\ home' = home
<1>1. CASE clean' = clean /\ home' = home
  BY <1>1
<1>2. CASE clean' = FALSE /\ home' = home
  BY <1>2
<1>3. CASE (\E b \in BOOLEAN : clean' = (clean /\ b)) /\ home' = home
  BY <1>3, Zenon
<1>4. CASE CombineRDX \/ CombineDiv
  <2>1. clean' = (clean /\ ScratchIsFree) /\ home' = home
    BY <1>4 DEF CombineRDX, CombineDiv
  <2>2. ScratchIsFree \in BOOLEAN
    BY DEF ScratchIsFree
  <2> QED BY <1>3, <2>1, <2>2
<1>5. CASE UnaryEnd
  BY <1>3, <1>5 DEF UnaryEnd
<1>6. CASE \E v \in Idents, offset \in Offsets : GenVariable(v, offset)
  BY <1>3, <1>6 DEF GenVariable
<1>7. CASE \E f \in Callees, n \in ArgCounts : GenCall(f, n)
  <2>1. clean' = (clean /\ RegistersAreFree) /\ home' = home
    BY <1>7 DEF GenCall
  <2>2. RegistersAreFree \in BOOLEAN
    BY DEF RegistersAreFree
  <2> QED BY <1>3, <2>1, <2>2
<1>8. CASE PlaceArg
  BY <1>3, <1>8 DEF PlaceArg
<1>9. CASE EmitCall
  <2>1. clean' = (clean /\ exprInReg) /\ home' = home
    BY <1>9 DEF EmitCall
  <2>2. clean' \in BOOLEAN /\ (clean' => clean)
    BY <2>1, Zenon
  <2> QED BY <2>1, <2>2
<1>10. CASE CombineMod
  BY <1>2, <1>10 DEF CombineMod
<1>11. CASE \/ GenExpression \/ ExprEnd \/ GenLeft \/ GenParen \/ GenNumber
            \/ GenNumberTooLarge \/ GenString \/ UNCHANGED vars
            \/ \E op \in Ops : GenBinary(op)
            \/ \E op \in UnaryOps : GenUnary(op)
            \/ \E v \in Idents : GenUnknownVariable(v)
            \/ \E f \in Callees : GenUnknownCall(f)
            \/ \E f \in Callees, n \in ArgCounts : GenBadCall(f, n)
  BY <1>1, <1>11
     DEF GenExpression, ExprEnd, GenLeft, GenParen, GenNumber, GenNumberTooLarge,
         GenString, vars, GenBinary, GenUnary, GenUnknownVariable, GenUnknownCall,
         GenBadCall, Throw
<1> QED
  BY <1>4, <1>5, <1>6, <1>7, <1>8, <1>9, <1>10, <1>11 DEF Next

LEMMA NextCleanInv ==
  ASSUME Inv, clean, clean', [Next]_vars
  PROVE  CleanInv'
<1>1. CASE \/ GenExpression
           \/ \E op \in Ops : GenBinary(op)
           \/ \E op \in UnaryOps : GenUnary(op)
  BY <1>1, DescendPlainInv
<1>2. CASE ExprEnd
  BY <1>2, ExprEndInv
<1>3. CASE GenLeft
  BY <1>3, LeftInv
<1>4. CASE CombineRDX
  BY <1>4, CombineRDXInv
<1>5. CASE CombineDiv
  BY <1>5, CombineDivInv
<1>6. CASE CombineMod
  BY <1>6 DEF CombineMod
<1>7. CASE UnaryEnd
  BY <1>7, UnaryEndInv
<1>8. CASE GenParen
  BY <1>8, ParenInv
<1>9. CASE GenNumber
  BY <1>9, NumberInv
<1>10. CASE \E v \in Idents, offset \in Offsets : GenVariable(v, offset)
  BY <1>10, VariableInv
<1>11. CASE \E f \in Callees, n \in ArgCounts : GenCall(f, n)
  BY <1>11, CallInv
<1>12. CASE PlaceArg
  BY <1>12, PlaceArgInv
<1>13. CASE EmitCall
  BY <1>13, EmitCallInv
<1>14. CASE \/ GenNumberTooLarge \/ GenString
            \/ \E v \in Idents : GenUnknownVariable(v)
            \/ \E f \in Callees : GenUnknownCall(f)
            \/ \E f \in Callees, n \in ArgCounts : GenBadCall(f, n)
            \/ UNCHANGED vars
  <2>1. UNCHANGED <<work, m, exprInReg, home, want, clean>>
    BY <1>14 DEF GenNumberTooLarge, GenString, GenUnknownVariable, GenUnknownCall,
                 GenBadCall, Throw, vars
  <2> QED BY <2>1, UnchangedInv DEF Inv
<1> QED
  BY <1>1, <1>2, <1>3, <1>4, <1>5, <1>6, <1>7, <1>8, <1>9, <1>10, <1>11, <1>12, <1>13,
     <1>14 DEF Next

LEMMA NextInv == Inv /\ [Next]_vars => Inv'
<1> SUFFICES ASSUME Inv, [Next]_vars PROVE Inv'
  OBVIOUS
<1>1. Shape' /\ Tracks(m)'
  BY NextShape, NextTracks DEF Inv
<1>2. clean' \in BOOLEAN /\ (clean' => clean) /\ home' = home
  BY CleanNeverReturns DEF Inv
<1>3. CASE clean'
  BY <1>1, <1>2, <1>3, NextCleanInv DEF Inv
<1>4. CASE ~clean'
  BY <1>1, <1>2, <1>4 DEF Inv, CleanInv
<1> QED BY <1>3, <1>4

LEMMA InvHolds == Spec => []Inv
<1>1. Init => Inv
  BY InitInv
<1>2. Inv /\ [Next]_vars => Inv'
  BY NextInv
<1> QED BY <1>1, <1>2, PTL DEF Spec

-----------------------------------------------------------------------------
(* What the invariant gives.                                               *)

\* The inductive invariant the runs check is one: it holds in every state, for every
\* number of operators, variables, functions and arguments.
THEOREM CleanInvHolds == Spec => []CleanInv
<1>1. Inv => CleanInv
  BY DEF Inv
<1> QED BY <1>1, InvHolds, PTL

\* generate_expression on a tree inside the fragment that works leaves the value of
\* the tree in RAX and the stack where it found it.
THEOREM ExpressionsCorrect == Spec => []ExprCorrect
<1>1. Inv => ExprCorrect
  BY DEF Inv, CleanInv, ExprCorrect, Done, ResultInRAX, DepthIsExpected
<1> QED BY <1>1, InvHolds, PTL

\* While it does so nothing of the frame of the function is popped or overwritten.
THEOREM FrameIsKept == Spec => []FrameKept
<1>1. Inv => FrameKept
  <2> SUFFICES ASSUME Inv, clean PROVE Base <= m.depth /\ FrameValues
    BY DEF FrameKept, FrameValues, Inv, Tracks
  <2>1. CASE work = <<>>
    BY <2>1, ConstantsAssumption
       DEF Inv, CleanInv, DepthIsExpected, ConstantsAssumption, Base, QWORD
  <2>2. CASE work # <<>>
    <3>1. Len(work) \in 1..Len(work) /\ m.depth = Top.sp /\ Top.sp \in Int
          /\ Top = work[Len(work)]
      BY <2>2, TopFacts
    <3>2. Base <= Exit(Top)
      BY <3>1 DEF Inv, CleanInv, NothingReachesBelow
    <3>3. Base \in Int /\ (Exit(Top) = Top.sp \/ Exit(Top) = Top.sp - 8)
      BY ConstantsAssumption DEF ConstantsAssumption, Base, QWORD, Exit
    <3>4. Base <= m.depth
      BY <3>1, <3>2, <3>3
    <3> QED BY <3>4 DEF Inv, CleanInv
  <2> QED BY <2>1, <2>2
<1> QED BY <1>1, InvHolds, PTL

\* A call inside the fragment that works receives the values of its arguments.
THEOREM CallsReceiveTheirArguments == Spec => []CleanCallReceivesItsArguments
<1>1. Inv => CleanCallReceivesItsArguments
  <2> SUFFICES ASSUME Inv, clean, work # <<>>, Top.k = "call"
               PROVE  Received(m, Top.n) = Top.args
    BY DEF CleanCallReceivesItsArguments, CallReceivesItsArguments, Running
  <2> DEFINE n == Top.n
  <2>1. Len(work) \in 1..Len(work) /\ Top = work[Len(work)]
    BY TopFacts
  <2>2. /\ n \in 0..6
        /\ Top.args = [a \in 1..n |-> m.regs[parameter_reg(a - 1)]]
    BY <2>1, ParameterRegisters DEF Inv, CleanInv, ArgsInRegisters
  <2>3. \A k \in 0..6 : \A a \in 1..k : a - 1 \in 0..5
    OBVIOUS
  <2> HIDE DEF n
  <2>4. \A a \in 1..n : parameter_reg(a - 1) # "NONE"
    BY <2>2, <2>3, ParameterRegisters DEF Registers
  <2>5. Received(m, n) = [a \in 1..n |-> m.regs[parameter_reg(a - 1)]]
    BY <2>4 DEF Received
  <2> QED BY <2>2, <2>5 DEF n
<1> QED BY <1>1, InvHolds, PTL

==============================================================================
