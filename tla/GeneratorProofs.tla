---------------------------- MODULE GeneratorProofs ----------------------------
(***************************************************************************)
(* For every program, the labels of the output are defined once            *)
(* (LabelsUnique), every jump and call of a program that is written has a  *)
(* label to go to (JumpsLand), and in a structured program no handler      *)
(* looks at the top of an empty stack (StaysDefined).                      *)
(*                                                                         *)
(* A handler that waits for a body owes the labels it will define behind   *)
(* it.  The invariant is that labels are either in the output or owed by   *)
(* one item of todo, that both have taken numbers, and that a jump goes to *)
(* one of them.                                                            *)
(*                                                                         *)
(* For the stacks the invariant is that todo is what is left of one body,  *)
(* and the statements at top level behind it, with as many Contexts and    *)
(* functions as these two will ask for.                                    *)
(***************************************************************************)
EXTENDS Generator, CallStack, FiniteSetTheorems

-----------------------------------------------------------------------------
(* Sequences of instructions.                                              *)

LabelsIn(c) == {c[i].arg : i \in {i \in 1..Len(c) : c[i].op = "label"}}
GoalsIn(c)  == {c[i].arg : i \in {i \in 1..Len(c) : c[i].op \in {"je", "jmp", "call"}}}

\* _start may be there many times.
Start == <<"start">>
OnceIn(c) ==
  \A i, j \in 1..Len(c) :
    c[i].op = "label" /\ c[j].op = "label" /\ c[i].arg = c[j].arg /\ c[i].arg # Start => i = j

LEMMA Joined ==
  \A c, d : IsStack(c) /\ IsStack(d) =>
    /\ IsStack(c \o d)
    /\ LabelsIn(c \o d) = LabelsIn(c) \cup LabelsIn(d)
    /\ GoalsIn(c \o d) = GoalsIn(c) \cup GoalsIn(d)
    /\ OnceIn(c) /\ OnceIn(d) /\ LabelsIn(c) \cap LabelsIn(d) \subseteq {Start} => OnceIn(c \o d)
<1> SUFFICES ASSUME NEW c, NEW d, IsStack(c), IsStack(d)
             PROVE  /\ IsStack(c \o d)
                    /\ LabelsIn(c \o d) = LabelsIn(c) \cup LabelsIn(d)
                    /\ GoalsIn(c \o d) = GoalsIn(c) \cup GoalsIn(d)
                    /\ OnceIn(c) /\ OnceIn(d) /\ LabelsIn(c) \cap LabelsIn(d) \subseteq {Start}
                         => OnceIn(c \o d)
  OBVIOUS
<1> DEFINE e == c \o d
           T == {d[i] : i \in 1..Len(d)}
<1>1. d \in Seq(T)
  BY DEF IsStack
<1> HIDE DEF T
<1>2. /\ IsStack(e) /\ Len(c) \in Nat /\ Len(d) \in Nat /\ Len(e) = Len(c) + Len(d)
      /\ \A i \in 1..Len(c) : e[i] = c[i]
      /\ \A i \in 1..Len(d) : e[Len(c) + i] = d[i]
  BY <1>1, GrowStack
<1> HIDE DEF e
<1>3. \A i \in 1..Len(e) : i \in 1..Len(c) \/ \E j \in 1..Len(d) : i = Len(c) + j
  <2> SUFFICES ASSUME NEW i \in 1..Len(e), i \notin 1..Len(c)
               PROVE  \E j \in 1..Len(d) : i = Len(c) + j
    OBVIOUS
  <2>1. i - Len(c) \in 1..Len(d) /\ i = Len(c) + (i - Len(c))
    BY <1>2
  <2> QED BY <2>1
<1>4. /\ \A i \in 1..Len(c) : i \in 1..Len(e)
      /\ \A j \in 1..Len(d) : Len(c) + j \in 1..Len(e)
  BY <1>2
<1>5. LabelsIn(e) = LabelsIn(c) \cup LabelsIn(d)
  <2>1. LabelsIn(e) \subseteq LabelsIn(c) \cup LabelsIn(d)
    <3> SUFFICES ASSUME NEW i \in 1..Len(e), e[i].op = "label"
                 PROVE  e[i].arg \in LabelsIn(c) \cup LabelsIn(d)
      BY DEF LabelsIn
    <3>1. CASE i \in 1..Len(c)
      BY <1>2, <3>1 DEF LabelsIn
    <3>2. CASE i \notin 1..Len(c)
      <4>1. PICK j \in 1..Len(d) : i = Len(c) + j
        BY <1>3, <3>2
      <4>2. e[i] = d[j]
        BY <1>2, <4>1
      <4> QED BY <4>2 DEF LabelsIn
    <3> QED BY <3>1, <3>2
  <2>2. LabelsIn(c) \subseteq LabelsIn(e)
    BY <1>2, <1>4 DEF LabelsIn
  <2>3. LabelsIn(d) \subseteq LabelsIn(e)
    <3> SUFFICES ASSUME NEW j \in 1..Len(d), d[j].op = "label" PROVE d[j].arg \in LabelsIn(e)
      BY DEF LabelsIn
    <3>1. Len(c) + j \in 1..Len(e) /\ e[Len(c) + j] = d[j]
      BY <1>2, <1>4
    <3> QED BY <3>1 DEF LabelsIn
  <2> QED BY <2>1, <2>2, <2>3
<1>6. GoalsIn(e) = GoalsIn(c) \cup GoalsIn(d)
  <2>1. GoalsIn(e) \subseteq GoalsIn(c) \cup GoalsIn(d)
    <3> SUFFICES ASSUME NEW i \in 1..Len(e), e[i].op \in {"je", "jmp", "call"}
                 PROVE  e[i].arg \in GoalsIn(c) \cup GoalsIn(d)
      BY DEF GoalsIn
    <3>1. CASE i \in 1..Len(c)
      BY <1>2, <3>1 DEF GoalsIn
    <3>2. CASE i \notin 1..Len(c)
      <4>1. PICK j \in 1..Len(d) : i = Len(c) + j
        BY <1>3, <3>2
      <4>2. e[i] = d[j]
        BY <1>2, <4>1
      <4> QED BY <4>2 DEF GoalsIn
    <3> QED BY <3>1, <3>2
  <2>2. GoalsIn(c) \subseteq GoalsIn(e)
    BY <1>2, <1>4 DEF GoalsIn
  <2>3. GoalsIn(d) \subseteq GoalsIn(e)
    <3> SUFFICES ASSUME NEW j \in 1..Len(d), d[j].op \in {"je", "jmp", "call"}
                 PROVE  d[j].arg \in GoalsIn(e)
      BY DEF GoalsIn
    <3>1. Len(c) + j \in 1..Len(e) /\ e[Len(c) + j] = d[j]
      BY <1>2, <1>4
    <3> QED BY <3>1 DEF GoalsIn
  <2> QED BY <2>1, <2>2, <2>3
<1>7. ASSUME OnceIn(c), OnceIn(d), LabelsIn(c) \cap LabelsIn(d) \subseteq {Start}
      PROVE  OnceIn(e)
  <2> SUFFICES ASSUME NEW i \in 1..Len(e), NEW j \in 1..Len(e),
                      e[i].op = "label", e[j].op = "label", e[i].arg = e[j].arg,
                      e[i].arg # Start
               PROVE  i = j
    BY DEF OnceIn
  <2>1. \A k \in 1..Len(c) : e[k].op = "label" => e[k].arg \in LabelsIn(c)
    BY <1>2 DEF LabelsIn
  <2>2. \A k \in 1..Len(d) : e[Len(c) + k].op = "label" => e[Len(c) + k].arg \in LabelsIn(d)
    BY <1>2 DEF LabelsIn
  <2>3. CASE i \in 1..Len(c) /\ j \in 1..Len(c)
    BY <1>2, <1>7, <2>3 DEF OnceIn
  <2>4. CASE i \in 1..Len(c) /\ j \notin 1..Len(c)
    BY <1>3, <1>7, <2>1, <2>2, <2>4
  <2>5. CASE i \notin 1..Len(c) /\ j \in 1..Len(c)
    BY <1>3, <1>7, <2>1, <2>2, <2>5
  <2>6. CASE i \notin 1..Len(c) /\ j \notin 1..Len(c)
    <3>1. PICK k \in 1..Len(d) : i = Len(c) + k
      BY <1>3, <2>6
    <3>2. PICK l \in 1..Len(d) : j = Len(c) + l
      BY <1>3, <2>6
    <3>3. e[i] = d[k] /\ e[j] = d[l]
      BY <1>2, <3>1, <3>2
    <3> QED BY <1>7, <3>1, <3>2, <3>3 DEF OnceIn
  <2> QED BY <2>3, <2>4, <2>5, <2>6
<1> QED BY <1>2, <1>5, <1>6, <1>7 DEF e

\* One instruction.
LEMMA Alone ==
  \A r : /\ IsStack(<<r>>) /\ OnceIn(<<r>>)
         /\ LabelsIn(<<r>>) = IF r.op = "label" THEN {r.arg} ELSE {}
         /\ GoalsIn(<<r>>) = IF r.op \in {"je", "jmp", "call"} THEN {r.arg} ELSE {}
<1> SUFFICES ASSUME NEW r
             PROVE  /\ IsStack(<<r>>) /\ OnceIn(<<r>>)
                    /\ LabelsIn(<<r>>) = IF r.op = "label" THEN {r.arg} ELSE {}
                    /\ GoalsIn(<<r>>) = IF r.op \in {"je", "jmp", "call"} THEN {r.arg} ELSE {}
  OBVIOUS
<1> DEFINE s == <<r>>
<1>1. s \in Seq({r}) /\ Len(s) = 1 /\ s[1] = r
  OBVIOUS
<1>2. IsStack(s)
  BY <1>1, StackOfSeq
<1> HIDE DEF s
<1>3. \A i : i \in 1..Len(s) <=> i = 1
  BY <1>1
<1>4. OnceIn(s)
  BY <1>3 DEF OnceIn
<1>5. LabelsIn(s) = IF r.op = "label" THEN {r.arg} ELSE {}
  BY <1>1, <1>3 DEF LabelsIn
<1>6. GoalsIn(s) = IF r.op \in {"je", "jmp", "call"} THEN {r.arg} ELSE {}
  BY <1>1, <1>3 DEF GoalsIn
<1> QED BY <1>2, <1>4, <1>5, <1>6 DEF s

LEMMA Nothing ==
  IsStack(<<>>) /\ OnceIn(<<>>) /\ LabelsIn(<<>>) = {} /\ GoalsIn(<<>>) = {}
<1>1. <<>> \in Seq({}) /\ Len(<<>>) = 0
  BY EmptySeq
<1>2. \A i \in 1..0 : FALSE
  OBVIOUS
<1> QED BY <1>1, <1>2, StackOfSeq DEF OnceIn, LabelsIn, GoalsIn

\* Two, at most one of them a label.
LEMMA Pair ==
  \A q, r : /\ IsStack(<<q, r>>)
            /\ LabelsIn(<<q, r>>) = LabelsIn(<<q>>) \cup LabelsIn(<<r>>)
            /\ GoalsIn(<<q, r>>) = GoalsIn(<<q>>) \cup GoalsIn(<<r>>)
            /\ (q.op # "label" \/ r.op # "label") => OnceIn(<<q, r>>)
<1> SUFFICES ASSUME NEW q, NEW r
             PROVE  /\ IsStack(<<q, r>>)
                    /\ LabelsIn(<<q, r>>) = LabelsIn(<<q>>) \cup LabelsIn(<<r>>)
                    /\ GoalsIn(<<q, r>>) = GoalsIn(<<q>>) \cup GoalsIn(<<r>>)
                    /\ (q.op # "label" \/ r.op # "label") => OnceIn(<<q, r>>)
  OBVIOUS
<1> DEFINE s == <<q, r>>
<1>1. s \in Seq({q, r}) /\ Len(s) = 2 /\ s[1] = q /\ s[2] = r
  OBVIOUS
<1>2. IsStack(s)
  BY <1>1, StackOfSeq
<1> HIDE DEF s
<1>3. \A i : i \in 1..Len(s) <=> i = 1 \/ i = 2
  BY <1>1
<1>4. (q.op # "label" \/ r.op # "label") => OnceIn(s)
  BY <1>1, <1>3 DEF OnceIn
<1>5. LabelsIn(s) = LabelsIn(<<q>>) \cup LabelsIn(<<r>>)
  <2>1. LabelsIn(s) = (IF q.op = "label" THEN {q.arg} ELSE {}) \cup (IF r.op = "label" THEN {r.arg} ELSE {})
    BY <1>1, <1>3 DEF LabelsIn
  <2> QED BY <2>1, Alone
<1>6. GoalsIn(s) = GoalsIn(<<q>>) \cup GoalsIn(<<r>>)
  <2>1. GoalsIn(s) = (IF q.op \in {"je", "jmp", "call"} THEN {q.arg} ELSE {})
                       \cup (IF r.op \in {"je", "jmp", "call"} THEN {r.arg} ELSE {})
    BY <1>1, <1>3 DEF GoalsIn
  <2> QED BY <2>1, Alone
<1> QED BY <1>2, <1>4, <1>5, <1>6 DEF s

LEMMA NoLabels == \A c : LabelsIn(c) = {} => OnceIn(c)
BY DEF LabelsIn, OnceIn

LEMMA Regrouped ==
  \A a, b, c : IsStack(a) /\ IsStack(b) /\ IsStack(c) => (a \o b) \o c = a \o (b \o c)
<1> SUFFICES ASSUME NEW a, NEW b, NEW c, IsStack(a), IsStack(b), IsStack(c)
             PROVE  (a \o b) \o c = a \o (b \o c)
  OBVIOUS
<1> DEFINE A == {a[i] : i \in 1..Len(a)}
           B == {b[i] : i \in 1..Len(b)}
           C == {c[i] : i \in 1..Len(c)}
           T == A \cup B \cup C
<1>1. a \in Seq(A) /\ b \in Seq(B) /\ c \in Seq(C)
  BY DEF IsStack
<1>2. A \subseteq T /\ B \subseteq T /\ C \subseteq T
  OBVIOUS
<1> HIDE DEF A, B, C, T
<1>3. a \in Seq(T) /\ b \in Seq(T) /\ c \in Seq(T)
  BY <1>1, <1>2, SeqMonotonic
<1> QED BY <1>3, ConcatAssociative

-----------------------------------------------------------------------------
(* The items of todo.                                                      *)

\* The labels that the rest of a handler will define.
Owed(item) == CASE item.k = "else" -> {item.label, item.end}
                [] item.k \in {"endif", "loop"} -> {item.end}
                [] OTHER -> {}

OwedBy(items) == UNION {Owed(items[i]) : i \in 1..Len(items)}

\* No label is owed twice.
Sole(items) == \A i, j \in 1..Len(items) : i # j => Owed(items[i]) \cap Owed(items[j]) = {}

\* A statement, or the rest of a handler; a loop has defined its start among labels.
ItemOK(item, labels) ==
  \/ item \in Statements
  \/ item.k \in {"endfunc", "endmain", "endif"}
  \/ item.k = "else" /\ item.body \in Seq(Statements) /\ item.label # item.end
  \/ item.k = "loop" /\ item.start \in labels

ItemsOK(items, labels) == \A i \in 1..Len(items) : ItemOK(items[i], labels)

LEMMA JoinedItems ==
  \A t, u : IsStack(t) /\ IsStack(u) =>
    /\ IsStack(t \o u)
    /\ OwedBy(t \o u) = OwedBy(t) \cup OwedBy(u)
    /\ Sole(t) /\ Sole(u) /\ OwedBy(t) \cap OwedBy(u) = {} => Sole(t \o u)
    /\ \A labels : ItemsOK(t, labels) /\ ItemsOK(u, labels) => ItemsOK(t \o u, labels)
<1> SUFFICES ASSUME NEW t, NEW u, IsStack(t), IsStack(u)
             PROVE  /\ IsStack(t \o u)
                    /\ OwedBy(t \o u) = OwedBy(t) \cup OwedBy(u)
                    /\ Sole(t) /\ Sole(u) /\ OwedBy(t) \cap OwedBy(u) = {} => Sole(t \o u)
                    /\ \A labels : ItemsOK(t, labels) /\ ItemsOK(u, labels)
                                    => ItemsOK(t \o u, labels)
  OBVIOUS
<1> DEFINE v == t \o u
           T == {u[i] : i \in 1..Len(u)}
<1>1. u \in Seq(T)
  BY DEF IsStack
<1> HIDE DEF T
<1>2. /\ IsStack(v) /\ Len(t) \in Nat /\ Len(u) \in Nat /\ Len(v) = Len(t) + Len(u)
      /\ \A i \in 1..Len(t) : v[i] = t[i]
      /\ \A i \in 1..Len(u) : v[Len(t) + i] = u[i]
  BY <1>1, GrowStack
<1> HIDE DEF v
<1>3. \A i \in 1..Len(v) :
        \/ i \in 1..Len(t) /\ v[i] = t[i]
        \/ \E j \in 1..Len(u) : i = Len(t) + j /\ v[i] = u[j]
  <2> SUFFICES ASSUME NEW i \in 1..Len(v), i \notin 1..Len(t)
               PROVE  \E j \in 1..Len(u) : i = Len(t) + j /\ v[i] = u[j]
    BY <1>2
  <2>1. i - Len(t) \in 1..Len(u) /\ i = Len(t) + (i - Len(t))
    BY <1>2
  <2> QED BY <1>2, <2>1
<1>4. /\ \A i \in 1..Len(t) : i \in 1..Len(v)
      /\ \A j \in 1..Len(u) : Len(t) + j \in 1..Len(v)
  BY <1>2
<1>5. /\ \A i \in 1..Len(t) : Owed(t[i]) \subseteq OwedBy(t)
      /\ \A i \in 1..Len(u) : Owed(u[i]) \subseteq OwedBy(u)
  BY DEF OwedBy
<1>6. OwedBy(v) = OwedBy(t) \cup OwedBy(u)
  <2>1. \A i \in 1..Len(v) : Owed(v[i]) \subseteq OwedBy(t) \cup OwedBy(u)
    BY <1>3, <1>5
  <2>2. OwedBy(v) \subseteq OwedBy(t) \cup OwedBy(u)
    BY <2>1 DEF OwedBy
  <2>3. \A i \in 1..Len(v) : Owed(v[i]) \subseteq OwedBy(v)
    BY DEF OwedBy
  <2>4. \A i \in 1..Len(t) : Owed(t[i]) \subseteq OwedBy(v)
    BY <1>2, <1>4, <2>3
  <2>5. \A j \in 1..Len(u) : Owed(u[j]) \subseteq OwedBy(v)
    BY <1>2, <1>4, <2>3
  <2> QED BY <2>2, <2>4, <2>5 DEF OwedBy
<1>7. Sole(t) /\ Sole(u) /\ OwedBy(t) \cap OwedBy(u) = {} => Sole(v)
  BY <1>3, <1>5 DEF Sole
<1>8. \A labels : ItemsOK(t, labels) /\ ItemsOK(u, labels) => ItemsOK(v, labels)
  BY <1>3 DEF ItemsOK
<1> QED BY <1>2, <1>6, <1>7, <1>8 DEF v

LEMMA AloneItem ==
  \A x : /\ IsStack(<<x>>) /\ OwedBy(<<x>>) = Owed(x) /\ Sole(<<x>>)
         /\ \A labels : ItemOK(x, labels) => ItemsOK(<<x>>, labels)
<1> SUFFICES ASSUME NEW x
             PROVE  /\ IsStack(<<x>>) /\ OwedBy(<<x>>) = Owed(x) /\ Sole(<<x>>)
                    /\ \A labels : ItemOK(x, labels) => ItemsOK(<<x>>, labels)
  OBVIOUS
<1> DEFINE s == <<x>>
<1>1. s \in Seq({x}) /\ Len(s) = 1 /\ s[1] = x
  OBVIOUS
<1>2. IsStack(s)
  BY <1>1, StackOfSeq
<1> HIDE DEF s
<1>3. \A i : i \in 1..Len(s) <=> i = 1
  BY <1>1
<1> QED BY <1>1, <1>2, <1>3 DEF s, OwedBy, Sole, ItemsOK

\* The statements of a body.
LEMMA BodyItems ==
  \A b \in Seq(Statements) :
    IsStack(b) /\ OwedBy(b) = {} /\ Sole(b) /\ \A labels : ItemsOK(b, labels)
<1> SUFFICES ASSUME NEW b \in Seq(Statements)
             PROVE  IsStack(b) /\ OwedBy(b) = {} /\ Sole(b) /\ \A labels : ItemsOK(b, labels)
  OBVIOUS
<1>1. \A i \in 1..Len(b) : b[i] \in Statements
  BY ElementOfSeq
<1>2. \A s \in Statements : Owed(s) = {}
  BY StatementsAssumption DEF Owed
<1>3. IsStack(b)
  BY StackOfSeq
<1> QED BY <1>1, <1>2, <1>3 DEF OwedBy, Sole, ItemsOK, ItemOK

\* What is left when the first item goes.
LEMMA RestItems ==
  ASSUME NEW t, IsStack(t), t # <<>>
  PROVE  /\ IsStack(Tail(t))
         /\ OwedBy(t) = Owed(Head(t)) \cup OwedBy(Tail(t))
         /\ Sole(t) => Sole(Tail(t)) /\ Owed(Head(t)) \cap OwedBy(Tail(t)) = {}
         /\ \A labels : ItemsOK(t, labels) => ItemOK(Head(t), labels) /\ ItemsOK(Tail(t), labels)
<1> DEFINE T == {t[i] : i \in 1..Len(t)}
           u == Tail(t)
<1>1. t \in Seq(T)
  BY DEF IsStack
<1> HIDE DEF T
<1>2. /\ u \in Seq(T) /\ Len(u) = Len(t) - 1 /\ Len(t) \in Nat \ {0}
      /\ \A i \in 1..Len(u) : u[i] = t[i + 1]
  BY <1>1, HeadTailProperties, EmptySeq
<1>3. IsStack(u)
  BY <1>2, StackOfSeq
<1>4. Head(t) = t[1]
  BY <1>1
<1> HIDE DEF u
<1>5. /\ \A i \in 1..Len(t) : i = 1 \/ \E j \in 1..Len(u) : i = j + 1
      /\ \A j \in 1..Len(u) : j + 1 \in 1..Len(t) /\ j + 1 # 1
      /\ 1 \in 1..Len(t)
  <2>1. \A i \in 1..Len(t) : i = 1 \/ (i - 1 \in 1..Len(u) /\ i = (i - 1) + 1)
    BY <1>2
  <2> QED BY <1>2, <2>1
<1>6. OwedBy(t) = Owed(Head(t)) \cup OwedBy(u)
  <2>1. \A i \in 1..Len(t) : Owed(t[i]) \subseteq OwedBy(t)
    BY DEF OwedBy
  <2>2. \A j \in 1..Len(u) : Owed(u[j]) \subseteq OwedBy(u)
    BY DEF OwedBy
  <2>3. \A j \in 1..Len(u) : Owed(u[j]) \subseteq OwedBy(t)
    BY <1>2, <1>5, <2>1
  <2>4. OwedBy(u) \subseteq OwedBy(t)
    BY <2>3 DEF OwedBy
  <2>5. \A i \in 1..Len(t) : Owed(t[i]) \subseteq Owed(Head(t)) \cup OwedBy(u)
    BY <1>2, <1>4, <1>5, <2>2
  <2>6. OwedBy(t) \subseteq Owed(Head(t)) \cup OwedBy(u)
    BY <2>5 DEF OwedBy
  <2> QED BY <1>4, <1>5, <2>1, <2>4, <2>6
<1>7. ASSUME Sole(t) PROVE Sole(u) /\ Owed(Head(t)) \cap OwedBy(u) = {}
  <2>1. Sole(u)
    <3> SUFFICES ASSUME NEW i \in 1..Len(u), NEW j \in 1..Len(u), i # j
                 PROVE  Owed(u[i]) \cap Owed(u[j]) = {}
      BY DEF Sole
    <3>1. i + 1 # j + 1
      BY <1>2
    <3> QED BY <1>2, <1>5, <1>7, <3>1 DEF Sole
  <2>2. \A j \in 1..Len(u) : Owed(t[1]) \cap Owed(u[j]) = {}
    BY <1>2, <1>5, <1>7 DEF Sole
  <2> QED BY <1>4, <2>1, <2>2 DEF OwedBy
<1>8. \A labels : ItemsOK(t, labels) => ItemOK(Head(t), labels) /\ ItemsOK(u, labels)
  BY <1>2, <1>4, <1>5 DEF ItemsOK
<1> QED BY <1>3, <1>6, <1>7, <1>8 DEF u

-----------------------------------------------------------------------------
(* The invariant.                                                          *)

\* The numbers taken so far, for labels and for functions.
Taken(n)         == {Label(i) : i \in 0..(n - 1)}
FunctionTaken(g) == {<<"func", i>> : i \in 0..(Cardinality(DOMAIN g) - 1)}

\* Of the code c, the items t, the next label n and the functions g.
Sound(c, t, n, g) ==
  /\ n \in Nat /\ IsStack(c) /\ IsStack(t) /\ IsFiniteSet(DOMAIN g)
  /\ OnceIn(c)
  /\ LabelsIn(c) \subseteq {Start} \cup Taken(n) \cup FunctionTaken(g)
  /\ \A f \in DOMAIN g : g[f].label \in LabelsIn(c)
  /\ ItemsOK(t, LabelsIn(c)) /\ Sole(t)
  /\ OwedBy(t) \subseteq Taken(n) /\ OwedBy(t) \cap LabelsIn(c) = {}
  /\ GoalsIn(c) \subseteq LabelsIn(c) \cup OwedBy(t)

GInv == Sound(code, todo, labelCount, generated)

LEMMA LabelsDiffer ==
  /\ \A n, m \in Int : Label(n) = Label(m) => n = m
  /\ \A n, m : Label(n) # <<"func", m>>
  /\ \A n, m : <<"func", n>> = <<"func", m>> => n = m
  /\ \A n : Label(n) # Start /\ <<"func", n>> # Start
BY DEF Label, Start

\* Code d behind c, and items u for t.
LEMMA Grown ==
  ASSUME NEW c, NEW t, NEW n, NEW g, Sound(c, t, n, g),
         NEW d, NEW u, NEW m \in Nat, NEW h,
         IsStack(d), OnceIn(d), IsStack(u), Sole(u), IsFiniteSet(DOMAIN h),
         Taken(n) \subseteq Taken(m), FunctionTaken(g) \subseteq FunctionTaken(h),
         LabelsIn(d) \cap LabelsIn(c) \subseteq {Start},
         LabelsIn(d) \subseteq {Start} \cup Taken(m) \cup FunctionTaken(h),
         \A f \in DOMAIN h : h[f].label \in LabelsIn(c) \cup LabelsIn(d),
         ItemsOK(u, LabelsIn(c) \cup LabelsIn(d)),
         OwedBy(u) \subseteq Taken(m),
         OwedBy(u) \cap (LabelsIn(c) \cup LabelsIn(d)) = {},
         GoalsIn(d) \subseteq LabelsIn(c) \cup LabelsIn(d) \cup OwedBy(u),
         OwedBy(t) \subseteq LabelsIn(d) \cup OwedBy(u)
  PROVE  Sound(c \o d, u, m, h)
<1>1. IsStack(c) /\ OnceIn(c)
  BY DEF Sound
<1>2. /\ IsStack(c \o d) /\ OnceIn(c \o d)
      /\ LabelsIn(c \o d) = LabelsIn(c) \cup LabelsIn(d)
      /\ GoalsIn(c \o d) = GoalsIn(c) \cup GoalsIn(d)
  <2>1. LabelsIn(c) \cap LabelsIn(d) \subseteq {Start}
    OBVIOUS
  <2> QED BY <1>1, <2>1, Joined
<1>3. LabelsIn(c) \subseteq {Start} \cup Taken(m) \cup FunctionTaken(h)
  BY DEF Sound
<1>4. GoalsIn(c) \subseteq LabelsIn(c) \cup LabelsIn(d) \cup OwedBy(u)
  BY DEF Sound
<1> QED BY <1>2, <1>3, <1>4 DEF Sound

\* What is right with fewer labels is with more.
LEMMA MoreLabels ==
  \A t, labels, more : ItemsOK(t, labels) /\ labels \subseteq more => ItemsOK(t, more)
BY DEF ItemsOK, ItemOK

LEMMA AppendedCode ==
  \A c, r : IsStack(c) => Append(c, r) = c \o <<r>>
<1> SUFFICES ASSUME NEW c, NEW r, IsStack(c) PROVE Append(c, r) = c \o <<r>>
  OBVIOUS
<1> DEFINE C == {c[i] : i \in 1..Len(c)}
           D == C \cup {r}
<1>1. c \in Seq(C)
  BY DEF IsStack
<1>2. C \subseteq D /\ r \in D
  OBVIOUS
<1> HIDE DEF C, D
<1>3. c \in Seq(D)
  BY <1>1, <1>2, SeqMonotonic
<1> QED BY <1>2, <1>3, AppendIsConcat

LEMMA NothingMore == \A c : IsStack(c) => c \o <<>> = c
<1> SUFFICES ASSUME NEW c, IsStack(c) PROVE c \o <<>> = c
  OBVIOUS
<1> DEFINE C == {c[i] : i \in 1..Len(c)}
<1>1. c \in Seq(C)
  BY DEF IsStack
<1> HIDE DEF C
<1> QED BY <1>1, ConcatEmptySeq

\* The first item is done: what it owes is defined, and nothing else.
LEMMA Finished ==
  ASSUME NEW c, NEW t, NEW n, NEW g, Sound(c, t, n, g), t # <<>>,
         NEW d, IsStack(d), OnceIn(d), LabelsIn(d) = Owed(Head(t)),
         GoalsIn(d) \subseteq LabelsIn(c) \cup OwedBy(t)
  PROVE  Sound(c \o d, Tail(t), n, g)
<1> DEFINE u == Tail(t)
<1>1. IsStack(t) /\ Sole(t) /\ ItemsOK(t, LabelsIn(c)) /\ n \in Nat /\ IsFiniteSet(DOMAIN g)
  BY DEF Sound
<1>2. /\ IsStack(u) /\ Sole(u) /\ ItemsOK(u, LabelsIn(c))
      /\ OwedBy(t) = LabelsIn(d) \cup OwedBy(u) /\ LabelsIn(d) \cap OwedBy(u) = {}
  BY <1>1, RestItems
<1> HIDE DEF u
<1>3. ItemsOK(u, LabelsIn(c) \cup LabelsIn(d))
  BY <1>2, MoreLabels
<1>4. OwedBy(t) \subseteq Taken(n) /\ OwedBy(t) \cap LabelsIn(c) = {}
  BY DEF Sound
<1>5. \A f \in DOMAIN g : g[f].label \in LabelsIn(c) \cup LabelsIn(d)
  BY DEF Sound
<1>6. Sound(c \o d, u, n, g)
  BY <1>1, <1>2, <1>3, <1>4, <1>5, Grown
<1> QED BY <1>6 DEF u

\* The first item makes way for a body and an item x that waits for it.
LEMMA Opened ==
  \A t, b, x, labels :
    /\ IsStack(t) /\ t # <<>> /\ ItemsOK(t, labels) /\ Sole(t)
    /\ b \in Seq(Statements) /\ ItemOK(x, labels) /\ Owed(x) \cap OwedBy(Tail(t)) = {}
    => LET u == b \o <<x>> \o Tail(t)
       IN  /\ IsStack(u) /\ Sole(u) /\ ItemsOK(u, labels)
           /\ OwedBy(u) = Owed(x) \cup OwedBy(Tail(t))
<1> SUFFICES ASSUME NEW t, NEW b, NEW x, NEW labels,
                    IsStack(t), t # <<>>, ItemsOK(t, labels), Sole(t),
                    b \in Seq(Statements), ItemOK(x, labels), Owed(x) \cap OwedBy(Tail(t)) = {}
             PROVE  LET u == b \o <<x>> \o Tail(t)
                    IN  /\ IsStack(u) /\ Sole(u) /\ ItemsOK(u, labels)
                        /\ OwedBy(u) = Owed(x) \cup OwedBy(Tail(t))
  OBVIOUS
<1> DEFINE r == Tail(t)
           s == <<x>>
           v == b \o s
<1>1. IsStack(r) /\ Sole(r) /\ ItemsOK(r, labels)
  BY RestItems
<1>2. IsStack(s) /\ OwedBy(s) = Owed(x) /\ Sole(s) /\ ItemsOK(s, labels)
  BY AloneItem
<1>3. IsStack(b) /\ OwedBy(b) = {} /\ Sole(b) /\ ItemsOK(b, labels)
  BY BodyItems
<1> HIDE DEF r, s
<1>4. IsStack(v) /\ OwedBy(v) = Owed(x) /\ Sole(v) /\ ItemsOK(v, labels)
  <2>1. OwedBy(b) \cap OwedBy(s) = {} /\ OwedBy(b) \cup OwedBy(s) = Owed(x)
    BY <1>2, <1>3
  <2>2. IsStack(v) /\ OwedBy(v) = OwedBy(b) \cup OwedBy(s) /\ Sole(v) /\ ItemsOK(v, labels)
    BY <1>2, <1>3, <2>1, JoinedItems
  <2> QED BY <2>1, <2>2
<1> HIDE DEF v
<1>5. OwedBy(v) \cap OwedBy(r) = {}
  BY <1>4 DEF r
<1>6. /\ IsStack(v \o r) /\ Sole(v \o r) /\ ItemsOK(v \o r, labels)
      /\ OwedBy(v \o r) = Owed(x) \cup OwedBy(r)
  BY <1>1, <1>4, <1>5, JoinedItems
<1> QED BY <1>6 DEF r, s, v

-----------------------------------------------------------------------------
(* The code of a value, and of a call.                                     *)

\* Code that defines no label, and goes to none that is not there.
Plain(d) == IsStack(d) /\ LabelsIn(d) = {} /\ GoalsIn(d) \subseteq LabelsIn(code)

LEMMA PlainNothing == Plain(<<>>)
BY Nothing DEF Plain

LEMMA PlainInstr ==
  \A op, arg, rest, awaited :
    op \notin {"label", "je", "jmp", "call"} => Plain(<<Instr(op, arg, rest, awaited)>>)
<1> SUFFICES ASSUME NEW op, NEW arg, NEW rest, NEW awaited,
                    op \notin {"label", "je", "jmp", "call"}
             PROVE  Plain(<<Instr(op, arg, rest, awaited)>>)
  OBVIOUS
<1> DEFINE r == Instr(op, arg, rest, awaited)
<1>1. r.op = op
  BY DEF Instr
<1> HIDE DEF r
<1>2. Plain(<<r>>)
  BY <1>1, Alone DEF Plain
<1> QED BY <1>2 DEF r

LEMMA PlainJoined == \A c, d : Plain(c) /\ Plain(d) => Plain(c \o d)
<1> SUFFICES ASSUME NEW c, NEW d, Plain(c), Plain(d) PROVE Plain(c \o d)
  OBVIOUS
<1>1. /\ IsStack(c \o d) /\ LabelsIn(c \o d) = LabelsIn(c) \cup LabelsIn(d)
      /\ GoalsIn(c \o d) = GoalsIn(c) \cup GoalsIn(d)
  BY Joined DEF Plain
<1> QED BY <1>1 DEF Plain

\* Every value has arguments that can be counted.
Countable(e) == e.k = "call" => Len(e.values) \in Nat

LEMMA CallFacts ==
  ASSUME GInv, NEW e, Len(e.values) \in Nat, e.name \in DOMAIN generated
  PROVE  Plain(CallCode(e))
<1> DEFINE f == [i \in 1..2 * Len(e.values) |->
                   IF i % 2 = 1 THEN EvalArg(e, (i + 1) \div 2) ELSE PlaceArg(i \div 2)]
           goal == Instr("call", generated[e.name].label, todo, FALSE)
<1>1. PICK k \in Nat : k = 2 * Len(e.values)
  OBVIOUS
<1>2. \A i \in 1..k : f[i].op \in {"eval", "mov", "push"}
  BY <1>1 DEF EvalArg, Eval, PlaceArg, Instr
<1>3. f = [i \in 1..k |-> f[i]]
  BY <1>1
<1> HIDE DEF f
<1>4. f \in [1..k -> {f[i] : i \in 1..k}]
  BY <1>3
<1>5. IsStack(f) /\ Len(f) = k
  <2>1. f \in Seq({f[i] : i \in 1..k})
    BY <1>4, SeqDef
  <2>2. Len(f) = k
    BY <1>4, <2>1, LenProperties
  <2> QED BY <2>1, StackOfSeq, <2>2
<1>6. LabelsIn(f) = {} /\ GoalsIn(f) = {}
  BY <1>2, <1>5 DEF LabelsIn, GoalsIn
<1>7. goal.op = "call" /\ goal.arg = generated[e.name].label
  BY DEF Instr
<1>8. goal.arg \in LabelsIn(code)
  BY <1>7 DEF GInv, Sound
<1> HIDE DEF goal
<1>9. Plain(f) /\ Plain(<<goal>>)
  BY <1>5, <1>6, <1>7, <1>8, Alone DEF Plain
<1>10. Plain(f \o <<goal>>)
  BY <1>9, PlainJoined
<1> QED BY <1>10 DEF CallCode, f, goal

LEMMA ValueFacts ==
  ASSUME GInv, NEW e, Countable(e), ~BadCall(e)
  PROVE  Plain(ValueCode(e))
<1>1. CASE e.k # "call"
  BY <1>1, PlainInstr DEF ValueCode, Eval
<1>2. CASE e.k = "call"
  <2>1. e.name \in DOMAIN generated
    BY <1>2 DEF BadCall
  <2>2. Plain(CallCode(e))
    BY <1>2, <2>1, CallFacts DEF Countable
  <2>3. Plain(<<Instr("pop", "RAX", todo, TRUE)>>) /\ Plain(<<>>)
    BY PlainInstr, PlainNothing
  <2>4. Plain(IF FlagAfter(e) THEN <<>> ELSE <<Instr("pop", "RAX", todo, TRUE)>>)
    BY <2>3
  <2> QED BY <1>2, <2>2, <2>4, PlainJoined DEF ValueCode
<1> QED BY <1>1, <1>2

-----------------------------------------------------------------------------
(* The item at hand.                                                       *)

\* At a statement; at the rest of one.
LEMMA AtStatement ==
  ASSUME GInv, NEW k, k \notin {"endfunc", "endmain", "endif", "else", "loop"}, At(k)
  PROVE  S \in Statements /\ S.k = k /\ Owed(S) = {} /\ todo # <<>>
<1>1. IsStack(todo) /\ todo # <<>> /\ S.k = k /\ ItemOK(S, LabelsIn(code))
  BY RestItems DEF At, S, GInv, Sound
<1> QED BY <1>1 DEF ItemOK, Owed

\* A value in a statement.
LEMMA StatementValues ==
  ASSUME NEW s \in Statements
  PROVE  /\ s.k \in {"decl", "assign", "return", "exit", "if", "while"} => Countable(s.value)
         /\ s.k = "call" => Countable(s)
BY StatementsAssumption DEF Countable

\* A body in a statement.
LEMMA Bodies ==
  ASSUME NEW s \in Statements
  PROVE  /\ s.k \in {"func", "main", "if", "while"} => s.body \in Seq(Statements)
         /\ s.k = "if" => s.else \in Seq(Statements)
<1>1. s.k \in {"func", "main", "if", "while"} => s \in Holders
  BY DEF Holders
<1>2. {h.body : h \in Holders} \subseteq Seq(Statements)
  BY StatementsAssumption
<1>3. {h.else : h \in {h \in Holders : h.k = "if"}} \subseteq Seq(Statements)
  BY StatementsAssumption
<1> QED BY <1>1, <1>2, <1>3

-----------------------------------------------------------------------------
(* The steps.                                                              *)

LEMMA SoundStart == Init => GInv /\ (output = "written" => todo = <<>>)
<1> SUFFICES ASSUME Init PROVE GInv /\ (output = "written" => todo = <<>>)
  OBVIOUS
<1>1. /\ todo = ast /\ code = <<>> /\ generated = <<>> /\ labelCount = 0
      /\ output = "empty" /\ ast \in Programs
  BY DEF Init, FP!Init
<1>2. todo \in Seq(Statements)
  BY <1>1, StatementsAssumption
<1>3. IsStack(todo) /\ OwedBy(todo) = {} /\ Sole(todo) /\ ItemsOK(todo, LabelsIn(code))
  BY <1>2, BodyItems
<1>4. DOMAIN generated = {}
  BY <1>1
<1>5. IsFiniteSet(DOMAIN generated) /\ \A f \in DOMAIN generated : FALSE
  BY <1>4, FS_EmptySet
<1> QED BY <1>1, <1>3, <1>5, Nothing DEF GInv, Sound

\* Code without labels behind the code, and the next item.
LEMMA PlainStep ==
  ASSUME GInv, NEW d, Plain(d), todo # <<>>, Owed(S) = {},
         code' = code \o d, todo' = Tail(todo), UNCHANGED <<labelCount, generated>>
  PROVE  GInv'
<1>1. IsStack(d) /\ OnceIn(d) /\ LabelsIn(d) = Owed(Head(todo)) /\ GoalsIn(d) \subseteq LabelsIn(code)
  BY NoLabels DEF Plain, S
<1>2. Sound(code \o d, Tail(todo), labelCount, generated)
  BY <1>1, Finished DEF GInv
<1> QED BY <1>2 DEF GInv

\* No code, and the next item.
LEMMA SilentStep ==
  ASSUME GInv, todo # <<>>, Owed(S) = {}, todo' = Tail(todo),
         UNCHANGED <<code, labelCount, generated>>
  PROVE  GInv'
<1>1. code' = code \o <<>>
  BY NothingMore DEF GInv, Sound
<1> QED BY <1>1, PlainStep, PlainNothing

LEMMA SoundDecl == ASSUME GInv, GenDecl PROVE GInv'
<1>1. /\ At("decl") /\ ~BadCall(S.value) /\ todo' = Tail(todo)
      /\ UNCHANGED <<labelCount, generated>>
  BY DEF GenDecl, CanEvaluate, Throws
<1>2. S \in Statements /\ S.k = "decl" /\ Owed(S) = {} /\ todo # <<>>
  BY <1>1, AtStatement
<1> DEFINE slot == LocalsHere[S.name].location
           r == <<Instr("store", slot, todo, S.value.k = "call")>>
           d == IF S.value.k = "none" THEN <<>> ELSE ValueCode(S.value) \o r
<1>3. code' = code \o d
  BY DEF GenDecl
<1>4. Plain(ValueCode(S.value))
  BY <1>1, <1>2, StatementValues, ValueFacts
<1>5. Plain(r)
  BY PlainInstr
<1> HIDE DEF r
<1>6. Plain(ValueCode(S.value) \o r)
  BY <1>4, <1>5, PlainJoined
<1>7. Plain(d)
  BY <1>6, PlainNothing
<1> HIDE DEF d
<1> QED BY <1>1, <1>2, <1>3, <1>7, PlainStep

LEMMA SoundAssign == ASSUME GInv, GenAssign PROVE GInv'
<1>1. /\ At("assign") /\ ~BadCall(S.value) /\ todo' = Tail(todo)
      /\ UNCHANGED <<labelCount, generated>>
  BY DEF GenAssign, CanEvaluate, Throws
<1>2. S \in Statements /\ S.k = "assign" /\ Owed(S) = {} /\ todo # <<>>
  BY <1>1, AtStatement
<1> DEFINE after == VariablesAfter(S.value)
           r == <<Instr("store", Located(after[S.name], S.attr), todo, S.value.k = "call")>>
           v == ValueCode(S.value)
<1>3. code' = code \o v \o r
  BY DEF GenAssign
<1>4. Plain(v)
  BY <1>1, <1>2, StatementValues, ValueFacts
<1>5. Plain(r)
  BY PlainInstr
<1> HIDE DEF r, v
<1>6. code' = code \o (v \o r)
  BY <1>3, <1>4, <1>5, Regrouped DEF Plain, GInv, Sound
<1>7. Plain(v \o r)
  BY <1>4, <1>5, PlainJoined
<1> QED BY <1>1, <1>2, <1>6, <1>7, PlainStep

LEMMA SoundReturn == ASSUME GInv, GenReturn PROVE GInv'
<1>1. /\ At("return") /\ ~BadCall(S.value) /\ todo' = Tail(todo)
      /\ UNCHANGED <<labelCount, generated>>
  BY DEF GenReturn, CanEvaluate, Throws
<1>2. S \in Statements /\ S.k = "return" /\ Owed(S) = {} /\ todo # <<>>
  BY <1>1, AtStatement
<1> DEFINE r == <<Instr("return", Cardinality(OnStack), todo, S.value.k = "call")>>
           v == IF S.value.k = "none" THEN <<>> ELSE ValueCode(S.value)
<1>3. code' = code \o v \o r
  BY DEF GenReturn
<1>4. Plain(ValueCode(S.value))
  BY <1>1, <1>2, StatementValues, ValueFacts
<1>5. Plain(v) /\ Plain(r)
  BY <1>4, PlainInstr, PlainNothing
<1> HIDE DEF r, v
<1>6. code' = code \o (v \o r)
  BY <1>3, <1>5, Regrouped DEF Plain, GInv, Sound
<1>7. Plain(v \o r)
  BY <1>5, PlainJoined
<1> QED BY <1>1, <1>2, <1>6, <1>7, PlainStep

LEMMA SoundExit == ASSUME GInv, GenExit PROVE GInv'
<1>1. /\ At("exit") /\ ~BadCall(S.value) /\ todo' = Tail(todo)
      /\ UNCHANGED <<labelCount, generated>>
  BY DEF GenExit, CanEvaluate, Throws
<1>2. S \in Statements /\ S.k = "exit" /\ Owed(S) = {} /\ todo # <<>>
  BY <1>1, AtStatement
<1> DEFINE r == <<Instr("exit", S.value.k = "none", todo, S.value.k = "call")>>
           v == IF S.value.k = "none" THEN <<>> ELSE ValueCode(S.value)
<1>3. code' = code \o v \o r
  BY DEF GenExit
<1>4. Plain(ValueCode(S.value))
  BY <1>1, <1>2, StatementValues, ValueFacts
<1>5. Plain(v) /\ Plain(r)
  BY <1>4, PlainInstr, PlainNothing
<1> HIDE DEF r, v
<1>6. code' = code \o (v \o r)
  BY <1>3, <1>5, Regrouped DEF Plain, GInv, Sound
<1>7. Plain(v \o r)
  BY <1>5, PlainJoined
<1> QED BY <1>1, <1>2, <1>6, <1>7, PlainStep

LEMMA SoundCall == ASSUME GInv, GenCall PROVE GInv'
<1>1. /\ At("call") /\ ~BadCall(S) /\ todo' = Tail(todo) /\ code' = code \o CallCode(S)
      /\ UNCHANGED <<labelCount, generated>>
  BY DEF GenCall, Throws
<1>2. S \in Statements /\ S.k = "call" /\ Owed(S) = {} /\ todo # <<>>
  BY <1>1, AtStatement
<1>3. Len(S.values) \in Nat /\ S.name \in DOMAIN generated
  BY <1>1, <1>2, StatementValues DEF Countable, BadCall
<1>4. Plain(CallCode(S))
  BY <1>3, CallFacts
<1> QED BY <1>1, <1>2, <1>4, PlainStep

LEMMA SoundAsm == ASSUME GInv, GenAsm PROVE GInv'
<1> DEFINE r == Instr("asm", "text", todo, FALSE)
<1>1. /\ At("asm") /\ todo' = Tail(todo) /\ code' = Append(code, r)
      /\ UNCHANGED <<labelCount, generated>>
  BY DEF GenAsm
<1>2. S \in Statements /\ Owed(S) = {} /\ todo # <<>>
  BY <1>1, AtStatement
<1>3. Plain(<<r>>)
  BY PlainInstr
<1> HIDE DEF r
<1>4. code' = code \o <<r>>
  BY <1>1, AppendedCode DEF GInv, Sound
<1> QED BY <1>1, <1>2, <1>3, <1>4, PlainStep

LEMMA SoundSilent == ASSUME GInv, EndMain \/ EndFunc \/ SkipType PROVE GInv'
<1>1. /\ todo # <<>> /\ S.k \in {"endmain", "endfunc", "type"} /\ todo' = Tail(todo)
      /\ UNCHANGED <<code, labelCount, generated>>
  BY DEF EndMain, EndFunc, SkipType, At, S
<1>2. Owed(S) = {}
  BY <1>1 DEF Owed
<1> QED BY <1>1, <1>2, SilentStep

-----------------------------------------------------------------------------
(* Steps that define labels.                                               *)

LEMMA TestFacts ==
  ASSUME GInv, NEW e, Countable(e), ~BadCall(e), NEW label
  PROVE  /\ IsStack(Test(e, label)) /\ OnceIn(Test(e, label)) /\ LabelsIn(Test(e, label)) = {}
         /\ GoalsIn(Test(e, label)) \subseteq LabelsIn(code) \cup {label}
<1> DEFINE r == Instr("je", label, todo, e.k = "call")
           v == ValueCode(e)
<1>1. r.op = "je" /\ r.arg = label
  BY DEF Instr
<1>2. Plain(v)
  BY ValueFacts
<1> HIDE DEF r, v
<1>3. IsStack(<<r>>) /\ LabelsIn(<<r>>) = {} /\ GoalsIn(<<r>>) = {label}
  BY <1>1, Alone
<1>4. /\ IsStack(v \o <<r>>) /\ LabelsIn(v \o <<r>>) = {}
      /\ GoalsIn(v \o <<r>>) \subseteq LabelsIn(code) \cup {label}
  BY <1>2, <1>3, Joined DEF Plain
<1> QED BY <1>4, NoLabels DEF Test, r, v

\* The next two labels are new.
Next2(n) == {Label(n), Label(n + 1)}

LEMMA FreshLabels ==
  \A n \in Nat :
    /\ Taken(n) \subseteq Taken(n + 2) /\ n + 2 \in Nat
    /\ Next2(n) \subseteq Taken(n + 2) /\ Label(n) # Label(n + 1)
    /\ Next2(n) \cap Taken(n) = {}
    /\ \A g : Next2(n) \cap ({Start} \cup FunctionTaken(g)) = {}
<1> SUFFICES ASSUME NEW n \in Nat
             PROVE  /\ Taken(n) \subseteq Taken(n + 2) /\ n + 2 \in Nat
                    /\ Next2(n) \subseteq Taken(n + 2) /\ Label(n) # Label(n + 1)
                    /\ Next2(n) \cap Taken(n) = {}
                    /\ \A g : Next2(n) \cap ({Start} \cup FunctionTaken(g)) = {}
  OBVIOUS
<1>1. \A i : i \in 0..(n - 1) => i \in 0..(n + 2 - 1)
  OBVIOUS
<1>2. n \in 0..(n + 2 - 1) /\ n + 1 \in 0..(n + 2 - 1)
  OBVIOUS
<1>3. \A i \in 0..(n - 1) : i # n /\ i # n + 1 /\ i \in Int
  OBVIOUS
<1>4. Taken(n) \subseteq Taken(n + 2)
  BY <1>1 DEF Taken
<1>5. {Label(n), Label(n + 1)} \subseteq Taken(n + 2)
  BY <1>2 DEF Taken
<1>6. Label(n) # Label(n + 1)
  BY LabelsDiffer
<1>7. {Label(n), Label(n + 1)} \cap Taken(n) = {}
  BY <1>3, LabelsDiffer DEF Taken
<1>8. \A g : {Label(n), Label(n + 1)} \cap ({Start} \cup FunctionTaken(g)) = {}
  BY LabelsDiffer DEF FunctionTaken
<1> QED BY <1>4, <1>5, <1>6, <1>7, <1>8 DEF Next2

\* The next item waits for a body behind new code, and owes only new labels.
LEMMA OpenedStep ==
  ASSUME GInv, todo # <<>>, Owed(S) = {}, NEW b \in Seq(Statements), NEW x, NEW d,
         IsStack(d), OnceIn(d), LabelsIn(d) \cup Owed(x) \subseteq Next2(labelCount),
         LabelsIn(d) \cap Owed(x) = {},
         ItemOK(x, LabelsIn(code) \cup LabelsIn(d)),
         GoalsIn(d) \subseteq LabelsIn(code) \cup Owed(x),
         code' = code \o d, todo' = b \o <<x>> \o Tail(todo), labelCount' = labelCount + 2,
         UNCHANGED generated
  PROVE  GInv'
<1> DEFINE u == b \o <<x>> \o Tail(todo)
           m == labelCount + 2
           new == Next2(labelCount)
           more == LabelsIn(code) \cup LabelsIn(d)
<1>1. /\ labelCount \in Nat /\ IsStack(todo) /\ ItemsOK(todo, LabelsIn(code)) /\ Sole(todo)
      /\ OwedBy(todo) \subseteq Taken(labelCount) /\ OwedBy(todo) \cap LabelsIn(code) = {}
      /\ LabelsIn(code) \subseteq {Start} \cup Taken(labelCount) \cup FunctionTaken(generated)
      /\ IsFiniteSet(DOMAIN generated)
      /\ \A f \in DOMAIN generated : generated[f].label \in LabelsIn(code)
  BY DEF GInv, Sound
<1>2. OwedBy(todo) = OwedBy(Tail(todo))
  <2>1. OwedBy(todo) = Owed(S) \cup OwedBy(Tail(todo))
    BY <1>1, RestItems DEF S
  <2> QED BY <2>1
<1>3. /\ Taken(labelCount) \subseteq Taken(m) /\ new \subseteq Taken(m)
      /\ new \cap Taken(labelCount) = {} /\ new \cap ({Start} \cup FunctionTaken(generated)) = {}
      /\ m \in Nat
  <2>1. \A n \in Nat : n = labelCount =>
          /\ Taken(n) \subseteq Taken(m) /\ m \in Nat /\ Next2(n) \subseteq Taken(m)
          /\ Next2(n) \cap Taken(n) = {}
          /\ \A g : Next2(n) \cap ({Start} \cup FunctionTaken(g)) = {}
    BY FreshLabels
  <2> QED BY <1>1, <2>1, Zenon
<1> HIDE DEF m, new
<1>4. new \cap LabelsIn(code) = {}
  BY <1>1, <1>3
<1>5. Owed(x) \cap OwedBy(Tail(todo)) = {}
  BY <1>1, <1>2, <1>3 DEF new
<1>a. LabelsIn(code) \subseteq more /\ ItemOK(x, more)
  OBVIOUS
<1>b. u = b \o <<x>> \o Tail(todo)
  OBVIOUS
<1> HIDE DEF u, more
<1>6. /\ IsStack(u) /\ Sole(u) /\ ItemsOK(u, more)
      /\ OwedBy(u) = Owed(x) \cup OwedBy(Tail(todo))
  <2>1. IsStack(todo) /\ ItemsOK(todo, more) /\ Sole(todo) /\ ItemOK(x, more)
    BY <1>1, <1>a, MoreLabels
  <2>2. LET v == b \o <<x>> \o Tail(todo)
        IN  /\ IsStack(v) /\ Sole(v) /\ ItemsOK(v, more)
            /\ OwedBy(v) = Owed(x) \cup OwedBy(Tail(todo))
    BY <2>1, <1>5, Opened
  <2> QED BY <2>2, <1>b, Zenon
<1>7. LabelsIn(d) \subseteq new /\ Owed(x) \subseteq new
  BY DEF new
<1>8. /\ LabelsIn(d) \cap LabelsIn(code) \subseteq {Start}
      /\ LabelsIn(d) \subseteq {Start} \cup Taken(m) \cup FunctionTaken(generated)
      /\ \A f \in DOMAIN generated : generated[f].label \in LabelsIn(code) \cup LabelsIn(d)
  BY <1>1, <1>3, <1>4, <1>7
<1>9. OwedBy(u) \subseteq Taken(m) /\ OwedBy(u) \cap (LabelsIn(code) \cup LabelsIn(d)) = {}
  BY <1>1, <1>2, <1>3, <1>4, <1>6, <1>7
<1>10. /\ GoalsIn(d) \subseteq LabelsIn(code) \cup LabelsIn(d) \cup OwedBy(u)
       /\ OwedBy(todo) \subseteq LabelsIn(d) \cup OwedBy(u)
  BY <1>2, <1>6
<1>11. Sound(code, todo, labelCount, generated)
  BY DEF GInv
<1>12. Sound(code \o d, u, m, generated)
  BY <1>1, <1>3, <1>6, <1>8, <1>9, <1>10, <1>11, Grown DEF more
<1> QED BY <1>12 DEF GInv, u, m

LEMMA SoundIf == ASSUME GInv, GenIf PROVE GInv'
<1> DEFINE elseLabel == Label(labelCount)
           endLabel  == Label(labelCount + 1)
<1>1. /\ At("if") /\ ~BadCall(S.value) /\ labelCount' = labelCount + 2
      /\ UNCHANGED generated
  BY DEF GenIf, CanEvaluate, Throws
<1>2. S \in Statements /\ S.k = "if" /\ Owed(S) = {} /\ todo # <<>>
  BY <1>1, AtStatement
<1>3. S.body \in Seq(Statements) /\ S.else \in Seq(Statements) /\ Countable(S.value)
  BY <1>2, Bodies, StatementValues
<1>4. labelCount \in Nat /\ elseLabel # endLabel
  BY FreshLabels DEF GInv, Sound
<1>5. CASE S.else = <<>>
  <2> DEFINE x == [k |-> "endif", end |-> endLabel]
             d == Test(S.value, endLabel)
  <2>1. code' = code \o d /\ todo' = S.body \o <<x>> \o Tail(todo)
    BY <1>5 DEF GenIf
  <2>2. Owed(x) = {endLabel} /\ \A labels : ItemOK(x, labels)
    BY DEF Owed, ItemOK
  <2>3. /\ IsStack(d) /\ OnceIn(d) /\ LabelsIn(d) = {}
        /\ GoalsIn(d) \subseteq LabelsIn(code) \cup {endLabel}
    BY <1>1, <1>3, TestFacts
  <2> HIDE DEF x, d
  <2>4. LabelsIn(d) \cup Owed(x) \subseteq Next2(labelCount)
    BY <2>2, <2>3 DEF Next2
  <2> QED BY <1>1, <1>2, <1>3, <2>1, <2>2, <2>3, <2>4, OpenedStep
<1>6. CASE S.else # <<>>
  <2> DEFINE x == [k |-> "else", body |-> S.else, label |-> elseLabel, end |-> endLabel]
             d == Test(S.value, elseLabel)
  <2>1. code' = code \o d /\ todo' = S.body \o <<x>> \o Tail(todo)
    BY <1>6 DEF GenIf
  <2>2. Owed(x) = {elseLabel, endLabel} /\ \A labels : ItemOK(x, labels)
    BY <1>3, <1>4 DEF Owed, ItemOK
  <2>3. /\ IsStack(d) /\ OnceIn(d) /\ LabelsIn(d) = {}
        /\ GoalsIn(d) \subseteq LabelsIn(code) \cup {elseLabel}
    BY <1>1, <1>3, TestFacts
  <2> HIDE DEF x, d
  <2>4. LabelsIn(d) \cup Owed(x) \subseteq Next2(labelCount)
    BY <2>2, <2>3 DEF Next2
  <2> QED BY <1>1, <1>2, <1>3, <2>1, <2>2, <2>3, <2>4, OpenedStep
<1> QED BY <1>5, <1>6

LEMMA SoundWhile == ASSUME GInv, GenWhile PROVE GInv'
<1> DEFINE startLabel == Label(labelCount)
           endLabel   == Label(labelCount + 1)
           l == Instr("label", startLabel, todo, FALSE)
           v == Test(S.value, endLabel)
           x == [k |-> "loop", while |-> S, start |-> startLabel, end |-> endLabel]
<1>1. /\ At("while") /\ ~BadCall(S.value) /\ labelCount' = labelCount + 2
      /\ UNCHANGED generated
      /\ code' = code \o <<l>> \o v /\ todo' = S.body \o <<x>> \o Tail(todo)
  BY DEF GenWhile, CanEvaluate, Throws
<1>2. S \in Statements /\ S.k = "while" /\ Owed(S) = {} /\ todo # <<>>
  BY <1>1, AtStatement
<1>3. S.body \in Seq(Statements) /\ Countable(S.value)
  BY <1>2, Bodies, StatementValues
<1>4. labelCount \in Nat /\ startLabel # endLabel
  BY FreshLabels DEF GInv, Sound
<1>5. Owed(x) = {endLabel} /\ \A labels : startLabel \in labels => ItemOK(x, labels)
  BY DEF Owed, ItemOK
<1>6. l.op = "label" /\ l.arg = startLabel
  BY DEF Instr
<1>7. /\ IsStack(v) /\ OnceIn(v) /\ LabelsIn(v) = {}
      /\ GoalsIn(v) \subseteq LabelsIn(code) \cup {endLabel}
  BY <1>1, <1>3, TestFacts
<1> HIDE DEF l, v, x
<1>8. IsStack(<<l>>) /\ OnceIn(<<l>>) /\ LabelsIn(<<l>>) = {startLabel} /\ GoalsIn(<<l>>) = {}
  BY <1>6, Alone
<1> DEFINE d == <<l>> \o v
<1>9. code' = code \o d
  BY <1>1, <1>7, <1>8, Regrouped DEF GInv, Sound
<1>10. /\ IsStack(d) /\ OnceIn(d) /\ LabelsIn(d) = {startLabel}
       /\ GoalsIn(d) \subseteq LabelsIn(code) \cup {endLabel}
  BY <1>7, <1>8, Joined
<1> HIDE DEF d
<1>11. /\ LabelsIn(d) \cup Owed(x) \subseteq Next2(labelCount) /\ LabelsIn(d) \cap Owed(x) = {}
       /\ ItemOK(x, LabelsIn(code) \cup LabelsIn(d))
       /\ GoalsIn(d) \subseteq LabelsIn(code) \cup Owed(x)
  BY <1>4, <1>5, <1>10 DEF Next2
<1> QED BY <1>1, <1>2, <1>3, <1>9, <1>10, <1>11, OpenedStep

LEMMA SoundElse == ASSUME GInv, GenElse PROVE GInv'
<1> DEFINE q == Instr("jmp", S.end, todo, FALSE)
           l == Instr("label", S.label, todo', FALSE)
           x == [k |-> "endif", end |-> S.end]
           r == Tail(todo)
<1>1. /\ todo # <<>> /\ S.k = "else" /\ todo' = S.body \o <<x>> \o r /\ code' = code \o <<q, l>>
      /\ UNCHANGED <<labelCount, generated>>
  BY DEF GenElse, At, S
<1>2. /\ IsStack(todo) /\ Sole(todo) /\ ItemsOK(todo, LabelsIn(code))
      /\ OwedBy(todo) \subseteq Taken(labelCount) /\ OwedBy(todo) \cap LabelsIn(code) = {}
      /\ labelCount \in Nat /\ IsFiniteSet(DOMAIN generated)
      /\ \A f \in DOMAIN generated : generated[f].label \in LabelsIn(code)
  BY DEF GInv, Sound
<1>3. /\ ItemOK(S, LabelsIn(code)) /\ OwedBy(todo) = Owed(S) \cup OwedBy(r)
      /\ Owed(S) \cap OwedBy(r) = {}
  BY <1>1, <1>2, RestItems DEF S
<1>4. Owed(S) = {S.label, S.end} /\ S.body \in Seq(Statements) /\ S.label # S.end
  BY <1>1, <1>3, StatementsAssumption DEF Owed, ItemOK
<1>5. Owed(x) = {S.end} /\ \A labels : ItemOK(x, labels)
  BY DEF Owed, ItemOK
<1>6. q.op = "jmp" /\ q.arg = S.end /\ l.op = "label" /\ l.arg = S.label
  BY DEF Instr
<1> HIDE DEF q, l, x, r
<1>7. /\ IsStack(<<q, l>>) /\ OnceIn(<<q, l>>)
      /\ LabelsIn(<<q, l>>) = {S.label} /\ GoalsIn(<<q, l>>) = {S.end}
  <2>1. /\ IsStack(<<q, l>>) /\ OnceIn(<<q, l>>)
        /\ LabelsIn(<<q, l>>) = LabelsIn(<<q>>) \cup LabelsIn(<<l>>)
        /\ GoalsIn(<<q, l>>) = GoalsIn(<<q>>) \cup GoalsIn(<<l>>)
    BY <1>6, Pair
  <2>2. /\ LabelsIn(<<q>>) = {} /\ LabelsIn(<<l>>) = {S.label}
        /\ GoalsIn(<<q>>) = {S.end} /\ GoalsIn(<<l>>) = {}
    BY <1>6, Alone
  <2> QED BY <2>1, <2>2
<1> DEFINE d == <<q, l>>
           u == S.body \o <<x>> \o r
<1> HIDE DEF d
<1>8. /\ IsStack(u) /\ Sole(u) /\ ItemsOK(u, LabelsIn(code)) /\ OwedBy(u) = Owed(x) \cup OwedBy(r)
  <2>1. Owed(x) \cap OwedBy(r) = {}
    BY <1>3, <1>4, <1>5
  <2>2. ItemOK(x, LabelsIn(code))
    BY <1>5
  <2> QED BY <1>1, <1>2, <1>4, <2>1, <2>2, Opened DEF r
<1> HIDE DEF u
<1>9. ItemsOK(u, LabelsIn(code) \cup LabelsIn(d))
  BY <1>8, MoreLabels
<1>10. /\ LabelsIn(d) = {S.label} /\ GoalsIn(d) = {S.end} /\ IsStack(d) /\ OnceIn(d)
       /\ OwedBy(todo) = {S.label, S.end} \cup OwedBy(r) /\ OwedBy(u) = {S.end} \cup OwedBy(r)
  BY <1>3, <1>4, <1>5, <1>7, <1>8 DEF d
<1>11. /\ LabelsIn(d) \cap LabelsIn(code) \subseteq {Start}
       /\ LabelsIn(d) \subseteq {Start} \cup Taken(labelCount) \cup FunctionTaken(generated)
       /\ OwedBy(u) \subseteq Taken(labelCount)
       /\ GoalsIn(d) \subseteq LabelsIn(code) \cup LabelsIn(d) \cup OwedBy(u)
       /\ OwedBy(todo) \subseteq LabelsIn(d) \cup OwedBy(u)
       /\ \A f \in DOMAIN generated : generated[f].label \in LabelsIn(code) \cup LabelsIn(d)
  BY <1>2, <1>10
<1>12. OwedBy(u) \cap (LabelsIn(code) \cup LabelsIn(d)) = {}
  BY <1>2, <1>3, <1>4, <1>10
<1>13. Sound(code \o d, u, labelCount, generated)
  <2>1. Sound(code, todo, labelCount, generated)
    BY DEF GInv
  <2> QED BY <1>2, <1>8, <1>9, <1>10, <1>11, <1>12, <2>1, Grown
<1>14. code' = code \o d /\ todo' = u
  BY <1>1 DEF d, u
<1> QED BY <1>1, <1>13, <1>14 DEF GInv

LEMMA SoundEndIf == ASSUME GInv, EndIf PROVE GInv'
<1> DEFINE l == Instr("label", S.end, todo, FALSE)
<1>1. /\ todo # <<>> /\ S.k = "endif" /\ todo' = Tail(todo) /\ code' = Append(code, l)
      /\ UNCHANGED <<labelCount, generated>>
  BY DEF EndIf, At, S
<1>2. l.op = "label" /\ l.arg = S.end
  BY DEF Instr
<1> HIDE DEF l
<1>3. Owed(S) = {S.end}
  BY <1>1 DEF Owed
<1>4. /\ IsStack(<<l>>) /\ OnceIn(<<l>>) /\ LabelsIn(<<l>>) = Owed(Head(todo))
      /\ GoalsIn(<<l>>) = {}
  BY <1>2, <1>3, Alone DEF S
<1>5. GoalsIn(<<l>>) \subseteq LabelsIn(code) \cup OwedBy(todo)
  BY <1>4
<1>6. Sound(code \o <<l>>, Tail(todo), labelCount, generated)
  BY <1>1, <1>4, <1>5, Finished DEF GInv
<1>7. code' = code \o <<l>>
  BY <1>1, AppendedCode DEF GInv, Sound
<1> QED BY <1>1, <1>6, <1>7 DEF GInv

LEMMA SoundLoop == ASSUME GInv, Loop PROVE GInv'
<1> DEFINE q == Instr("jmp", S.start, todo, FALSE)
           l == Instr("label", S.end, todo', FALSE)
<1>1. /\ todo # <<>> /\ S.k = "loop" /\ todo' = Tail(todo) /\ code' = code \o <<q, l>>
      /\ UNCHANGED <<labelCount, generated>>
  BY DEF Loop, At, S
<1>2. q.op = "jmp" /\ q.arg = S.start /\ l.op = "label" /\ l.arg = S.end
  BY DEF Instr
<1> HIDE DEF q, l
<1>3. ItemOK(S, LabelsIn(code))
  BY <1>1, RestItems DEF S, GInv, Sound
<1>4. Owed(S) = {S.end} /\ S.start \in LabelsIn(code)
  BY <1>1, <1>3, StatementsAssumption DEF Owed, ItemOK
<1>5. /\ IsStack(<<q, l>>) /\ OnceIn(<<q, l>>)
      /\ LabelsIn(<<q, l>>) = LabelsIn(<<q>>) \cup LabelsIn(<<l>>)
      /\ GoalsIn(<<q, l>>) = GoalsIn(<<q>>) \cup GoalsIn(<<l>>)
  BY <1>2, Pair
<1>6. /\ LabelsIn(<<q>>) = {} /\ LabelsIn(<<l>>) = {S.end}
      /\ GoalsIn(<<q>>) = {S.start} /\ GoalsIn(<<l>>) = {}
  BY <1>2, Alone
<1>7. LabelsIn(<<q, l>>) = Owed(Head(todo)) /\ GoalsIn(<<q, l>>) \subseteq LabelsIn(code) \cup OwedBy(todo)
  BY <1>4, <1>5, <1>6 DEF S
<1>8. Sound(code \o <<q, l>>, Tail(todo), labelCount, generated)
  BY <1>1, <1>5, <1>7, Finished DEF GInv
<1> QED BY <1>1, <1>8 DEF GInv

\* The label of a function or of main, and its frame, before its body.
LEMMA HeaderFacts ==
  ASSUME NEW label, NEW f, NEW rest
  PROVE  LET d == <<Instr("label", label, rest, FALSE), Enter(f, rest)>>
         IN  IsStack(d) /\ OnceIn(d) /\ LabelsIn(d) = {label} /\ GoalsIn(d) = {}
<1> DEFINE l == Instr("label", label, rest, FALSE)
           e == Enter(f, rest)
<1>1. l.op = "label" /\ l.arg = label
  BY DEF Instr
<1>2. e.op = "enter"
  BY DEF Enter, Instr
<1> HIDE DEF l, e
<1>3. /\ IsStack(<<l, e>>) /\ OnceIn(<<l, e>>)
      /\ LabelsIn(<<l, e>>) = LabelsIn(<<l>>) \cup LabelsIn(<<e>>)
      /\ GoalsIn(<<l, e>>) = GoalsIn(<<l>>) \cup GoalsIn(<<e>>)
  BY <1>2, Pair
<1>4. /\ LabelsIn(<<l>>) = {label} /\ LabelsIn(<<e>>) = {}
      /\ GoalsIn(<<l>>) = {} /\ GoalsIn(<<e>>) = {}
  BY <1>1, <1>2, Alone
<1>5. IsStack(<<l, e>>) /\ OnceIn(<<l, e>>) /\ LabelsIn(<<l, e>>) = {label} /\ GoalsIn(<<l, e>>) = {}
  BY <1>3, <1>4
<1> QED BY <1>5 DEF l, e

\* A body behind a header; no new label but that of a function.
LEMMA HeadedStep ==
  ASSUME GInv, todo # <<>>, Owed(S) = {}, NEW b \in Seq(Statements), NEW x, Owed(x) = {},
         \A labels : ItemOK(x, labels),
         NEW d, IsStack(d), OnceIn(d), GoalsIn(d) = {}, NEW label, LabelsIn(d) = {label},
         NEW h, IsFiniteSet(DOMAIN h), FunctionTaken(generated) \subseteq FunctionTaken(h),
         label = Start \/ label \in FunctionTaken(h) \ FunctionTaken(generated),
         \A f \in DOMAIN h : \/ h[f].label = label
                             \/ f \in DOMAIN generated /\ h[f] = generated[f],
         code' = code \o d, todo' = b \o <<x>> \o Tail(todo), generated' = h,
         UNCHANGED labelCount
  PROVE  GInv'
<1> DEFINE u == b \o <<x>> \o Tail(todo)
<1>1. /\ IsStack(todo) /\ Sole(todo) /\ ItemsOK(todo, LabelsIn(code))
      /\ OwedBy(todo) \subseteq Taken(labelCount) /\ OwedBy(todo) \cap LabelsIn(code) = {}
      /\ LabelsIn(code) \subseteq {Start} \cup Taken(labelCount) \cup FunctionTaken(generated)
      /\ labelCount \in Nat
      /\ \A f \in DOMAIN generated : generated[f].label \in LabelsIn(code)
  BY DEF GInv, Sound
<1>2. OwedBy(todo) = OwedBy(Tail(todo))
  <2>1. OwedBy(todo) = Owed(S) \cup OwedBy(Tail(todo))
    BY <1>1, RestItems DEF S
  <2> QED BY <2>1
<1>3. IsStack(u) /\ Sole(u) /\ ItemsOK(u, LabelsIn(code)) /\ OwedBy(u) = OwedBy(todo)
  <2>1. ItemOK(x, LabelsIn(code)) /\ Owed(x) \cap OwedBy(Tail(todo)) = {}
    OBVIOUS
  <2>2. /\ IsStack(u) /\ Sole(u) /\ ItemsOK(u, LabelsIn(code))
        /\ OwedBy(u) = Owed(x) \cup OwedBy(Tail(todo))
    BY <1>1, <2>1, Opened
  <2> HIDE DEF u
  <2> QED BY <1>2, <2>2
<1> HIDE DEF u
<1>4. ItemsOK(u, LabelsIn(code) \cup LabelsIn(d))
  BY <1>3, MoreLabels
<1>5. label \notin Taken(labelCount)
  BY LabelsDiffer DEF Taken, FunctionTaken
<1>6. label = Start \/ label \notin LabelsIn(code)
  <2>1. label \in FunctionTaken(h) => label # Start
    BY LabelsDiffer DEF FunctionTaken
  <2> QED BY <1>1, <1>5, <2>1
<1>7. /\ LabelsIn(d) \cap LabelsIn(code) \subseteq {Start}
      /\ LabelsIn(d) \subseteq {Start} \cup Taken(labelCount) \cup FunctionTaken(h)
      /\ OwedBy(u) \subseteq Taken(labelCount)
      /\ OwedBy(u) \cap (LabelsIn(code) \cup LabelsIn(d)) = {}
      /\ GoalsIn(d) \subseteq LabelsIn(code) \cup LabelsIn(d) \cup OwedBy(u)
      /\ OwedBy(todo) \subseteq LabelsIn(d) \cup OwedBy(u)
      /\ \A f \in DOMAIN h : h[f].label \in LabelsIn(code) \cup LabelsIn(d)
  BY <1>1, <1>3, <1>5, <1>6
<1>8. Sound(code \o d, u, labelCount, h)
  <2>1. Sound(code, todo, labelCount, generated)
    BY DEF GInv
  <2> QED BY <1>1, <1>3, <1>4, <1>7, <2>1, Grown
<1> QED BY <1>8 DEF GInv, u

LEMMA SoundMain == ASSUME GInv, GenMain PROVE GInv'
<1> DEFINE x == [k |-> "endmain"]
           d == <<Instr("label", Start, todo', FALSE), Enter("main", todo')>>
<1>1. /\ At("main") /\ todo' = S.body \o <<x>> \o Tail(todo) /\ code' = code \o d
      /\ UNCHANGED <<labelCount, generated>>
  BY DEF GenMain, Start
<1>2. S \in Statements /\ S.k = "main" /\ Owed(S) = {} /\ todo # <<>>
  BY <1>1, AtStatement
<1>3. S.body \in Seq(Statements)
  BY <1>2, Bodies
<1>4. IsStack(d) /\ OnceIn(d) /\ LabelsIn(d) = {Start} /\ GoalsIn(d) = {}
  BY HeaderFacts
<1>5. Owed(x) = {} /\ \A labels : ItemOK(x, labels)
  BY DEF Owed, ItemOK
<1>6. IsFiniteSet(DOMAIN generated)
  BY DEF GInv, Sound
<1> HIDE DEF d, x
<1> QED BY <1>1, <1>2, <1>3, <1>4, <1>5, <1>6, HeadedStep

LEMMA SoundFunc == ASSUME GInv, GenFunc PROVE GInv'
<1> DEFINE x == [k |-> "endfunc"]
           label == <<"func", Cardinality(DOMAIN generated)>>
           v == [label |-> label, argCnt |-> Len(S.args)]
           h == FP!Assign(generated, S.name, v)
           d == <<Instr("label", label, todo', FALSE), Enter(S.name, todo')>>
<1>1. /\ At("func") /\ S.name \notin DOMAIN generated
      /\ todo' = S.body \o <<x>> \o Tail(todo) /\ code' = code \o d
      /\ generated' = h /\ UNCHANGED labelCount
  BY DEF GenFunc
<1>2. S \in Statements /\ S.k = "func" /\ Owed(S) = {} /\ todo # <<>>
  BY <1>1, AtStatement
<1>3. S.body \in Seq(Statements)
  BY <1>2, Bodies
<1>4. IsStack(d) /\ OnceIn(d) /\ LabelsIn(d) = {label} /\ GoalsIn(d) = {}
  BY HeaderFacts
<1>5. Owed(x) = {} /\ \A labels : ItemOK(x, labels)
  BY DEF Owed, ItemOK
<1>6. /\ DOMAIN h = DOMAIN generated \cup {S.name} /\ h[S.name] = v
      /\ \A f \in DOMAIN generated : h[f] = generated[f]
  BY <1>1 DEF FP!Assign
<1>7. v.label = label
  OBVIOUS
<1> HIDE DEF v
<1>8. \A f \in DOMAIN h : \/ h[f].label = label
                          \/ f \in DOMAIN generated /\ h[f] = generated[f]
  BY <1>6, <1>7
<1> HIDE DEF h
<1>9. PICK n \in Nat : n = Cardinality(DOMAIN generated)
  BY FS_CardinalityType DEF GInv, Sound
<1>10. IsFiniteSet(DOMAIN h) /\ Cardinality(DOMAIN h) = n + 1
  <2>1. IsFiniteSet(DOMAIN generated)
    BY DEF GInv, Sound
  <2>2. /\ IsFiniteSet(DOMAIN generated \cup {S.name})
        /\ Cardinality(DOMAIN generated \cup {S.name}) = Cardinality(DOMAIN generated) + 1
    BY <1>1, <2>1, FS_AddElement
  <2> QED BY <1>6, <1>9, <2>2
<1>11. /\ FunctionTaken(generated) \subseteq FunctionTaken(h)
       /\ label \in FunctionTaken(h) \ FunctionTaken(generated)
  <2>1. /\ \A i \in 0..(n - 1) : i \in 0..n /\ i # n
        /\ n \in 0..n /\ n + 1 - 1 = n
    OBVIOUS
  <2>2. /\ FunctionTaken(generated) = {<<"func", i>> : i \in 0..(n - 1)}
        /\ FunctionTaken(h) = {<<"func", i>> : i \in 0..n}
    BY <1>9, <1>10, <2>1 DEF FunctionTaken
  <2>3. FunctionTaken(generated) \subseteq FunctionTaken(h)
    BY <2>1, <2>2
  <2>4. label \in FunctionTaken(h)
    BY <1>9, <2>1, <2>2
  <2>5. label \notin FunctionTaken(generated)
    BY <1>9, <2>1, <2>2, LabelsDiffer
  <2> QED BY <2>3, <2>4, <2>5
<1> HIDE DEF d, x, label
<1>12. LabelsIn(d) = {label} /\ GoalsIn(d) = {} /\ IsStack(d) /\ OnceIn(d)
  BY <1>4
<1>13. label = Start \/ label \in FunctionTaken(h) \ FunctionTaken(generated)
  BY <1>11
<1>14. FunctionTaken(generated) \subseteq FunctionTaken(h) /\ IsFiniteSet(DOMAIN h)
  BY <1>10, <1>11
<1> QED BY <1>1, <1>2, <1>3, <1>5, <1>8, <1>12, <1>13, <1>14, HeadedStep

-----------------------------------------------------------------------------
(* The theorems.                                                           *)

WrittenLast == output = "written" => todo = <<>>

LEMMA SoundNext == ASSUME GInv, [Next]_vars PROVE GInv'
<1>1. CASE UNCHANGED genVars
  BY <1>1 DEF genVars, GInv
<1>2. CASE Passes
  BY <1>1, <1>2 DEF Passes
<1>3. CASE Undefined \/ ValueThrows \/ DeclThrows \/ AssignThrows \/ FuncThrows
  BY <1>1, <1>3 DEF Undefined, ValueThrows, DeclThrows, AssignThrows, FuncThrows, Throw
<1>4. CASE Write
  BY <1>4 DEF Write, GInv
<1>5. CASE UNCHANGED vars
  BY <1>1, <1>5 DEF vars
<1>6. CASE \/ GenDecl \/ GenAssign \/ GenMain \/ EndMain \/ GenFunc \/ EndFunc
           \/ GenCall \/ GenReturn \/ GenExit
           \/ GenIf \/ GenElse \/ EndIf \/ GenWhile \/ Loop \/ GenAsm \/ SkipType
  BY <1>6, SoundDecl, SoundAssign, SoundMain, SoundSilent, SoundFunc, SoundCall, SoundReturn,
     SoundExit, SoundIf, SoundElse, SoundEndIf, SoundWhile, SoundLoop, SoundAsm
<1> QED BY <1>2, <1>3, <1>4, <1>5, <1>6 DEF Next, Generate

LEMMA WrittenLastNext == ASSUME WrittenLast, [Next]_vars PROVE WrittenLast'
<1>1. CASE UNCHANGED genVars
  BY <1>1 DEF genVars, WrittenLast
<1>2. CASE Passes
  BY <1>1, <1>2 DEF Passes
<1>3. CASE Undefined \/ ValueThrows \/ DeclThrows \/ AssignThrows \/ FuncThrows
  BY <1>1, <1>3 DEF Undefined, ValueThrows, DeclThrows, AssignThrows, FuncThrows, Throw
<1>4. CASE Write
  BY <1>4 DEF Write, WrittenLast
<1>5. CASE UNCHANGED vars
  BY <1>1, <1>5 DEF vars
<1>6. CASE \/ GenDecl \/ GenAssign \/ GenMain \/ EndMain \/ GenFunc \/ EndFunc
           \/ GenCall \/ GenReturn \/ GenExit
           \/ GenIf \/ GenElse \/ EndIf \/ GenWhile \/ Loop \/ GenAsm \/ SkipType
  <2>1. todo # <<>> /\ output' = output
    BY <1>6 DEF At, GenDecl, GenAssign, GenMain, EndMain, GenFunc, EndFunc, GenCall, GenReturn,
                GenExit, GenIf, GenElse, EndIf, GenWhile, Loop, GenAsm, SkipType
  <2> QED BY <2>1 DEF WrittenLast
<1> QED BY <1>2, <1>3, <1>4, <1>5, <1>6 DEF Next, Generate

\* Labels are defined once: those of ifs and loops come from one counter, two at a time,
\* however the statements nest, and those of functions from the size of _functions, which
\* grows with every one of them (generate_if, generate_while, generate_func).
THEOREM LabelsAreUnique == GenSpec => []LabelsUnique
<1>1. GInv => LabelsUnique
  BY DEF GInv, Sound, OnceIn, LabelsUnique, LabelsAt, Start
<1> QED BY <1>1, SoundStart, SoundNext, PTL DEF GenSpec

\* Every jump and every call of a program that is written goes to a label that is defined in
\* it: what a handler owes behind its body it has defined when nothing is left to visit, and
\* a function is known from its own label on.
THEOREM JumpsHaveLabels == GenSpec => []JumpsLand
<1>1. GInv /\ WrittenLast => JumpsLand
  <2> SUFFICES ASSUME GInv, todo = <<>>,
                      NEW i \in LabelsAt("je") \cup LabelsAt("jmp") \cup LabelsAt("call")
               PROVE  \E j \in LabelsAt("label") : code[j].arg = code[i].arg
    BY DEF WrittenLast, JumpsLand
  <2>1. OwedBy(todo) = {}
    BY Nothing DEF OwedBy
  <2>2. code[i].arg \in GoalsIn(code)
    BY DEF LabelsAt, GoalsIn
  <2>3. code[i].arg \in LabelsIn(code)
    BY <2>1, <2>2 DEF GInv, Sound
  <2> QED BY <2>3 DEF LabelsIn, LabelsAt
<1>2. WrittenLast <=> (output = "written" => todo = <<>>)
  BY DEF WrittenLast
<1>3. Init => GInv /\ WrittenLast
  BY <1>2, SoundStart
<1> QED BY <1>1, <1>3, SoundNext, WrittenLastNext, PTL DEF GenSpec

-----------------------------------------------------------------------------
(* Contexts and functions, in structured programs.                         *)

\* No function, main or return is in a body.
Quiet(b) == \A s \in Inside(b) : s.k \notin {"func", "main", "return"}

\* An item of the body at hand, which is the last before the end of its function or not.
InBody(x, last) ==
  \/ x.k \in {"endif", "loop"}
  \/ x.k = "else" /\ x.body \in Seq(Statements) /\ Quiet(x.body)
  \/ x \in Statements /\ \A s \in Within(x) : /\ s.k \notin {"func", "main"}
                                              /\ s.k = "return" => s = x /\ last

\* The body of a function or of main.
FunctionBody(b) == /\ ReturnsLast(b)
                   /\ \A s \in Inside(b) : s.k \notin {"func", "main"}

\* A statement at top level.
AtTop(x) ==
  /\ x \in Statements /\ x.k \in {"type", "func", "main"}
  /\ x.k # "type" => FunctionBody(x.body)

\* The first n items are what is left of a function or of main, its end included; behind
\* them is top level.
Layered(t, n) ==
  /\ n \in 0..Len(t)
  /\ n > 0 => t[n].k \in {"endfunc", "endmain"}
  /\ \A i \in 1..(n - 1) : InBody(t[i], i = n - 1)
  /\ \A i \in (n + 1)..Len(t) : AtTop(t[i])

\* The end of a function or of main.
EndsBody(x) == x.k \in {"endfunc", "endmain"}

\* The stacks when the first n items are left of a function: there is a Context, and in a body
\* that is not done one more.
StacksFit(t, c, f, n) ==
  /\ IsStack(t) /\ IsStack(c) /\ IsStack(f)
  /\ Layered(t, n)
  /\ c # <<>>
  /\ n > 0 => f # <<>>
  /\ n > 1 => Len(c) >= 2

NInv ==
  /\ \E n \in Nat : StacksFit(todo, contexts, currentFunction, n)
  /\ thrown # "undefined"

\* Putting one item on a stack, taking one away.
LEMMA StackFacts ==
  \A s : IsStack(s) =>
    /\ Len(s) \in Nat /\ (s # <<>> <=> Len(s) > 0)
    /\ \A a : IsStack(Append(s, a)) /\ Len(Append(s, a)) = Len(s) + 1
    /\ s # <<>> => IsStack(Front(s)) /\ Len(Front(s)) = Len(s) - 1
<1> SUFFICES ASSUME NEW s, IsStack(s)
             PROVE  /\ Len(s) \in Nat /\ (s # <<>> <=> Len(s) > 0)
                    /\ \A a : IsStack(Append(s, a)) /\ Len(Append(s, a)) = Len(s) + 1
                    /\ s # <<>> => IsStack(Front(s)) /\ Len(Front(s)) = Len(s) - 1
  OBVIOUS
<1>1. Len(s) \in Nat /\ (s # <<>> <=> Len(s) > 0)
  BY EmptySeq, LenProperties DEF IsStack
<1>2. ASSUME NEW a PROVE IsStack(Append(s, a)) /\ Len(Append(s, a)) = Len(s) + 1
  <2> DEFINE t == <<a>>
  <2>1. t \in Seq({a}) /\ Len(t) = 1
    OBVIOUS
  <2>2. Append(s, a) = s \o t
    BY AppendedCode
  <2> HIDE DEF t
  <2> QED BY <2>1, <2>2, GrowStack
<1>3. s # <<>> => IsStack(Front(s)) /\ Len(Front(s)) = Len(s) - 1
  BY PopStack DEF Popped, Below, Front
<1> QED BY <1>1, <1>2, <1>3

\* The items behind the first, and those where a body and an item take its place.
LEMMA RestAt ==
  \A t : IsStack(t) /\ t # <<>> =>
    /\ IsStack(Tail(t)) /\ Len(Tail(t)) = Len(t) - 1 /\ Len(t) \in Nat \ {0}
    /\ Head(t) = t[1] /\ \A i \in 1..(Len(t) - 1) : Tail(t)[i] = t[i + 1]
<1> SUFFICES ASSUME NEW t, IsStack(t), t # <<>>
             PROVE  /\ IsStack(Tail(t)) /\ Len(Tail(t)) = Len(t) - 1 /\ Len(t) \in Nat \ {0}
                    /\ Head(t) = t[1] /\ \A i \in 1..(Len(t) - 1) : Tail(t)[i] = t[i + 1]
  OBVIOUS
<1> DEFINE T == {t[i] : i \in 1..Len(t)}
           u == Tail(t)
<1>1. t \in Seq(T)
  BY DEF IsStack
<1> HIDE DEF T
<1>2. /\ u \in Seq(T) /\ Len(u) = Len(t) - 1 /\ Len(t) \in Nat \ {0}
      /\ \A i \in 1..Len(u) : u[i] = t[i + 1]
  BY <1>1, HeadTailProperties, EmptySeq
<1>3. Head(t) = t[1]
  BY <1>1
<1>4. IsStack(u)
  BY <1>2, StackOfSeq
<1> HIDE DEF u
<1>5. \A i \in 1..(Len(t) - 1) : u[i] = t[i + 1]
  BY <1>2
<1> QED BY <1>2, <1>3, <1>4, <1>5 DEF u

LEMMA JoinedAt ==
  \A c, d : IsStack(c) /\ IsStack(d) =>
    /\ IsStack(c \o d) /\ Len(c) \in Nat /\ Len(d) \in Nat /\ Len(c \o d) = Len(c) + Len(d)
    /\ \A i \in 1..Len(c) : (c \o d)[i] = c[i]
    /\ \A i \in 1..Len(d) : (c \o d)[Len(c) + i] = d[i]
<1> SUFFICES ASSUME NEW c, NEW d, IsStack(c), IsStack(d)
             PROVE  /\ IsStack(c \o d) /\ Len(c) \in Nat /\ Len(d) \in Nat
                    /\ Len(c \o d) = Len(c) + Len(d)
                    /\ \A i \in 1..Len(c) : (c \o d)[i] = c[i]
                    /\ \A i \in 1..Len(d) : (c \o d)[Len(c) + i] = d[i]
  OBVIOUS
<1> DEFINE T == {d[i] : i \in 1..Len(d)}
<1>1. d \in Seq(T)
  BY DEF IsStack
<1> HIDE DEF T
<1> QED BY <1>1, GrowStack

\* A body, an item behind it, and the rest.
Opening(b, x, r) == b \o <<x>> \o r

OpensWith(u, b, x, r) ==
  /\ IsStack(u) /\ Len(u) = Len(b) + 1 + Len(r) /\ Len(b) \in Nat /\ Len(r) \in Nat
  /\ \A i \in 1..Len(b) : u[i] = b[i]
  /\ u[Len(b) + 1] = x
  /\ \A i \in 1..Len(r) : u[Len(b) + 1 + i] = r[i]

LEMMA OpenedAt ==
  \A b, x, r : IsStack(b) /\ IsStack(r) => OpensWith(Opening(b, x, r), b, x, r)
<1> SUFFICES ASSUME NEW b, NEW x, NEW r, IsStack(b), IsStack(r)
             PROVE  OpensWith(Opening(b, x, r), b, x, r)
  OBVIOUS
<1> DEFINE s == <<x>>
           v == b \o s
           u == v \o r
<1>1. s \in Seq({x}) /\ Len(s) = 1 /\ s[1] = x
  OBVIOUS
<1>2. IsStack(s)
  BY <1>1, StackOfSeq
<1> HIDE DEF s
<1>3. /\ IsStack(v) /\ Len(b) \in Nat /\ Len(v) = Len(b) + 1
      /\ \A i \in 1..Len(b) : v[i] = b[i]
      /\ v[Len(b) + 1] = x
  <2>1. /\ IsStack(v) /\ Len(b) \in Nat /\ Len(v) = Len(b) + Len(s)
        /\ \A i \in 1..Len(b) : v[i] = b[i]
        /\ \A i \in 1..Len(s) : v[Len(b) + i] = s[i]
    BY <1>2, JoinedAt
  <2> HIDE DEF v
  <2>2. 1 \in 1..Len(s)
    BY <1>1
  <2> QED BY <1>1, <2>1, <2>2
<1> HIDE DEF v
<1>4. /\ IsStack(u) /\ Len(r) \in Nat /\ Len(u) = Len(v) + Len(r)
      /\ \A i \in 1..Len(v) : u[i] = v[i]
      /\ \A i \in 1..Len(r) : u[Len(v) + i] = r[i]
  BY <1>3, JoinedAt
<1> HIDE DEF u
<1>5. /\ Len(u) = Len(b) + 1 + Len(r)
      /\ \A i \in 1..Len(b) : u[i] = b[i]
      /\ u[Len(b) + 1] = x
      /\ \A i \in 1..Len(r) : u[Len(b) + 1 + i] = r[i]
  BY <1>1, <1>3, <1>4
<1>6. OpensWith(u, b, x, r)
  BY <1>3, <1>4, <1>5 DEF OpensWith
<1>7. u = Opening(b, x, r)
  BY DEF u, v, s, Opening
<1> QED BY <1>6, <1>7

\* What is in a body is in its statements.
LEMMA InsideFacts ==
  ASSUME NEW x \in Statements
  PROVE  /\ x \in Within(x)
         /\ x.k = "if" => Inside(x.body) \subseteq Within(x) /\ Inside(x.else) \subseteq Within(x)
         /\ x.k = "while" => Inside(x.body) \subseteq Within(x)
<1>1. Within(x) = {x} \cup CASE x.k = "if" -> Inside(x.body) \cup Inside(x.else)
                             [] x.k = "while" -> Inside(x.body)
                             [] OTHER -> {}
  BY WithinAssumption
<1> QED BY <1>1

LEMMA QuietItems ==
  ASSUME NEW b \in Seq(Statements), Quiet(b), NEW i \in 1..Len(b), NEW last
  PROVE  InBody(b[i], last)
<1>1. b[i] \in Statements
  BY ElementOfSeq
<1>2. \A s \in Within(b[i]) : s.k \notin {"func", "main", "return"}
  BY DEF Quiet, Inside
<1> QED BY <1>1, <1>2 DEF InBody

\* The first item is done.
LEMMA LayeredRest ==
  ASSUME NEW t, IsStack(t), t # <<>>, NEW n, Layered(t, n)
  PROVE  IF n = 0 THEN Layered(Tail(t), 0) ELSE n \in Nat /\ Layered(Tail(t), n - 1)
<1> DEFINE u == Tail(t)
<1>1. /\ Len(u) = Len(t) - 1 /\ Len(t) \in Nat \ {0}
      /\ \A i \in 1..(Len(t) - 1) : u[i] = t[i + 1]
  BY RestAt
<1> HIDE DEF u
<1>2. n \in 0..Len(t)
  BY DEF Layered
<1>3. CASE n = 0
  <2>1. \A i \in 1..Len(u) : AtTop(u[i])
    <3> SUFFICES ASSUME NEW i \in 1..Len(u) PROVE AtTop(u[i])
      OBVIOUS
    <3>1. i + 1 \in (0 + 1)..Len(t) /\ i \in 1..(Len(t) - 1)
      BY <1>1
    <3> QED BY <1>1, <1>3, <3>1 DEF Layered
  <2>2. 0 \in 0..Len(u) /\ \A i \in 1..(0 - 1) : FALSE
    BY <1>1
  <2>3. Layered(u, 0)
    BY <2>1, <2>2 DEF Layered
  <2> QED BY <1>3, <2>3 DEF u
<1>4. CASE n # 0
  <2>1. n - 1 \in 0..Len(u) /\ n \in Nat \ {0}
    BY <1>1, <1>2, <1>4
  <2>2. n - 1 > 0 => u[n - 1] = t[n]
    <3> SUFFICES ASSUME n - 1 > 0 PROVE u[n - 1] = t[n]
      OBVIOUS
    <3>1. n - 1 \in 1..(Len(t) - 1) /\ (n - 1) + 1 = n
      BY <1>1, <1>2, <2>1
    <3> QED BY <1>1, <3>1
  <2>3. \A i \in 1..(n - 1 - 1) : InBody(u[i], i = n - 1 - 1)
    <3> SUFFICES ASSUME NEW i \in 1..(n - 1 - 1) PROVE InBody(u[i], i = n - 1 - 1)
      OBVIOUS
    <3>1. i + 1 \in 1..(n - 1) /\ i \in 1..(Len(t) - 1) /\ ((i + 1 = n - 1) <=> (i = n - 1 - 1))
      BY <1>1, <1>2, <2>1
    <3>2. InBody(t[i + 1], i + 1 = n - 1)
      BY <3>1 DEF Layered
    <3>3. u[i] = t[i + 1]
      BY <1>1, <3>1
    <3> QED BY <3>1, <3>2, <3>3 DEF InBody
  <2>4. \A i \in (n - 1 + 1)..Len(u) : AtTop(u[i])
    <3> SUFFICES ASSUME NEW i \in (n - 1 + 1)..Len(u) PROVE AtTop(u[i])
      OBVIOUS
    <3>1. i + 1 \in (n + 1)..Len(t) /\ i \in 1..(Len(t) - 1)
      BY <1>1, <1>2, <2>1
    <3> QED BY <1>1, <3>1 DEF Layered
  <2>5. Layered(u, n - 1)
    BY <1>2, <2>1, <2>2, <2>3, <2>4 DEF Layered
  <2> QED BY <1>4, <2>1, <2>5 DEF u
<1> QED BY <1>3, <1>4

\* A body and the rest of its handler take the place of the first item.
LEMMA BodyBefore ==
  \A t, b, x : IsStack(t) /\ t # <<>> /\ b \in Seq(Statements) =>
    LET u == Opening(b, x, Tail(t))
    IN  /\ IsStack(u) /\ Len(u) = Len(b) + Len(t) /\ Len(b) \in Nat /\ Len(t) \in Nat \ {0}
        /\ \A i \in 1..Len(b) : u[i] = b[i]
        /\ u[Len(b) + 1] = x
        /\ \A i \in 2..Len(t) : u[Len(b) + i] = t[i]
<1> SUFFICES ASSUME NEW t, NEW b, NEW x, IsStack(t), t # <<>>, b \in Seq(Statements)
             PROVE  LET u == Opening(b, x, Tail(t))
                    IN  /\ IsStack(u) /\ Len(u) = Len(b) + Len(t)
                        /\ Len(b) \in Nat /\ Len(t) \in Nat \ {0}
                        /\ \A i \in 1..Len(b) : u[i] = b[i]
                        /\ u[Len(b) + 1] = x
                        /\ \A i \in 2..Len(t) : u[Len(b) + i] = t[i]
  OBVIOUS
<1> DEFINE r == Tail(t)
           u == Opening(b, x, r)
<1>1. /\ IsStack(r) /\ Len(r) = Len(t) - 1 /\ Len(t) \in Nat \ {0}
      /\ \A i \in 1..(Len(t) - 1) : r[i] = t[i + 1]
  BY RestAt
<1>2. IsStack(b)
  BY StackOfSeq
<1> HIDE DEF r
<1>3. /\ IsStack(u) /\ Len(u) = Len(b) + 1 + Len(r) /\ Len(b) \in Nat
      /\ \A i \in 1..Len(b) : u[i] = b[i]
      /\ u[Len(b) + 1] = x
      /\ \A i \in 1..Len(r) : u[Len(b) + 1 + i] = r[i]
  <2>1. OpensWith(u, b, x, r)
    BY <1>1, <1>2, OpenedAt
  <2> HIDE DEF u
  <2> QED BY <2>1 DEF OpensWith
<1> HIDE DEF u
<1>4. \A i \in 2..Len(t) : u[Len(b) + i] = t[i]
  <2> SUFFICES ASSUME NEW i \in 2..Len(t)
               PROVE  u[Len(b) + i] = t[i]
    OBVIOUS
  <2>1. i - 1 \in 1..(Len(t) - 1) /\ i - 1 \in 1..Len(r) /\ (i - 1) + 1 = i
        /\ Len(b) + 1 + (i - 1) = Len(b) + i
    BY <1>1, <1>3
  <2>2. u[Len(b) + 1 + (i - 1)] = r[i - 1] /\ r[i - 1] = t[(i - 1) + 1]
    BY <1>1, <1>3, <2>1
  <2> QED BY <2>1, <2>2
<1>5. Len(u) = Len(b) + Len(t)
  BY <1>1, <1>3
<1> QED BY <1>1, <1>3, <1>4, <1>5 DEF u, r

\* The first item makes way for a body and the rest of its handler.
LEMMA LayeredBody ==
  \A t, b, x, n :
    /\ IsStack(t) /\ t # <<>> /\ Layered(t, n) /\ n > 1
    /\ b \in Seq(Statements) /\ Quiet(b) /\ (\A last : InBody(x, last))
    => LET u == Opening(b, x, Tail(t))
       IN  IsStack(u) /\ n + Len(b) \in Nat /\ n + Len(b) > 1 /\ Layered(u, n + Len(b))
<1> SUFFICES ASSUME NEW t, NEW b, NEW x, NEW n,
                    IsStack(t), t # <<>>, Layered(t, n), n > 1,
                    b \in Seq(Statements), Quiet(b), \A last : InBody(x, last)
             PROVE  LET u == Opening(b, x, Tail(t))
                    IN  IsStack(u) /\ n + Len(b) \in Nat /\ n + Len(b) > 1
                        /\ Layered(u, n + Len(b))
  OBVIOUS
<1> DEFINE u == Opening(b, x, Tail(t))
           m == n + Len(b)
<1>3. /\ IsStack(u) /\ Len(u) = Len(b) + Len(t) /\ Len(b) \in Nat /\ Len(t) \in Nat \ {0}
      /\ \A i \in 1..Len(b) : u[i] = b[i]
      /\ u[Len(b) + 1] = x
      /\ \A i \in 2..Len(t) : u[Len(b) + i] = t[i]
  BY BodyBefore
<1> HIDE DEF u
<1>4. n \in 2..Len(t) /\ n \in Nat
  BY <1>3 DEF Layered
<1>5. \A i \in 2..Len(t) : Len(b) + i \in 1..Len(u) /\ u[Len(b) + i] = t[i]
  BY <1>3
<1>6. m \in 0..Len(u) /\ m \in Nat /\ m > 1
  BY <1>3, <1>4
<1>7. u[m] \in {t[n]} /\ t[n].k \in {"endfunc", "endmain"}
  <2>1. Len(b) + n = m
    BY <1>3, <1>4
  <2> QED BY <1>4, <1>5, <2>1 DEF Layered
<1>8. \A i \in 1..(m - 1) : InBody(u[i], i = m - 1)
  <2> SUFFICES ASSUME NEW i \in 1..(m - 1) PROVE InBody(u[i], i = m - 1)
    OBVIOUS
  <2>1. CASE i \in 1..Len(b)
    BY <1>3, <2>1, QuietItems
  <2>2. CASE i = Len(b) + 1
    BY <1>3, <2>2
  <2>3. CASE i \notin 1..Len(b) /\ i # Len(b) + 1
    <3> DEFINE j == i - Len(b)
    <3>1. j \in 2..Len(t) /\ j \in 1..(n - 1) /\ Len(b) + j = i /\ ((j = n - 1) <=> (i = m - 1))
      BY <1>3, <1>4, <2>3
    <3> HIDE DEF j
    <3>2. InBody(t[j], j = n - 1)
      BY <3>1 DEF Layered
    <3>3. u[i] = t[j]
      BY <1>5, <3>1
    <3> QED BY <3>1, <3>2, <3>3 DEF InBody
  <2> QED BY <2>1, <2>2, <2>3
<1>9. \A i \in (m + 1)..Len(u) : AtTop(u[i])
  <2> SUFFICES ASSUME NEW i \in (m + 1)..Len(u) PROVE AtTop(u[i])
    OBVIOUS
  <2> DEFINE j == i - Len(b)
  <2>1. j \in 2..Len(t) /\ j \in (n + 1)..Len(t) /\ Len(b) + j = i
    BY <1>3, <1>4
  <2> HIDE DEF j
  <2>2. AtTop(t[j])
    BY <2>1 DEF Layered
  <2>3. u[i] = t[j]
    BY <1>5, <2>1
  <2> QED BY <2>2, <2>3
<1>10. Layered(u, m)
  <2>1. u[m].k \in {"endfunc", "endmain"}
    BY <1>7
  <2> HIDE DEF m
  <2> QED BY <1>6, <2>1, <1>8, <1>9 DEF Layered
<1> QED BY <1>3, <1>6, <1>10 DEF u, m

\* A function or main begins.
LEMMA LayeredTop ==
  \A t, b, x :
    /\ IsStack(t) /\ t # <<>> /\ Layered(t, 0) /\ EndsBody(x)
    /\ b \in Seq(Statements) /\ FunctionBody(b)
    => LET u == Opening(b, x, Tail(t))
       IN  IsStack(u) /\ Len(b) + 1 \in Nat /\ Layered(u, Len(b) + 1)
<1> SUFFICES ASSUME NEW t, NEW b, NEW x,
                    IsStack(t), t # <<>>, Layered(t, 0), EndsBody(x),
                    b \in Seq(Statements), FunctionBody(b)
             PROVE  LET u == Opening(b, x, Tail(t))
                    IN  IsStack(u) /\ Len(b) + 1 \in Nat /\ Layered(u, Len(b) + 1)
  OBVIOUS
<1> DEFINE u == Opening(b, x, Tail(t))
           m == Len(b) + 1
<1>3. /\ IsStack(u) /\ Len(u) = Len(b) + Len(t) /\ Len(b) \in Nat /\ Len(t) \in Nat \ {0}
      /\ \A i \in 1..Len(b) : u[i] = b[i]
      /\ u[Len(b) + 1] = x
      /\ \A i \in 2..Len(t) : u[Len(b) + i] = t[i]
  BY BodyBefore
<1> HIDE DEF u
<1>4. m \in 0..Len(u) /\ m \in Nat /\ m - 1 = Len(b)
  BY <1>3
<1>5. \A i \in 1..(m - 1) : InBody(u[i], i = m - 1)
  <2> SUFFICES ASSUME NEW i \in 1..Len(b) PROVE InBody(u[i], i = Len(b))
    BY <1>4
  <2>1. b[i] \in Statements
    BY ElementOfSeq
  <2>2. \A s \in Within(b[i]) : /\ s.k \notin {"func", "main"}
                                /\ s.k = "return" => s = b[i] /\ i = Len(b)
    BY DEF FunctionBody, ReturnsLast, Inside
  <2>3. InBody(b[i], i = Len(b))
    BY <2>1, <2>2 DEF InBody
  <2> QED BY <1>3, <2>3
<1>6. \A i \in (m + 1)..Len(u) : AtTop(u[i])
  <2> SUFFICES ASSUME NEW i \in (m + 1)..Len(u) PROVE AtTop(u[i])
    OBVIOUS
  <2> DEFINE j == i - Len(b)
  <2>1. j \in 2..Len(t) /\ j \in (0 + 1)..Len(t) /\ Len(b) + j = i
    BY <1>3
  <2> HIDE DEF j
  <2>2. AtTop(t[j])
    BY <2>1 DEF Layered
  <2>3. u[i] = t[j]
    BY <1>3, <2>1
  <2> QED BY <2>2, <2>3
<1>7. u[m].k \in {"endfunc", "endmain"}
  BY <1>3 DEF EndsBody
<1>8. Layered(u, m)
  <2> HIDE DEF m
  <2> QED BY <1>4, <1>5, <1>6, <1>7 DEF Layered
<1> QED BY <1>3, <1>4, <1>8 DEF u, m

\* Where the first item is.
LEMMA HeadLayer ==
  \A n : IsStack(todo) /\ todo # <<>> /\ n \in Nat /\ Layered(todo, n) =>
    /\ n = 0 => AtTop(S)
    /\ n = 1 => S.k \in {"endfunc", "endmain"}
    /\ n > 1 => InBody(S, n = 2)
<1> SUFFICES ASSUME NEW n, IsStack(todo), todo # <<>>, n \in Nat, Layered(todo, n)
             PROVE  /\ n = 0 => AtTop(S)
                    /\ n = 1 => S.k \in {"endfunc", "endmain"}
                    /\ n > 1 => InBody(S, n = 2)
  OBVIOUS
<1>1. S = todo[1] /\ Len(todo) \in Nat \ {0}
  BY RestAt DEF S
<1>2. n = 0 => AtTop(todo[1])
  BY <1>1 DEF Layered
<1>3. n = 1 => todo[1].k \in {"endfunc", "endmain"}
  BY DEF Layered
<1>4. n > 1 => InBody(todo[1], n = 2)
  <2> SUFFICES ASSUME n > 1 PROVE InBody(todo[1], n = 2)
    OBVIOUS
  <2>1. 1 \in 1..(n - 1) /\ ((1 = n - 1) <=> (n = 2))
    OBVIOUS
  <2>2. InBody(todo[1], 1 = n - 1)
    BY <2>1 DEF Layered
  <2> QED BY <2>1, <2>2 DEF InBody
<1> QED BY <1>1, <1>2, <1>3, <1>4

\* The first item is done, and the stacks stay as high as they are.
LEMMA FitsRest ==
  \A t, c, d, f, n :
    StacksFit(t, c, f, n) /\ n \in Nat /\ t # <<>> /\ IsStack(d) /\ Len(d) = Len(c)
    => \E m \in Nat : StacksFit(Tail(t), d, f, m)
<1> SUFFICES ASSUME NEW t, NEW c, NEW d, NEW f, NEW n,
                    StacksFit(t, c, f, n), n \in Nat, t # <<>>, IsStack(d), Len(d) = Len(c)
             PROVE  \E m \in Nat : StacksFit(Tail(t), d, f, m)
  OBVIOUS
<1>1. IsStack(t) /\ IsStack(c) /\ IsStack(f) /\ Layered(t, n) /\ c # <<>>
      /\ (n > 0 => f # <<>>) /\ (n > 1 => Len(c) >= 2)
  BY DEF StacksFit
<1>2. IsStack(Tail(t)) /\ d # <<>>
  BY <1>1, RestAt, StackFacts
<1>3. CASE n = 0
  <2>1. Layered(Tail(t), 0)
    BY <1>1, <1>3, LayeredRest
  <2>2. StacksFit(Tail(t), d, f, 0)
    BY <1>1, <1>2, <2>1 DEF StacksFit
  <2> QED BY <2>2
<1>4. CASE n # 0
  <2>1. Layered(Tail(t), n - 1)
    BY <1>1, <1>4, LayeredRest
  <2>2. n - 1 \in Nat /\ (n - 1 > 0 => n > 0) /\ (n - 1 > 1 => n > 1)
    BY <1>4
  <2>3. StacksFit(Tail(t), d, f, n - 1)
    BY <1>1, <1>2, <2>1, <2>2 DEF StacksFit
  <2> QED BY <2>2, <2>3
<1> QED BY <1>3, <1>4

\* The first item opens a body of its own.
LEMMA FitsBody ==
  \A t, c, d, f, n, b, x :
    /\ StacksFit(t, c, f, n) /\ n \in Nat /\ n > 1 /\ t # <<>> /\ IsStack(d) /\ Len(d) = Len(c)
    /\ b \in Seq(Statements) /\ Quiet(b) /\ (\A last : InBody(x, last))
    => \E m \in Nat : StacksFit(Opening(b, x, Tail(t)), d, f, m)
<1> SUFFICES ASSUME NEW t, NEW c, NEW d, NEW f, NEW n, NEW b, NEW x,
                    StacksFit(t, c, f, n), n \in Nat, n > 1, t # <<>>,
                    IsStack(d), Len(d) = Len(c),
                    b \in Seq(Statements), Quiet(b), \A last : InBody(x, last)
             PROVE  \E m \in Nat : StacksFit(Opening(b, x, Tail(t)), d, f, m)
  OBVIOUS
<1> DEFINE u == Opening(b, x, Tail(t))
           m == n + Len(b)
<1>1. IsStack(t) /\ IsStack(c) /\ IsStack(f) /\ Layered(t, n) /\ c # <<>>
      /\ f # <<>> /\ Len(c) >= 2
  BY DEF StacksFit
<1>2. IsStack(u) /\ m \in Nat /\ m > 1 /\ Layered(u, m)
  BY <1>1, LayeredBody
<1>3. d # <<>>
  BY <1>1, StackFacts
<1> HIDE DEF u, m
<1>4. StacksFit(u, d, f, m)
  BY <1>1, <1>2, <1>3 DEF StacksFit
<1>5. \E k \in Nat : StacksFit(u, d, f, k)
  BY <1>2, <1>4
<1> QED BY <1>5 DEF u

\* A function or main begins.
LEMMA FitsTop ==
  \A t, c, d, f, g, b, x :
    /\ StacksFit(t, c, f, 0) /\ t # <<>> /\ IsStack(d) /\ Len(d) = Len(c) + 1
    /\ IsStack(g) /\ g # <<>> /\ b \in Seq(Statements) /\ FunctionBody(b) /\ EndsBody(x)
    => \E m \in Nat : StacksFit(Opening(b, x, Tail(t)), d, g, m)
<1> SUFFICES ASSUME NEW t, NEW c, NEW d, NEW f, NEW g, NEW b, NEW x,
                    StacksFit(t, c, f, 0), t # <<>>, IsStack(d), Len(d) = Len(c) + 1,
                    IsStack(g), g # <<>>, b \in Seq(Statements), FunctionBody(b), EndsBody(x)
             PROVE  \E m \in Nat : StacksFit(Opening(b, x, Tail(t)), d, g, m)
  OBVIOUS
<1> DEFINE u == Opening(b, x, Tail(t))
           m == Len(b) + 1
<1>1. IsStack(t) /\ IsStack(c) /\ Layered(t, 0) /\ c # <<>>
  BY DEF StacksFit
<1>2. IsStack(u) /\ m \in Nat /\ Layered(u, m)
  BY <1>1, LayeredTop
<1>3. d # <<>> /\ Len(d) >= 2
  BY <1>1, StackFacts
<1> HIDE DEF u, m
<1>4. StacksFit(u, d, g, m)
  BY <1>2, <1>3 DEF StacksFit
<1>5. \E k \in Nat : StacksFit(u, d, g, k)
  BY <1>2, <1>4
<1> QED BY <1>5 DEF u

\* A Context changes, or none does.
LEMMA SameContexts ==
  ASSUME NInv, NEW v
  PROVE  /\ IsStack(WithVariables(v)) /\ Len(WithVariables(v)) = Len(contexts)
         /\ IsStack(contexts) /\ contexts # <<>>
<1>1. IsStack(contexts) /\ contexts # <<>>
  BY DEF NInv, StacksFit
<1>2. IsStack(Front(contexts)) /\ Len(Front(contexts)) = Len(contexts) - 1
      /\ Len(contexts) \in Nat
  BY <1>1, StackFacts
<1> DEFINE w == Append(Front(contexts), v)
<1>3. IsStack(w) /\ Len(w) = Len(Front(contexts)) + 1
  BY <1>2, StackFacts
<1> HIDE DEF w
<1>4. IsStack(w) /\ Len(w) = Len(contexts)
  BY <1>2, <1>3
<1> QED BY <1>1, <1>4 DEF w, WithVariables

LEMMA NextItem ==
  ASSUME NInv, todo # <<>>, todo' = Tail(todo), UNCHANGED <<currentFunction, thrown>>,
         IsStack(contexts'), Len(contexts') = Len(contexts)
  PROVE  NInv'
<1>1. PICK n \in Nat : StacksFit(todo, contexts, currentFunction, n)
  BY DEF NInv
<1>2. \E m \in Nat : StacksFit(Tail(todo), contexts', currentFunction, m)
  BY <1>1, FitsRest
<1> QED BY <1>2 DEF NInv

\* What the first item says about the place.
LEMMA Placed ==
  \A n \in Nat : StacksFit(todo, contexts, currentFunction, n) /\ todo # <<>> =>
    /\ S.k \in {"func", "main"} => n = 0 /\ S \in Statements /\ FunctionBody(S.body)
    /\ S.k = "endfunc" => n = 1
    /\ S.k = "return" => n = 2
    /\ S.k = "decl" => n > 0
    /\ S.k \in {"if", "while", "else"} => n > 1
    /\ S.k \in {"if", "while"} => S \in Statements /\ Quiet(S.body)
    /\ S.k = "if" => Quiet(S.else)
    /\ S.k = "else" => S.body \in Seq(Statements) /\ Quiet(S.body)
<1> SUFFICES ASSUME NEW n \in Nat, StacksFit(todo, contexts, currentFunction, n), todo # <<>>
             PROVE
               /\ S.k \in {"func", "main"} => n = 0 /\ S \in Statements /\ FunctionBody(S.body)
               /\ S.k = "endfunc" => n = 1
               /\ S.k = "return" => n = 2
               /\ S.k = "decl" => n > 0
               /\ S.k \in {"if", "while", "else"} => n > 1
               /\ S.k \in {"if", "while"} => S \in Statements /\ Quiet(S.body)
               /\ S.k = "if" => Quiet(S.else)
               /\ S.k = "else" => S.body \in Seq(Statements) /\ Quiet(S.body)
  OBVIOUS
<1> DEFINE x == S
<1>1. /\ n = 0 => AtTop(x)
      /\ n = 1 => x.k \in {"endfunc", "endmain"}
      /\ n > 1 => InBody(x, n = 2)
  BY HeadLayer DEF StacksFit
<1> HIDE DEF x
<1>2. n = 0 \/ n = 1 \/ n > 1
  OBVIOUS
<1>3. x \in Statements => x \in Within(x) /\ x.k \notin {"endfunc", "endif", "loop", "else"}
  BY InsideFacts, StatementsAssumption
<1>4. CASE n = 0
  BY <1>1, <1>4 DEF AtTop, x
<1>5. CASE n = 1
  BY <1>1, <1>5 DEF x
<1>6. CASE n > 1
  <2>1. CASE x.k \in {"endif", "loop"}
    BY <1>6, <2>1 DEF x
  <2>2. CASE x.k = "else" /\ x.body \in Seq(Statements) /\ Quiet(x.body)
    BY <1>6, <2>2 DEF x
  <2>3. CASE x \in Statements /\ \A s \in Within(x) : /\ s.k \notin {"func", "main"}
                                                      /\ s.k = "return" => s = x /\ n = 2
    <3>1. x.k \notin {"func", "main", "endfunc", "else"} /\ (x.k = "return" => n = 2)
      BY <1>3, <2>3
    <3>2. x.k = "if" => Quiet(x.body) /\ Quiet(x.else)
      BY <2>3, InsideFacts DEF Quiet
    <3>3. x.k = "while" => Quiet(x.body)
      BY <2>3, InsideFacts DEF Quiet
    <3> QED BY <1>6, <2>3, <3>1, <3>2, <3>3 DEF x
  <2> QED BY <1>1, <1>6, <2>1, <2>2, <2>3 DEF InBody
<1> QED BY <1>2, <1>4, <1>5, <1>6

-----------------------------------------------------------------------------
(* The steps keep the stacks fit.                                          *)

LEMMA FitRest ==
  ASSUME NInv, GenDecl \/ GenAssign \/ GenCall \/ GenExit \/ EndIf \/ Loop \/ GenAsm \/ SkipType
               \/ EndMain
  PROVE  NInv'
<1>1. todo # <<>> /\ todo' = Tail(todo) /\ UNCHANGED <<currentFunction, thrown>>
  BY DEF At, GenDecl, GenAssign, GenCall, GenExit, EndIf, Loop, GenAsm, SkipType, EndMain
<1>2. contexts' = contexts \/ \E v : contexts' = WithVariables(v)
  BY DEF GenDecl, GenAssign, GenCall, GenExit, EndIf, Loop, GenAsm, SkipType, EndMain
<1>3. IsStack(contexts') /\ Len(contexts') = Len(contexts)
  <2>1. CASE contexts' = contexts
    BY <2>1, SameContexts
  <2>2. CASE \E v : contexts' = WithVariables(v)
    BY <2>2, SameContexts
  <2> QED BY <1>2, <2>1, <2>2
<1> QED BY <1>1, <1>3, NextItem

LEMMA FitEndFunc == ASSUME NInv, EndFunc PROVE NInv'
<1>1. S.k = "endfunc" /\ todo # <<>> /\ todo' = Tail(todo)
      /\ currentFunction' = Front(currentFunction) /\ UNCHANGED <<contexts, thrown>>
  BY DEF EndFunc, At, S
<1>2. StacksFit(todo, contexts, currentFunction, 1)
  BY <1>1, Placed DEF NInv
<1>3. IsStack(todo) /\ Layered(todo, 1) /\ IsStack(currentFunction) /\ currentFunction # <<>>
      /\ IsStack(contexts) /\ contexts # <<>>
  BY <1>2 DEF StacksFit
<1>4. Layered(Tail(todo), 0) /\ IsStack(Tail(todo))
  BY <1>1, <1>3, LayeredRest, RestAt
<1>5. IsStack(Front(currentFunction))
  BY <1>3, StackFacts
<1>6. StacksFit(Tail(todo), contexts, Front(currentFunction), 0)
  BY <1>3, <1>4, <1>5 DEF StacksFit
<1>7. \E m \in Nat : StacksFit(Tail(todo), contexts, Front(currentFunction), m)
  BY <1>6
<1> QED BY <1>1, <1>7 DEF NInv

LEMMA FitReturn == ASSUME NInv, GenReturn PROVE NInv'
<1>1. S.k = "return" /\ todo # <<>> /\ todo' = Tail(todo)
      /\ contexts' = Front(contexts) /\ UNCHANGED <<currentFunction, thrown>>
  BY DEF GenReturn, At, S
<1>2. StacksFit(todo, contexts, currentFunction, 2)
  BY <1>1, Placed DEF NInv
<1>3. IsStack(todo) /\ Layered(todo, 2) /\ IsStack(currentFunction) /\ currentFunction # <<>>
      /\ IsStack(contexts) /\ contexts # <<>> /\ Len(contexts) >= 2
  BY <1>2 DEF StacksFit
<1>4. Layered(Tail(todo), 1) /\ IsStack(Tail(todo))
  BY <1>1, <1>3, LayeredRest, RestAt
<1>5. IsStack(Front(contexts)) /\ Len(Front(contexts)) = Len(contexts) - 1
      /\ Len(contexts) \in Nat
  BY <1>3, StackFacts
<1>6. Front(contexts) # <<>>
  BY <1>3, <1>5, StackFacts
<1>7. StacksFit(Tail(todo), Front(contexts), currentFunction, 1)
  BY <1>3, <1>4, <1>5, <1>6 DEF StacksFit
<1>8. \E m \in Nat : StacksFit(Tail(todo), Front(contexts), currentFunction, m)
  BY <1>7
<1> QED BY <1>1, <1>8 DEF NInv

\* A body and an item for the rest of its handler.
LEMMA FitBody ==
  ASSUME NInv, todo # <<>>, S.k \in {"if", "while", "else"},
         NEW b \in Seq(Statements), Quiet(b), NEW x, \A last : InBody(x, last),
         todo' = Opening(b, x, Tail(todo)), UNCHANGED <<currentFunction, thrown>>,
         IsStack(contexts'), Len(contexts') = Len(contexts)
  PROVE  NInv'
<1>1. PICK n \in Nat : StacksFit(todo, contexts, currentFunction, n)
  BY DEF NInv
<1>2. n > 1
  BY <1>1, Placed
<1>3. \E m \in Nat : StacksFit(Opening(b, x, Tail(todo)), contexts', currentFunction, m)
  BY <1>1, <1>2, FitsBody
<1> QED BY <1>3 DEF NInv

LEMMA FitIf == ASSUME NInv, GenIf PROVE NInv'
<1>1. S.k = "if" /\ todo # <<>> /\ UNCHANGED <<currentFunction, thrown>>
  BY DEF GenIf, At, S
<1>2. contexts' = contexts \/ \E v : contexts' = WithVariables(v)
  BY DEF GenIf, ContextsAfterTest
<1>3. IsStack(contexts') /\ Len(contexts') = Len(contexts)
  <2>1. CASE contexts' = contexts
    BY <2>1, SameContexts
  <2>2. CASE \E v : contexts' = WithVariables(v)
    BY <2>2, SameContexts
  <2> QED BY <1>2, <2>1, <2>2
<1>4. S \in Statements /\ Quiet(S.body) /\ Quiet(S.else)
  BY <1>1, Placed DEF NInv
<1>5. S.body \in Seq(Statements) /\ S.else \in Seq(Statements)
  BY <1>1, <1>4, Bodies
<1> DEFINE x == IF S.else = <<>>
                THEN [k |-> "endif", end |-> Label(labelCount + 1)]
                ELSE [k |-> "else", body |-> S.else, label |-> Label(labelCount),
                      end |-> Label(labelCount + 1)]
<1>6. \A last : InBody(x, last)
  BY <1>4, <1>5 DEF InBody
<1>7. todo' = Opening(S.body, x, Tail(todo))
  BY DEF GenIf, Opening
<1> HIDE DEF x
<1> QED BY <1>1, <1>3, <1>4, <1>5, <1>6, <1>7, FitBody

LEMMA FitWhile == ASSUME NInv, GenWhile PROVE NInv'
<1>1. S.k = "while" /\ todo # <<>> /\ UNCHANGED <<currentFunction, thrown>>
  BY DEF GenWhile, At, S
<1>2. contexts' = contexts \/ \E v : contexts' = WithVariables(v)
  BY DEF GenWhile, ContextsAfterTest
<1>3. IsStack(contexts') /\ Len(contexts') = Len(contexts)
  <2>1. CASE contexts' = contexts
    BY <2>1, SameContexts
  <2>2. CASE \E v : contexts' = WithVariables(v)
    BY <2>2, SameContexts
  <2> QED BY <1>2, <2>1, <2>2
<1>4. S \in Statements /\ Quiet(S.body)
  BY <1>1, Placed DEF NInv
<1>5. S.body \in Seq(Statements)
  BY <1>1, <1>4, Bodies
<1> DEFINE x == [k |-> "loop", while |-> S, start |-> Label(labelCount),
                 end |-> Label(labelCount + 1)]
<1>6. \A last : InBody(x, last)
  BY DEF InBody
<1>7. todo' = Opening(S.body, x, Tail(todo))
  BY DEF GenWhile, Opening
<1> HIDE DEF x
<1> QED BY <1>1, <1>3, <1>4, <1>5, <1>6, <1>7, FitBody

LEMMA FitElse == ASSUME NInv, GenElse PROVE NInv'
<1>1. S.k = "else" /\ todo # <<>> /\ UNCHANGED <<contexts, currentFunction, thrown>>
  BY DEF GenElse, At, S
<1>2. S.body \in Seq(Statements) /\ Quiet(S.body)
  BY <1>1, Placed DEF NInv
<1>3. IsStack(contexts') /\ Len(contexts') = Len(contexts)
  BY <1>1, SameContexts
<1> DEFINE x == [k |-> "endif", end |-> S.end]
<1>4. \A last : InBody(x, last)
  BY DEF InBody
<1>5. todo' = Opening(S.body, x, Tail(todo))
  BY DEF GenElse, Opening
<1> HIDE DEF x
<1> QED BY <1>1, <1>2, <1>3, <1>4, <1>5, FitBody

\* A function, or main.
LEMMA FitHeader ==
  ASSUME NInv, todo # <<>>, S.k \in {"func", "main"}, NEW x, EndsBody(x), NEW name, NEW frame,
         todo' = Opening(S.body, x, Tail(todo)),
         currentFunction' = Append(currentFunction, name),
         contexts' = Append(contexts, frame), thrown' = thrown
  PROVE  NInv'
<1>1. StacksFit(todo, contexts, currentFunction, 0) /\ S \in Statements /\ FunctionBody(S.body)
  BY Placed DEF NInv
<1>2. S.body \in Seq(Statements)
  BY <1>1, Bodies
<1>3. IsStack(contexts) /\ IsStack(currentFunction)
  BY <1>1 DEF StacksFit
<1>4. IsStack(contexts') /\ Len(contexts') = Len(contexts) + 1
  BY <1>3, StackFacts
<1>5. IsStack(currentFunction') /\ currentFunction' # <<>>
  <2> DEFINE g == Append(currentFunction, name)
  <2>1. IsStack(g) /\ Len(g) = Len(currentFunction) + 1 /\ Len(currentFunction) \in Nat
    BY <1>3, StackFacts
  <2> HIDE DEF g
  <2>2. g # <<>>
    BY <2>1, StackFacts
  <2> QED BY <2>1, <2>2 DEF g
<1>6. \E m \in Nat : StacksFit(Opening(S.body, x, Tail(todo)), contexts', currentFunction', m)
  BY <1>1, <1>2, <1>4, <1>5, FitsTop
<1> QED BY <1>6 DEF NInv

LEMMA FitMain == ASSUME NInv, GenMain PROVE NInv'
<1>1. S.k = "main" /\ todo # <<>> /\ thrown' = thrown
  BY DEF GenMain, At, S
<1> DEFINE x == [k |-> "endmain"]
<1>2. EndsBody(x)
  BY DEF EndsBody
<1>3. /\ todo' = Opening(S.body, x, Tail(todo))
      /\ currentFunction' = Append(currentFunction, "main")
      /\ contexts' = Append(contexts, FrameOf("main"))
  BY DEF GenMain, Opening
<1> HIDE DEF x
<1> QED BY <1>1, <1>2, <1>3, FitHeader

LEMMA FitFunc == ASSUME NInv, GenFunc PROVE NInv'
<1>1. S.k = "func" /\ todo # <<>> /\ thrown' = thrown
  BY DEF GenFunc, At, S
<1> DEFINE x == [k |-> "endfunc"]
<1>2. EndsBody(x)
  BY DEF EndsBody
<1>3. /\ todo' = Opening(S.body, x, Tail(todo))
      /\ currentFunction' = Append(currentFunction, S.name)
      /\ contexts' = Append(contexts, FrameOf(S.name))
  BY DEF GenFunc, Opening
<1> HIDE DEF x
<1> QED BY <1>1, <1>2, <1>3, FitHeader

\* No handler looks for what is not there.
LEMMA NotUndefined == ASSUME NInv, Undefined PROVE FALSE
<1>1. contexts # <<>>
  BY DEF NInv, StacksFit
<1>2. currentFunction = <<>> /\ todo # <<>> /\ S.k = "decl"
  BY <1>1 DEF Undefined, At, S
<1>3. PICK n \in Nat : StacksFit(todo, contexts, currentFunction, n)
  BY DEF NInv
<1>4. n > 0
  BY <1>2, <1>3, Placed
<1> QED BY <1>2, <1>3, <1>4 DEF StacksFit

LEMMA FitPasses == ASSUME NInv, Passes PROVE NInv'
<1>1. UNCHANGED genVars /\ thrown' # "undefined"
  BY DEF Passes, NInv, FP!Next, FP!Throw,
     FP!SkipInTypes, FP!GenerateType, FP!GenerateTypeTwice,
     FP!GenerateAttribute, FP!GenerateAttributeUnknown, FP!AddType,
     FP!TypesEnd, FP!NoEntryPoint,
     FP!PassFunc, FP!PassFuncTwice, FP!PassParam, FP!PassParamUnknown, FP!RegisterFunc,
     FP!PassMain, FP!PassMainTwice,
     FP!PassDecl, FP!PassDeclUnknown, FP!PassExpression, FP!SkipItem,
     FP!EndBody, FP!FunctionsEnd
<1> QED BY <1>1 DEF genVars, NInv

LEMMA FitStep == ASSUME NInv, [Next]_vars PROVE NInv'
<1>1. CASE Passes
  BY <1>1, FitPasses
<1>2. CASE ValueThrows \/ DeclThrows \/ AssignThrows \/ FuncThrows
  BY <1>2 DEF ValueThrows, DeclThrows, AssignThrows, FuncThrows, Throw, genVars, NInv
<1>3. CASE Write
  BY <1>3 DEF Write, NInv
<1>4. CASE UNCHANGED vars
  BY <1>4 DEF vars, genVars, NInv
<1>5. CASE \/ GenDecl \/ GenAssign \/ GenMain \/ EndMain \/ GenFunc \/ EndFunc
           \/ GenCall \/ GenReturn \/ GenExit
           \/ GenIf \/ GenElse \/ EndIf \/ GenWhile \/ Loop \/ GenAsm \/ SkipType
  BY <1>5, FitRest, FitEndFunc, FitReturn, FitIf, FitWhile, FitElse, FitMain, FitFunc
<1> QED BY <1>1, <1>2, <1>3, <1>4, <1>5, NotUndefined DEF Next, Generate

LEMMA FitStart == ASSUME Init, Structured(ast) PROVE NInv
<1>1. todo = ast /\ contexts = << <<>> >> /\ currentFunction = <<>> /\ ast \in Programs
      /\ thrown = "none"
  BY DEF Init, FP!Init
<1>2. todo \in Seq(Statements)
  BY <1>1, StatementsAssumption
<1>3. IsStack(todo) /\ Len(todo) \in Nat
  BY <1>2, StackOfSeq
<1>4. IsStack(contexts) /\ contexts # <<>> /\ IsStack(currentFunction)
  <2>1. contexts \in Seq({<<>>}) /\ currentFunction \in Seq({}) /\ Len(contexts) = 1
    BY <1>1
  <2>2. IsStack(contexts) /\ IsStack(currentFunction)
    BY <2>1, StackOfSeq
  <2> QED BY <2>1, <2>2, StackFacts
<1>5. \A i \in (0 + 1)..Len(todo) : AtTop(todo[i])
  <2> SUFFICES ASSUME NEW i \in 1..Len(todo) PROVE AtTop(todo[i])
    OBVIOUS
  <2>1. todo[i] \in Statements
    BY <1>2, ElementOfSeq
  <2> QED BY <1>1, <2>1 DEF Structured, AtTop, FunctionBody
<1>6. Layered(todo, 0)
  BY <1>3, <1>5 DEF Layered
<1>7. StacksFit(todo, contexts, currentFunction, 0)
  BY <1>3, <1>4, <1>6 DEF StacksFit
<1> QED BY <1>1, <1>7 DEF NInv

\* The AST is what the parser made of it.
LEMMA AstStays == [Next]_vars => ast' = ast
<1>1. Passes => ast' = ast
  BY DEF Passes, FP!Next, FP!Throw,
     FP!SkipInTypes, FP!GenerateType, FP!GenerateTypeTwice,
     FP!GenerateAttribute, FP!GenerateAttributeUnknown, FP!AddType,
     FP!TypesEnd, FP!NoEntryPoint,
     FP!PassFunc, FP!PassFuncTwice, FP!PassParam, FP!PassParamUnknown, FP!RegisterFunc,
     FP!PassMain, FP!PassMainTwice,
     FP!PassDecl, FP!PassDeclUnknown, FP!PassExpression, FP!SkipItem,
     FP!EndBody, FP!FunctionsEnd
<1>2. Generate => UNCHANGED passVars
  BY DEF Generate, Undefined, ValueThrows, DeclThrows, AssignThrows, FuncThrows, Throw, Write,
         GenDecl, GenAssign, GenMain, EndMain, GenFunc, EndFunc, GenCall, GenReturn, GenExit,
         GenIf, GenElse, EndIf, GenWhile, Loop, GenAsm, SkipType
<1> QED BY <1>1, <1>2 DEF Next, vars, passVars

\* context() and _currentFunction.top() are never asked of an empty stack: whatever the
\* values and types of a structured program are, each body has the Context its header
\* entered until its own return, and the function stays to its end (enter_context,
\* leave_context, generate_func).
THEOREM NeverUndefined == GenSpec => []StaysDefined
<1> DEFINE Inv == Structured(ast) => NInv
<1>1. Init => Inv
  BY FitStart
<1>2. Inv /\ [Next]_vars => Inv'
  BY FitStep, AstStays DEF Structured, ReturnsLast, Inside
<1>3. Inv => StaysDefined
  BY DEF StaysDefined, NInv
<1> HIDE DEF Inv
<1> QED BY <1>1, <1>2, <1>3, PTL DEF GenSpec

================================================================================
