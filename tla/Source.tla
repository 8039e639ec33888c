--------------------------------- MODULE Source ---------------------------------
(***************************************************************************)
(* What a KusoLang program means, without any code: a stack of             *)
(* activations, each with an environment and the statements it has left.   *)
(* This is what the emitted assembly promises to do.                       *)
(*                                                                         *)
(* A value is <<"num", n>>; comparisons give 0 and 1.                      *)
(***************************************************************************)
EXTENDS Naturals, Sequences

CONSTANT Values  \* the values that occur, among them what a bare return leaves

VARIABLES
  program,   \* the program that runs, a sequence of statements: any one, and always the same
  status,    \* off, running or exited
  acts,      \* the activations, the running one last
  result     \* <<v>> when a call has just given v to the statement at hand, or <<>>

srcVars == <<program, status, acts, result>>

-----------------------------------------------------------------------------
Num(n) == <<"num", n>>

\* The value of an expression that calls nothing, in environment env.
ValueIn(e, env) ==
  CASE e.k = "num" -> Num(e.value)
    [] e.k = "var" -> env[e.name]
    [] e.k = "neq" -> IF env[e.left] = env[e.right] THEN Num(0) ELSE Num(1)

\* A declaration without a value only introduces a name.
Does(s) == ~(s.k = "decl" /\ s.value.k = "none")
Steps(body) == SelectSeq(body, Does)

Body(fn) == LET i == CHOOSE i \in 1..Len(program) :
                       \/ program[i].k = "main" /\ fn = "main"
                       \/ program[i].k = "func" /\ program[i].name = fn
            IN  program[i].body
Params(fn) == IF fn = "main" THEN <<>>
              ELSE program[CHOOSE i \in 1..Len(program) :
                             program[i].k = "func" /\ program[i].name = fn].args
Locals(fn) == {Body(fn)[i].name : i \in {i \in 1..Len(Body(fn)) : Body(fn)[i].k = "decl"}}

\* A fresh activation of fn: its parameters hold the arguments, its variables zero.
Activation(fn, arguments) ==
  LET params == {Params(fn)[i].name : i \in 1..Len(Params(fn))}
  IN  [fn     |-> fn,
       env    |-> [x \in params \cup Locals(fn) |->
                     IF x \in params
                     THEN arguments[CHOOSE i \in 1..Len(Params(fn)) : Params(fn)[i].name = x]
                     ELSE Num(0)],
       cont   |-> Steps(Body(fn)),
       awaits |-> FALSE]

-----------------------------------------------------------------------------
Init == status = "off" /\ acts = <<>> /\ result = <<>>

Start == /\ status = "off"
         /\ status' = "running"
         /\ acts' = <<Activation("main", <<>>)>>
         /\ UNCHANGED <<program, result>>

Act  == acts[Len(acts)]
Stmt == Head(Act.cont)
Left == Tail(Act.cont)
At(k) == /\ status = "running" /\ acts # <<>>
         /\ Act.cont # <<>> /\ Stmt.k = k

\* The value of the statement at hand is known: at once, or because its call is over.
Ready == Stmt.value.k # "call" \/ result # <<>>
Value == IF Stmt.value.k = "call" THEN result[1] ELSE ValueIn(Stmt.value, Act.env)

\* The running activation goes on with env and cont.
Continue(env, cont) ==
  /\ acts' = [acts EXCEPT ![Len(acts)].env = env, ![Len(acts)].cont = cont]
  /\ result' = <<>>
  /\ UNCHANGED <<program, status>>

Store(k) == /\ At(k) /\ Ready
            /\ Continue([Act.env EXCEPT ![Stmt.name] = Value], Left)

If == /\ At("if") /\ Ready
      /\ Continue(Act.env, Steps(IF Value # Num(0) THEN Stmt.body ELSE Stmt.else) \o Left)

While == /\ At("while") /\ Ready
         /\ Continue(Act.env, IF Value # Num(0) THEN Steps(Stmt.body) \o Act.cont ELSE Left)

\* A call is a statement, or the value of one, which then waits for the result.
Call ==
  /\ status = "running" /\ acts # <<>> /\ Act.cont # <<>> /\ result = <<>>
  /\ Stmt.k = "call" \/ Stmt.value.k = "call"
  /\ LET waits == Stmt.k # "call"
         call  == IF waits THEN Stmt.value ELSE Stmt
         arguments == [i \in 1..Len(call.values) |-> ValueIn(call.values[i], Act.env)]
     IN  acts' = Append([acts EXCEPT ![Len(acts)].cont = IF waits THEN @ ELSE Left,
                                     ![Len(acts)].awaits = waits],
                        Activation(call.name, arguments))
  /\ UNCHANGED <<program, status, result>>

Return ==
  /\ At("return") /\ Len(acts) > 1
  /\ LET caller == Len(acts) - 1
     IN  \E v \in Values :
           /\ Stmt.value.k # "none" => Ready /\ v = Value
           /\ acts' = [i \in 1..caller |->
                         IF i = caller THEN [acts[i] EXCEPT !.awaits = FALSE] ELSE acts[i]]
           /\ result' = IF acts[caller].awaits THEN <<v>> ELSE <<>>
  /\ UNCHANGED <<program, status>>

Exit == /\ At("exit") /\ (Stmt.value.k # "none" => Ready)
        /\ status' = "exited"
        /\ result' = <<>>
        /\ UNCHANGED <<program, acts>>

Next == Start \/ Store("decl") \/ Store("assign") \/ If \/ While \/ Call \/ Return \/ Exit

Spec == Init /\ [][Next]_srcVars
=================================================================================
