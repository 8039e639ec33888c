------------------------------ MODULE MCExecution ------------------------------
(* Programs for TLC: right and wrong ones of every statement, which are compiled,  *)
(* and supported ones, which are compiled and run.                                 *)
EXTENDS Execution

CONSTANTS
  MaxBody,   \* statements in a body that is only compiled
  MaxCallee  \* statements in the body of f, in programs that are run

MC_NameOrder == <<"a", "b", "n">>

RECURSIVE MC_Within(_)
MC_Within(s) ==
  LET In(body) == UNION {MC_Within(body[i]) : i \in 1..Len(body)}
  IN  {s} \cup CASE s.k = "if" -> In(s.body) \cup In(s.else)
                 [] s.k = "while" -> In(s.body)
                 [] OTHER -> {}

MC_Values == {Junk} \cup {Num(i) : i \in 0..2}

None      == [k |-> "none"]
Lit(i)    == [k |-> "num", value |-> i]
Ref(x)    == [k |-> "var", name |-> x]
Neq(x, y) == [k |-> "neq", left |-> x, right |-> y]
CallOf(f, values) == [k |-> "call", name |-> f, values |-> values, args |-> Len(values),
                      value |-> None]

Var(x)          == [name |-> x, type |-> "int"]
Decl(x, t, v)   == [k |-> "decl", name |-> x, type |-> t, value |-> v]
Quad(x, v)       == Decl(x, "int", v)
Set(x, at, v)   == [k |-> "assign", name |-> x, attr |-> at, value |-> v]
Asg(x, v)       == Set(x, "none", v)
Ret(v)          == [k |-> "return", value |-> v]
Quit(v)         == [k |-> "exit", value |-> v]
IfElse(v, b, e) == [k |-> "if", value |-> v, body |-> b, else |-> e]
Loops(v, b)     == [k |-> "while", value |-> v, body |-> b]
Asm             == [k |-> "asm"]
TypeP           == [k |-> "type", name |-> "P", attrs |-> <<Var("x"), Var("y")>>]

Func(f, args, body) == [k |-> "func", name |-> f, args |-> args, body |-> body]
Main(body)          == [k |-> "main", body |-> body]

SeqsUpTo(n, stmts) == UNION {[1..i -> stmts] : i \in 0..n}

-----------------------------------------------------------------------------
(* Right and wrong programs.                                               *)

Simple == {Quad("a", Lit(1)), Decl("b", "P", None), Set("a", "x", Neq("a", "n")),
           Set("b", "y", CallOf("f", <<>>)), Set("b", "z", Lit(2)), Ret(None),
           Quit(Ref("a")), CallOf("f", <<Ref("n")>>), Decl("a", "T", None),
           Decl("b", "P", Lit(1)), Quad("b", Ref("a"))}

Nested == Simple \cup {Ret(CallOf("f", <<>>)), Quit(None), Asm, TypeP, Main(<<Asm>>),
                       Func("g", <<>>, <<>>)}
                 \cup {IfElse(Ref("a"), <<s>>, <<>>) : s \in Simple}
                 \cup {IfElse(CallOf("f", <<>>), <<Loops(Lit(1), <<>>)>>, <<s>>) : s \in Simple}
                 \cup {Loops(Ref("a"), <<s, IfElse(Lit(0), <<>>, <<>>)>>) : s \in Simple}

\* Calls of a function with more parameters than there are registers.
Eight    == [i \in 1..8 |-> Var("n")]
Zeros    == CallOf("f", [i \in 1..8 |-> Lit(0)])
Overfull == CallOf("f", [i \in 1..8 |-> IF i = 8 THEN Neq("a", "n") ELSE Lit(0)])
Overflowing == {Zeros, Overfull, Quad("b", Overfull), Asg("a", Overfull), Ret(Overfull),
                Quit(Zeros), IfElse(Zeros, <<Overfull>>, <<>>),
                Loops(Overfull, <<Asg("a", Lit(0))>>)}

\* A function before main; one after it, then statements at top level, where Contexts run
\* out; statements before everything.
AnyPrograms ==
  UNION {
    {<<TypeP, Func("f", <<Var("n")>>, <<Quad("a", Lit(2))>> \o body),
       Main(<<Decl("b", "P", None)>>)>> : body \in SeqsUpTo(MaxBody, Nested)},
    {<<TypeP, Func("f", <<>>, <<Quad("a", Lit(2))>> \o body), Main(<<>>)>> :
       body \in SeqsUpTo(1, Nested)},
    {<<TypeP, Main(body), Func("f", <<Var("n")>>, <<Ret(None), Ret(None)>>), Ret(Lit(1)), s>> :
       body \in SeqsUpTo(1, Nested), s \in Simple \cup {Loops(Ref("a"), <<>>)}},
    {<<s, TypeP, Main(<<>>)>> : s \in Simple},
    {<<Func("f", Eight, <<Quad("a", Lit(2))>> \o body), Main(<<Zeros>>)>> :
       body \in SeqsUpTo(MaxBody, Overflowing)},
    {<<Main(<<>>), Func("f", Eight, <<Ret(None), Ret(None), Ret(None)>>), s>> :
       s \in Overflowing}}

-----------------------------------------------------------------------------
(* Supported programs: a function f with or without a parameter, a function *)
(* g that calls it, main, and a function h that nobody calls.               *)

\* A call of f with or without an argument.
CallF(args, v) == CallOf("f", IF args = <<>> THEN <<>> ELSE <<v>>)

StatementsOf(args) ==
  {Quad("a", Lit(1)), Quad("b", Ref("a")), Quad("b", None), Asg("b", Lit(2)),
   CallF(args, Lit(0)),
   Loops(Ref("a"), <<Asg("a", Lit(0))>>),
   IfElse(Ref("n"), <<CallF(args, Lit(0)), Asg("n", Lit(2))>>, <<Asg("n", Lit(1))>>),
   IfElse(Neq("a", "b"), <<IfElse(Ref("b"), <<Asg("b", Ref("a"))>>, <<Quit(None)>>)>>, <<>>)}

\* Bodies of main.
Callers(args) ==
  {<<Quad("b", None), Quad("a", CallF(args, Lit(1))), Asg("b", Neq("a", "a"))>>,
   <<Quad("b", CallF(args, Lit(0))), Quad("a", Lit(1)),
     Loops(Neq("a", "b"), <<Asg("a", CallF(args, Ref("a"))), Asg("b", Ref("a"))>>)>>,
   <<Quad("a", None), Quad("b", Lit(1)),
     IfElse(CallF(args, Ref("b")), <<Loops(CallF(args, Ref("a")), <<Quit(Ref("b"))>>)>>,
            <<Asg("b", CallF(args, Lit(1)))>>)>>}

SupportedPrograms ==
  LET Program(args, body, v, main) ==
        <<Func("f", args, Append(body, Ret(v))),
          Func("g", <<>>, <<Quad("b", Lit(2)), Quad("a", CallF(args, Ref("b"))),
                            Ret(Neq("b", "a"))>>),
          Main(<<CallOf("g", <<>>)>> \o main \o <<Quit(CallF(args, Ref("b")))>>),
          Func("h", <<>>, <<Ret(Lit(0))>>)>>
  IN  {<<Func("f", <<>>, <<Ret(None)>>), Main(<<Quad("a", CallOf("f", <<>>)), Quit(Ref("a"))>>)>>}
      \cup
      {p \in UNION {{Program(args, body, v, main) :
                       body \in SeqsUpTo(MaxCallee, StatementsOf(args)),
                       v \in {None, Ref("a"), Ref("n")}, main \in Callers(args)} :
                    args \in {<<>>, <<Var("n")>>}} : Supported(p)}

MC_Programs == AnyPrograms \cup SupportedPrograms

\* All statements of a body, those inside functions and main included.
RECURSIVE AllIn(_)
AllIn(body) ==
  UNION {{body[i]} \cup (IF body[i].k \in {"func", "main", "if", "while"} THEN AllIn(body[i].body) ELSE {})
                  \cup (IF body[i].k = "if" THEN AllIn(body[i].else) ELSE {}) : i \in 1..Len(body)}
MC_Statements == UNION {AllIn(p) : p \in Programs}

-----------------------------------------------------------------------------
\* A function that returns inside an if, or at its end.
MC_EarlyReturns ==
  {<<Func("f", <<>>, <<Quad("a", v), IfElse(Ref("a"), <<Ret(Lit(1))>>, <<>>), Ret(Ref("a"))>>),
     Main(<<Quit(CallOf("f", <<>>))>>)>> : v \in {Lit(0), Lit(1)}}

\* The program of README.md:189 to 197, with a function to call.
MC_ReadmeCall ==
  {<<Func("sum", <<Var("a"), Var("b")>>, <<Ret(Neq("a", "b"))>>),
     Main(<<Quad("a", Lit(4)), Quad("b", Lit(3)),
            Quad("c", CallOf("sum", <<Ref("a"), Ref("b")>>)), Quit(Ref("c"))>>)>>}
MC_ReadmeOrder == <<"a", "b", "c">>
================================================================================
