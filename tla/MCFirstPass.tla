------------------------------ MODULE MCFirstPass ------------------------------
(* Programs for TLC: every sequence of at most MaxStatements of the statements  *)
(* below.  They are chosen so that types and functions come twice, before and   *)
(* after what they need, with and without attributes, parameters and calls.     *)
EXTENDS FirstPass

CONSTANT MaxStatements

Var(n, t)     == [name |-> n, type |-> t]
Decl(n, t, c) == [k |-> "decl", name |-> n, type |-> t, calls |-> c]
Stmt(k, c)    == [k |-> k, calls |-> c]
CallOf(n)     == [k |-> "call", args |-> n, calls |-> TRUE]

TypeP == [k |-> "type", name |-> "P", attrs |-> <<Var("x", "int"), Var("y", "none"), Var("z", "int")>>]
TypeQ == [k |-> "type", name |-> "Q", attrs |-> <<Var("a", "int"), Var("b", "P"), Var("a", "P")>>]
TypeI == [k |-> "type", name |-> "P", attrs |-> <<>>]

FuncF == [k |-> "func", name |-> "f", args |-> <<Var("a", "int"), Var("b", "P")>>,
          body |-> <<Decl("x", "P", TRUE), Decl("y", "none", FALSE), Decl("x", "int", FALSE),
                     Stmt("return", TRUE)>>]
FuncG == [k |-> "func", name |-> "g", args |-> <<Var("a", "int")>>,
          body |-> <<CallOf(0), CallOf(1), Decl("u", "Q", FALSE), Stmt("asm", FALSE)>>]
FuncH == [k |-> "func", name |-> "f", args |-> <<>>,
          body |-> <<Decl("x", "int", FALSE), Stmt("while", FALSE), Decl("y", "int", FALSE)>>]
Main  == [k |-> "main", body |-> <<Decl("a", "int", TRUE), CallOf(1), Stmt("assign", FALSE),
                                   Stmt("exit", FALSE)>>]

TopLevel == {TypeP, TypeQ, TypeI, FuncF, FuncG, FuncH, Main,
             Decl("z", "int", FALSE), Decl("a", "Q", FALSE), Stmt("if", TRUE)}

MC_Programs == UNION {[1..n -> TopLevel] : n \in 0..MaxStatements}
================================================================================
