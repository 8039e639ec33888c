--------------------------------- MODULE Grammar ---------------------------------
(***************************************************************************)
(* The language, said without any parser, and what the front end promises  *)
(* of it.  The definitions recurse over token lists and trees, so they     *)
(* are kept apart from the modules that are reasoned about.                *)
(*                                                                         *)
(* The syntax is that of the README where the code agrees with it.  The    *)
(* code decides the rest: an if, a while, a func, a main and a type need a *)
(* semicolon behind their brace, / and % are operators and a backslash is  *)
(* not (README.md:139 and 116 have it otherwise), a comma may end a list,  *)
(* one token behind the last statement is never looked at.                 *)
(***************************************************************************)
EXTENDS Frontend, SequencesExt

Operators == UNION {P!Ops[n] : n \in 1..4}
Part(s, i, j) == SubSeq(s, i, j)

\* Comma-separated expressions, perhaps with a comma at the end; expressions, however
\* they are read.
RECURSIVE IsExpr(_)
RECURSIVE IsArgs(_)
IsExpr(s) ==
  \/ s \in {<<"num">>, <<"str">>, <<"id">>, <<"id", ".", "id">>}
  \/ Len(s) > 2 /\ s[1] = "(" /\ Last(s) = ")" /\ IsExpr(Tail(Front(s)))
  \/ Len(s) > 2 /\ s[1] = "id" /\ s[2] = "(" /\ Last(s) = ")"
       /\ IsArgs(Part(s, 3, Len(s) - 1))
  \/ \E i \in 2..(Len(s) - 1) :
       s[i] \in Operators /\ IsExpr(Part(s, 1, i - 1)) /\ IsExpr(Part(s, i + 1, Len(s)))
IsArgs(s) ==
  \/ s = <<>> \/ IsExpr(s)
  \/ \E i \in 2..Len(s) : s[i] = "," /\ IsExpr(Part(s, 1, i - 1)) /\ IsArgs(Part(s, i + 1, Len(s)))

IsDecl(s) ==
  /\ Len(s) >= 3 /\ Part(s, 1, 3) = <<"id", ":", "id">>
  /\ Len(s) > 3 => s[4] = "=" /\ IsExpr(Part(s, 5, Len(s)))

RECURSIVE IsParams(_)
IsParams(s) ==
  \/ s = <<>> \/ IsDecl(s)
  \/ \E i \in 2..Len(s) : s[i] = "," /\ IsDecl(Part(s, 1, i - 1)) /\ IsParams(Part(s, i + 1, Len(s)))

RECURSIVE IsAttributes(_)
IsAttributes(s) ==
  \/ s = <<>>
  \/ Len(s) >= 4 /\ Part(s, 1, 4) = <<"id", ":", "id", ";">> /\ IsAttributes(Part(s, 5, Len(s)))

\* Statements with their semicolons; one without it; { statements }; ( expression ) and
\* what follows.
RECURSIVE IsStatements(_)
RECURSIVE IsStatement(_)
IsBlock(s) == Len(s) >= 2 /\ s[1] = "{" /\ Last(s) = "}" /\ IsStatements(Tail(Front(s)))
IsStatement(s) ==
  \/ s \in {<<"asm">>, <<"return">>} \/ IsDecl(s)
  \/ Len(s) > 2 /\ s[2] = "(" /\ s[1] = "id" /\ IsExpr(s) /\ Last(s) = ")"
       /\ IsArgs(Part(s, 3, Len(s) - 1))
  \/ Len(s) > 2 /\ Part(s, 1, 2) = <<"id", "=">> /\ IsExpr(Part(s, 3, Len(s)))
  \/ Len(s) > 4 /\ Part(s, 1, 4) = <<"id", ".", "id", "=">> /\ IsExpr(Part(s, 5, Len(s)))
  \/ Len(s) > 1 /\ s[1] \in {"return", "exit"} /\ IsExpr(Tail(s))
  \/ Len(s) > 1 /\ s[1] = "main" /\ IsBlock(Tail(s))
  \/ Len(s) > 3 /\ Part(s, 1, 3) = <<"type", "id", "{">> /\ Last(s) = "}"
       /\ IsAttributes(Part(s, 4, Len(s) - 1))
  \/ /\ Len(s) > 5 /\ s[1] \in {"if", "while"} /\ s[2] = "("
     /\ \E i \in 4..Len(s) :
          /\ s[i] = ")" /\ IsExpr(Part(s, 3, i - 1))
          /\ \/ IsBlock(Part(s, i + 1, Len(s)))
             \/ \E j \in (i + 3)..Len(s) :
                  /\ s[1] = "if" /\ s[j] = "else"
                  /\ IsBlock(Part(s, i + 1, j - 1)) /\ IsBlock(Part(s, j + 1, Len(s)))
  \/ /\ Len(s) > 7 /\ Part(s, 1, 3) = <<"func", "id", "(">>
     /\ \E i \in 4..(Len(s) - 4) :
          /\ IsParams(Part(s, 4, i - 1)) /\ Part(s, i, i + 2) = <<")", "->", "id">>
          /\ IsBlock(Part(s, i + 3, Len(s)))
IsStatements(s) ==
  \/ s = <<>>
  \/ \E i \in 2..Len(s) :
       s[i] = ";" /\ IsStatement(Part(s, 1, i - 1)) /\ IsStatements(Part(s, i + 1, Len(s)))

-----------------------------------------------------------------------------
(* Properties.                                                             *)

\* No - or ! stands where an operand begins.
NoPrefix == \A i \in 1..Len(input) :
              input[i] \in P!PrefixOps =>
                input[i] = "-" /\ i > 1 /\ input[i - 1] \in {"id", "num", "str", ")"}

\* A program of the language, or one with a token of any kind behind it, which is never
\* looked at.
AreStatements(s) == IsStatements(s) \/ (s # <<>> /\ IsStatements(Front(s)))
IsProgram == AreStatements(input)

\* The brace at i closes the body of a while.
LoopEnds(i) ==
  \E w, b \in 1..(i - 1) :
    /\ w + 2 < b /\ Part(input, w, w + 1) = <<"while", "(">> /\ IsExpr(Part(input, w + 2, b - 2))
    /\ input[b - 1] = ")" /\ IsBlock(Part(input, b, i))

\* The input as its author means it who goes by the README: a backslash (README.md:116) is an
\* operator, and a while may do without its semicolon (README.md:139 to 141).
AsMeant ==
  FlattenSeq([i \in 1..Len(input) |->
    IF input[i] = "\\" THEN <<"*">>
    ELSE IF input[i] = "}" /\ (i = Len(input) \/ input[i + 1] # ";") /\ LoopEnds(i) THEN <<"}", ";">>
    ELSE <<input[i]>>])

\* A program only for the README.
OnlyDocumented == ~IsProgram /\ AreStatements(AsMeant)

\* Apart from inputs with a prefix operator, and from those that the README calls programs and
\* this language does not, the parser accepts exactly the programs of the language.
AcceptsExactly ==
  result # "running" /\ NoPrefix /\ ~OnlyDocumented => (result = "ast" <=> IsProgram)

\* The tokens of a tree, in the order of its fields.
RECURSIVE Yield(_)
Yield(t) ==
  CASE t.k = "leaf"   -> t.tokens
    [] t.k = "binary" -> Yield(t.left) \o <<t.op>> \o Yield(t.right)
    [] t.k = "unary"  -> <<t.op>> \o Yield(t.value)
    [] t.k = "paren"  -> Yield(t.value)
    [] t.k = "call"   -> Yield(t.name) \o FlattenSeq([i \in 1..Len(t.args) |-> Yield(t.args[i])])

\* The tokens with a value, and the operators: all that is not implied by the shape of
\* the AST.
Matters == {"id", "num", "str", "asm"} \cup Operators

\* Every such token of an accepted program is in the AST, once and in order (but for the
\* token behind the end).
NothingIsLost ==
  result = "ast" /\ NoPrefix =>
    \E n \in {Len(input), Len(input) - 1} :
      FlattenSeq([i \in 1..Len(kept) |-> Yield(kept[i])])
        = SelectSeq([i \in 1..n |-> i], LAMBDA i : input[i] \in Matters)

\* An operator's operands bind at least as tightly as it does, the left one more.
RECURSIVE Precedes(_)
LevelOf(t) == IF t.k = "binary" THEN t.level ELSE 5
Precedes(t) ==
  CASE t.k = "leaf"   -> TRUE
    [] t.k = "binary" -> /\ input[t.op] \in P!Ops[t.level]
                         /\ LevelOf(t.left) > t.level /\ LevelOf(t.right) >= t.level
                         /\ Precedes(t.left) /\ Precedes(t.right)
    [] t.k = "unary"  -> LevelOf(t.value) = 5 /\ Precedes(t.value)
    [] t.k = "paren"  -> Precedes(t.value)
    [] t.k = "call"   -> \A i \in 1..Len(t.args) : Precedes(t.args[i])

PrecedenceKept == \A i \in 1..Len(kept) : Precedes(kept[i])

\* What an earlier compilation has written is destroyed only by a program: an input that
\* is no program, a file that cannot be read and a call for help leave it alone.
OldOutputKept == output # "old" /\ NoPrefix => IsProgram
=================================================================================
