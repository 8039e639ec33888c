------------------------------- MODULE MCFrontend -------------------------------
(* Inputs for TLC.  Token lists: assignments of everything that might be an      *)
(* expression, and statements of every kind as they should be and with one token *)
(* wrong.  Texts: every short text over a few alphabets, and programs as they    *)
(* should be and with one character wrong.                                       *)
EXTENDS Grammar

CONSTANTS MaxExpr,  \* tokens in an expression
          MaxText   \* pieces in a short text

MC_Letters == {"a", "s", "m", "i", "n", "t", "f", "e", "r", "u", "c", "g", "v", "b", "h", "l", "w", "x",
               "N"}
MC_Digits == {"0", "1", "5"}
MC_Blanks == {" ", "\n"}

Joined(pieces) == FoldSeq(LAMBDA x, y : x \o y, "", pieces)
Short(pieces) == {Joined(s) : s \in UNION {[1..n -> pieces] : n \in 0..MaxText}}

\* Z is a character of no kind.
ShortTexts == Short({"/", "*", "\n", "a"}) \cup Short({"\"", "a", "/", "="})
              \cup Short({"asm", "{", "}", " "}) \cup Short({"i", "0", "f", "->", "Z"})

Programs == {"a:int=1;//b\nexit a;", "main{/*a*/asm {\n};\nb = a / 1 >= 1;\n};",
             "if (a!=b) {\nasm{};}else{/**/};// \"", "i = \"s\";\nt.e = if1;"}

\* One character is missing, or there is one in its place, or one too much.
Piece(text, i, j) == IF i <= j THEN SubSeq(text, i, j) ELSE ""
Near(text) ==
  UNION {{Piece(text, 1, i - 1) \o c \o Piece(text, j, Len(text)) :
            c \in {"", "/", "*", "\"", "\n", "=", "}", "Z"}, j \in {i, i + 1}} :
         i \in 1..Len(text)}

\* Two texts that the README gives and the parser refuses: a loop that ends without a
\* semicolon (README.md:131 to 141), and an operator it does not look for (README.md:116).
OtherwiseInReadme ==
  {"N : int = 5;\n\nwhile (N > 0) {\n  N = N - 1;\n};\n\n"
     \o "// alternatively\n\nwhile (N) {\n  N = N - 1;\n}\n",
   "a = a \\ 1;"}

MC_Texts == ShortTexts \cup Programs \cup UNION {Near(text) : text \in Programs}
            \cup OtherwiseInReadme

-----------------------------------------------------------------------------
Exprs == UNION {[1..n -> {"id", "+", "==", "*", "(", ")", ","}] : n \in 0..MaxExpr}
         \cup UNION {[1..n -> {"num", "-", "!"}] : n \in 1..MaxExpr}

\* Operators of every level, in every order.
Chains == {FlattenSeq([i \in 1..Len(ops) |-> <<"id", ops[i]>>]) \o <<"num">> :
             ops \in UNION {[1..n -> {"==", "<", "-", "*"}] : n \in 1..4}}

Statements ==
  {<<"id", ":", "id">>, <<"id", ".", "id", "=", "str">>, <<"id", "(", "id", ",", "num", ")">>,
   <<"asm">>, <<"return", "id", ".", "id", "<", "num">>, <<"exit", "num">>,
   <<"type", "id", "{", "id", ":", "id", ";", "id", ":", "id", ";", "}">>,
   <<"func", "id", "(", "id", ":", "id", ",", "id", ":", "id", "=", "num", ")", "->", "id",
     "{", "return", ";", "}">>,
   <<"if", "(", "id", ")", "{", "asm", ";", "}", "else", "{", "asm", ";", "}">>,
   <<"while", "(", "num", ")", "{", "if", "(", "num", ")", "{", "}", ";", "}">>}

Closed(s) == Append(s, ";")
Bodies == {Closed(s) : s \in Statements} \cup {<<"main", "{">> \o Closed(s) \o <<"}", ";">> : s \in Statements}

Alphabet == {"id", "num", "asm", "return", ":", ".", ",", ";", "(", ")", "{", "}", "=", "-", "\\", "for"}

\* One token is missing, or there is another one in its place, or one too much.
Broken(s) == {RemoveAt(s, i) : i \in 1..Len(s)}
             \cup {ReplaceAt(s, i, t) : i \in 1..Len(s), t \in Alphabet}
             \cup {InsertAt(s, i, t) : i \in 1..Len(s), t \in Alphabet}

MC_Vectors == UNION {{<<"id", "=">> \o Closed(e) : e \in Exprs \cup Chains}, Bodies,
                     UNION {Broken(s) : s \in Bodies},
                     {Closed(s) \o Closed(t) : s, t \in Statements},
                     {Append(Closed(s), "INVALID") : s \in Statements}}

-----------------------------------------------------------------------------
\* The functions the README gives as examples.
MC_ReadmeTexts ==
  {"func negative(a : int) -> int {\n  return -a;\n};",
   "func sum(a : int, b : int) -> int {\n  return a + b;\n};"}
MC_NoVectors == {}
================================================================================
