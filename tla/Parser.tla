--------------------------------- MODULE Parser ---------------------------------
(***************************************************************************)
(* The parser (src/parser/parser.cpp): recursive descent with one token    *)
(* of lookahead.                                                           *)
(*                                                                         *)
(* `todo` is the C++ call stack flattened: what the active procedures have *)
(* left to do, innermost first.  An item is a tuple that starts with its   *)
(* name.  Every action is one procedure up to its first call, one turn of  *)
(* one of its loops, or one match.                                         *)
(*                                                                         *)
(* A token is its type; its value is its place in the input.  Of a         *)
(* statement's node only the tokens and the expressions it holds are kept, *)
(* in the order of its fields; expressions keep their trees.               *)
(***************************************************************************)
EXTENDS Naturals, SequencesExt

VARIABLES
  input,   \* the tokens
  la,      \* _lookahead: the place of the token it holds, 0 for what an earlier parse left
  todo,    \* what is left to do
  kept,    \* the tokens and the expressions that are in the AST
  result   \* running, ast or error

vars == <<input, la, todo, kept, result>>

-----------------------------------------------------------------------------
\* The operators of parse_equality, parse_comparison, parse_term and parse_factor.
Ops == <<{"==", "!="}, {"<", ">", "<=", ">="}, {"+", "-"}, {"*", "/", "%"}>>
PrefixOps == {"-", "!"}

\* The stream goes on with END_OF_FILE for ever.
Type(i) == IF i \in 1..Len(input) THEN input[i] ELSE "EOF"

\* The parameter `token`, which every procedure has by reference: consume has just
\* returned it, and the lookahead is the one after it.
token == la - 1

Init == /\ la = 0
        /\ todo = << <<"begin">> >>
        /\ kept = <<>>
        /\ result = "running"

At(name) == result = "running" /\ Head(todo)[1] = name
Item == Head(todo)
Lookahead(types) == Type(la) \in types

\* The procedure at hand goes on with these items; n tokens have been consumed.
Go(items, n) == /\ todo' = items \o Tail(todo)
                /\ la' = la + n
                /\ UNCHANGED <<input, result>>
Do(items, n) == Go(items, n) /\ UNCHANGED kept

\* syntax_error: ParseError, which ends the parse.
SyntaxError == /\ result' = "error"
               /\ UNCHANGED <<input, la, todo, kept>>

\* Trees.  A leaf holds a number, a string, a variable with its attribute, or a token of
\* a statement.
Leaf(tokens) == [k |-> "leaf", tokens |-> tokens]

\* kept with its last n elements replaced by x.
Reduce(n, x) == Append(SubSeq(kept, 1, Len(kept) - n), x)

-----------------------------------------------------------------------------
(* consume, match, try_match.                                              *)

Match(t)  == <<"match", {t}>>
Keep(t)   == <<"keep", t>>  \* match, and the value goes to the AST
Consume   == <<"consume">>
Expr      == <<"level", 1>>

DoMatch == /\ At("match") /\ Lookahead(Item[2])
           /\ Do(<<>>, 1)

DoKeep == /\ At("keep") /\ Lookahead({Item[2]})
          /\ kept' = Append(kept, Leaf(<<la>>))
          /\ Go(<<>>, 1)

MatchFails == /\ \/ At("match") /\ ~Lookahead(Item[2])
                 \/ At("keep") /\ ~Lookahead({Item[2]})
              /\ SyntaxError

DoConsume == At("consume") /\ Do(<<>>, 1)

-----------------------------------------------------------------------------
(* parse and parse_statement.                                              *)

\* The first consume returns what an earlier parse has left in _lookahead.
Begin == At("begin") /\ Do(<< <<"program">> >>, 2)

\* Mutant of Program: one statement and no loop.
ProgramOnce == /\ At("program") /\ ~Lookahead({"EOF"})
               /\ Do(<< <<"statement">> >>, 0)

Program == /\ At("program") /\ ~Lookahead({"EOF"})
           /\ Do(<< <<"statement">>, <<"program">> >>, 0)

\* The loop ends with the lookahead, whatever the token is.
ProgramEnd == /\ At("program") /\ Lookahead({"EOF"})
              /\ result' = "ast"
              /\ UNCHANGED <<input, la, todo, kept>>

\* A statement that starts with a keyword.
Keywords == {"asm", "while", "type", "main", "return", "exit", "func", "if"}

\* What an identifier starts depends on the lookahead.
Starts == [x \in {":", "(", "=", "."} |->
             CASE x = ":" -> "declaration" [] x = "(" -> "call" [] OTHER -> "assignment"]

StatementOf(procedure) ==
  Do(<< <<procedure>>, Match(";"), Consume >>, 0)

ParseStatement ==
  /\ At("statement")
  /\ \/ Type(token) \in Keywords /\ StatementOf(Type(token))
     \/ Type(token) = "id" /\ Lookahead(DOMAIN Starts) /\ StatementOf(Starts[Type(la)])

\* Mutant of StatementFails: no statement, and no error either.
StatementSkipped ==
  /\ At("statement") /\ Type(token) \notin Keywords
  /\ Type(token) = "id" => ~Lookahead(DOMAIN Starts)
  /\ Do(<<>>, 0)

StatementFails ==
  /\ At("statement") /\ Type(token) \notin Keywords
  /\ Type(token) = "id" => ~Lookahead(DOMAIN Starts)
  /\ SyntaxError

\* while (token.type != CLOSE_BRACE) body.push_back(parse_statement()).
Body == /\ At("body") /\ Type(token) # "}"
        /\ Do(<< <<"statement">>, Item >>, 0)
BodyEnd == /\ At("body") /\ Type(token) = "}"
           /\ Do(<<>>, 0)
Braced == << Match("{"), Consume, <<"body">> >>

-----------------------------------------------------------------------------
(* The statements.                                                         *)

Condition == << Match("("), Expr, Match(")") >>

ParseIf == At("if") /\ Do(Condition \o Braced \o << <<"else">> >>, 0)

\* Mutant of ParseElse: the token after the brace is not fetched.
ParseElseLate == /\ At("else") /\ Lookahead({"else"})
                 /\ Do(<<Match("{"), <<"body">> >>, 1)

ParseElse == /\ At("else") /\ Lookahead({"else"})
             /\ Do(Braced, 1)
NoElse == /\ At("else") /\ ~Lookahead({"else"})
          /\ Do(<<>>, 0)

ParseWhile == At("while") /\ Do(Condition \o Braced, 0)
ParseMain  == At("main") /\ Do(Braced, 0)

ParseFunc ==
  At("func") /\ Do(<<Keep("id"), Match("("), <<"params">>, Match("->"), Keep("id")>> \o Braced, 0)

Params    == /\ At("params") /\ ~Lookahead({")"})
             /\ Do(<<Match("id"), <<"declaration">>, <<"more", "params">> >>, 0)
NoParams  == /\ At("params") /\ Lookahead({")"})
             /\ Do(<<>>, 1)

\* After a parameter or an argument: a comma, and the loop looks for the parenthesis
\* again, or the parenthesis.
More   == /\ At("more") /\ Lookahead({","})
          /\ Do(<<Tail(Item)>>, 1)
NoMore == /\ At("more") /\ ~Lookahead({","})
          /\ Do(<<Match(")")>>, 0)

\* Mutant of Attributes: an attribute needs no semicolon.
AttributesUnclosed ==
  /\ At("attributes") /\ ~Lookahead({"}"})
  /\ Do(<<Keep("id"), Match(":"), Keep("id"), Item>>, 0)

ParseType == At("type") /\ Do(<<Keep("id"), Match("{"), <<"attributes">> >>, 0)
Attributes ==
  /\ At("attributes") /\ ~Lookahead({"}"})
  /\ Do(<<Keep("id"), Match(":"), Keep("id"), Match(";"), Item>>, 0)
NoAttributes ==
  /\ At("attributes") /\ Lookahead({"}"})
  /\ Do(<<>>, 1)

KeepToken(items) == /\ kept' = Append(kept, Leaf(<<token>>))
                    /\ Go(items, 0)

ParseAsm == At("asm") /\ KeepToken(<<>>)

ParseDeclaration == At("declaration") /\ KeepToken(<<Match(":"), Keep("id"), <<"init">> >>)
Initialized      == /\ At("init") /\ Lookahead({"="})
                    /\ Do(<<Expr>>, 1)
NotInitialized   == /\ At("init") /\ ~Lookahead({"="})
                    /\ Do(<<>>, 0)

ParseAssignment == At("assignment") /\ Do(<< <<"variable">>, Match("="), Expr>>, 0)

\* Mutant of VariableAttribute: the attribute takes the place of the name.
VariableAttributeOnly ==
  /\ At("attribute") /\ Lookahead({"id"})
  /\ kept' = Reduce(1, Leaf(<<la>>))
  /\ Go(<<>>, 1)

ParseVariable     == At("variable") /\ KeepToken(IF Lookahead({"."})
                                                 THEN <<Match("."), <<"attribute">> >> ELSE <<>>)
VariableAttribute == /\ At("attribute") /\ Lookahead({"id"})
                     /\ kept' = Reduce(1, Leaf(Append(Last(kept).tokens, la)))
                     /\ Go(<<>>, 1)
NoAttribute       == At("attribute") /\ ~Lookahead({"id"}) /\ SyntaxError

ParseReturn == /\ At("return")
               /\ Do(IF Lookahead({";"}) THEN <<>> ELSE <<Expr>>, 0)
ParseExit   == At("exit") /\ Do(<<Expr>>, 0)

\* parse_call; `collect` makes the node of what has been kept since the name.
ParseCall == At("call") /\ KeepToken(<<Match("("), <<"args">>, <<"collect", Len(kept) + 1>> >>)
Args      == /\ At("args") /\ ~Lookahead({")"})
             /\ Do(<<Expr, <<"more", "args">> >>, 0)
NoArgs    == /\ At("args") /\ Lookahead({")"})
             /\ Do(<<>>, 1)
Collect   == /\ At("collect")
             /\ LET args == SubSeq(kept, Item[2] + 1, Len(kept))
                IN  kept' = Reduce(Len(args) + 1, [k |-> "call", name |-> kept[Item[2]], args |-> args])
             /\ Go(<<>>, 0)

-----------------------------------------------------------------------------
(* Expressions.                                                            *)

\* The procedures from level n down to parse_unary call each other at once; behind each
\* waits its loop.
Level == /\ At("level")
         /\ Do(<< <<"unary", 0>> >> \o [i \in 1..(5 - Item[2]) |-> <<"loop", 5 - i, FALSE>>], 0)

\* Mutant of Loop: the right side is read by the level before.
LoopLooser ==
  /\ At("loop") /\ Lookahead(Ops[Item[2]])
  /\ Do(<< <<"level", IF Item[2] = 1 THEN 1 ELSE Item[2] - 1>>,
           <<"combine", Item[2], la, Item[3]>>, <<"loop", Item[2], TRUE>> >>, 1)

\* One turn of the loop of a level; its operands nest to the right.
Loop == /\ At("loop") /\ Lookahead(Ops[Item[2]])
        /\ Do(<< <<"level", Item[2]>>, <<"combine", Item[2], la, Item[3]>>,
                 <<"loop", Item[2], TRUE>> >>, 1)
LoopEnd == /\ At("loop") /\ ~Lookahead(Ops[Item[2]])
           /\ Do(<<>>, 0)

\* The operator and the right side go to the node; in a later turn they would replace
\* those of the turn before.
Combine ==
  /\ At("combine")
  /\ LET right == Last(kept)
         node  == kept[Len(kept) - 1]
         left  == IF Item[4] THEN node.left ELSE node
     IN  kept' = Reduce(2, [k |-> "binary", level |-> Item[2], left |-> left, op |-> Item[3],
                            right |-> right])
  /\ Go(<<>>, 0)

\* The loop of parse_unary; the value of each turn is replaced by the next one, and the
\* last one by the primary behind the loop.
Unary    == /\ At("unary") /\ Lookahead(PrefixOps)
            /\ Do(<< <<"unary", 0>>, <<"replace", la>> >>, 1)
Replaced == /\ At("replace")
            /\ kept' = Front(kept)
            /\ Go(<< <<"unary", Item[2]>> >>, 0)
UnaryEnd == /\ At("unary") /\ ~Lookahead(PrefixOps)
            /\ Do(<< <<"primary">> >> \o (IF Item[2] = 0 THEN <<>> ELSE << <<"prefix", Item[2]>> >>), 0)
Prefix   == /\ At("prefix")
            /\ kept' = Reduce(1, [k |-> "unary", op |-> Item[2], value |-> Last(kept)])
            /\ Go(<<>>, 0)

PrimaryLeaf == /\ At("primary") /\ Lookahead({"str", "num"})
               /\ kept' = Append(kept, Leaf(<<la>>))
               /\ Go(<<>>, 1)

PrimaryName == /\ At("primary") /\ Lookahead({"id"})
               /\ Do(<< <<IF Type(la + 1) = "(" THEN "call" ELSE "variable">> >>, 1)

PrimaryParen == /\ At("primary") /\ Lookahead({"("})
                /\ Do(<<Expr, Match(")"), <<"paren">> >>, 1)
Paren == /\ At("paren")
         /\ kept' = Reduce(1, [k |-> "paren", value |-> Last(kept)])
         /\ Go(<<>>, 0)

PrimaryFails == /\ At("primary") /\ ~Lookahead({"str", "num", "id", "("})
                /\ SyntaxError

-----------------------------------------------------------------------------
Next ==
  \/ Begin \/ Program \/ ProgramEnd \/ ParseStatement \/ StatementFails \/ Body \/ BodyEnd
  \/ DoMatch \/ DoKeep \/ MatchFails \/ DoConsume
  \/ ParseIf \/ ParseElse \/ NoElse \/ ParseWhile \/ ParseMain
  \/ ParseFunc \/ Params \/ NoParams \/ More \/ NoMore
  \/ ParseType \/ Attributes \/ NoAttributes \/ ParseAsm
  \/ ParseDeclaration \/ Initialized \/ NotInitialized
  \/ ParseAssignment \/ ParseVariable \/ VariableAttribute \/ NoAttribute
  \/ ParseReturn \/ ParseExit \/ ParseCall \/ Args \/ NoArgs \/ Collect
  \/ Level \/ Loop \/ LoopEnd \/ Combine \/ Unary \/ Replaced \/ UnaryEnd \/ Prefix
  \/ PrimaryLeaf \/ PrimaryName \/ PrimaryParen \/ Paren \/ PrimaryFails

-----------------------------------------------------------------------------
(* Properties (what the parser accepts is in module Grammar).              *)

TypeOK ==
  /\ result \in {"running", "ast", "error"}
  /\ la \in 0..(Len(input) + 2)
  /\ todo # <<>>
=================================================================================
