--------------------------------- MODULE Frontend ---------------------------------
(***************************************************************************)
(* The driver (src/main.cpp) with the lexer and the parser it calls.       *)
(*                                                                         *)
(* Parser::parse(path) reads the file and lexes all of it before the first *)
(* token is asked for; a token list that ends with INVALID goes on with    *)
(* END_OF_FILE like any other.  The tests call Parser::parse(tokens),      *)
(* which has its tokens from the start.  Here the driver starts either of  *)
(* the two.                                                                *)
(***************************************************************************)
EXTENDS Lexer

CONSTANT Vectors  \* the token lists that are given to parse(tokens)

\* A token is its type.
ASSUME VectorsAssumption == Vectors \subseteq Seq(STRING)

VARIABLES
  entry,                          \* path until there are tokens, then tokens
  input, la, todo, kept, result,  \* the parser
  output,                         \* the output file: old, empty or written
  status                          \* running, aborted, or what main has returned

P == INSTANCE Parser

parserState == <<la, todo, kept, result>>
driverState == <<output, status>>
allVars == <<lexVars, entry, input, parserState, driverState>>

FrontInit ==
  /\ P!Init
  /\ output = "old" /\ status = "running"
  /\ \/ entry = "path" /\ Init /\ input = <<>>
     \/ /\ entry = "tokens" /\ input \in Vectors
        /\ source = "" /\ iter = 1 /\ tokens = <<>>

Return(code) == status' = code /\ UNCHANGED <<lexVars, entry, input, parserState>>

-----------------------------------------------------------------------------
\* initialize: help was asked for.
Help == /\ status = "running" /\ entry = "path" /\ iter = 1 /\ tokens = <<>>
        /\ Return("0") /\ UNCHANGED output

\* There is an option that is not known, or none for the input, or by_token cannot open
\* it, and nobody catches the exception.
CannotOpen == /\ status = "running" /\ entry = "path" /\ iter = 1 /\ tokens = <<>>
              /\ Return("aborted") /\ UNCHANGED output

\* by_token, up to its first co_yield.
Lex == /\ status = "running" /\ entry = "path"
       /\ Next
       /\ UNCHANGED <<entry, input, parserState, driverState>>

\* The stream of tokens; END_OF_FILE comes for ever.
ByToken ==
  /\ status = "running" /\ entry = "path" /\ Ended
  /\ entry' = "tokens"
  /\ input' = LET n == Len(tokens)
                  m == IF tokens[n].type = "EOF" THEN n - 1 ELSE n
              IN  [i \in 1..m |-> tokens[i].type]
  /\ UNCHANGED <<lexVars, parserState, driverState>>

\* Mutant of Parse: the Generator is made first, and its constructor truncates its file.
ParseLate ==
  /\ status = "running" /\ entry = "tokens"
  /\ P!Next
  /\ output' = "empty"
  /\ UNCHANGED <<lexVars, entry, status>>

Parse == /\ status = "running" /\ entry = "tokens"
         /\ P!Next
         /\ UNCHANGED <<lexVars, entry, driverState>>

\* There is no tree: -1, and no Generator was made.
Refuse == /\ status = "running" /\ result = "error"
          /\ Return("-1") /\ UNCHANGED output

\* The Generator cannot open its file, and nobody catches its exception.
NoOutput == /\ status = "running" /\ result = "ast"
            /\ Return("aborted") /\ UNCHANGED output

\* The Generator truncates its file, and writes it if it finds nothing wrong (module
\* Generator); main returns 0 in both cases.
Compile == /\ status = "running" /\ result = "ast"
           /\ output' \in {"empty", "written"}
           /\ Return("0")

FrontNext == Help \/ CannotOpen \/ Lex \/ ByToken \/ Parse \/ Refuse \/ NoOutput \/ Compile

\* One thread; a file of finite size and a stream that never blocks.
FrontSpec == FrontInit /\ [][FrontNext]_allVars /\ WF_allVars(FrontNext)

-----------------------------------------------------------------------------
(* Properties.                                                             *)

FrontendTypeOK ==
  /\ TypeOK
  /\ entry = "tokens" => P!TypeOK
  /\ output \in {"old", "empty", "written"}
  /\ status \in {"running", "aborted", "0", "-1"}

\* A text is accepted or refused whatever it is: no character stops the lexer, and the
\* endless END_OF_FILE keeps no loop of the parser going.
FrontendEnds == <>(status # "running")

\* What the README gives as a program is accepted.
ReadmeTextsParse == status # "-1"
================================================================================
