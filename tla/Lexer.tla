---------------------------------- MODULE Lexer ----------------------------------
(***************************************************************************)
(* The lexer (src/lexer/lexer.cpp): the whole text becomes a list of       *)
(* tokens before the parser gets the first one.                            *)
(*                                                                         *)
(* Lexer::tokenize calls parse_token until it returns END_OF_FILE or       *)
(* INVALID.  An action is one token, or one turn of the loop in front of   *)
(* the tokens, which skips a blank or a comment.  A token is its type and  *)
(* its place in the text, from its first character to the first one behind *)
(* it; line and column only go to the message of a syntax error.           *)
(***************************************************************************)
EXTENDS Naturals, Sequences

CONSTANTS
  Texts,                   \* the source texts that occur
  Letters, Digits, Blanks  \* isalpha, isdigit and iswspace of the characters that occur

VARIABLES
  source,  \* the text
  iter,    \* _iter: the place of the next character
  tokens   \* the tokens so far

lexVars == <<source, iter, tokens>>

\* A token that is one character, when it is not the first of two.  (So is a backtick, which
\* no TLA+ string may hold.)
Symbols == {";", ",", "(", ")", "{", "}", "[", "]", ":", ".", "#", "@", "&", "*", "+", "-",
            "%", "^", "~", "!", "?", "<", ">", "=", "/", "|", "'", "\\", "$", "_"}

Quote == "\""

\* The tokens that are two.
Pairs == {"->", "!=", "<=", ">=", "=="}

keywords == {"if", "else", "for", "while", "return", "exit", "type", "func", "main", "asm"}

\* The kinds of characters have nothing in common.
ASSUME CharactersAssumption ==
  /\ \A text \in Texts \cup {""} : Len(text) \in Nat
  /\ Letters \cap (Digits \cup Blanks) = {} /\ Digits \cap Blanks = {}
  /\ (Letters \cup Digits \cup Blanks) \cap (Symbols \cup {Quote, "end"}) = {}

\* A string is the sequence of its characters.
ASSUME StringsAssumption ==
  /\ \A text \in Texts \cup {""} : \A i, j \in 1..Len(text) :
       LET part == SubSeq(text, i, j)
       IN  i <= j => /\ Len(part) = 1 + j - i
                     /\ j <= i + 2 =>
                          \A k \in i..j : SubSeq(part, 1 + k - i, 1 + k - i) = SubSeq(text, k, k)
  /\ \A s \in Symbols : Len(s) = 1
  /\ \A s \in Pairs : Len(s) = 2 /\ SubSeq(s, 1, 1) \in Symbols
  /\ Len("asm") = 3 /\ \A k \in 1..3 : SubSeq("asm", k, k) \in Letters

-----------------------------------------------------------------------------
\* One behind the text, where a std::string has a NUL.
End == Len(source) + 1
Char(i) == IF i \in 1..Len(source) THEN SubSeq(source, i, i) ELSE "end"

\* Two characters start at i, in this order.
Both(i, a, b) == Char(i) = a /\ Char(i + 1) = b

\* The two characters that start at i.
Ahead(i) == IF i + 1 \in 1..Len(source) THEN SubSeq(source, i, i + 1) ELSE Char(i)

\* The first of these places; when there is none, the end.
First(places) == IF places = {} THEN End
                 ELSE CHOOSE i \in places : \A j \in places : i <= j

\* The first place from i on of one of these characters, and of another one.
Until(i, chars) == First({j \in i..Len(source) : Char(j) \in chars})
Past(i, chars)  == First({j \in i..Len(source) : Char(j) \notin chars})

\* Mutant of Ended: INVALID does not end the list.
EndedByEOF == tokens # <<>> /\ tokens[Len(tokens)].type = "EOF"

Ended == tokens # <<>> /\ tokens[Len(tokens)].type \in {"EOF", "INVALID"}

Init == /\ source \in Texts
        /\ iter = 1
        /\ tokens = <<>>

Skip(to) == /\ ~Ended
            /\ iter' = to
            /\ UNCHANGED <<source, tokens>>

\* A token from here to there.
Emit(type, to) == /\ ~Ended
                  /\ tokens' = Append(tokens, [type |-> type, from |-> iter, to |-> to])
                  /\ iter' = to
                  /\ UNCHANGED source

-----------------------------------------------------------------------------
Blank == Char(iter) \in Blanks /\ Skip(iter + 1)

\* skip_comments(false) stops in front of the end of the line.
LineComment == Both(iter, "/", "/") /\ Skip(Until(iter, {"\n"}))

\* skip_comments(true).  The end may share its * with the beginning; without an end, the
\* last character of the text is read as code.
BlockComment ==
  /\ Both(iter, "/", "*")
  /\ LET closed == {j \in (iter + 1)..Len(source) : Both(j, "*", "/")}
     IN  Skip(IF closed = {} THEN Len(source) ELSE First(closed) + 2)

EndOfFile == iter = End /\ Emit("EOF", End)

\* The cases of one character, and of - ! < > = with the character behind them.
Symbol ==
  /\ Char(iter) \in Symbols /\ ~Both(iter, "/", "/") /\ ~Both(iter, "/", "*")
  /\ IF Ahead(iter) \in Pairs THEN Emit(Ahead(iter), iter + 2) ELSE Emit(Char(iter), iter + 1)

\* Mutant of Identifier: digits end it.
IdentifierOfLetters ==
  /\ Char(iter) \in Letters
  /\ LET to   == Past(iter, Letters)
         word == SubSeq(source, iter, to - 1)
     IN  word # "asm" /\ Emit(IF word \in keywords THEN word ELSE "id", to)

Identifier ==
  /\ Char(iter) \in Letters
  /\ LET to   == Past(iter, Letters \cup Digits)
         word == SubSeq(source, iter, to - 1)
     IN  word # "asm" /\ Emit(IF word \in keywords THEN word ELSE "id", to)

\* parse_asm, with the keyword: all that follows up to the first closing brace.
Asm ==
  /\ Char(iter) \in Letters
  /\ LET word  == Past(iter, Letters \cup Digits)
         open  == Past(word, Blanks)
         close == Until(open + 1, {"}"})
     IN  /\ SubSeq(source, iter, word - 1) = "asm"
         /\ IF Char(open) # "{" THEN Emit("INVALID", open)
            ELSE IF Char(close) # "}" THEN Emit("INVALID", close)
            ELSE Emit("asm", close + 1)

Number == Char(iter) \in Digits /\ Emit("num", Past(iter, Digits))

\* Mutant of String: the closing quote belongs to it.
StringClosed ==
  /\ Char(iter) = Quote
  /\ LET close == Until(IF iter = Len(source) THEN End ELSE iter + 2, {Quote})
     IN  IF Char(close) = Quote THEN Emit("str", close + 1) ELSE Emit("INVALID", close)

\* parse_string.  The cursor moves twice, so the first character of a string is never the
\* quote that ends it; that one is left to begin the next string.
String ==
  /\ Char(iter) = Quote
  /\ LET close == Until(IF iter = Len(source) THEN End ELSE iter + 2, {Quote})
     IN  IF Char(close) = Quote THEN Emit("str", close) ELSE Emit("INVALID", close)

\* A character of no kind ends the list.  It is not passed.
Invalid ==
  /\ iter # End
  /\ Char(iter) \notin Letters \cup Digits \cup Blanks \cup Symbols \cup {Quote}
  /\ Emit("INVALID", iter)

Next == \/ Blank \/ LineComment \/ BlockComment
        \/ EndOfFile \/ Symbol \/ Identifier \/ Asm \/ Number \/ String \/ Invalid

Spec == Init /\ [][Next]_lexVars

-----------------------------------------------------------------------------
(* The lexemes, said without a cursor.                                     *)

Text(i, to) == IF i < to THEN SubSeq(source, i, to - 1) ELSE ""
AllIn(i, to, chars) == \A j \in i..(to - 1) : Char(j) \in chars

IsAsm(i, to) ==
  /\ i + 4 < to /\ Text(i, i + 3) = "asm" /\ Char(to - 1) = "}"
  /\ \E open \in (i + 3)..(to - 2) :
       /\ Char(open) = "{" /\ AllIn(i + 3, open, Blanks)
       /\ \A j \in open..(to - 2) : Char(j) # "}"

\* A quote, any character, and all up to the next quote.
IsString(i, to) ==
  /\ i + 1 < to /\ Char(i) = Quote /\ Char(to) = Quote
  /\ \A j \in (i + 2)..(to - 1) : Char(j) # Quote

\* The type of the token that the characters from i up to `to` are.
LexemeType(i, to) ==
  IF IsAsm(i, to) THEN "asm"
  ELSE IF IsString(i, to) THEN "str"
  ELSE IF AllIn(i, to, Digits) THEN "num"
  ELSE IF Char(i) \in Letters /\ AllIn(i, to, Letters \cup Digits)
       THEN IF Text(i, to) \in keywords THEN Text(i, to) ELSE "id"
  ELSE IF Text(i, to) \in Symbols \cup Pairs THEN Text(i, to)
  ELSE "none"

IsComment(i, to) ==
  \/ /\ Both(i, "/", "/") /\ Char(to) \in {"\n", "end"}
     /\ \A j \in i..(to - 1) : Char(j) # "\n"
  \/ /\ Both(i, "/", "*") /\ i + 2 < to /\ Both(to - 2, "*", "/")
     /\ \A j \in (i + 1)..(to - 3) : ~Both(j, "*", "/")
  \/ /\ Both(i, "/", "*") /\ to = Len(source)
     /\ \A j \in (i + 1)..to : ~Both(j, "*", "/")

\* A blank or a comment.
IsSkipped(i, to) == \/ to = i + 1 /\ Char(i) \in Blanks
                    \/ i < to /\ IsComment(i, to)

\* Nothing but blanks and comments, each of which starts where the one before it ends.
IsGap(i, to) ==
  LET ends == {j \in i..to : \E h \in i..(j - 1) : IsSkipped(h, j)}
  IN  /\ i = to \/ to \in ends
      /\ \E between \in SUBSET (ends \ {to}) :
           \A j \in (between \cup {i}) \ {to} : \E k \in between \cup {to} : IsSkipped(j, k)

-----------------------------------------------------------------------------
(* Properties.                                                             *)

TypeOK == /\ iter \in 1..End
          /\ \A i \in 1..Len(tokens) : tokens[i].from \in 1..End /\ tokens[i].to \in 1..End

\* The newest token is the longest lexeme where it starts, and between it and the token
\* before there are only blanks and comments: so no character of the text is lost or read
\* twice.  (Checked whenever a token has been added.)
TokensTile ==
  tokens # <<>> =>
    LET n == Len(tokens)
        t == tokens[n]
    IN  /\ IsGap(IF n = 1 THEN 1 ELSE tokens[n - 1].to, t.from)
        /\ t.type = "EOF" => t.from = End
        /\ t.type \notin {"EOF", "INVALID"} =>
             /\ t.type = LexemeType(t.from, t.to)
             /\ \A longer \in (t.to + 1)..End : LexemeType(t.from, longer) = "none"

\* The quote that should end a string begins another one, so behind the first string a
\* text has only strings, the last of them unfinished.
StringsNeverEnd ==
  \A i \in 1..(Len(tokens) - 1) :
    tokens[i].type = "str" => tokens[i + 1].type \in {"str", "INVALID"}

\* The lexer ends: no step leaves the cursor where it was, unless it ends the list, whose
\* last token alone may be END_OF_FILE or INVALID.
EveryStepAdvances == [][(iter' > iter \/ Ended') /\ ~Ended]_lexVars
================================================================================
