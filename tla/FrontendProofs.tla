------------------------------ MODULE FrontendProofs ------------------------------
(***************************************************************************)
(* Theorems about the front end, for every text and every list of tokens:  *)
(* the lexer advances with each step, nothing ends a string, the tokens    *)
(* tile the text, the parser stays within the tokens and one END_OF_FILE,  *)
(* and the output file is opened only when there is a tree.                *)
(*                                                                         *)
(* The first two need what a kind of step does to the cursor (Step).  The  *)
(* third needs what the characters it passes are: a blank or a comment     *)
(* (OnlySkipped), or the longest lexeme (OnlyLexemes, a lemma for each     *)
(* kind of token).                                                         *)
(*                                                                         *)
(* The parser consumes a token unseen where consume() is called for itself *)
(* and not by match().  The invariant (Parsing) says that this call always *)
(* follows a match, whose token was in the input; every other procedure    *)
(* looks before it consumes.  A lemma for each kind of procedure shows     *)
(* that what it leaves to do has this shape (Shaped).                      *)
(***************************************************************************)
EXTENDS Frontend, WellFoundedInduction, TLAPS

Less == {p \in Nat \X Nat : p[1] < p[2]}

\* Of places there is a first one.
LEMMA FirstPlace ==
  ASSUME NEW places, places \subseteq Nat, places # {}
  PROVE  /\ First(places) \in places
         /\ \A j \in places : First(places) <= j
<1>1. IsWellFoundedOn(Less, Nat)
  BY NatLessThanWellFounded DEF OpToRel, Less
<1>2. PICK m \in places : \A n \in places : <<n, m>> \notin Less
  BY <1>1, WFMin
<1>3. \A n \in places : ~(n < m)
  BY <1>2 DEF Less
<1>4. \A n \in places : m <= n
  BY <1>3
<1> QED BY <1>4 DEF First

\* The text is empty when the parser is given its tokens.
AllTexts == Texts \cup {""}

\* The cursor is in the text or one behind it, and the text does not change.
Placed == source \in AllTexts /\ iter \in 1..End

LEMMA Length ==
  ASSUME Placed
  PROVE  /\ Len(source) \in Nat /\ End = Len(source) + 1 /\ End \in Nat
         /\ iter \in Nat /\ 1 <= iter /\ iter <= End
<1>1. Len(source) \in Nat
  BY CharactersAssumption, Zenon DEF Placed, AllTexts
<1> QED BY <1>1 DEF Placed, End

\* Only the places of the text have a character that is not the end.
LEMMA InTheText ==
  ASSUME NEW i \in Nat, Placed, Char(i) # "end"
  PROVE  1 <= i /\ i < End
<1>1. Len(source) \in Nat /\ End = Len(source) + 1
  BY Length
<1>2. i \in 1..Len(source)
  BY DEF Char
<1> QED BY <1>1, <1>2

LEMMA UntilIsBehind ==
  ASSUME Placed, NEW i \in Nat, i <= End, NEW chars
  PROVE  /\ Until(i, chars) \in i..End
         /\ Until(i, chars) # End => Char(Until(i, chars)) \in chars
<1> DEFINE places == {j \in i..Len(source) : Char(j) \in chars}
<1>1. Len(source) \in Nat /\ End = Len(source) + 1
  BY Length
<1>2. CASE places = {}
  BY <1>1, <1>2 DEF Until, First
<1>3. CASE places # {}
  <2>1. places \subseteq Nat
    BY <1>1
  <2>2. First(places) \in places
    BY <1>3, <2>1, FirstPlace
  <2> QED BY <1>1, <2>2 DEF Until
<1> QED BY <1>2, <1>3

LEMMA PastIsBehind ==
  ASSUME Placed, NEW i \in Nat, i <= End, NEW chars
  PROVE  /\ Past(i, chars) \in i..End
         /\ Char(i) \in chars /\ i # End => Past(i, chars) > i
<1> DEFINE places == {j \in i..Len(source) : Char(j) \notin chars}
<1>1. Len(source) \in Nat /\ End = Len(source) + 1
  BY Length
<1>2. CASE places = {}
  BY <1>1, <1>2 DEF Past, First
<1>3. CASE places # {}
  <2>1. places \subseteq Nat
    BY <1>1
  <2>2. First(places) \in places
    BY <1>3, <2>1, FirstPlace
  <2>3. Past(i, chars) = First(places)
    BY DEF Past
  <2> QED BY <1>1, <2>2, <2>3
<1> QED BY <1>2, <1>3

\* The kinds of characters are kept apart, and "end" is none of them.
LEMMA Kinds ==
  /\ "end" \notin Letters \cup Digits \cup Blanks \cup Symbols \cup {Quote, "/", "*"}
  /\ Quote \notin Letters \cup Digits \cup Blanks \cup Symbols
  /\ Quote # "/" /\ Quote # "end"
  /\ "str" \notin Symbols \cup Pairs \cup keywords
BY CharactersAssumption, Zenon DEF Symbols, Pairs, keywords, Quote

-----------------------------------------------------------------------------
(* What each kind of step does.                                            *)

Types == Symbols \cup Pairs \cup keywords \cup {"id", "num", "str", "asm", "EOF", "INVALID"}
Token == [type : Types, from : Nat, to : Nat]

\* A step skips to a place further on; only an opening quote is not skipped.
Skipped == /\ iter' > iter /\ tokens' = tokens
           /\ Char(iter) # Quote

\* Or it adds a token, which ends further on or ends the list; an opening quote begins a
\* string, and a string ends in front of a quote.
Added ==
  \E type \in Types :
    /\ tokens' = Append(tokens, [type |-> type, from |-> iter, to |-> iter'])
    /\ iter' > iter \/ type \in {"EOF", "INVALID"}
    /\ type = "str" => Char(iter') = Quote
    /\ Char(iter) = Quote => type \in {"str", "INVALID"}

Step == ~Ended /\ source' = source /\ iter' \in 1..End /\ (Skipped \/ Added)

LEMMA SkipStep ==
  ASSUME NEW to \in 1..End, to > iter, Char(iter) # Quote, Skip(to)
  PROVE  Step
BY DEF Skip, Step, Skipped

LEMMA EmitStep ==
  ASSUME NEW to \in 1..End, NEW type \in Types, Emit(type, to),
         to > iter \/ type \in {"EOF", "INVALID"},
         type = "str" => Char(to) = Quote,
         Char(iter) = Quote => type \in {"str", "INVALID"}
  PROVE  Step
<1>1. ~Ended /\ source' = source /\ iter' = to
  BY DEF Emit
<1>2. tokens' = Append(tokens, [type |-> type, from |-> iter, to |-> iter'])
  BY <1>1 DEF Emit
<1>3. type = "str" => Char(iter') = Quote
  BY <1>1
<1> QED BY <1>1, <1>2, <1>3 DEF Step, Added

LEMMA SkippingSteps ==
  ASSUME Placed, Blank \/ LineComment \/ BlockComment
  PROVE  Step
<1>1. End \in Nat /\ iter \in Nat /\ 1 <= iter /\ iter <= End
  BY Length
<1>2. CASE Blank
  <2>1. iter < End /\ Char(iter) # Quote /\ Skip(iter + 1)
    BY <1>1, <1>2, Kinds, InTheText DEF Blank
  <2> QED BY <1>1, <2>1, SkipStep
<1>3. CASE LineComment
  <2>1. Char(iter) = "/" /\ Skip(Until(iter, {"\n"}))
    BY <1>3 DEF LineComment, Both
  <2>2. iter < End
    BY <1>1, <2>1, InTheText
  <2>3. Until(iter, {"\n"}) \in iter..End
    BY <1>1, <2>2, UntilIsBehind
  <2>4. Until(iter, {"\n"}) # iter
    BY <1>1, <2>1, <2>2, UntilIsBehind
  <2>5. Until(iter, {"\n"}) \in 1..End /\ Until(iter, {"\n"}) > iter
    BY <1>1, <2>3, <2>4
  <2>6. Char(iter) # Quote
    BY <2>1, Kinds
  <2> QED BY <2>1, <2>5, <2>6, SkipStep
<1>4. CASE BlockComment
  <2> DEFINE closed == {j \in (iter + 1)..Len(source) : Both(j, "*", "/")}
             to == IF closed = {} THEN Len(source) ELSE First(closed) + 2
  <2>1. Char(iter) = "/" /\ Char(iter + 1) = "*" /\ Skip(to)
    BY <1>4 DEF BlockComment, Both
  <2>2. iter + 1 < End
    BY <1>1, <2>1, InTheText
  <2>3. to \in 1..End /\ to > iter
    <3>1. CASE closed = {}
      BY <1>1, <2>2, <3>1, Length
    <3>2. CASE closed # {}
      <4>1. closed \subseteq Nat
        BY <1>1
      <4>2. First(closed) \in closed
        BY <3>2, <4>1, FirstPlace
      <4>3. First(closed) + 1 < End
        <5>1. Char(First(closed) + 1) = "/"
          BY <4>2 DEF Both
        <5>2. First(closed) + 1 \in Nat
          BY <4>1, <4>2
        <5> QED BY <5>1, <5>2, InTheText
      <4>4. First(closed) > iter
        BY <1>1, <4>2
      <4>5. to = First(closed) + 2
        BY <3>2
      <4> QED BY <1>1, <4>1, <4>2, <4>3, <4>4, <4>5
    <3> QED BY <3>1, <3>2
  <2> HIDE DEF to
  <2>4. Char(iter) # Quote
    BY <2>1, Kinds
  <2> QED BY <2>1, <2>3, <2>4, SkipStep
<1> QED BY <1>2, <1>3, <1>4

LEMMA WordSteps ==
  ASSUME Placed, Identifier \/ Asm \/ Number
  PROVE  Step
<1>1. End \in Nat /\ iter \in Nat /\ 1 <= iter /\ iter <= End
  BY Length
<1>2. iter < End /\ Char(iter) # Quote
  BY <1>1, Kinds, InTheText DEF Identifier, Asm, Number
<1> DEFINE word == Past(iter, Letters \cup Digits)
<1>3. Char(iter) \in Letters => word \in iter..End /\ word > iter
  BY <1>1, <1>2, PastIsBehind
<1> HIDE DEF word
<1>4. CASE Identifier
  <2>1. PICK type \in keywords \cup {"id"} : Emit(type, word)
    BY <1>4 DEF Identifier, word
  <2>2. type \in Types /\ type # "str"
    BY Kinds DEF Types
  <2>3. word \in 1..End /\ word > iter
    BY <1>1, <1>2, <1>3, <1>4 DEF Identifier
  <2> QED BY <1>2, <2>1, <2>2, <2>3, EmitStep
<1>5. CASE Asm
  <2> DEFINE open  == Past(word, Blanks)
             close == Until(open + 1, {"}"})
  <2>1. word \in iter..End /\ word > iter
    BY <1>3, <1>5 DEF Asm
  <2>2. open \in word..End
    BY <1>1, <1>2, <2>1, PastIsBehind
  <2>3. \/ Emit("INVALID", open)
        \/ Char(open) = "{" /\ Char(close) = "}" /\ Emit("asm", close + 1)
        \/ Char(open) = "{" /\ Emit("INVALID", close)
    BY <1>5 DEF Asm, word
  <2> HIDE DEF open
  <2>4. CASE Emit("INVALID", open)
    <3>1. "INVALID" \in Types /\ open \in 1..End
      BY <1>1, <1>2, <2>1, <2>2 DEF Types
    <3> QED BY <1>2, <2>4, <3>1, EmitStep
  <2>5. CASE Char(open) = "{"
    <3>1. open < End
      <4>1. open \in Nat
        BY <1>1, <2>1, <2>2
      <4> QED BY <2>5, <4>1, InTheText
    <3>2. close \in (open + 1)..End
      <4>1. open + 1 \in Nat /\ open + 1 <= End
        BY <1>1, <2>1, <2>2, <3>1
      <4> QED BY <4>1, UntilIsBehind
    <3> HIDE DEF close
    <3>3. close \in 1..End /\ close > iter
      BY <1>1, <1>2, <2>1, <2>2, <3>1, <3>2
    <3>4. CASE Emit("INVALID", close)
      BY <1>2, <3>3, <3>4, EmitStep DEF Types
    <3>5. CASE Char(close) = "}" /\ Emit("asm", close + 1)
      <4>1. close < End
        <5>1. close \in Nat
          BY <1>1, <3>3
        <5> QED BY <3>5, <5>1, InTheText
      <4>2. close + 1 \in 1..End /\ close + 1 > iter
        BY <1>1, <3>3, <4>1
      <4> QED BY <1>2, <3>5, <4>2, EmitStep DEF Types
    <3> QED BY <2>3, <2>4, <3>4, <3>5
  <2> QED BY <2>3, <2>4, <2>5
<1>6. CASE Number
  <2>1. Past(iter, Digits) \in iter..End /\ Past(iter, Digits) > iter
    BY <1>1, <1>2, <1>6, PastIsBehind DEF Number
  <2>2. Past(iter, Digits) \in 1..End
    BY <1>1, <1>2, <2>1
  <2>3. Emit("num", Past(iter, Digits))
    BY <1>6 DEF Number
  <2> QED BY <1>2, <2>1, <2>2, <2>3, EmitStep DEF Types
<1> QED BY <1>4, <1>5, <1>6

LEMMA OtherSteps ==
  ASSUME Placed, EndOfFile \/ Symbol \/ String \/ Invalid
  PROVE  Step
<1>1. End \in Nat /\ iter \in Nat /\ 1 <= iter /\ iter <= End
  BY Length
<1>2. CASE EndOfFile
  <2>1. Char(iter) = "end"
    BY <1>2, Length DEF EndOfFile, Char
  <2>2. "EOF" \in Types /\ End \in 1..End /\ Emit("EOF", End)
    BY <1>1, <1>2 DEF EndOfFile, Types
  <2> QED BY <2>1, <2>2, Kinds, EmitStep
<1>3. CASE Symbol
  <2>1. iter < End /\ Char(iter) # Quote /\ Char(iter) \in Symbols
    BY <1>1, <1>3, Kinds, InTheText DEF Symbol
  <2>2. CASE Ahead(iter) \in Pairs
    <3>1. Ahead(iter) # Char(iter)
      BY <2>1, <2>2 DEF Pairs, Symbols
    <3>2. iter + 2 \in 1..End /\ iter + 2 > iter
      <4>1. iter + 1 \in 1..Len(source)
        BY <3>1 DEF Ahead
      <4> QED BY <1>1, <4>1, Length
    <3>3. Emit(Ahead(iter), iter + 2)
      BY <1>3, <2>2 DEF Symbol
    <3>4. Ahead(iter) \in Types /\ Ahead(iter) # "str"
      BY <2>2, Kinds DEF Types
    <3> QED BY <2>1, <3>2, <3>3, <3>4, EmitStep
  <2>3. CASE Ahead(iter) \notin Pairs
    <3>1. Emit(Char(iter), iter + 1)
      BY <1>3, <2>3 DEF Symbol
    <3>2. Char(iter) \in Types /\ Char(iter) # "str"
      BY <2>1, Kinds DEF Types
    <3>3. iter + 1 \in 1..End /\ iter + 1 > iter
      BY <1>1, <2>1
    <3> QED BY <2>1, <3>1, <3>2, <3>3, EmitStep
  <2> QED BY <2>2, <2>3
<1>4. CASE String
  <2> DEFINE from  == IF iter = Len(source) THEN End ELSE iter + 2
             close == Until(from, {Quote})
  <2>1. Char(iter) = Quote
    BY <1>4 DEF String
  <2>2. iter < End
    <3>1. Char(iter) # "end"
      BY <2>1, Kinds
    <3> QED BY <1>1, <3>1, InTheText
  <2>3. from \in Nat /\ from <= End /\ from > iter
    BY <1>1, <2>2, Length
  <2>4. \/ Char(close) = Quote /\ Emit("str", close)
        \/ Emit("INVALID", close)
    BY <1>4 DEF String
  <2> HIDE DEF from
  <2>5. close \in from..End
    BY <2>3, UntilIsBehind
  <2> HIDE DEF close
  <2>6. close \in 1..End /\ close > iter
    BY <1>1, <2>3, <2>5
  <2>7. {"str", "INVALID"} \subseteq Types
    BY DEF Types
  <2> QED BY <2>4, <2>6, <2>7, EmitStep
<1>5. CASE Invalid
  <2>1. Char(iter) # Quote /\ "INVALID" \in Types /\ iter \in 1..End /\ Emit("INVALID", iter)
    BY <1>1, <1>5 DEF Invalid, Types
  <2> QED BY <2>1, EmitStep
<1> QED BY <1>2, <1>3, <1>4, <1>5

LEMMA EveryStep == Placed /\ Next => Step
BY SkippingSteps, WordSteps, OtherSteps DEF Next

-----------------------------------------------------------------------------
(* The invariant of the lexer, and its theorems.                           *)

\* Behind a string there is a quote, and the token behind it shows it.
Quoted ==
  /\ tokens # <<>> /\ tokens[Len(tokens)].type = "str" => Char(iter) = Quote
  /\ StringsNeverEnd

Inv == Placed /\ tokens \in Seq(Token) /\ Quoted

\* The beginning of the lexer, and of a front end that does without.
Starting == source \in AllTexts /\ iter = 1 /\ tokens = <<>>

LEMMA InvInit == Starting => Inv
<1> SUFFICES ASSUME Starting PROVE Inv
  OBVIOUS
<1>1. Len(source) \in Nat
  BY CharactersAssumption, Zenon DEF Starting, AllTexts
<1>2. Placed
  BY <1>1 DEF Starting, Placed, End
<1>3. tokens = <<>>
  BY DEF Starting
<1>4. tokens \in Seq(Token) /\ Len(tokens) = 0
  BY <1>3
<1> QED BY <1>2, <1>3, <1>4 DEF Inv, Quoted, StringsNeverEnd

LEMMA InvStep == Inv /\ [Next]_lexVars => Inv'
<1> SUFFICES ASSUME Inv, [Next]_lexVars PROVE Inv'
  OBVIOUS
<1>1. CASE UNCHANGED lexVars
  BY <1>1 DEF lexVars, Inv, Placed, End, Quoted, StringsNeverEnd, Char
<1>2. CASE Next
  <2>1. Step
    BY <1>2, EveryStep DEF Inv
  <2>2. Placed'
    BY <2>1 DEF Step, Inv, Placed, End
  <2>3. \A i : Char(i)' = Char(i)
    BY <2>1 DEF Step, Char
  <2>4. iter' \in Nat /\ iter \in Nat
    BY <2>1, Length DEF Step, Inv, Placed
  <2>5. CASE Skipped
    <3>1. tokens' = tokens /\ Char(iter) # Quote
      BY <2>5 DEF Skipped
    <3>2. ~(tokens # <<>> /\ tokens[Len(tokens)].type = "str")
      BY <3>1 DEF Inv, Quoted
    <3> QED BY <2>2, <3>1, <3>2 DEF Inv, Quoted, StringsNeverEnd
  <2>6. CASE Added
    <3>1. PICK type \in Types :
            /\ tokens' = Append(tokens, [type |-> type, from |-> iter, to |-> iter'])
            /\ type = "str" => Char(iter') = Quote
            /\ Char(iter) = Quote => type \in {"str", "INVALID"}
      BY <2>6 DEF Added
    <3> DEFINE t == [type |-> type, from |-> iter, to |-> iter']
    <3>2. t \in Token /\ t.type = type
      BY <2>4 DEF Token
    <3>3. tokens \in Seq(Token) /\ Len(tokens) \in Nat
      BY DEF Inv
    <3> HIDE DEF t
    <3>4. tokens' = Append(tokens, t)
      BY <3>1 DEF t
    <3>5. /\ tokens' \in Seq(Token) /\ tokens' # <<>> /\ Len(tokens') = Len(tokens) + 1
          /\ tokens'[Len(tokens) + 1] = t
          /\ \A i \in 1..Len(tokens) : tokens'[i] = tokens[i]
      BY <3>2, <3>3, <3>4
    <3>6. tokens'[Len(tokens')].type = "str" => Char(iter') = Quote
      BY <3>1, <3>2, <3>5
    <3>7. ASSUME NEW i \in 1..(Len(tokens') - 1), tokens'[i].type = "str"
          PROVE  tokens'[i + 1].type \in {"str", "INVALID"}
      <4>1. i \in 1..Len(tokens) /\ tokens[i].type = "str"
        BY <3>3, <3>5, <3>7
      <4>2. CASE i = Len(tokens)
        <5>1. Char(iter) = Quote
          BY <3>3, <4>1, <4>2 DEF Inv, Quoted
        <5> QED BY <3>1, <3>2, <3>5, <4>2, <5>1
      <4>3. CASE i # Len(tokens)
        <5>1. i \in 1..(Len(tokens) - 1) /\ i + 1 \in 1..Len(tokens)
          BY <3>3, <4>1, <4>3
        <5>2. tokens[i + 1].type \in {"str", "INVALID"}
          BY <4>1, <5>1 DEF Inv, Quoted, StringsNeverEnd
        <5> QED BY <3>5, <5>1, <5>2
      <4> QED BY <4>2, <4>3
    <3> QED BY <2>2, <2>3, <3>5, <3>6, <3>7 DEF Inv, Quoted, StringsNeverEnd
  <2> QED BY <2>1, <2>5, <2>6 DEF Step
<1> QED BY <1>1, <1>2

\* The steps of the front end are the lexer's, or leave it alone.
LEMMA LexerOfFrontend == /\ FrontInit => Starting
                         /\ [FrontNext]_allVars => [Next]_lexVars
<1>1. FrontInit => Starting
  BY Zenon DEF FrontInit, Init, Starting, AllTexts
<1>2. [FrontNext]_allVars => [Next]_lexVars
  BY Zenon DEF FrontNext, Help, CannotOpen, Lex, ByToken, Parse, Refuse, NoOutput, Compile, Return, allVars
<1> QED BY <1>1, <1>2

\* Whatever the text, nothing ends a string: the closing quote, which parse_string leaves
\* where it is, begins the next one.
THEOREM NothingEndsAString == FrontSpec => []StringsNeverEnd
<1>1. Inv => StringsNeverEnd
  BY DEF Inv, Quoted
<1> QED BY <1>1, LexerOfFrontend, InvInit, InvStep, PTL DEF FrontSpec

\* Whatever the text, every turn of parse_token's loop moves _iter on or ends the list.
THEOREM TheLexerAdvances == FrontSpec => EveryStepAdvances
<1>1. Inv /\ [Next]_lexVars => [(iter' > iter \/ Ended') /\ ~Ended]_lexVars
  <2> SUFFICES ASSUME Inv, Next PROVE (iter' > iter \/ Ended') /\ ~Ended
    OBVIOUS
  <2>1. Step
    BY EveryStep DEF Inv
  <2>2. CASE Skipped
    BY <2>1, <2>2 DEF Step, Skipped
  <2>3. CASE Added
    <3>1. PICK type \in Types :
            /\ tokens' = Append(tokens, [type |-> type, from |-> iter, to |-> iter'])
            /\ iter' > iter \/ type \in {"EOF", "INVALID"}
      BY <2>3 DEF Added
    <3>2. tokens \in Seq(Token) /\ Len(tokens) \in Nat
      BY DEF Inv
    <3>3. iter \in Nat /\ iter' \in Nat
      BY <2>1, Length DEF Inv, Step, Placed
    <3> DEFINE t == [type |-> type, from |-> iter, to |-> iter']
    <3>4. t \in Token /\ t.type = type
      BY <3>3 DEF Token
    <3> HIDE DEF t
    <3>5. tokens' = Append(tokens, t)
      BY <3>1 DEF t
    <3>6. tokens' # <<>> /\ tokens'[Len(tokens')] = t
      BY <3>2, <3>4, <3>5
    <3> QED BY <2>1, <3>1, <3>4, <3>6 DEF Step, Ended
  <2> QED BY <2>1, <2>2, <2>3 DEF Step
<1> QED BY <1>1, LexerOfFrontend, InvInit, InvStep, PTL DEF FrontSpec, EveryStepAdvances

-----------------------------------------------------------------------------
(* The lexemes.                                                            *)

\* The first place of these characters, and what is before it.
LEMMA UntilIs ==
  ASSUME Placed, NEW i \in Nat, i <= End, NEW chars
  PROVE  \A j \in i..(Until(i, chars) - 1) : j \in 1..Len(source) => Char(j) \notin chars
<1> DEFINE places == {j \in i..Len(source) : Char(j) \in chars}
<1>1. Len(source) \in Nat /\ End = Len(source) + 1
  BY Length
<1>2. CASE places = {}
  BY <1>1, <1>2 DEF Until, First
<1>3. CASE places # {}
  <2>1. places \subseteq Nat
    BY <1>1
  <2>2. First(places) \in places /\ \A j \in places : First(places) <= j
    BY <1>3, <2>1, FirstPlace
  <2>3. Until(i, chars) = First(places)
    BY DEF Until
  <2> HIDE DEF places
  <2> SUFFICES ASSUME NEW j \in i..(First(places) - 1), j \in 1..Len(source)
               PROVE  j \notin places
    BY <1>1, <2>3 DEF places
  <2>4. First(places) \in Nat
    BY <2>1, <2>2
  <2>5. ~(First(places) <= j)
    BY <2>4
  <2> QED BY <2>2, <2>5
<1> QED BY <1>2, <1>3

\* The places up to the first one with another character have only these, and that one
\* has none of them.
LEMMA PastIs ==
  ASSUME Placed, NEW i \in Nat, i > 0, i <= End, NEW chars, "end" \notin chars
  PROVE  /\ AllIn(i, Past(i, chars), chars)
         /\ Char(Past(i, chars)) \notin chars
<1> DEFINE places == {j \in i..Len(source) : Char(j) \notin chars}
<1>1. Len(source) \in Nat /\ End = Len(source) + 1 /\ Past(i, chars) = First(places)
  BY Length DEF Past
<1>2. Char(End) = "end"
  BY <1>1 DEF Char
<1>3. CASE places = {}
  <2>1. First(places) = End
    BY <1>3 DEF First
  <2>2. \A j \in i..(End - 1) : Char(j) \in chars
    BY <1>1, <1>3
  <2> QED BY <1>1, <1>2, <2>1, <2>2 DEF AllIn
<1>4. CASE places # {}
  <2>1. places \subseteq Nat
    BY <1>1
  <2>2. First(places) \in places /\ \A j \in places : First(places) <= j
    BY <1>4, <2>1, FirstPlace
  <2>3. Char(First(places)) \notin chars /\ First(places) \in i..Len(source)
    BY <2>2
  <2> HIDE DEF places
  <2>4. ASSUME NEW j \in i..(First(places) - 1) PROVE j \notin places
    <3>1. First(places) \in Nat /\ j < First(places) /\ j \in Nat
      BY <1>1, <2>3
    <3> QED BY <2>2, <3>1
  <2>5. \A j \in i..(First(places) - 1) : Char(j) \in chars
    BY <1>1, <2>3, <2>4 DEF places
  <2> QED BY <1>1, <2>3, <2>5 DEF AllIn
<1> QED BY <1>3, <1>4

LEMMA TextIs ==
  ASSUME Placed, NEW i \in Nat, i > 0, NEW to \in Nat, i < to, to <= End
  PROVE  /\ Len(Text(i, to)) = to - i
         /\ to <= i + 3 => \A k \in i..(to - 1) : SubSeq(Text(i, to), 1 + k - i, 1 + k - i) = Char(k)
<1>1. Len(source) \in Nat /\ End = Len(source) + 1
  BY Length
<1>2. i \in 1..Len(source) /\ to - 1 \in 1..Len(source) /\ i <= to - 1
  BY <1>1
<1>3. Text(i, to) = SubSeq(source, i, to - 1)
  BY DEF Text
<1>4. /\ Len(SubSeq(source, i, to - 1)) = 1 + (to - 1) - i
      /\ to - 1 <= i + 2 =>
           \A k \in i..(to - 1) : SubSeq(SubSeq(source, i, to - 1), 1 + k - i, 1 + k - i)
                                  = SubSeq(source, k, k)
  <2>1. \A i1, j1 \in 1..Len(source) :
          i1 <= j1 =>
            /\ Len(SubSeq(source, i1, j1)) = 1 + j1 - i1
            /\ j1 <= i1 + 2 =>
                 \A k \in i1..j1 : SubSeq(SubSeq(source, i1, j1), 1 + k - i1, 1 + k - i1)
                                    = SubSeq(source, k, k)
    BY StringsAssumption, Zenon DEF Placed, AllTexts
  <2> QED BY <1>2, <2>1
<1>5. \A k \in i..(to - 1) : Char(k) = SubSeq(source, k, k)
  BY <1>2 DEF Char
<1>6. 1 + (to - 1) - i = to - i /\ (to <= i + 3 => to - 1 <= i + 2)
  OBVIOUS
<1> QED BY <1>3, <1>4, <1>5, <1>6

\* What begins with asm begins with letters.
LEMMA AsmIsLetters ==
  ASSUME Placed, NEW i \in Nat, i > 0, i + 3 <= End, Text(i, i + 3) = "asm"
  PROVE  \A j \in i..(i + 2) : Char(j) \in Letters
<1> SUFFICES ASSUME NEW j \in i..(i + 2) PROVE Char(j) \in Letters
  OBVIOUS
<1>1. i + 3 \in Nat /\ i < i + 3 /\ i + 3 <= i + 3 /\ j \in i..((i + 3) - 1)
  OBVIOUS
<1>2. SubSeq(Text(i, i + 3), 1 + j - i, 1 + j - i) = Char(j)
  BY <1>1, TextIs
<1>3. 1 + j - i \in 1..3
  OBVIOUS
<1> QED BY <1>2, <1>3, StringsAssumption

\* A lexeme of Symbols or Pairs begins with a symbol, and is short.
LEMMA SymbolsAre ==
  ASSUME Placed, NEW i \in Nat, i > 0, NEW to \in Nat, i < to, to <= End,
         Text(i, to) \in Symbols \cup Pairs
  PROVE  /\ Char(i) \in Symbols
         /\ Text(i, to) \in Symbols => to = i + 1
         /\ Text(i, to) \in Pairs => to = i + 2
<1>1. Len(Text(i, to)) = to - i
  BY TextIs
<1> DEFINE t == Text(i, to)
<1>4. (t \in Symbols => Len(t) = 1) /\ (t \in Pairs => Len(t) = 2)
  BY StringsAssumption
<1> HIDE DEF t
<1>2. CASE Text(i, to) \in Symbols
  <2>1. to = i + 1
    BY <1>1, <1>2, <1>4 DEF t
  <2>2. Text(i, to) = SubSeq(source, i, i)
    BY <2>1 DEF Text
  <2>3. Char(i) = SubSeq(source, i, i)
    BY <2>1, Length DEF Char
  <2>4. Text(i, to) \notin Pairs
    BY <1>1, <1>4, <2>1 DEF t
  <2> QED BY <1>2, <2>1, <2>2, <2>3, <2>4
<1>3. CASE Text(i, to) \in Pairs
  <2>1. to = i + 2
    BY <1>1, <1>3, <1>4 DEF t
  <2>2. i \in i..(to - 1) /\ to <= i + 3 /\ 1 + i - i = 1
    BY <2>1
  <2>3. SubSeq(Text(i, to), 1 + i - i, 1 + i - i) = Char(i)
    BY <2>2, TextIs
  <2>4. SubSeq(Text(i, to), 1, 1) \in Symbols
    BY <1>3, StringsAssumption
  <2>5. Text(i, to) \notin Symbols
    BY <1>1, <1>4, <2>1 DEF t
  <2> QED BY <1>3, <2>1, <2>2, <2>3, <2>4, <2>5
<1> QED BY <1>2, <1>3

\* The token of this type is the longest lexeme.
Longest(i, to, type) == /\ LexemeType(i, to) = type
                        /\ \A longer \in (to + 1)..End : LexemeType(i, longer) = "none"

\* What is none of the kinds of tokens.
LEMMA NoLexeme ==
  \A i, to : /\ ~IsAsm(i, to) /\ ~IsString(i, to) /\ ~AllIn(i, to, Digits)
             /\ Char(i) \in Letters => ~AllIn(i, to, Letters \cup Digits)
             /\ Text(i, to) \notin Symbols \cup Pairs
             => LexemeType(i, to) = "none"
BY DEF LexemeType

\* A symbol is none of the other characters.
LEMMA Apart ==
  /\ \A c \in Symbols : c \notin Letters /\ c \notin Digits /\ c \notin Blanks /\ c # Quote /\ c # "end"
  /\ \A c \in Letters : c \notin Digits /\ c \notin Blanks /\ c # Quote /\ c # "end"
  /\ \A c \in Digits : c \notin Blanks /\ c # Quote /\ c # "end"
  /\ "{" \in Symbols /\ "}" \in Symbols /\ "{" # "}"
BY Kinds, CharactersAssumption DEF Symbols

\* The texts of one and of two characters.
LEMMA ShortTexts ==
  ASSUME NEW i \in Nat
  PROVE  Text(i, i + 1) = SubSeq(source, i, i) /\ Text(i, i + 2) = SubSeq(source, i, i + 1)
<1>1. (i + 1) - 1 = i /\ (i + 2) - 1 = i + 1 /\ i < i + 1 /\ i < i + 2
  OBVIOUS
<1> QED BY <1>1, Zenon DEF Text

\* asm{...} begins with a letter.
LEMMA AsmBegins ==
  ASSUME Placed, NEW i \in Nat, i > 0, NEW to \in Nat, to <= End, IsAsm(i, to)
  PROVE  Char(i) \in Letters
<1>1. i + 4 < to /\ Text(i, i + 3) = "asm"
  BY DEF IsAsm
<1>2. End \in Nat
  BY Length
<1>3. i + 3 <= End /\ i \in i..(i + 2)
  BY <1>1, <1>2
<1> QED BY <1>1, <1>3, AsmIsLetters

\* A symbol with the character behind it, when the two are one, and alone when they are not.
LEMMA SymbolIsLongest ==
  ASSUME Placed, Symbol
  PROVE  \E type : Emit(type, iter') /\ Longest(iter, iter', type)
<1>1. End \in Nat /\ iter \in Nat /\ iter > 0 /\ iter <= End
      /\ Len(source) \in Nat /\ End = Len(source) + 1
  BY Length
<1>2. /\ Text(iter, iter + 1) = SubSeq(source, iter, iter)
      /\ Text(iter, iter + 2) = SubSeq(source, iter, iter + 1)
  BY <1>1, ShortTexts, Zenon
<1>3. Char(iter) \in Symbols /\ iter < End
  BY <1>1, Kinds, InTheText DEF Symbol
<1>4. ASSUME NEW to \in (iter + 1)..End
      PROVE  /\ ~IsAsm(iter, to) /\ ~IsString(iter, to) /\ ~AllIn(iter, to, Digits)
             /\ Char(iter) \notin Letters
  <2>1. Char(iter) \notin Letters /\ Char(iter) \notin Digits /\ Char(iter) # Quote
    BY <1>3, Apart
  <2>2. to \in Nat /\ to <= End /\ iter \in iter..(to - 1)
    BY <1>1
  <2>3. ~IsAsm(iter, to)
    BY <1>1, <2>1, <2>2, AsmBegins
  <2> QED BY <2>1, <2>2, <2>3 DEF IsString, AllIn
<1>5. \A to \in (iter + 1)..End :
        LexemeType(iter, to) = IF Text(iter, to) \in Symbols \cup Pairs THEN Text(iter, to) ELSE "none"
  BY <1>4 DEF LexemeType
<1>6. \A to \in (iter + 3)..End : LexemeType(iter, to) = "none"
  <2> SUFFICES ASSUME NEW to \in (iter + 3)..End PROVE Text(iter, to) \notin Symbols \cup Pairs
    BY <1>1, <1>5
  <2>1. to \in Nat /\ iter < to /\ to <= End /\ to # iter + 1 /\ to # iter + 2
    BY <1>1
  <2> QED BY <1>1, <2>1, SymbolsAre
<1>7. CASE Ahead(iter) \in Pairs
  <2>1. Ahead(iter) # Char(iter)
    BY <1>3, <1>7 DEF Pairs, Symbols
  <2>2. iter + 1 \in 1..Len(source) /\ Ahead(iter) = SubSeq(source, iter, iter + 1)
    BY <2>1 DEF Ahead
  <2>3. iter + 2 \in (iter + 1)..End /\ Text(iter, iter + 2) = Ahead(iter)
    BY <1>1, <2>2, <1>2
  <2>4. LexemeType(iter, iter + 2) = Ahead(iter)
    BY <1>5, <1>7, <2>3
  <2>5. Emit(Ahead(iter), iter + 2) /\ iter' = iter + 2
    BY <1>7 DEF Symbol, Emit
  <2>6. (iter + 2) + 1 = iter + 3
    BY <1>1
  <2> QED BY <1>6, <2>4, <2>5, <2>6 DEF Longest
<1>8. CASE Ahead(iter) \notin Pairs
  <2>1. Text(iter, iter + 1) = Char(iter) /\ iter + 1 \in (iter + 1)..End
    <3>1. iter \in 1..Len(source) /\ iter + 1 \in (iter + 1)..End
      BY <1>1, <1>3
    <3> QED BY <1>2, <3>1, Zenon DEF Char
  <2>2. LexemeType(iter, iter + 1) = Char(iter)
    BY <1>3, <1>5, <2>1
  <2>3. Emit(Char(iter), iter + 1) /\ iter' = iter + 1
    BY <1>8 DEF Symbol, Emit
  <2>4. ASSUME NEW to \in (iter + 2)..End PROVE LexemeType(iter, to) = "none"
    <3>1. CASE to = iter + 2
      <4>1. iter + 1 \in 1..Len(source) /\ Text(iter, to) = Ahead(iter)
        <5>1. iter + 1 \in 1..Len(source)
          BY <1>1, <3>1
        <5> QED BY <1>2, <3>1, <5>1, Zenon DEF Ahead
      <4>2. Text(iter, to) \notin Pairs
        BY <1>8, <4>1
      <4>3. to \in Nat /\ iter < to /\ to <= End /\ to # iter + 1
        BY <1>1, <3>1
      <4>4. Text(iter, to) \notin Symbols
        BY <1>1, <4>3, SymbolsAre
      <4> QED BY <1>1, <1>5, <4>2, <4>3, <4>4
    <3>2. CASE to # iter + 2
      BY <1>1, <1>6, <3>2
    <3> QED BY <3>1, <3>2
  <2>5. (iter + 1) + 1 = iter + 2
    BY <1>1
  <2> QED BY <2>2, <2>3, <2>4, <2>5 DEF Longest
<1> QED BY <1>7, <1>8

\* A word is all there is of it, and "asm" is no word but what follows it decides.
LEMMA IdentifierIsLongest ==
  ASSUME Placed, Identifier
  PROVE  \E type : Emit(type, iter') /\ Longest(iter, iter', type)
<1> DEFINE chars == Letters \cup Digits
           end == Past(iter, chars)
           word == Text(iter, end)
<1>1. End \in Nat /\ iter \in Nat /\ iter > 0 /\ iter <= End
      /\ Len(source) \in Nat /\ End = Len(source) + 1
  BY Length
<1>2. Char(iter) \in Letters /\ iter < End
  BY <1>1, Kinds, InTheText DEF Identifier
<1>3. "end" \notin chars
  BY Kinds
<1>4. end \in iter..End /\ end > iter
  BY <1>1, <1>2, PastIsBehind
<1>5. AllIn(iter, end, chars) /\ Char(end) \notin chars
  BY <1>1, <1>3, PastIs
<1>6. /\ word # "asm"
      /\ Emit(IF word \in keywords THEN word ELSE "id", end) /\ iter' = end
  BY <1>4 DEF Identifier, Text, Emit
<1> HIDE DEF end
<1>7. end \in Nat /\ end <= End
  BY <1>1, <1>4
<1>8. ASSUME NEW to \in (iter + 1)..End
      PROVE  /\ ~IsString(iter, to) /\ ~AllIn(iter, to, Digits)
             /\ Text(iter, to) \notin Symbols \cup Pairs
  <2>1. Char(iter) \notin Digits /\ Char(iter) # Quote /\ Char(iter) \notin Symbols
    BY <1>2, Apart
  <2>2. to \in Nat /\ to <= End /\ iter < to /\ iter \in iter..(to - 1)
    BY <1>1
  <2>3. Text(iter, to) \notin Symbols \cup Pairs
    BY <1>1, <2>1, <2>2, SymbolsAre
  <2> QED BY <2>1, <2>2, <2>3 DEF IsString, AllIn
<1>9. \A to \in (end + 1)..End : ~AllIn(iter, to, chars)
  <2> SUFFICES ASSUME NEW to \in (end + 1)..End PROVE end \in iter..(to - 1)
    BY <1>5 DEF AllIn
  <2> QED BY <1>1, <1>4, <1>7
\* Were it the beginning of asm{...}, then it would be asm.
<1>10. \A to \in (iter + 1)..End : ~IsAsm(iter, to)
  <2> SUFFICES ASSUME NEW to \in (iter + 1)..End, IsAsm(iter, to) PROVE FALSE
    OBVIOUS
  <2>1. PICK open \in (iter + 3)..(to - 2) : Char(open) = "{" /\ AllIn(iter + 3, open, Blanks)
    BY DEF IsAsm
  <2>2. iter + 4 < to /\ Text(iter, iter + 3) = "asm"
    BY DEF IsAsm
  <2>3. iter + 3 <= End /\ iter + 3 \in Nat /\ open \in Nat /\ iter + 3 <= open
    <3>1. to \in Nat /\ to <= End
      BY <1>1
    <3>2. open \in Nat /\ iter + 3 <= open
      BY <1>1, <3>1
    <3> QED BY <1>1, <2>2, <3>1, <3>2
  <2>4. \A j \in iter..(iter + 2) : Char(j) \in chars
    BY <1>1, <2>2, <2>3, AsmIsLetters
  <2>5. Char(iter + 3) \notin chars
    <3>1. CASE open = iter + 3
      BY <2>1, <3>1, Apart
    <3>2. CASE open # iter + 3
      <4>1. iter + 3 \in (iter + 3)..(open - 1)
        BY <2>3, <3>2
      <4>2. Char(iter + 3) \in Blanks
        BY <2>1, <4>1 DEF AllIn
      <4> QED BY <4>2, CharactersAssumption
    <3> QED BY <3>1, <3>2
  <2>6. end = iter + 3
    <3>1. ~(end < iter + 3)
      <4>1. end < iter + 3 => end \in iter..(iter + 2)
        BY <1>1, <1>4, <1>7
      <4> QED BY <1>5, <2>4, <4>1
    <3>2. ~(end > iter + 3)
      <4>1. end > iter + 3 => iter + 3 \in iter..(end - 1)
        BY <1>1, <1>7
      <4> QED BY <1>5, <2>5, <4>1 DEF AllIn
    <3> QED BY <1>1, <1>7, <3>1, <3>2
  <2> QED BY <1>6, <2>2, <2>6
<1>11. LexemeType(iter, end) = IF word \in keywords THEN word ELSE "id"
  <2>1. end \in (iter + 1)..End
    BY <1>1, <1>4, <1>7
  <2>2. ~IsAsm(iter, end) /\ ~IsString(iter, end) /\ ~AllIn(iter, end, Digits)
    BY <1>8, <1>10, <2>1
  <2> QED BY <1>2, <1>5, <2>2 DEF LexemeType
<1>12. \A longer \in (end + 1)..End : LexemeType(iter, longer) = "none"
  <2> SUFFICES ASSUME NEW longer \in (end + 1)..End PROVE LexemeType(iter, longer) = "none"
    OBVIOUS
  <2>1. longer \in (iter + 1)..End
    BY <1>1, <1>4, <1>7
  <2>2. ~IsAsm(iter, longer) /\ ~IsString(iter, longer) /\ ~AllIn(iter, longer, Digits)
        /\ Text(iter, longer) \notin Symbols \cup Pairs
    BY <1>8, <1>10, <2>1
  <2> QED BY <1>9, <2>2, NoLexeme
<1> HIDE DEF word
<1> QED BY <1>6, <1>11, <1>12 DEF Longest

\* A number is all the digits.
LEMMA NumberIsLongest ==
  ASSUME Placed, Number
  PROVE  \E type : Emit(type, iter') /\ Longest(iter, iter', type)
<1> DEFINE end == Past(iter, Digits)
<1>1. End \in Nat /\ iter \in Nat /\ iter > 0 /\ iter <= End
      /\ Len(source) \in Nat /\ End = Len(source) + 1
  BY Length
<1>2. Char(iter) \in Digits /\ iter < End
  BY <1>1, Kinds, InTheText DEF Number
<1>3. "end" \notin Digits
  BY Kinds
<1>4. end \in iter..End /\ end > iter
  BY <1>1, <1>2, PastIsBehind
<1>5. AllIn(iter, end, Digits) /\ Char(end) \notin Digits
  BY <1>1, <1>3, PastIs
<1>6. Emit("num", end) /\ iter' = end
  BY DEF Number, Emit
<1> HIDE DEF end
<1>7. end \in Nat /\ end <= End /\ end \in (iter + 1)..End
  BY <1>1, <1>4
<1>8. ASSUME NEW to \in (iter + 1)..End
      PROVE  /\ ~IsAsm(iter, to) /\ ~IsString(iter, to) /\ Char(iter) \notin Letters
             /\ Text(iter, to) \notin Symbols \cup Pairs
  <2>1. Char(iter) \notin Letters /\ Char(iter) # Quote /\ Char(iter) \notin Symbols
    BY <1>2, Apart
  <2>2. to \in Nat /\ to <= End /\ iter < to
    BY <1>1
  <2>3. Text(iter, to) \notin Symbols \cup Pairs
    BY <1>1, <2>1, <2>2, SymbolsAre
  <2>4. ~IsAsm(iter, to)
    BY <1>1, <2>1, <2>2, AsmBegins
  <2> QED BY <2>1, <2>3, <2>4 DEF IsString
<1>9. \A to \in (end + 1)..End : ~AllIn(iter, to, Digits)
  <2> SUFFICES ASSUME NEW to \in (end + 1)..End PROVE end \in iter..(to - 1)
    BY <1>5 DEF AllIn
  <2> QED BY <1>1, <1>4, <1>7
<1>10. LexemeType(iter, end) = "num"
  BY <1>5, <1>7, <1>8 DEF LexemeType
<1>11. \A longer \in (end + 1)..End : LexemeType(iter, longer) = "none"
  <2> SUFFICES ASSUME NEW longer \in (end + 1)..End PROVE LexemeType(iter, longer) = "none"
    OBVIOUS
  <2>1. longer \in (iter + 1)..End
    BY <1>1, <1>4, <1>7
  <2> QED BY <1>8, <1>9, <2>1, NoLexeme
<1> QED BY <1>6, <1>10, <1>11 DEF Longest

\* A string ends in front of the first quote that can end it.
LEMMA StringIsLongest ==
  ASSUME Placed, String
  PROVE  \E type : Emit(type, iter') /\ (type = "INVALID" \/ Longest(iter, iter', type))
<1> DEFINE from  == IF iter = Len(source) THEN End ELSE iter + 2
           close == Until(from, {Quote})
<1>1. End \in Nat /\ iter \in Nat /\ iter > 0 /\ iter <= End
      /\ Len(source) \in Nat /\ End = Len(source) + 1
  BY Length
<1>2. Char(iter) = Quote /\ iter < End
  <2>1. Char(iter) = Quote /\ Char(iter) # "end"
    BY Kinds DEF String
  <2> QED BY <1>1, <2>1, InTheText
<1>3. \/ Char(close) = Quote /\ Emit("str", close)
      \/ Emit("INVALID", close)
  BY DEF String
<1>4. CASE Emit("INVALID", close)
  <2>1. iter' = close
    BY <1>4 DEF Emit
  <2> QED BY <1>4, <2>1
<1>5. CASE Char(close) = Quote /\ Emit("str", close)
  <2>1. from \in Nat /\ from <= End
    BY <1>1, <1>2
  <2>2. /\ close \in from..End
        /\ \A j \in from..(close - 1) : j \in 1..Len(source) => Char(j) # Quote
    BY <2>1, UntilIsBehind, UntilIs
  <2>3. iter' = close
    BY <1>5 DEF Emit
  <2> HIDE DEF close
  <2>4. close \in Nat /\ close < End
    <3>1. close \in Nat /\ Char(close) # "end"
      BY <1>5, <2>1, <2>2, Kinds
    <3> QED BY <3>1, InTheText
  <2>5. from = iter + 2
    BY <1>1, <2>1, <2>2, <2>4
  <2> HIDE DEF from
  <2>6. close > iter + 1 /\ \A j \in (iter + 2)..(close - 1) : Char(j) # Quote
    BY <1>1, <2>2, <2>4, <2>5
  <2>7. IsString(iter, close)
    BY <1>1, <1>2, <1>5, <2>4, <2>6 DEF IsString
  <2>8. ASSUME NEW to \in (iter + 1)..End
        PROVE  /\ ~IsAsm(iter, to) /\ ~AllIn(iter, to, Digits) /\ Char(iter) \notin Letters
               /\ Text(iter, to) \notin Symbols \cup Pairs
    <3>1. Char(iter) \notin Letters /\ Char(iter) \notin Digits /\ Char(iter) \notin Symbols
      BY <1>2, Apart
    <3>2. to \in Nat /\ to <= End /\ iter < to /\ iter \in iter..(to - 1)
      BY <1>1
    <3>3. Text(iter, to) \notin Symbols \cup Pairs
      BY <1>1, <3>1, <3>2, SymbolsAre
    <3>4. ~IsAsm(iter, to)
      BY <1>1, <3>1, <3>2, AsmBegins
    <3> QED BY <3>1, <3>2, <3>3, <3>4 DEF AllIn
  <2>9. \A to \in (close + 1)..End : ~IsString(iter, to)
    <3> SUFFICES ASSUME NEW to \in (close + 1)..End PROVE close \in (iter + 2)..(to - 1)
      BY <1>5 DEF IsString
    <3> QED BY <1>1, <2>4, <2>6
  <2>10. LexemeType(iter, close) = "str"
    <3>1. close \in (iter + 1)..End
      BY <1>1, <2>4, <2>6
    <3> QED BY <2>7, <2>8, <3>1 DEF LexemeType
  <2>11. \A longer \in (close + 1)..End : LexemeType(iter, longer) = "none"
    <3> SUFFICES ASSUME NEW longer \in (close + 1)..End PROVE LexemeType(iter, longer) = "none"
      OBVIOUS
    <3>1. longer \in (iter + 1)..End
      BY <1>1, <2>4, <2>6
    <3> QED BY <2>8, <2>9, <3>1, NoLexeme
  <2> QED BY <1>5, <2>3, <2>10, <2>11 DEF Longest
<1> QED BY <1>3, <1>4, <1>5

\* asm, blanks and all between the first { and the first }.
LEMMA AsmIsLongest ==
  ASSUME Placed, Asm
  PROVE  \E type : Emit(type, iter') /\ (type = "INVALID" \/ Longest(iter, iter', type))
<1> DEFINE chars == Letters \cup Digits
           word  == Past(iter, chars)
           open  == Past(word, Blanks)
           close == Until(open + 1, {"}"})
<1>1. End \in Nat /\ iter \in Nat /\ iter > 0 /\ iter <= End
      /\ Len(source) \in Nat /\ End = Len(source) + 1
  BY Length
<1>2. Char(iter) \in Letters /\ iter < End
  BY <1>1, Kinds, InTheText DEF Asm
<1>3. word \in iter..End /\ word > iter
  BY <1>1, <1>2, PastIsBehind
<1>4. open \in word..End /\ AllIn(word, open, Blanks)
  <2>1. word \in Nat /\ word > 0 /\ word <= End /\ "end" \notin Blanks
    BY <1>1, <1>3, Kinds
  <2> HIDE DEF word
  <2> QED BY <2>1, PastIsBehind, PastIs
<1>5. /\ SubSeq(source, iter, word - 1) = "asm"
      /\ \/ Emit("INVALID", open)
         \/ Char(open) = "{" /\ Emit("INVALID", close)
         \/ Char(open) = "{" /\ Char(close) = "}" /\ Emit("asm", close + 1)
  BY DEF Asm
<1> HIDE DEF word, open
<1>6. CASE Emit("INVALID", open) \/ Emit("INVALID", close)
  <2>1. Emit("INVALID", iter')
    BY <1>6 DEF Emit
  <2> QED BY <2>1
<1>7. CASE Char(open) = "{" /\ Char(close) = "}" /\ Emit("asm", close + 1)
  <2>1. word = iter + 3 /\ Text(iter, iter + 3) = "asm"
    <3>1. Text(iter, word) = "asm"
      BY <1>3, <1>5 DEF Text
    <3>2. Len(Text(iter, word)) = word - iter
      BY <1>1, <1>3, TextIs
    <3>3. Len("asm") = 3
      BY StringsAssumption
    <3>4. word = iter + 3
      <4>1. word - iter = 3
        BY <3>1, <3>2, <3>3, Zenon
      <4>2. word \in Nat
        BY <1>1, <1>3
      <4> QED BY <1>1, <4>1, <4>2
    <3> QED BY <3>1, <3>4
  <2>2. open \in Nat /\ open >= iter + 3 /\ open < End
    <3>1. open \in Nat /\ open >= iter + 3
      <4>1. open \in word..End
        BY <1>4
      <4> QED BY <1>1, <2>1, <4>1
    <3>2. Char(open) # "end"
      BY <1>7, Apart
    <3> QED BY <3>1, <3>2, InTheText
  <2>3. /\ close \in (open + 1)..End
        /\ \A j \in (open + 1)..(close - 1) : j \in 1..Len(source) => Char(j) # "}"
    <3>1. open + 1 \in Nat /\ open + 1 <= End
      BY <1>1, <2>2
    <3>2. close \in (open + 1)..End
      BY <3>1, UntilIsBehind
    <3>3. \A j \in (open + 1)..(close - 1) : j \in 1..Len(source) => Char(j) \notin {"}"}
      BY <3>1, UntilIs
    <3> QED BY <3>2, <3>3
  <2> HIDE DEF close
  <2>4. close \in Nat /\ close > open /\ close < End
    <3>1. close \in Nat /\ close > open
      <4>1. close \in (open + 1)..End
        BY <2>3
      <4> QED BY <1>1, <2>2, <4>1
    <3>2. Char(close) # "end"
      BY <1>7, Apart
    <3> QED BY <3>1, <3>2, InTheText
  <2> DEFINE to == close + 1
  <2>5. to \in Nat /\ to <= End /\ iter < to /\ to - 1 = close /\ iter + 4 < to
        /\ open \in (iter + 3)..(to - 2) /\ iter' = to
    <3>1. iter' = to
      BY <1>7 DEF Emit
    <3>2. open \in (iter + 3)..(close - 1) /\ (close + 1) - 1 = close /\ (close + 1) - 2 = close - 1
      BY <1>1, <2>2, <2>4
    <3>3. to \in Nat /\ to <= End /\ iter < to /\ iter + 4 < to
      BY <1>1, <2>2, <2>4
    <3> QED BY <3>1, <3>2, <3>3
  <2>6. AllIn(iter + 3, open, Blanks)
    BY <1>4, <2>1
  <2>7. IsAsm(iter, to)
    <3>1. \A j \in open..(to - 2) : Char(j) # "}"
      <4>3. to - 2 = close - 1
        BY <2>4
      <4> SUFFICES ASSUME NEW j \in open..(close - 1) PROVE Char(j) # "}"
        BY <4>3
      <4>1. CASE j = open
        BY <1>7, <4>1, Apart
      <4>2. CASE j # open
        <5>1. j \in (open + 1)..(close - 1) /\ j \in 1..Len(source)
          <6>1. j \in Nat /\ open <= j /\ j <= close - 1
            BY <2>2, <2>4
          <6> QED BY <1>1, <2>2, <2>4, <4>2, <6>1
        <5> QED BY <2>3, <5>1
      <4> QED BY <4>1, <4>2
    <3>2. Char(to - 1) = "}"
      BY <1>7, <2>5
    <3> HIDE DEF to
    <3> QED BY <1>7, <2>1, <2>5, <2>6, <3>1, <3>2 DEF IsAsm
  <2>8. ASSUME NEW longer \in (to + 1)..End
        PROVE  LexemeType(iter, longer) = "none"
    <3>1. longer \in Nat /\ longer <= End /\ iter < longer /\ longer > to
          /\ iter \in iter..(longer - 1) /\ open \in iter..(longer - 1)
          /\ close \in open..(longer - 2)
      BY <1>1, <2>2, <2>4, <2>5
    <3>2. Char(iter) # Quote /\ Char(iter) \notin Digits /\ Char(iter) \notin Symbols
      BY <1>2, Apart
    <3>3. Char(open) \notin chars /\ Char(open) \notin Blanks
      BY <1>7, Apart
    <3>4. ~IsAsm(iter, longer)
      <4> SUFFICES ASSUME IsAsm(iter, longer) PROVE FALSE
        OBVIOUS
      <4>1. PICK o \in (iter + 3)..(longer - 2) :
              /\ Char(o) = "{" /\ AllIn(iter + 3, o, Blanks)
              /\ \A j \in o..(longer - 2) : Char(j) # "}"
        BY DEF IsAsm
      <4>2. o \in Nat /\ o >= iter + 3
        BY <1>1, <3>1
      <4>3. Char(o) \notin Blanks
        BY <4>1, Apart
      <4>4. o = open
        <5>1. ~(o < open)
          <6>1. o < open => o \in (iter + 3)..(open - 1)
            BY <1>1, <2>2, <4>2
          <6> QED BY <2>6, <4>3, <6>1 DEF AllIn
        <5>2. ~(open < o)
          <6>1. open < o => open \in (iter + 3)..(o - 1)
            BY <1>1, <2>2, <4>2
          <6> QED BY <3>3, <4>1, <6>1 DEF AllIn
        <5> QED BY <2>2, <4>2, <5>1, <5>2
      <4> QED BY <1>7, <3>1, <4>1, <4>4
    <3>5. Text(iter, longer) \notin Symbols \cup Pairs
      BY <1>1, <3>1, <3>2, SymbolsAre
    <3> QED BY <3>1, <3>2, <3>3, <3>4, <3>5, NoLexeme DEF IsString, AllIn
  <2>9. LexemeType(iter, to) = "asm"
    BY <2>7 DEF LexemeType
  <2> HIDE DEF to
  <2>10. Emit("asm", to)
    BY <1>7 DEF to
  <2> QED BY <2>5, <2>8, <2>9, <2>10 DEF Longest
<1> QED BY <1>5, <1>6, <1>7

-----------------------------------------------------------------------------
(* What is between the tokens.                                             *)

\* What a step passes without a token is a blank or a comment.
LEMMA OnlySkipped ==
  ASSUME Placed, Blank \/ LineComment \/ BlockComment
  PROVE  tokens' = tokens /\ IsSkipped(iter, iter')
<1>1. End \in Nat /\ iter \in Nat /\ iter > 0 /\ iter <= End
      /\ Len(source) \in Nat /\ End = Len(source) + 1
  BY Length
<1>2. CASE Blank
  BY <1>2 DEF Blank, Skip, IsSkipped
<1>3. CASE LineComment
  <2> DEFINE to == Until(iter, {"\n"})
  <2>1. Both(iter, "/", "/") /\ Char(iter) = "/" /\ tokens' = tokens /\ iter' = to
    BY <1>3 DEF LineComment, Both, Skip
  <2>2. iter < End
    <3>1. Char(iter) # "end"
      BY <2>1, Kinds
    <3> QED BY <1>1, <3>1, InTheText
  <2>3. to \in iter..End /\ (to # End => Char(to) \in {"\n"})
    BY <1>1, UntilIsBehind
  <2>4. \A j \in iter..(to - 1) : j \in 1..Len(source) => Char(j) \notin {"\n"}
    BY <1>1, UntilIs
  <2> HIDE DEF to
  <2>5. to \in Nat /\ iter < to /\ to <= End
    BY <1>1, <2>1, <2>2, <2>3
  <2>6. Char(to) \in {"\n", "end"}
    <3>1. CASE to = End
      <4>1. to \notin 1..Len(source)
        BY <1>1, <3>1
      <4> QED BY <4>1 DEF Char
    <3> QED BY <2>3, <3>1
  <2>7. \A j \in iter..(to - 1) : Char(j) # "\n"
    <3>1. \A j \in iter..(to - 1) : j \in 1..Len(source)
      BY <1>1, <2>5
    <3> QED BY <2>4, <3>1
  <2> QED BY <2>1, <2>5, <2>6, <2>7 DEF IsSkipped, IsComment
<1>4. CASE BlockComment
  <2> DEFINE closed == {j \in (iter + 1)..Len(source) : Both(j, "*", "/")}
             to == IF closed = {} THEN Len(source) ELSE First(closed) + 2
  <2>1. Both(iter, "/", "*") /\ Char(iter + 1) = "*" /\ tokens' = tokens /\ iter' = to
    BY <1>4 DEF BlockComment, Both, Skip
  <2>2. iter + 1 < End
    <3>1. Char(iter + 1) # "end"
      BY <2>1, Kinds
    <3> QED BY <1>1, <3>1, InTheText
  <2>3. CASE closed = {}
    <3>1. to = Len(source) /\ iter < to
      BY <1>1, <2>2, <2>3
    <3>2. \A j \in (iter + 1)..to : ~Both(j, "*", "/")
      BY <2>3, <3>1
    <3> QED BY <2>1, <3>1, <3>2 DEF IsSkipped, IsComment
  <2>4. CASE closed # {}
    <3>1. closed \subseteq Nat /\ closed \subseteq (iter + 1)..Len(source)
      BY <1>1
    <3>2. First(closed) \in closed /\ \A j \in closed : First(closed) <= j
      BY <2>4, <3>1, FirstPlace
    <3>3. Both(First(closed), "*", "/") /\ to = First(closed) + 2
      BY <2>4, <3>2
    <3> HIDE DEF to
    <3>4. PICK m \in closed : m = First(closed)
      BY <3>2
    <3>5. m \in Nat /\ iter + 1 <= m /\ m <= Len(source)
      BY <1>1, <3>1
    <3>6. to - 2 = m /\ to - 3 = m - 1 /\ iter + 2 < to /\ iter < to
      BY <1>1, <3>3, <3>4, <3>5
    <3>7. ASSUME NEW j \in (iter + 1)..(m - 1) PROVE ~Both(j, "*", "/")
      <4>1. j \in (iter + 1)..Len(source) /\ ~(m <= j)
        BY <1>1, <3>5
      <4>2. j \notin closed
        BY <3>2, <3>4, <4>1
      <4> QED BY <4>1, <4>2
    <3> HIDE DEF closed
    <3> QED BY <2>1, <3>3, <3>4, <3>6, <3>7 DEF IsSkipped, IsComment
  <2> QED BY <2>3, <2>4
<1> QED BY <1>2, <1>3, <1>4

\* The end of the text is no lexeme.
LEMMA NeverTheEnd == \A i, to : LexemeType(i, to) # "EOF"
BY DEF LexemeType, keywords, Symbols, Pairs

\* What the other steps add is the longest lexeme there is, or an end of the list.
LEMMA OnlyLexemes ==
  ASSUME Placed, EndOfFile \/ Symbol \/ Identifier \/ Asm \/ Number \/ String \/ Invalid
  PROVE  \E type : /\ Emit(type, iter')
                   /\ type = "EOF" => iter = End
                   /\ type \notin {"EOF", "INVALID"} => Longest(iter, iter', type)
<1>1. CASE EndOfFile
  <2>1. iter = End /\ Emit("EOF", End) /\ iter' = End
    BY <1>1 DEF EndOfFile, Emit
  <2> QED BY <2>1
<1>2. CASE Invalid
  <2>1. Emit("INVALID", iter) /\ iter' = iter
    BY <1>2 DEF Invalid, Emit
  <2> QED BY <2>1
<1>3. CASE Symbol \/ Identifier \/ Asm \/ Number \/ String
  <2>1. \E type : Emit(type, iter') /\ (type = "INVALID" \/ Longest(iter, iter', type))
    BY <1>3, SymbolIsLongest, IdentifierIsLongest, AsmIsLongest, NumberIsLongest, StringIsLongest
  <2>2. \A type : Longest(iter, iter', type) => type # "EOF"
    BY NeverTheEnd DEF Longest
  <2> QED BY <2>1, <2>2
<1> QED BY <1>1, <1>2, <1>3

\* Between a place and itself there is nothing.
LEMMA GapBegins ==
  ASSUME NEW i \in Nat
  PROVE  IsGap(i, i)
<1>1. \A j \in ({} \cup {i}) \ {i} : \E k \in {} \cup {i} : IsSkipped(j, k)
  OBVIOUS
<1> QED BY <1>1, Zenon DEF IsGap

\* A gap and one blank or comment more is a gap.
LEMMA GapGrows ==
  ASSUME NEW i \in Nat, NEW j \in Nat, NEW k \in Nat, j < k, IsGap(i, j), IsSkipped(j, k)
  PROVE  IsGap(i, k)
<1> DEFINE ends(to) == {e \in i..to : \E h \in i..(e - 1) : IsSkipped(h, e)}
<1>1. /\ i = j \/ j \in ends(j)
      /\ \E between \in SUBSET (ends(j) \ {j}) :
           \A e \in (between \cup {i}) \ {j} : \E f \in between \cup {j} : IsSkipped(e, f)
  BY Zenon DEF IsGap
<1>2. i <= j
  BY <1>1
<1>3. k \in ends(k)
  <2>1. j \in i..(k - 1) /\ k \in i..k
    BY <1>2
  <2> QED BY <2>1
<1>4. \E between \in SUBSET (ends(k) \ {k}) :
         \A e \in (between \cup {i}) \ {k} : \E f \in between \cup {k} : IsSkipped(e, f)
  <2>1. CASE i = j
    <3>1. \A e \in ({} \cup {i}) \ {k} : \E f \in {} \cup {k} : IsSkipped(e, f)
      BY <2>1
    <3> HIDE DEF ends
    <3> QED BY <3>1, Zenon
  <2>2. CASE i # j
    <3>1. PICK between \in SUBSET (ends(j) \ {j}) :
            \A e \in (between \cup {i}) \ {j} : \E f \in between \cup {j} : IsSkipped(e, f)
      BY <1>1
    <3>2. ends(j) \subseteq ends(k) \ {k} /\ j \in ends(j)
      <4>1. \A e \in i..j : e \in i..k /\ e # k
        BY <1>2
      <4> QED BY <1>1, <2>2, <4>1
    <3> DEFINE more == between \cup {j}
    <3> HIDE DEF ends
    <3>3. more \in SUBSET (ends(k) \ {k})
      BY <3>1, <3>2
    <3>4. \A e \in (more \cup {i}) \ {k} : \E f \in more \cup {k} : IsSkipped(e, f)
      <4> SUFFICES ASSUME NEW e \in (more \cup {i}) \ {k}
                   PROVE  \E f \in more \cup {k} : IsSkipped(e, f)
        OBVIOUS
      <4>1. CASE e = j
        BY <4>1
      <4>2. CASE e # j
        BY <3>1, <4>2
      <4> QED BY <4>1, <4>2
    <3> QED BY <3>3, <3>4
  <2> QED BY <2>1, <2>2
<1> QED BY <1>3, <1>4, Zenon DEF IsGap

-----------------------------------------------------------------------------
(* The text is tiled.                                                      *)

\* Also the cursor is only blanks and comments behind the last token.
Tiled == /\ TokensTile
         /\ IsGap(IF tokens = <<>> THEN 1 ELSE tokens[Len(tokens)].to, iter)

\* The lexemes are those of the text, which does not change.
LEMMA SameLexemes ==
  ASSUME source' = source
  PROVE  /\ End' = End
         /\ \A i, to : (LexemeType(i, to))' = LexemeType(i, to)
         /\ \A i, to : (IsGap(i, to))' <=> IsGap(i, to)
<1>1. End' = End /\ \A i : (Char(i))' = Char(i)
  BY DEF End, Char
<1>2. \A i, to : (Text(i, to))' = Text(i, to)
  BY DEF Text
<1>3. \A i, a, b : (Both(i, a, b))' <=> Both(i, a, b)
  BY DEF Both, Char
<1>4. \A i, to : (IsSkipped(i, to))' <=> IsSkipped(i, to)
  BY DEF IsSkipped, IsComment, Both, Char
<1>5. \A i, to, chars : (AllIn(i, to, chars))' <=> AllIn(i, to, chars)
  BY DEF AllIn, Char
<1>6. \A i, to : (IsAsm(i, to))' <=> IsAsm(i, to)
  BY DEF IsAsm, AllIn, Text, Char
<1>7. \A i, to : (IsString(i, to))' <=> IsString(i, to)
  BY DEF IsString, Char
<1>8. \A i, to : (LexemeType(i, to))' = LexemeType(i, to)
  BY DEF LexemeType, IsAsm, IsString, AllIn, Text, Char
<1>9. \A i, to : (IsGap(i, to))' <=> IsGap(i, to)
  BY DEF IsGap, IsSkipped, IsComment, Both, Char
<1> QED BY <1>1, <1>8, <1>9

LEMMA TiledInit == Starting => Tiled
<1> SUFFICES ASSUME Starting PROVE Tiled
  OBVIOUS
<1>1. tokens = <<>> /\ iter = 1
  BY DEF Starting
<1> QED BY <1>1, GapBegins DEF Tiled, TokensTile

LEMMA TiledStep == Inv /\ Tiled /\ [Next]_lexVars => Tiled'
<1> SUFFICES ASSUME Inv, Tiled, [Next]_lexVars PROVE Tiled'
  OBVIOUS
<1> DEFINE last == IF tokens = <<>> THEN 1 ELSE tokens[Len(tokens)].to
<1>1. tokens \in Seq(Token) /\ Len(tokens) \in Nat /\ Placed
  BY DEF Inv
<1>2. last \in Nat /\ iter \in Nat /\ IsGap(last, iter)
  <2>1. tokens # <<>> => tokens[Len(tokens)] \in Token
    BY <1>1
  <2> QED BY <1>1, <2>1, Length DEF Token, Tiled
<1>3. CASE UNCHANGED lexVars
  <2>1. source' = source /\ iter' = iter /\ tokens' = tokens
    BY <1>3 DEF lexVars
  <2> QED BY <2>1, SameLexemes DEF Tiled, TokensTile
<1>4. CASE Next
  <2>1. Step
    BY <1>1, <1>4, EveryStep
  <2>2. source' = source /\ iter' \in Nat
    BY <1>1, <2>1, Length DEF Step
  <2>3. /\ End' = End
        /\ \A i, to : (LexemeType(i, to))' = LexemeType(i, to)
        /\ \A i, to : (IsGap(i, to))' <=> IsGap(i, to)
    BY <2>2, SameLexemes
  <2>4. CASE Blank \/ LineComment \/ BlockComment
    <3>1. tokens' = tokens /\ IsSkipped(iter, iter')
      BY <1>1, <2>4, OnlySkipped
    <3>2. iter < iter'
      BY <1>2, <2>2, <3>1 DEF IsSkipped
    <3>3. IsGap(last, iter')
      BY <1>2, <2>2, <3>1, <3>2, GapGrows
    <3> QED BY <2>3, <3>1, <3>3 DEF Tiled, TokensTile
  <2>5. CASE EndOfFile \/ Symbol \/ Identifier \/ Asm \/ Number \/ String \/ Invalid
    <3>1. PICK type : /\ Emit(type, iter')
                      /\ type = "EOF" => iter = End
                      /\ type \notin {"EOF", "INVALID"} => Longest(iter, iter', type)
      BY <1>1, <2>5, OnlyLexemes
    <3> DEFINE t == [type |-> type, from |-> iter, to |-> iter']
    <3>2. tokens' = Append(tokens, t)
      BY <3>1 DEF Emit
    <3>3. t.type = type /\ t.from = iter /\ t.to = iter'
      OBVIOUS
    <3> HIDE DEF t
    <3>4. /\ tokens' # <<>> /\ Len(tokens') = Len(tokens) + 1
          /\ tokens'[Len(tokens) + 1] = t
          /\ \A i \in 1..Len(tokens) : tokens'[i] = tokens[i]
      BY <1>1, <3>2
    <3>5. last = IF Len(tokens') = 1 THEN 1 ELSE tokens'[Len(tokens') - 1].to
      BY <1>1, <3>4
    <3>6. IsGap(iter', iter')
      BY <2>2, GapBegins
    <3> HIDE DEF last
    <3>7. (IsGap(IF tokens = <<>> THEN 1 ELSE tokens[Len(tokens)].to, iter))'
      BY <2>3, <3>3, <3>4, <3>6
    <3>8. TokensTile'
      BY <1>2, <2>3, <3>1, <3>3, <3>4, <3>5 DEF TokensTile, Longest
    <3> QED BY <3>7, <3>8 DEF Tiled
  <2> QED BY <1>4, <2>4, <2>5 DEF Next
<1> QED BY <1>3, <1>4

\* Whatever the text, its tokens tile it: each is the longest lexeme where it starts, as
\* tokenize takes it, and between two of them there are only blanks and comments.
THEOREM TokensTileTheText == FrontSpec => []TokensTile
<1>1. Tiled => TokensTile
  BY DEF Tiled
<1> QED BY <1>1, LexerOfFrontend, InvInit, InvStep, TiledInit, TiledStep, PTL DEF FrontSpec

-----------------------------------------------------------------------------
(* What the parser has left to do.                                         *)

IsList(s) == s \in Seq({s[i] : i \in DOMAIN s})

\* An item in front of the loop over the statements.
IsInner(x) ==
  /\ x[1] \notin {"begin", "program"}
  /\ x[1] = "match" => "EOF" \notin x[2]
  /\ x[1] = "keep" => x[2] # "EOF"
  /\ x[1] = "more" => Tail(x) \in {<<"params">>, <<"args">>}
  /\ x[1] \in {"level", "loop"} => x[2] \in 1..4

\* A token is consumed unseen only behind one that has been matched.
Follows(x, y) == y[1] = "consume" => x[1] = "match"

\* What a procedure leaves to do.
Shaped(s) == /\ IsList(s)
             /\ \A i \in 1..Len(s) : IsInner(s[i])
             /\ s # <<>> => s[1][1] # "consume"
             /\ \A i \in 2..Len(s) : Follows(s[i - 1], s[i])

\* The loop, or what is in front of it, comes last.
Stacked(s) == /\ IsList(s) /\ s # <<>>
              /\ \A i \in 1..(Len(s) - 1) : IsInner(s[i])
              /\ \A i \in 2..Len(s) : Follows(s[i - 1], s[i])
              /\ s[Len(s)] \in {<<"begin">>, <<"program">>}

\* And no token behind END_OF_FILE is consumed.
Parsing == /\ Len(input) \in Nat /\ la \in 0..(Len(input) + 2)
           /\ result \in {"running", "ast", "error"}
           /\ Stacked(todo)
           /\ todo[1][1] = "consume" => la <= Len(input) + 1
           /\ todo[Len(todo)] = <<"begin">> => Len(todo) = 1 /\ la = 0

\* A sequence is a list, and a list is a sequence of its elements.
LEMMA SeqIsList ==
  ASSUME NEW S, NEW s \in Seq(S)
  PROVE  IsList(s)
<1>1. s = [i \in 1..Len(s) |-> s[i]] /\ Len(s) \in Nat /\ DOMAIN s = 1..Len(s)
  OBVIOUS
<1>2. \A i \in 1..Len(s) : s[i] \in {s[j] : j \in DOMAIN s}
  BY <1>1
<1> HIDE DEF IsList
<1>3. s \in [1..Len(s) -> {s[j] : j \in DOMAIN s}]
  BY <1>1, <1>2
<1> QED BY <1>1, <1>3 DEF IsList

LEMMA ListIsSeq ==
  ASSUME NEW s, IsList(s), NEW S, \A i \in 1..Len(s) : s[i] \in S
  PROVE  s \in Seq(S)
<1>1. s = [i \in 1..Len(s) |-> s[i]] /\ Len(s) \in Nat
  BY DEF IsList
<1> QED BY <1>1

\* Two lists, one behind the other.
LEMMA ListConcat ==
  ASSUME NEW s, NEW t, IsList(s), IsList(t)
  PROVE  /\ IsList(s \o t) /\ Len(s) \in Nat /\ Len(t) \in Nat /\ Len(s \o t) = Len(s) + Len(t)
         /\ \A i \in 1..(Len(s) + Len(t)) :
              (s \o t)[i] = IF i <= Len(s) THEN s[i] ELSE t[i - Len(s)]
<1> DEFINE S == {s[i] : i \in DOMAIN s} \cup {t[i] : i \in DOMAIN t}
<1>1. s \in Seq(S) /\ t \in Seq(S)
  <2>1. /\ Len(s) \in Nat /\ DOMAIN s = 1..Len(s)
        /\ Len(t) \in Nat /\ DOMAIN t = 1..Len(t)
    BY DEF IsList
  <2>2. (\A i \in 1..Len(s) : s[i] \in S) /\ (\A i \in 1..Len(t) : t[i] \in S)
    BY <2>1
  <2> HIDE DEF S
  <2> QED BY <2>2, ListIsSeq
<1> HIDE DEF S
<1>2. s \o t \in Seq(S)
  BY <1>1
<1>3. IsList(s \o t)
  BY <1>2, SeqIsList
<1> QED BY <1>1, <1>3

\* A list without its first element.
LEMMA ListTail ==
  ASSUME NEW s, IsList(s), s # <<>>
  PROVE  /\ IsList(Tail(s)) /\ Len(s) \in Nat /\ Len(s) > 0 /\ Head(s) = s[1]
         /\ Len(Tail(s)) = Len(s) - 1
         /\ \A i \in 1..(Len(s) - 1) : Tail(s)[i] = s[i + 1]
<1> DEFINE S == {s[i] : i \in DOMAIN s}
<1>1. s \in Seq(S)
  BY DEF IsList
<1> HIDE DEF S
<1>2. Tail(s) \in Seq(S)
  BY <1>1
<1>3. IsList(Tail(s))
  BY <1>2, SeqIsList
<1> QED BY <1>1, <1>3

\* What a procedure leaves, on what its callers have left.
LEMMA ShapedOnStack ==
  ASSUME NEW s, NEW t, Shaped(s), Stacked(t), t[1][1] # "consume"
  PROVE  /\ Stacked(s \o t) /\ (s \o t)[1][1] # "consume"
         /\ (s \o t)[Len(s \o t)] = t[Len(t)]
<1>1. /\ IsList(s \o t) /\ Len(s) \in Nat /\ Len(t) \in Nat /\ Len(s \o t) = Len(s) + Len(t)
      /\ \A i \in 1..(Len(s) + Len(t)) :
           (s \o t)[i] = IF i <= Len(s) THEN s[i] ELSE t[i - Len(s)]
  BY ListConcat DEF Shaped, Stacked
<1>2. Len(t) > 0
  BY <1>1, ListTail DEF Stacked
<1>3. s # <<>> => Len(s) > 0
  BY ListTail DEF Shaped
<1> DEFINE u == s \o t
<1>4. u # <<>>
  BY <1>1, <1>2
<1> HIDE DEF u
<1>5. u[1][1] # "consume"
  <2>1. CASE s = <<>>
    <3>1. Len(s) = 0
      BY <2>1
    <3>2. u[1] = t[1]
      BY <1>1, <1>2, <3>1 DEF u
    <3> QED BY <3>2
  <2>2. CASE s # <<>>
    <3>1. u[1] = s[1]
      BY <1>1, <1>2, <1>3, <2>2 DEF u
    <3> QED BY <2>2, <3>1 DEF Shaped
  <2> QED BY <2>1, <2>2
<1>6. ASSUME NEW i \in 1..(Len(u) - 1) PROVE IsInner(u[i])
  <2>1. CASE i <= Len(s)
    <3>1. u[i] = s[i] /\ i \in 1..Len(s)
      BY <1>1, <2>1 DEF u
    <3> QED BY <3>1 DEF Shaped
  <2>2. CASE i > Len(s)
    <3>1. u[i] = t[i - Len(s)] /\ i - Len(s) \in 1..(Len(t) - 1)
      BY <1>1, <2>2 DEF u
    <3> QED BY <3>1 DEF Stacked
  <2> QED BY <1>1, <2>1, <2>2 DEF u
<1>7. ASSUME NEW i \in 2..Len(u) PROVE Follows(u[i - 1], u[i])
  <2>1. CASE i <= Len(s)
    <3>1. u[i] = s[i] /\ u[i - 1] = s[i - 1] /\ i \in 2..Len(s)
      BY <1>1, <2>1 DEF u
    <3> QED BY <3>1 DEF Shaped
  <2>2. CASE i > Len(s) + 1
    <3>1. u[i] = t[i - Len(s)] /\ u[i - 1] = t[i - Len(s) - 1] /\ i - Len(s) \in 2..Len(t)
      BY <1>1, <2>2 DEF u
    <3> QED BY <3>1 DEF Stacked
  <2>3. CASE i = Len(s) + 1
    <3>1. u[i] = t[1]
      BY <1>1, <1>2, <2>3 DEF u
    <3> QED BY <3>1 DEF Follows
  <2> QED BY <1>1, <2>1, <2>2, <2>3 DEF u
<1>8. u[Len(u)] = t[Len(t)]
  BY <1>1, <1>2 DEF u
<1> QED BY <1>1, <1>4, <1>5, <1>6, <1>7, <1>8 DEF Stacked, u

\* Without its first item.
LEMMA StackedTail ==
  ASSUME NEW s, Stacked(s), s[1] \notin {<<"begin">>, <<"program">>}
  PROVE  /\ Stacked(Tail(s)) /\ Len(s) > 1 /\ Head(s) = s[1]
         /\ Tail(s)[Len(Tail(s))] = s[Len(s)]
         /\ Follows(s[1], Tail(s)[1])
<1>1. /\ IsList(Tail(s)) /\ Len(s) \in Nat /\ Len(s) > 0 /\ Head(s) = s[1]
      /\ Len(Tail(s)) = Len(s) - 1
      /\ \A i \in 1..(Len(s) - 1) : Tail(s)[i] = s[i + 1]
  BY ListTail DEF Stacked
<1>2. Len(s) > 1
  BY <1>1 DEF Stacked
<1> DEFINE t == Tail(s)
<1> HIDE DEF t
<1>3. t # <<>>
  <2>1. Len(t) > 0
    BY <1>1, <1>2 DEF t
  <2> QED BY <2>1
<1>4. \A i \in 1..(Len(t) - 1) : IsInner(t[i])
  BY <1>1 DEF t, Stacked
<1>5. ASSUME NEW i \in 2..Len(t) PROVE Follows(t[i - 1], t[i])
  <2>1. t[i - 1] = s[i] /\ t[i] = s[i + 1] /\ i + 1 \in 2..Len(s) /\ (i + 1) - 1 = i
    BY <1>1 DEF t
  <2>2. Follows(s[(i + 1) - 1], s[i + 1])
    BY <2>1 DEF Stacked
  <2> QED BY <2>1, <2>2
<1>6. t[Len(t)] = s[Len(s)]
  BY <1>1, <1>2 DEF t
<1>7. Follows(s[1], t[1])
  <2>1. t[1] = s[2] /\ 2 \in 2..Len(s) /\ 2 - 1 = 1
    BY <1>1, <1>2 DEF t
  <2>2. Follows(s[2 - 1], s[2])
    BY <2>1 DEF Stacked
  <2> QED BY <2>1, <2>2
<1> QED BY <1>1, <1>2, <1>3, <1>4, <1>5, <1>6, <1>7 DEF Stacked, t

-----------------------------------------------------------------------------
(* What the procedures do.                                                 *)

\* Nothing to do, one thing to do, and one after another.
LEMMA ShapedNone == Shaped(<<>>)
<1>1. <<>> \in Seq({}) /\ Len(<<>>) = 0
  OBVIOUS
<1>2. IsList(<<>>)
  BY <1>1, SeqIsList
<1> QED BY <1>1, <1>2 DEF Shaped

LEMMA ShapedOne ==
  ASSUME NEW x, IsInner(x), x[1] # "consume"
  PROVE  Shaped(<<x>>)
<1>1. <<x>> \in Seq({x}) /\ Len(<<x>>) = 1 /\ <<x>>[1] = x
  OBVIOUS
<1>2. IsList(<<x>>)
  BY <1>1, SeqIsList
<1> DEFINE s == <<x>>
<1>3. IsList(s) /\ Len(s) = 1 /\ s[1] = x
  BY <1>1, <1>2
<1> HIDE DEF s
<1>4. Shaped(s)
  BY <1>3 DEF Shaped
<1> QED BY <1>4 DEF s

LEMMA ShapedBoth ==
  ASSUME NEW s, NEW t, Shaped(s), Shaped(t)
  PROVE  Shaped(s \o t)
<1>1. /\ IsList(s \o t) /\ Len(s) \in Nat /\ Len(t) \in Nat /\ Len(s \o t) = Len(s) + Len(t)
      /\ \A i \in 1..(Len(s) + Len(t)) :
           (s \o t)[i] = IF i <= Len(s) THEN s[i] ELSE t[i - Len(s)]
  BY ListConcat DEF Shaped
<1>2. (s # <<>> => Len(s) > 0) /\ (t # <<>> => Len(t) > 0)
  BY ListTail DEF Shaped
<1> DEFINE u == s \o t
<1> HIDE DEF u
<1>3. u # <<>> => u[1][1] # "consume"
  <2>1. CASE s = <<>>
    <3>1. Len(s) = 0
      BY <2>1
    <3>2. CASE Len(t) = 0
      <4>1. Len(u) = 0 /\ IsList(u)
        BY <1>1, <3>1, <3>2 DEF u
      <4>2. u = <<>>
        BY <4>1, ListTail
      <4> QED BY <4>2
    <3>3. CASE Len(t) # 0
      <4>1. u[1] = t[1] /\ t # <<>>
        BY <1>1, <3>1, <3>3 DEF u
      <4> QED BY <4>1 DEF Shaped
    <3> QED BY <3>2, <3>3
  <2>2. CASE s # <<>>
    <3>1. u[1] = s[1]
      BY <1>1, <1>2, <2>2 DEF u
    <3> QED BY <2>2, <3>1 DEF Shaped
  <2> QED BY <2>1, <2>2
<1>4. ASSUME NEW i \in 1..Len(u) PROVE IsInner(u[i])
  <2>1. CASE i <= Len(s)
    <3>1. u[i] = s[i] /\ i \in 1..Len(s)
      BY <1>1, <2>1 DEF u
    <3> QED BY <3>1 DEF Shaped
  <2>2. CASE i > Len(s)
    <3>1. u[i] = t[i - Len(s)] /\ i - Len(s) \in 1..Len(t)
      BY <1>1, <2>2 DEF u
    <3> QED BY <3>1 DEF Shaped
  <2> QED BY <1>1, <2>1, <2>2 DEF u
<1>5. ASSUME NEW i \in 2..Len(u) PROVE Follows(u[i - 1], u[i])
  <2>1. CASE i <= Len(s)
    <3>1. u[i] = s[i] /\ u[i - 1] = s[i - 1] /\ i \in 2..Len(s)
      BY <1>1, <2>1 DEF u
    <3> QED BY <3>1 DEF Shaped
  <2>2. CASE i > Len(s) + 1
    <3>1. u[i] = t[i - Len(s)] /\ u[i - 1] = t[i - Len(s) - 1] /\ i - Len(s) \in 2..Len(t)
      BY <1>1, <2>2 DEF u
    <3> QED BY <3>1 DEF Shaped
  <2>3. CASE i = Len(s) + 1
    <3>1. u[i] = t[1] /\ t # <<>>
      <4>1. Len(t) # 0 /\ u[i] = t[1]
        BY <1>1, <2>3 DEF u
      <4> QED BY <4>1
    <3> QED BY <3>1 DEF Follows, Shaped
  <2> QED BY <1>1, <2>1, <2>2, <2>3 DEF u
<1> QED BY <1>1, <1>3, <1>4, <1>5 DEF Shaped, u

\* What a procedure leaves behind it, when it has consumed n tokens.
LEMMA GoKeeps ==
  ASSUME Parsing, NEW items, Shaped(items), NEW n \in {0, 1},
         n = 1 => la <= Len(input) + 1,
         Head(todo)[1] \notin {"begin", "program", "match"},
         P!Go(items, n)
  PROVE  Parsing'
<1>1. Stacked(todo) /\ todo # <<>> /\ IsList(todo)
  BY DEF Parsing, Stacked
<1>2. Head(todo) = todo[1]
  BY <1>1, ListTail
<1>3. todo[1] \notin {<<"begin">>, <<"program">>}
  BY <1>2
<1> DEFINE t == Tail(todo)
<1>4. /\ Stacked(t) /\ Len(todo) > 1
      /\ t[Len(t)] = todo[Len(todo)] /\ Follows(todo[1], t[1])
  BY <1>1, <1>3, StackedTail
<1>5. t[1][1] # "consume"
  BY <1>2, <1>4 DEF Follows
<1> HIDE DEF t
<1>6. todo' = items \o t /\ la' = la + n /\ input' = input /\ result' = result
  BY DEF P!Go, t
<1>7. /\ Stacked(items \o t) /\ (items \o t)[1][1] # "consume"
      /\ (items \o t)[Len(items \o t)] = t[Len(t)]
  BY <1>4, <1>5, ShapedOnStack
<1>8. todo[Len(todo)] # <<"begin">>
  BY <1>4 DEF Parsing
<1>9. /\ Stacked(todo') /\ todo'[1][1] # "consume" /\ todo'[Len(todo')] # <<"begin">>
  BY <1>4, <1>6, <1>7, <1>8
<1>10. la + n \in 0..(Len(input) + 2)
  BY DEF Parsing
<1> QED BY <1>6, <1>9, <1>10 DEF Parsing

\* A lookahead that is no end of the stream is a token of the input.
LEMMA LookaheadIs ==
  ASSUME Parsing, NEW types, P!Lookahead(types), "EOF" \notin types
  PROVE  la <= Len(input)
BY DEF Parsing, P!Lookahead, P!Type

\* The items of the parser.
LEMMA InnerItems ==
  /\ \A name : name \notin {"begin", "program", "match", "keep", "more", "level", "loop"}
       => IsInner(<<name>>) /\ <<name>>[1] = name
  /\ \A t : t # "EOF" => IsInner(P!Match(t)) /\ IsInner(P!Keep(t))
  /\ \A t : P!Match(t)[1] = "match" /\ P!Keep(t)[1] = "keep"
  /\ \A name \in {"params", "args"} : IsInner(<<"more", name>>) /\ <<"more", name>>[1] = "more"
  /\ \A n \in 1..4 : IsInner(<<"level", n>>) /\ <<"level", n>>[1] = "level"
  /\ \A n \in 1..4 : \A b : IsInner(<<"loop", n, b>>) /\ <<"loop", n, b>>[1] = "loop"
  /\ \A name \in {"collect", "unary", "prefix", "replace"} : \A i :
       IsInner(<<name, i>>) /\ <<name, i>>[1] = name
  /\ \A n, i, b : IsInner(<<"combine", n, i, b>>) /\ <<"combine", n, i, b>>[1] = "combine"
<1>1. \A name : name \notin {"begin", "program", "match", "keep", "more", "level", "loop"}
       => IsInner(<<name>>) /\ <<name>>[1] = name
  BY DEF IsInner
<1>2. \A t : t # "EOF" => IsInner(P!Match(t)) /\ IsInner(P!Keep(t))
  BY DEF IsInner, P!Match, P!Keep
<1>3. \A t : P!Match(t)[1] = "match" /\ P!Keep(t)[1] = "keep"
  BY DEF P!Match, P!Keep
<1>4. \A name \in {"params", "args"} : IsInner(<<"more", name>>) /\ <<"more", name>>[1] = "more"
  BY DEF IsInner
<1>5. \A n \in 1..4 : IsInner(<<"level", n>>) /\ <<"level", n>>[1] = "level"
  BY DEF IsInner
<1>6. \A n \in 1..4 : \A b : IsInner(<<"loop", n, b>>) /\ <<"loop", n, b>>[1] = "loop"
  BY DEF IsInner
<1>7. \A name \in {"collect", "unary", "prefix", "replace"} : \A i :
       IsInner(<<name, i>>) /\ <<name, i>>[1] = name
  BY DEF IsInner
<1>8. \A n, i, b : IsInner(<<"combine", n, i, b>>) /\ <<"combine", n, i, b>>[1] = "combine"
  BY DEF IsInner
<1> QED BY <1>1, <1>2, <1>3, <1>4, <1>5, <1>6, <1>7, <1>8

\* Lists with the same elements are the same.
LEMMA SameList ==
  ASSUME NEW S, NEW s \in Seq(S), NEW t \in Seq(S), Len(s) = Len(t),
         \A i \in 1..Len(s) : s[i] = t[i]
  PROVE  s = t
<1>1. s = [i \in 1..Len(s) |-> s[i]] /\ t = [i \in 1..Len(t) |-> t[i]]
  OBVIOUS
<1>2. [i \in 1..Len(s) |-> s[i]] = [i \in 1..Len(t) |-> t[i]]
  OBVIOUS
<1> QED BY <1>1, <1>2

\* What is there behind the one and the other.
LEMMA ConcatIs ==
  ASSUME NEW S, NEW s \in Seq(S), NEW t \in Seq(S), NEW u \in Seq(S),
         Len(u) = Len(s) + Len(t),
         \A i \in 1..Len(s) : u[i] = s[i],
         \A i \in 1..Len(t) : u[Len(s) + i] = t[i]
  PROVE  s \o t = u
<1> DEFINE v == s \o t
<1>1. IsList(s) /\ IsList(t)
  BY SeqIsList
<1>2. /\ v \in Seq(S) /\ Len(s) \in Nat /\ Len(t) \in Nat /\ Len(v) = Len(s) + Len(t)
      /\ \A i \in 1..(Len(s) + Len(t)) : v[i] = IF i <= Len(s) THEN s[i] ELSE t[i - Len(s)]
  BY <1>1, ListConcat
<1> HIDE DEF v
<1>3. ASSUME NEW i \in 1..Len(v) PROVE v[i] = u[i]
  <2>1. CASE i <= Len(s)
    BY <1>2, <2>1
  <2>2. CASE i > Len(s)
    <3>1. i - Len(s) \in 1..Len(t) /\ Len(s) + (i - Len(s)) = i
      BY <1>2, <2>2
    <3>2. u[Len(s) + (i - Len(s))] = t[i - Len(s)]
      BY <3>1
    <3> QED BY <1>2, <2>2, <3>1, <3>2
  <2> QED BY <1>2, <2>1, <2>2
<1>4. v = u
  BY <1>2, <1>3, SameList
<1> QED BY <1>4 DEF v

\* Short lists, one element at a time.
LEMMA ShortLists ==
  ASSUME NEW x, NEW y, NEW z
  PROVE  <<x>> \o <<y>> = <<x, y>> /\ <<x>> \o <<y, z>> = <<x, y, z>> /\ <<x, y>> \o <<z>> = <<x, y, z>>
<1> DEFINE S == {x, y, z}
           x1 == <<x>>  y1 == <<y>>  z1 == <<z>>
           xy == <<x, y>>  yz == <<y, z>>  xyz == <<x, y, z>>
<1>1. /\ x1 \in Seq(S) /\ Len(x1) = 1 /\ x1[1] = x
      /\ y1 \in Seq(S) /\ Len(y1) = 1 /\ y1[1] = y
      /\ z1 \in Seq(S) /\ Len(z1) = 1 /\ z1[1] = z
  OBVIOUS
<1>2. /\ xy \in Seq(S) /\ Len(xy) = 2 /\ xy[1] = x /\ xy[2] = y
      /\ yz \in Seq(S) /\ Len(yz) = 2 /\ yz[1] = y /\ yz[2] = z
  OBVIOUS
<1>3. xyz \in Seq(S) /\ Len(xyz) = 3 /\ xyz[1] = x /\ xyz[2] = y /\ xyz[3] = z
  OBVIOUS
<1> HIDE DEF x1, y1, z1, xy, yz, xyz, S
<1>4. x1 \o y1 = xy
  <2>1. x1 \in Seq(S) /\ y1 \in Seq(S) /\ xy \in Seq(S) /\ Len(xy) = Len(x1) + Len(y1)
    BY <1>1, <1>2
  <2>2. \A i \in 1..Len(x1) : xy[i] = x1[i]
    BY <1>1, <1>2
  <2>3. \A i \in 1..Len(y1) : xy[Len(x1) + i] = y1[i]
    BY <1>1, <1>2
  <2> QED BY <2>1, <2>2, <2>3, ConcatIs
<1>5. x1 \o yz = xyz
  <2>1. x1 \in Seq(S) /\ yz \in Seq(S) /\ xyz \in Seq(S) /\ Len(xyz) = Len(x1) + Len(yz)
    BY <1>1, <1>2, <1>3
  <2>2. \A i \in 1..Len(x1) : xyz[i] = x1[i]
    BY <1>1, <1>2, <1>3
  <2>3. \A i \in 1..Len(yz) : xyz[Len(x1) + i] = yz[i]
    BY <1>1, <1>2, <1>3
  <2> QED BY <2>1, <2>2, <2>3, ConcatIs
<1>6. xy \o z1 = xyz
  <2>1. xy \in Seq(S) /\ z1 \in Seq(S) /\ xyz \in Seq(S) /\ Len(xyz) = Len(xy) + Len(z1)
    BY <1>1, <1>2, <1>3
  <2>2. \A i \in 1..Len(xy) : xyz[i] = xy[i]
    BY <1>1, <1>2, <1>3
  <2>3. \A i \in 1..Len(z1) : xyz[Len(xy) + i] = z1[i]
    BY <1>1, <1>2, <1>3
  <2> QED BY <2>1, <2>2, <2>3, ConcatIs
<1> QED BY <1>4, <1>5, <1>6 DEF x1, y1, z1, xy, yz, xyz

LEMMA ShapedTwo ==
  ASSUME NEW x, NEW y, IsInner(x), IsInner(y), x[1] # "consume", y[1] # "consume"
  PROVE  Shaped(<<x, y>>)
<1>1. <<x>> \o <<y>> = <<x, y>>
  BY ShortLists, Zenon
<1>2. Shaped(<<x>>) /\ Shaped(<<y>>)
  BY ShapedOne
<1>3. Shaped(<<x>> \o <<y>>)
  BY <1>2, ShapedBoth, Zenon
<1> QED BY <1>1, <1>3, Zenon

LEMMA ShapedThree ==
  ASSUME NEW x, NEW y, NEW z, IsInner(x), IsInner(y), IsInner(z),
         x[1] # "consume", y[1] # "consume", z[1] # "consume"
  PROVE  Shaped(<<x, y, z>>)
<1>1. <<x>> \o <<y, z>> = <<x, y, z>>
  BY ShortLists, Zenon
<1>2. Shaped(<<x>>) /\ Shaped(<<y, z>>)
  BY ShapedOne, ShapedTwo, Zenon
<1>3. Shaped(<<x>> \o <<y, z>>)
  BY <1>2, ShapedBoth, Zenon
<1> QED BY <1>1, <1>3, Zenon

\* A token is matched, and the next one consumed.
LEMMA ShapedConsume ==
  ASSUME NEW t, t # "EOF"
  PROVE  Shaped(<<P!Match(t), P!Consume>>)
<1> DEFINE x == P!Match(t)
           y == P!Consume
<1>1. IsInner(x) /\ x[1] = "match" /\ IsInner(y) /\ y[1] = "consume"
  BY InnerItems DEF P!Consume
<1> HIDE DEF x, y
<1> DEFINE s == <<x, y>>
<1>2. s \in Seq({x, y}) /\ Len(s) = 2 /\ s[1] = x /\ s[2] = y /\ s # <<>>
  OBVIOUS
<1> HIDE DEF s
<1>3. IsList(s)
  BY <1>2, SeqIsList
<1>4. \A i \in 1..Len(s) : IsInner(s[i])
  BY <1>1, <1>2
<1>5. \A i \in 2..Len(s) : Follows(s[i - 1], s[i])
  <2> SUFFICES ASSUME NEW i \in 2..Len(s) PROVE Follows(s[i - 1], s[i])
    OBVIOUS
  <2>1. i = 2 /\ i - 1 = 1
    BY <1>2
  <2> QED BY <1>1, <1>2, <2>1 DEF Follows
<1>6. Shaped(s)
  BY <1>1, <1>2, <1>3, <1>4, <1>5 DEF Shaped
<1> QED BY <1>6 DEF s, x, y

\* The items of more than one procedure.
LEMMA ShapedParts ==
  /\ Shaped(P!Condition) /\ Shaped(P!Braced)
  /\ \A name : name \notin {"begin", "program", "match", "keep", "more", "level", "loop", "consume"}
       => Shaped(<< <<name>> >>) /\ Shaped(<< <<name>>, P!Match(";"), P!Consume >>)
<1>1. Shaped(P!Condition)
  <2>1. IsInner(P!Match("(")) /\ IsInner(P!Match(")")) /\ IsInner(P!Expr)
        /\ P!Match("(")[1] # "consume" /\ P!Match(")")[1] # "consume" /\ P!Expr[1] # "consume"
    BY InnerItems DEF P!Expr
  <2> QED BY <2>1, ShapedThree, Zenon DEF P!Condition
<1>2. Shaped(P!Braced)
  <2>1. Shaped(<<P!Match("{"), P!Consume>>) /\ Shaped(<< <<"body">> >>)
    BY ShapedConsume, ShapedOne, InnerItems
  <2>2. <<P!Match("{"), P!Consume>> \o << <<"body">> >> = P!Braced
    BY ShortLists, Zenon DEF P!Braced
  <2>3. Shaped(<<P!Match("{"), P!Consume>> \o << <<"body">> >>)
    BY <2>1, ShapedBoth, Zenon
  <2> QED BY <2>2, <2>3, Zenon
<1>3. ASSUME NEW name, name \notin {"begin", "program", "match", "keep", "more", "level", "loop", "consume"}
      PROVE  Shaped(<< <<name>> >>) /\ Shaped(<< <<name>>, P!Match(";"), P!Consume >>)
  <2>1. Shaped(<< <<name>> >>) /\ Shaped(<<P!Match(";"), P!Consume>>)
    BY <1>3, ShapedConsume, ShapedOne, InnerItems
  <2>2. \A x, y, z : <<x>> \o <<y, z>> = <<x, y, z>>
    BY ShortLists, Zenon
  <2>3. Shaped(<< <<name>> >> \o <<P!Match(";"), P!Consume>>)
    BY <2>1, ShapedBoth, Zenon
  <2> QED BY <2>1, <2>2, <2>3, Zenon
<1> QED BY <1>1, <1>2, <1>3

-----------------------------------------------------------------------------
(* What the actions of the parser do.                                      *)

\* The longest lists.
LEMMA FiveItems ==
  ASSUME NEW u, NEW v, NEW x, NEW y, NEW z,
         Shaped(<<u, v, x>>), Shaped(<<y, z>>)
  PROVE  Shaped(<<u, v, x, y, z>>)
<1> DEFINE S == {u, v, x, y, z}
           s == <<u, v, x>>  t == <<y, z>>  all == <<u, v, x, y, z>>
<1>1. /\ s \in Seq(S) /\ Len(s) = 3 /\ s[1] = u /\ s[2] = v /\ s[3] = x
      /\ t \in Seq(S) /\ Len(t) = 2 /\ t[1] = y /\ t[2] = z
  OBVIOUS
<1>2. /\ all \in Seq(S) /\ Len(all) = 5
      /\ all[1] = u /\ all[2] = v /\ all[3] = x /\ all[4] = y /\ all[5] = z
  OBVIOUS
<1>3. Shaped(s \o t)
  BY ShapedBoth, Zenon
<1> HIDE DEF s, t, all, S
<1>4. \A i \in 1..Len(s) : all[i] = s[i]
  BY <1>1, <1>2
<1>5. \A i \in 1..Len(t) : all[Len(s) + i] = t[i]
  BY <1>1, <1>2
<1>6. Len(all) = Len(s) + Len(t)
  BY <1>1, <1>2
<1>7. s \o t = all
  BY <1>1, <1>2, <1>4, <1>5, <1>6, ConcatIs
<1> QED BY <1>3, <1>7 DEF all

\* A procedure of that name, which consumes nothing.
LEMMA Gone ==
  ASSUME Parsing, NEW name, name \notin {"begin", "program", "match"}, P!At(name),
         NEW items, Shaped(items), P!Go(items, 0)
  PROVE  Parsing'
BY GoKeeps DEF P!At

\* And one that consumes the lookahead, when it is one of these types.
LEMMA GoneOne ==
  ASSUME Parsing, NEW name, name \notin {"begin", "program", "match"}, P!At(name),
         NEW types, "EOF" \notin types, P!Lookahead(types),
         NEW items, Shaped(items), P!Go(items, 1)
  PROVE  Parsing'
<1>1. la <= Len(input)
  BY LookaheadIs
<1>2. la <= Len(input) + 1
  BY <1>1 DEF Parsing
<1> QED BY <1>2, GoKeeps DEF P!At

\* The item at hand, when it is not the loop over the statements.
LEMMA ItemIs ==
  ASSUME Parsing, Head(todo)[1] \notin {"begin", "program"}
  PROVE  /\ IsInner(Head(todo)) /\ Head(todo) = todo[1]
         /\ Stacked(Tail(todo)) /\ Len(todo) > 1
         /\ Tail(todo)[Len(Tail(todo))] = todo[Len(todo)]
<1>1. Stacked(todo) /\ IsList(todo) /\ todo # <<>>
  BY DEF Parsing, Stacked
<1>2. Head(todo) = todo[1] /\ Len(todo) \in Nat
  BY <1>1, ListTail
<1>3. todo[1] \notin {<<"begin">>, <<"program">>}
  BY <1>2
<1>4. /\ Stacked(Tail(todo)) /\ Len(todo) > 1
      /\ Tail(todo)[Len(Tail(todo))] = todo[Len(todo)]
  BY <1>1, <1>3, StackedTail
<1>5. 1 \in 1..(Len(todo) - 1)
  BY <1>2, <1>4
<1> QED BY <1>1, <1>2, <1>4, <1>5 DEF Stacked

\* The end of the parse.
LEMMA StopKeeps ==
  ASSUME Parsing, UNCHANGED <<input, la, todo>>, result' \in {"ast", "error"}
  PROVE  Parsing'
BY DEF Parsing, Stacked, IsList

LEMMA EndSteps ==
  ASSUME Parsing,
         P!ProgramEnd \/ P!StatementFails \/ P!MatchFails \/ P!PrimaryFails \/ P!NoAttribute
  PROVE  Parsing'
<1>1. UNCHANGED <<input, la, todo>> /\ result' \in {"ast", "error"}
  BY DEF P!ProgramEnd, P!StatementFails, P!MatchFails, P!PrimaryFails, P!NoAttribute, P!SyntaxError
<1> QED BY <1>1, StopKeeps

\* When the loop over the statements is all there is.
LEMMA LoopSteps ==
  ASSUME Parsing, P!Begin \/ P!Program
  PROVE  Parsing'
<1>1. Stacked(todo) /\ IsList(todo) /\ todo # <<>>
  BY DEF Parsing, Stacked
<1>2. Head(todo) = todo[1] /\ Len(todo) \in Nat /\ Len(todo) > 0
  BY <1>1, ListTail
<1>3. Head(todo)[1] \in {"begin", "program"}
  BY DEF P!Begin, P!Program, P!At
<1>4. Len(todo) = 1
  <2>1. ~(1 \in 1..(Len(todo) - 1))
    BY <1>1, <1>2, <1>3 DEF Stacked, IsInner
  <2>2. \A n \in Nat : n > 1 => 1 \in 1..(n - 1)
    OBVIOUS
  <2>3. \A n \in Nat : n > 0 /\ ~(n > 1) => n = 1
    OBVIOUS
  <2> QED BY <1>2, <2>1, <2>2, <2>3, Zenon
<1>5. todo[1] \in {<<"begin">>, <<"program">>}
  BY <1>1, <1>4 DEF Stacked
<1>6. IsList(Tail(todo)) /\ Len(Tail(todo)) = 0
  BY <1>1, <1>2, <1>4, ListTail
<1>7. Tail(todo) = <<>>
  <2> DEFINE t == Tail(todo)
  <2>1. t # <<>> => Len(t) > 0
    BY <1>6, ListTail, Zenon
  <2>2. Len(t) = 0
    BY <1>6
  <2> HIDE DEF t
  <2>3. t = <<>>
    BY <2>1, <2>2
  <2> QED BY <2>3 DEF t
<1> DEFINE loop == << <<"program">> >>
<1>8. /\ loop \in Seq({<<"program">>}) /\ Len(loop) = 1 /\ loop[1] = <<"program">>
      /\ loop # <<>> /\ <<"program">>[1] = "program" /\ <<"program">> # <<"begin">>
  OBVIOUS
<1>9. loop \o <<>> = loop
  BY <1>8
<1> HIDE DEF loop
<1>10. Stacked(loop) /\ loop[1][1] # "consume" /\ loop[Len(loop)] # <<"begin">>
  <2>1. IsList(loop)
    BY <1>8, SeqIsList
  <2> QED BY <1>8, <2>1 DEF Stacked
<1>11. CASE P!Begin
  <2>1. todo' = loop /\ la' = la + 2 /\ input' = input /\ result' = result
    BY <1>7, <1>9, <1>11 DEF P!Begin, P!Do, P!Go, loop
  <2>2. Head(todo)[1] = "begin"
    BY <1>11 DEF P!Begin, P!At
  <2>3. todo[1] = <<"begin">>
    BY <1>2, <1>5, <1>8, <2>2
  <2>4. la = 0 /\ Len(input) \in Nat
    BY <1>4, <2>3 DEF Parsing
  <2>5. la' \in 0..(Len(input) + 2)
    BY <2>1, <2>4
  <2> QED BY <1>10, <2>1, <2>5 DEF Parsing
<1>12. CASE P!Program
  <2> DEFINE first == << <<"statement">> >>
  <2>1. Shaped(first)
    BY ShapedParts
  <2>2. << <<"statement">>, <<"program">> >> \o <<>> = << <<"statement">>, <<"program">> >>
    OBVIOUS
  <2>3. todo' = first \o loop /\ la' = la /\ input' = input /\ result' = result
    <3>1. first \o loop = << <<"statement">>, <<"program">> >>
      BY ShortLists, Zenon DEF loop
    <3>2. /\ todo' = << <<"statement">>, <<"program">> >> \o Tail(todo)
          /\ la' = la + 0 /\ input' = input /\ result' = result
      BY <1>12 DEF P!Program, P!Do, P!Go
    <3>3. todo' = first \o loop
      BY <1>7, <2>2, <3>1, <3>2, Zenon
    <3>4. la + 0 = la
      BY DEF Parsing
    <3> QED BY <3>2, <3>3, <3>4
  <2>4. /\ Stacked(first \o loop) /\ (first \o loop)[1][1] # "consume"
        /\ (first \o loop)[Len(first \o loop)] = loop[Len(loop)]
    BY <1>10, <2>1, ShapedOnStack
  <2> HIDE DEF first
  <2> QED BY <1>10, <2>3, <2>4 DEF Parsing
<1> QED BY <1>11, <1>12

\* Only a match may leave a token to be consumed.
LEMMA MatchStep ==
  ASSUME Parsing, P!DoMatch
  PROVE  Parsing'
<1>1. Head(todo)[1] = "match" /\ P!Lookahead(Head(todo)[2])
  BY DEF P!DoMatch, P!At, P!Item
<1>2. /\ IsInner(Head(todo)) /\ Head(todo) = todo[1]
      /\ Stacked(Tail(todo)) /\ Len(todo) > 1
      /\ Tail(todo)[Len(Tail(todo))] = todo[Len(todo)]
  BY <1>1, ItemIs
<1>3. la <= Len(input)
  BY <1>1, <1>2, LookaheadIs DEF IsInner
<1>4. todo' = <<>> \o Tail(todo) /\ la' = la + 1 /\ input' = input /\ result' = result
  BY DEF P!DoMatch, P!Do, P!Go
<1> DEFINE t == Tail(todo)
<1>5. IsList(t)
  BY <1>2 DEF Stacked
<1>6. t \in Seq({t[i] : i \in DOMAIN t})
  BY <1>5 DEF IsList
<1> HIDE DEF t
<1>7. <<>> \o t = t
  BY <1>6
<1>8. todo' = t
  BY <1>4, <1>7 DEF t
<1>9. la + 1 \in 0..(Len(input) + 2) /\ la + 1 <= Len(input) + 1
  BY <1>3 DEF Parsing
<1> QED BY <1>2, <1>4, <1>8, <1>9 DEF Parsing, t

\* The procedures of the statements.
LEMMA StatementSteps ==
  ASSUME Parsing,
         \/ P!ParseStatement \/ P!Body \/ P!ParseIf \/ P!ParseElse \/ P!ParseWhile \/ P!ParseMain
         \/ P!ParseFunc \/ P!ParseType \/ P!ParseAsm \/ P!ParseDeclaration
         \/ P!ParseAssignment \/ P!ParseVariable \/ P!ParseReturn \/ P!ParseExit \/ P!ParseCall
  PROVE  Parsing'
<1>1. CASE P!ParseStatement
  <2>1. PICK name \in P!Keywords \cup {"declaration", "call", "assignment"} : P!StatementOf(name)
    <3>1. \A x \in DOMAIN P!Starts : P!Starts[x] \in {"declaration", "call", "assignment"}
      BY DEF P!Starts
    <3>2. \/ P!Type(P!token) \in P!Keywords /\ P!StatementOf(P!Type(P!token))
          \/ P!Type(la) \in DOMAIN P!Starts /\ P!StatementOf(P!Starts[P!Type(la)])
      BY <1>1, Zenon DEF P!ParseStatement, P!Lookahead
    <3> QED BY <3>1, <3>2, Zenon
  <2>2. name \notin {"begin", "program", "match", "keep", "more", "level", "loop", "consume"}
    BY DEF P!Keywords
  <2>3. Shaped(<< <<name>>, P!Match(";"), P!Consume >>)
    BY <2>2, ShapedParts, Zenon
  <2>4. P!At("statement") /\ P!Go(<< <<name>>, P!Match(";"), P!Consume >>, 0)
    BY <1>1, <2>1, Zenon DEF P!ParseStatement, P!StatementOf, P!Do
  <2> QED BY <2>3, <2>4, Gone
<1>2. CASE P!Body
  <2> DEFINE items == << <<"statement">>, P!Item >>
  <2>1. P!At("body") /\ P!Go(items, 0) /\ P!Item[1] = "body"
    BY <1>2 DEF P!Body, P!Do, P!At, P!Item
  <2>2. IsInner(P!Item)
    BY <2>1, ItemIs DEF P!Item
  <2>3. IsInner(<<"statement">>) /\ <<"statement">>[1] = "statement"
    BY InnerItems
  <2>4. Shaped(items)
    BY <2>1, <2>2, <2>3, ShapedTwo
  <2> HIDE DEF items
  <2> QED BY <2>1, <2>4, Gone
<1>3. CASE P!ParseIf \/ P!ParseWhile \/ P!ParseMain \/ P!ParseElse
  <2>1. Shaped(P!Condition) /\ Shaped(P!Braced) /\ Shaped(<< <<"else">> >>)
    BY ShapedParts
  <2>2. Shaped(P!Condition \o P!Braced) /\ Shaped(P!Condition \o P!Braced \o << <<"else">> >>)
    BY <2>1, ShapedBoth, Zenon
  <2>3. CASE P!ParseIf
    <3>1. P!At("if") /\ P!Go(P!Condition \o P!Braced \o << <<"else">> >>, 0)
      BY <2>3, Zenon DEF P!ParseIf, P!Do
    <3> QED BY <2>2, <3>1, Gone
  <2>4. CASE P!ParseWhile
    <3>1. P!At("while") /\ P!Go(P!Condition \o P!Braced, 0)
      BY <2>4, Zenon DEF P!ParseWhile, P!Do
    <3> QED BY <2>2, <3>1, Gone
  <2>5. CASE P!ParseMain
    <3>1. P!At("main") /\ P!Go(P!Braced, 0)
      BY <2>5, Zenon DEF P!ParseMain, P!Do
    <3> QED BY <2>1, <3>1, Gone
  <2>6. CASE P!ParseElse
    <3>1. P!At("else") /\ P!Lookahead({"else"}) /\ P!Go(P!Braced, 1)
      BY <2>6, Zenon DEF P!ParseElse, P!Do
    <3> QED BY <2>1, <3>1, GoneOne
  <2> QED BY <1>3, <2>3, <2>4, <2>5, <2>6
<1>4. CASE P!ParseFunc
  <2> DEFINE items == <<P!Keep("id"), P!Match("("), <<"params">>, P!Match("->"), P!Keep("id")>>
  <2>1. P!At("func") /\ P!Go(items \o P!Braced, 0)
    BY <1>4, Zenon DEF P!ParseFunc, P!Do
  <2>2. Shaped(<<P!Keep("id"), P!Match("("), <<"params">> >>) /\ Shaped(<<P!Match("->"), P!Keep("id")>>)
    BY InnerItems, ShapedThree, ShapedTwo
  <2>3. Shaped(items)
    BY <2>2, FiveItems, Zenon
  <2> HIDE DEF items
  <2>4. Shaped(items \o P!Braced)
    BY <2>3, ShapedParts, ShapedBoth, Zenon
  <2> QED BY <2>1, <2>4, Gone
<1>5. CASE P!ParseType
  <2>1. P!At("type") /\ P!Go(<<P!Keep("id"), P!Match("{"), <<"attributes">> >>, 0)
    BY <1>5, Zenon DEF P!ParseType, P!Do
  <2>2. Shaped(<<P!Keep("id"), P!Match("{"), <<"attributes">> >>)
    BY InnerItems, ShapedThree
  <2> QED BY <2>1, <2>2, Gone
<1>6. CASE P!ParseAsm
  <2>1. P!At("asm") /\ P!Go(<<>>, 0)
    BY <1>6, Zenon DEF P!ParseAsm, P!KeepToken
  <2> QED BY <2>1, ShapedNone, Gone
<1>7. CASE P!ParseDeclaration
  <2>1. P!At("declaration") /\ P!Go(<<P!Match(":"), P!Keep("id"), <<"init">> >>, 0)
    BY <1>7, Zenon DEF P!ParseDeclaration, P!KeepToken
  <2>2. Shaped(<<P!Match(":"), P!Keep("id"), <<"init">> >>)
    BY InnerItems, ShapedThree
  <2> QED BY <2>1, <2>2, Gone
<1>8. CASE P!ParseAssignment
  <2>1. P!At("assignment") /\ P!Go(<< <<"variable">>, P!Match("="), P!Expr>>, 0)
    BY <1>8, Zenon DEF P!ParseAssignment, P!Do
  <2>2. Shaped(<< <<"variable">>, P!Match("="), P!Expr>>)
    BY InnerItems, ShapedThree DEF P!Expr
  <2> QED BY <2>1, <2>2, Gone
<1>9. CASE P!ParseVariable
  <2>1. PICK items \in {<<P!Match("."), <<"attribute">> >>, <<>>} : P!Go(items, 0)
    BY <1>9, Zenon DEF P!ParseVariable, P!KeepToken
  <2>2. Shaped(<<P!Match("."), <<"attribute">> >>)
    BY InnerItems, ShapedTwo
  <2>3. Shaped(items) /\ P!At("variable")
    BY <1>9, <2>2, ShapedNone, Zenon DEF P!ParseVariable
  <2> QED BY <2>1, <2>3, Gone
<1>10. CASE P!ParseReturn
  <2>1. PICK items \in {<<P!Expr>>, <<>>} : P!Go(items, 0)
    BY <1>10, Zenon DEF P!ParseReturn, P!Do
  <2>2. Shaped(<<P!Expr>>)
    BY InnerItems, ShapedOne DEF P!Expr
  <2>3. Shaped(items) /\ P!At("return")
    BY <1>10, <2>2, ShapedNone, Zenon DEF P!ParseReturn
  <2> QED BY <2>1, <2>3, Gone
<1>11. CASE P!ParseExit
  <2>1. P!At("exit") /\ P!Go(<<P!Expr>>, 0)
    BY <1>11, Zenon DEF P!ParseExit, P!Do
  <2>2. Shaped(<<P!Expr>>)
    BY InnerItems, ShapedOne DEF P!Expr
  <2> QED BY <2>1, <2>2, Gone
<1>12. CASE P!ParseCall
  <2> DEFINE items == <<P!Match("("), <<"args">>, <<"collect", Len(kept) + 1>> >>
  <2>1. P!At("call") /\ P!Go(items, 0)
    BY <1>12, Zenon DEF P!ParseCall, P!KeepToken
  <2>2. Shaped(items)
    BY InnerItems, ShapedThree
  <2> HIDE DEF items
  <2> QED BY <2>1, <2>2, Gone
<1> QED BY <1>1, <1>2, <1>3, <1>4, <1>5, <1>6, <1>7, <1>8, <1>9, <1>10, <1>11, <1>12

\* The loops: their next turn, or what is behind them.
LEMMA ListSteps ==
  ASSUME Parsing,
         \/ P!DoKeep \/ P!DoConsume \/ P!BodyEnd \/ P!NoElse \/ P!Params \/ P!NoParams \/ P!More \/ P!NoMore
         \/ P!Attributes \/ P!NoAttributes \/ P!Initialized \/ P!NotInitialized
         \/ P!VariableAttribute \/ P!Args \/ P!NoArgs \/ P!Collect
  PROVE  Parsing'
<1>1. CASE P!DoKeep
  <2>1. P!At("keep") /\ P!Lookahead({P!Item[2]}) /\ P!Go(<<>>, 1)
    BY <1>1, Zenon DEF P!DoKeep
  <2>2. IsInner(P!Item) /\ P!Item[1] = "keep"
    BY <2>1, ItemIs DEF P!At, P!Item
  <2>3. "EOF" \notin {P!Item[2]}
    BY <2>2 DEF IsInner
  <2> QED BY <2>1, <2>3, ShapedNone, GoneOne
<1>2. CASE P!DoConsume
  <2>1. P!At("consume") /\ P!Go(<<>>, 1)
    BY <1>2, Zenon DEF P!DoConsume, P!Do
  <2>2. Head(todo)[1] = "consume"
    BY <2>1 DEF P!At
  <2>3. todo[1][1] = "consume"
    BY <2>2, ItemIs
  <2>4. la <= Len(input) + 1
    BY <2>3 DEF Parsing
  <2> QED BY <2>1, <2>2, <2>4, ShapedNone, GoKeeps
<1>3. CASE P!BodyEnd \/ P!NoElse \/ P!NotInitialized \/ P!Collect
  <2>1. PICK name \in {"body", "else", "init", "collect"} : P!At(name) /\ P!Go(<<>>, 0)
    BY <1>3, Zenon DEF P!BodyEnd, P!NoElse, P!NotInitialized, P!Collect, P!Do
  <2> QED BY <2>1, ShapedNone, Gone
<1>4. CASE P!NoParams \/ P!NoAttributes \/ P!NoArgs \/ P!VariableAttribute
  <2>1. PICK name \in {"params", "attributes", "args", "attribute"} :
          P!At(name) /\ P!Go(<<>>, 1) /\ (P!Lookahead({")"}) \/ P!Lookahead({"}"}) \/ P!Lookahead({"id"}))
    BY <1>4, Zenon DEF P!NoParams, P!NoAttributes, P!NoArgs, P!VariableAttribute, P!Do
  <2>2. PICK type \in {")", "}", "id"} : P!Lookahead({type})
    BY <2>1
  <2>3. "EOF" \notin {type}
    OBVIOUS
  <2> QED BY <2>1, <2>2, <2>3, ShapedNone, GoneOne
<1>5. CASE P!Params
  <2> DEFINE items == <<P!Match("id"), <<"declaration">>, <<"more", "params">> >>
  <2>1. P!At("params") /\ P!Go(items, 0)
    BY <1>5, Zenon DEF P!Params, P!Do
  <2>2. Shaped(items)
    BY InnerItems, ShapedThree
  <2> HIDE DEF items
  <2> QED BY <2>1, <2>2, Gone
<1>6. CASE P!More
  <2>1. P!At("more") /\ P!Lookahead({","}) /\ P!Go(<<Tail(P!Item)>>, 1)
    BY <1>6, Zenon DEF P!More, P!Do
  <2>2. IsInner(P!Item) /\ P!Item[1] = "more"
    BY <2>1, ItemIs DEF P!At, P!Item
  <2>3. Tail(P!Item) \in {<<"params">>, <<"args">>}
    BY <2>2 DEF IsInner
  <2>4. Shaped(<< <<"params">> >>) /\ Shaped(<< <<"args">> >>)
    BY ShapedParts
  <2>5. Shaped(<<Tail(P!Item)>>)
    BY <2>3, <2>4, Zenon
  <2> QED BY <2>1, <2>5, GoneOne
<1>7. CASE P!NoMore
  <2>1. P!At("more") /\ P!Go(<<P!Match(")")>>, 0)
    BY <1>7, Zenon DEF P!NoMore, P!Do
  <2>2. Shaped(<<P!Match(")")>>)
    BY InnerItems, ShapedOne
  <2> QED BY <2>1, <2>2, Gone
<1>8. CASE P!Attributes
  <2> DEFINE items == <<P!Keep("id"), P!Match(":"), P!Keep("id"), P!Match(";"), P!Item>>
  <2>1. P!At("attributes") /\ P!Go(items, 0) /\ P!Item[1] = "attributes"
    BY <1>8, Zenon DEF P!Attributes, P!Do, P!At, P!Item
  <2>2. IsInner(P!Item)
    BY <2>1, ItemIs DEF P!Item
  <2>3. Shaped(<<P!Keep("id"), P!Match(":"), P!Keep("id")>>)
    BY InnerItems, ShapedThree
  <2>4. Shaped(<<P!Match(";"), P!Item>>)
    BY <2>1, <2>2, InnerItems, ShapedTwo
  <2>5. Shaped(items)
    BY <2>3, <2>4, FiveItems, Zenon
  <2> HIDE DEF items
  <2> QED BY <2>1, <2>5, Gone
<1>9. CASE P!Initialized
  <2>1. P!At("init") /\ P!Lookahead({"="}) /\ P!Go(<<P!Expr>>, 1)
    BY <1>9, Zenon DEF P!Initialized, P!Do
  <2>2. Shaped(<<P!Expr>>)
    BY InnerItems, ShapedOne DEF P!Expr
  <2> QED BY <2>1, <2>2, GoneOne
<1>10. CASE P!Args
  <2>1. P!At("args") /\ P!Go(<<P!Expr, <<"more", "args">> >>, 0)
    BY <1>10, Zenon DEF P!Args, P!Do
  <2>2. Shaped(<<P!Expr, <<"more", "args">> >>)
    BY InnerItems, ShapedTwo DEF P!Expr
  <2> QED BY <2>1, <2>2, Gone
<1> QED BY <1>1, <1>2, <1>3, <1>4, <1>5, <1>6, <1>7, <1>8, <1>9, <1>10

\* Behind level n there are the loops of the levels from 4 down to n.
LEMMA ShapedLoops ==
  ASSUME NEW n \in 1..4
  PROVE  Shaped(<< <<"unary", 0>> >> \o [i \in 1..(5 - n) |-> <<"loop", 5 - i, FALSE>>])
<1> DEFINE loop(i) == <<"loop", 5 - i, FALSE>>
           s == [i \in 1..(5 - n) |-> loop(i)]
<1>1. \A i \in 1..(5 - n) : 5 - i \in 1..4
  OBVIOUS
<1>2. \A i \in 1..(5 - n) : IsInner(loop(i)) /\ loop(i)[1] = "loop"
  BY <1>1, InnerItems
<1> HIDE DEF loop
<1>3. 5 - n \in Nat
  OBVIOUS
<1>4. s \in Seq({loop(i) : i \in 1..(5 - n)}) /\ Len(s) = 5 - n
      /\ \A i \in 1..(5 - n) : s[i] = loop(i)
  BY <1>3
<1> HIDE DEF s
<1>5. IsList(s)
  BY <1>4, SeqIsList
<1>6. s[1][1] # "consume"
  <2>1. 1 \in 1..(5 - n)
    OBVIOUS
  <2> QED BY <1>2, <1>4, <2>1
<1>7. \A i \in 2..Len(s) : Follows(s[i - 1], s[i])
  <2> SUFFICES ASSUME NEW i \in 2..Len(s) PROVE s[i][1] = "loop"
    BY DEF Follows
  <2>1. i \in 1..(5 - n)
    BY <1>3, <1>4
  <2> QED BY <1>2, <1>4, <2>1
<1>8. Shaped(s)
  BY <1>2, <1>4, <1>5, <1>6, <1>7 DEF Shaped
<1>9. Shaped(<< <<"unary", 0>> >>)
  BY InnerItems, ShapedOne
<1>10. Shaped(<< <<"unary", 0>> >> \o s)
  BY <1>8, <1>9, ShapedBoth, Zenon
<1> QED BY <1>10 DEF s, loop

\* The procedures of the expressions.
LEMMA ExpressionSteps ==
  ASSUME Parsing,
         \/ P!Level \/ P!Loop \/ P!LoopEnd \/ P!Combine \/ P!Unary \/ P!Replaced \/ P!UnaryEnd \/ P!Prefix
         \/ P!PrimaryLeaf \/ P!PrimaryName \/ P!PrimaryParen \/ P!Paren
  PROVE  Parsing'
<1>1. CASE P!Level
  <2> DEFINE items == << <<"unary", 0>> >> \o [i \in 1..(5 - P!Item[2]) |-> <<"loop", 5 - i, FALSE>>]
  <2>1. P!At("level") /\ P!Go(items, 0)
    BY <1>1, Zenon DEF P!Level, P!Do
  <2>2. IsInner(P!Item) /\ P!Item[1] = "level"
    BY <2>1, ItemIs DEF P!At, P!Item
  <2>3. P!Item[2] \in 1..4
    BY <2>2 DEF IsInner
  <2>4. Shaped(items)
    BY <2>3, ShapedLoops, Zenon
  <2> HIDE DEF items
  <2> QED BY <2>1, <2>4, Gone
<1>2. CASE P!Loop
  <2> DEFINE n == P!Item[2]
             items == << <<"level", n>>, <<"combine", n, la, P!Item[3]>>, <<"loop", n, TRUE>> >>
  <2>1. P!At("loop") /\ P!Lookahead(P!Ops[n]) /\ P!Go(items, 1)
    BY <1>2, Zenon DEF P!Loop, P!Do
  <2>2. IsInner(P!Item) /\ P!Item[1] = "loop"
    BY <2>1, ItemIs DEF P!At, P!Item
  <2>3. n \in 1..4
    BY <2>2 DEF IsInner
  <2> HIDE DEF n
  <2>4. "EOF" \notin P!Ops[n]
    BY <2>3 DEF P!Ops
  <2>5. Shaped(items)
    BY <2>3, InnerItems, ShapedThree
  <2> HIDE DEF items
  <2> QED BY <2>1, <2>4, <2>5, GoneOne
<1>3. CASE P!LoopEnd \/ P!Combine \/ P!Prefix \/ P!Paren
  <2>1. PICK name \in {"loop", "combine", "prefix", "paren"} : P!At(name) /\ P!Go(<<>>, 0)
    BY <1>3, Zenon DEF P!LoopEnd, P!Combine, P!Prefix, P!Paren, P!Do
  <2> QED BY <2>1, ShapedNone, Gone
<1>4. CASE P!Unary
  <2>1. P!At("unary") /\ P!Lookahead(P!PrefixOps) /\ P!Go(<< <<"unary", 0>>, <<"replace", la>> >>, 1)
    BY <1>4, Zenon DEF P!Unary, P!Do
  <2>2. Shaped(<< <<"unary", 0>>, <<"replace", la>> >>)
    BY InnerItems, ShapedTwo
  <2>3. "EOF" \notin P!PrefixOps
    BY DEF P!PrefixOps
  <2> QED BY <2>1, <2>2, <2>3, GoneOne
<1>5. CASE P!Replaced
  <2>1. P!At("replace") /\ P!Go(<< <<"unary", P!Item[2]>> >>, 0)
    BY <1>5, Zenon DEF P!Replaced
  <2>2. Shaped(<< <<"unary", P!Item[2]>> >>)
    BY InnerItems, ShapedOne
  <2> QED BY <2>1, <2>2, Gone
<1>6. CASE P!UnaryEnd
  <2> DEFINE items == << <<"primary">> >> \o (IF P!Item[2] = 0 THEN <<>> ELSE << <<"prefix", P!Item[2]>> >>)
  <2>1. P!At("unary") /\ P!Go(items, 0)
    BY <1>6, Zenon DEF P!UnaryEnd, P!Do
  <2>2. Shaped(<< <<"primary">> >>) /\ Shaped(<< <<"prefix", P!Item[2]>> >>) /\ Shaped(<<>>)
    BY InnerItems, ShapedOne, ShapedNone
  <2>3. Shaped(IF P!Item[2] = 0 THEN <<>> ELSE << <<"prefix", P!Item[2]>> >>)
    BY <2>2, Zenon
  <2>4. Shaped(items)
    BY <2>2, <2>3, ShapedBoth, Zenon
  <2> HIDE DEF items
  <2> QED BY <2>1, <2>4, Gone
<1>7. CASE P!PrimaryLeaf
  <2>1. P!At("primary") /\ P!Lookahead({"str", "num"}) /\ P!Go(<<>>, 1)
    BY <1>7, Zenon DEF P!PrimaryLeaf
  <2> QED BY <2>1, ShapedNone, GoneOne
<1>8. CASE P!PrimaryName
  <2>1. PICK name \in {"call", "variable"} :
          P!At("primary") /\ P!Lookahead({"id"}) /\ P!Go(<< <<name>> >>, 1)
    BY <1>8, Zenon DEF P!PrimaryName, P!Do
  <2>2. Shaped(<< <<name>> >>)
    BY ShapedParts
  <2> QED BY <2>1, <2>2, GoneOne
<1>9. CASE P!PrimaryParen
  <2>1. P!At("primary") /\ P!Lookahead({"("}) /\ P!Go(<<P!Expr, P!Match(")"), <<"paren">> >>, 1)
    BY <1>9, Zenon DEF P!PrimaryParen, P!Do
  <2>2. Shaped(<<P!Expr, P!Match(")"), <<"paren">> >>)
    BY InnerItems, ShapedThree DEF P!Expr
  <2> QED BY <2>1, <2>2, GoneOne
<1> QED BY <1>1, <1>2, <1>3, <1>4, <1>5, <1>6, <1>7, <1>8, <1>9

LEMMA ParsingStep == Parsing /\ P!Next => Parsing'
BY EndSteps, LoopSteps, MatchStep, StatementSteps, ListSteps, ExpressionSteps, Zenon DEF P!Next

-----------------------------------------------------------------------------
(* The front end.                                                          *)

LEMMA TypeStep == Inv /\ TypeOK /\ [Next]_lexVars => TypeOK'
<1> SUFFICES ASSUME Inv, TypeOK, [Next]_lexVars PROVE TypeOK'
  OBVIOUS
<1>1. CASE UNCHANGED lexVars
  BY <1>1 DEF lexVars, TypeOK, End
<1>2. CASE Next
  <2>1. Step /\ tokens \in Seq(Token)
    BY <1>2, EveryStep DEF Inv
  <2>2. End' = End /\ iter' \in 1..End /\ iter \in 1..End
    BY <2>1 DEF Step, End, TypeOK
  <2>3. CASE Skipped
    BY <2>2, <2>3 DEF Skipped, TypeOK
  <2>4. CASE Added
    <3>1. PICK type \in Types :
            tokens' = Append(tokens, [type |-> type, from |-> iter, to |-> iter'])
      BY <2>4 DEF Added
    <3> DEFINE t == [type |-> type, from |-> iter, to |-> iter']
    <3>2. t.from = iter /\ t.to = iter' /\ tokens' = Append(tokens, t)
      BY <3>1
    <3> HIDE DEF t
    <3>3. /\ Len(tokens) \in Nat /\ Len(tokens') = Len(tokens) + 1
          /\ tokens'[Len(tokens) + 1] = t
          /\ \A i \in 1..Len(tokens) : tokens'[i] = tokens[i]
      BY <2>1, <3>2
    <3>4. ASSUME NEW i \in 1..Len(tokens')
          PROVE  tokens'[i].from \in 1..End /\ tokens'[i].to \in 1..End
      <4>1. CASE i = Len(tokens) + 1
        BY <2>2, <3>2, <3>3, <4>1
      <4>2. CASE i # Len(tokens) + 1
        <5>1. i \in 1..Len(tokens)
          BY <3>3, <4>2
        <5> QED BY <3>3, <5>1 DEF TypeOK
      <4> QED BY <4>1, <4>2
    <3> QED BY <2>2, <3>4 DEF TypeOK
  <2> QED BY <2>1, <2>3, <2>4 DEF Step
<1> QED BY <1>1, <1>2

\* The output file is opened only when there is a tree, and -1 says that there is none.
OutputNeedsTree == /\ output # "old" => result = "ast"
                   /\ status = "-1" => result = "error" /\ output = "old"

\* The parser waits until the lexer is done, and the driver until the parser is.
Driving == /\ Parsing
           /\ entry \in {"path", "tokens"}
           /\ entry = "path" => todo = << <<"begin">> >> /\ la = 0
           /\ output \in {"old", "empty", "written"}
           /\ status \in {"running", "aborted", "0", "-1"}
           /\ OutputNeedsTree
           /\ output # "old" => status # "running"

LEMMA DrivingInit == FrontInit => Driving
<1> SUFFICES ASSUME FrontInit PROVE Driving
  OBVIOUS
<1>1. la = 0 /\ todo = << <<"begin">> >> /\ result = "running" /\ output = "old" /\ status = "running"
      /\ entry \in {"path", "tokens"}
  BY DEF FrontInit, P!Init
<1>2. Len(input) \in Nat
  <2>1. CASE input = <<>>
    BY <2>1
  <2>2. CASE input \in Vectors
    <3>1. input \in Seq(STRING)
      BY <2>2, VectorsAssumption
    <3> QED BY <3>1
  <2> QED BY <2>1, <2>2 DEF FrontInit
<1> DEFINE s == << <<"begin">> >>
<1>3. /\ s \in Seq({<<"begin">>}) /\ Len(s) = 1 /\ s[1] = <<"begin">> /\ s # <<>>
      /\ <<"begin">>[1] = "begin"
  OBVIOUS
<1> HIDE DEF s
<1>4. IsList(s)
  BY <1>3, SeqIsList
<1>5. Stacked(s)
  BY <1>3, <1>4 DEF Stacked
<1>6. todo = s /\ s[1][1] # "consume"
  BY <1>1, <1>3 DEF s
<1>7. la \in 0..(Len(input) + 2)
  BY <1>1, <1>2
<1>8. Parsing
  BY <1>1, <1>2, <1>3, <1>5, <1>6, <1>7 DEF Parsing
<1> QED BY <1>1, <1>8 DEF Driving, OutputNeedsTree

LEMMA DrivingStep == Inv /\ Driving /\ [FrontNext]_allVars => Driving'
<1> SUFFICES ASSUME Inv, Driving, [FrontNext]_allVars PROVE Driving'
  OBVIOUS
<1>1. CASE UNCHANGED <<entry, input, parserState, driverState>>
  BY <1>1 DEF Driving, Parsing, Stacked, IsList, OutputNeedsTree, parserState, driverState
<1>2. CASE Help \/ CannotOpen \/ Refuse \/ NoOutput \/ Compile
  <2>1. UNCHANGED <<entry, input, la, todo, result>>
    BY <1>2, Zenon DEF Help, CannotOpen, Refuse, NoOutput, Compile, Return, parserState
  <2>2. Parsing'
    BY <2>1 DEF Driving, Parsing, Stacked, IsList
  <2>3. /\ status = "running" /\ output = "old"
        /\ status' \in {"running", "aborted", "0", "-1"} /\ output' \in {"old", "empty", "written"}
        /\ output' # "old" => result = "ast" /\ status' # "running"
        /\ status' = "-1" => result = "error" /\ output' = "old"
    BY <1>2 DEF Help, CannotOpen, Refuse, NoOutput, Compile, Return, Driving
  <2> QED BY <2>1, <2>2, <2>3 DEF Driving, OutputNeedsTree
<1>3. CASE ByToken
  <2>1. /\ entry = "path" /\ Ended /\ entry' = "tokens"
        /\ UNCHANGED <<la, todo, result, output, status>>
    BY <1>3, Zenon DEF ByToken, parserState, driverState
  <2>2. Len(input') \in Nat
    <3> DEFINE n == Len(tokens)
               m == IF tokens[n].type = "EOF" THEN n - 1 ELSE n
    <3>1. input' = [i \in 1..m |-> tokens[i].type]
      BY <1>3, Zenon DEF ByToken
    <3>2. n \in Nat /\ n > 0
      BY <2>1 DEF Ended, Inv
    <3>3. m \in Nat
      BY <3>2
    <3> HIDE DEF m
    <3>4. input' \in Seq({tokens[i].type : i \in 1..m})
      BY <3>1, <3>3
    <3> QED BY <3>4
  <2>3. la' \in 0..(Len(input') + 2) /\ la' <= Len(input') + 1 /\ la = 0
    BY <2>1, <2>2 DEF Driving
  <2>4. Parsing'
    BY <2>1, <2>2, <2>3 DEF Driving, Parsing, Stacked, IsList
  <2> QED BY <2>1, <2>4 DEF Driving, OutputNeedsTree
<1>4. CASE Parse
  <2>1. status = "running" /\ entry = "tokens" /\ P!Next /\ UNCHANGED <<entry, output, status>>
    BY <1>4, Zenon DEF Parse, driverState
  <2>2. Parsing'
    BY <2>1, ParsingStep DEF Driving
  <2>3. output = "old"
    BY <2>1 DEF Driving
  <2> QED BY <2>1, <2>2, <2>3 DEF Driving, OutputNeedsTree
<1>5. CASE Lex \/ UNCHANGED allVars
  BY <1>1, <1>5, Zenon DEF Lex, allVars
<1> QED BY <1>2, <1>3, <1>4, <1>5, Zenon DEF FrontNext

\* Whatever the text or the tokens, the parser asks for at most one token behind the first
\* END_OF_FILE, and no procedure returns to nothing.
THEOREM FrontendTypes == FrontSpec => []FrontendTypeOK
<1>1. Starting => TypeOK
  <2> SUFFICES ASSUME Starting PROVE TypeOK
    OBVIOUS
  <2>1. iter \in 1..End
    BY InvInit DEF Inv, Placed
  <2>2. Len(tokens) = 0
    BY DEF Starting
  <2> QED BY <2>1, <2>2 DEF TypeOK
<1>2. TypeOK /\ Driving => FrontendTypeOK
  BY DEF FrontendTypeOK, Driving, Parsing, Stacked, P!TypeOK
<1> QED BY <1>1, <1>2, LexerOfFrontend, InvInit, InvStep, TypeStep, DrivingInit, DrivingStep,
           PTL DEF FrontSpec

\* What an earlier compilation has written is lost only when there is a tree, and main
\* returns -1 only when there is none.
THEOREM NoTreeNoOutput == FrontSpec => []OutputNeedsTree
<1>1. Driving => OutputNeedsTree
  BY DEF Driving
<1> QED BY <1>1, LexerOfFrontend, InvInit, InvStep, DrivingInit, DrivingStep, PTL DEF FrontSpec
================================================================================
