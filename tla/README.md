# KusoLang: a verification development

KusoLang is a small statically typed language; this repository holds its
compiler, Morasu. A source file becomes tokens, tokens become a syntax tree,
and the tree becomes x86-64 assembly for `nasm`. The modules here model all of
this: the driver, the lexer, the parser, the passes over the tree and the code
generator, together with the machine that runs what it emits. TLC checks them on
small inputs, among other things that running the emitted code does what the
program means; TLAPS proves the central facts of the front end, of the first pass, of
expression and statement generation and of the arithmetic they emit, that a
supported program is never refused, and that every function of it returns to its caller.

## The system

| component | files | state | operations |
|---|---|---|---|
| driver | `src/src/main.cpp`, `setup.hpp` | the output file | arguments, then `Parser::parse`, then `Generator::generate` |
| lexer | `src/src/lexer/lexer.cpp` | a cursor over the text, line and column | `tokenize` reads the whole text; the coroutine `by_token` then yields its tokens, and END_OF_FILE for ever |
| parser | `src/src/parser/parser.cpp` | current token and one lookahead | recursive descent, one function per production |
| syntax tree | `ast.hpp`, `ast.cpp` | the tree | none after it is built |
| first pass | `first_pass.cpp` | `_types`, `_functions`, `_currFunc` | `types_pass`, `function_pass` |
| statement generator | `generator.cpp` | `_contexts`, `_functions`, `_currentFunction`, `_label_count`, `_output_code` | `generate` of each statement, `enter_context`, `leave_context` |
| expression generator | `generator.cpp` | `_exprInReg`, the displacements of the variables in the top `Context` | `generate_expression` of each node, `generate_call`, `push`, `pop` |
| context pass | `context_pass.cpp` | | dead code: not in the build, nothing calls it |

They interact by plain calls, in one thread: the driver calls the parser, which
takes its tokens from the lexer's coroutine; it hands the tree to
`Generator::generate`, which runs both first passes and then visits the tree
again; the statement generator calls the expression generator, and both read the
`FuncInfo` that the first pass computed and share the top `Context`. A
`std::exception` anywhere below `Generator::generate` ends the generation, is
logged, and leaves an empty output file.

There are no threads, no messages and nothing is persisted. What is hard here is
different. The compiler runs at one time and the code it emits at another, and
its correctness is an agreement between the two: at every point of the text it
emits, the generator's idea of the stack (`disp` of each variable, `_exprInReg`,
the registers that hold a value) has to be what the machine has when it gets
there. The generator keeps this idea up to date by side effects spread over all
handlers, and a handler that misses one breaks code emitted much later. Each part
is correct if:

* expression generator: the value of the tree ends up in RAX, the stack is where
  it was, no quadword of the frame changed, a call gets its arguments;
* first pass: it accepts the right programs, types and frames are laid out
  without overlap, what is known of a function is never lost, callers and
  callees agree on where arguments are;
* statement generator: a variable read is the variable last written, labels are
  unique and every jump lands, a function returns to its caller;
* parser: it accepts exactly the programs of the language, loses no token,
  groups operators by their levels, and ends on every input;
* lexer: the tokens are the text without blanks and comments, and the list ends;
* driver: an earlier output is given up only for a program, and every input is
  answered.

## Modules

* `X64` is the vocabulary: quadwords, registers, the order of the argument
  registers, a memory that knows which cells are live.
* `ExprGen` is the expression generator and the machine. `work` is the C++ call
  stack; each action is one entry into, or return into, a handler, and it executes
  at once what the handler emits. Since an expression has no jumps, emission and
  execution order are the same. The tree is not given in advance: a `node` item
  may become any production that `ast.hpp` allows at its level, so one behaviour
  is one tree and all trees are covered. `Level` is the nesting Equality,
  Comparison, Term, Factor, Unary, Primary. `home`, `want` and `clean` are
  history: where a variable really lives, what the subtree just finished means,
  and whether the tree so far avoids the constructs the generator gets wrong.
  Values are symbolic terms: the property is that the right things are combined in
  the right order; what an instruction does to bits is `Arithmetic`.
* `Arithmetic` is the other half of an operator: the few instructions at the end of
  its handler (`Emitted`), executed on words of `2 * Half` values with the flags, the
  double-width dividend and the byte register of the machine. RAX holds the left
  side and the top of the stack the right one, which is what `ExprGen` guarantees;
  RCX and RDX hold anything. `MCArithmetic` gives the words, `ArithmeticProofs` the
  theorems.
* `MCExprGen` gives the functions that calls may name.
* `CallStack` holds lemmas on sequences used as stacks, `ExprGenProofs` the
  theorems about `ExprGen`.
* `FirstPass` is `types_pass` and `function_pass` over a program `ast`: one action
  for each statement, attribute and parameter, one for each exception. `types` and
  `typeIDs` are the two maps of `TypeContainer`, `functions` is `_functions`,
  `newType` and `newFunc` the locals of the handlers.
* `MCFirstPass` gives the programs: every sequence of at most `MaxStatements` of
  ten statements, chosen to come twice, too early and too late.
* `FirstPassProofs` has the theorems about the frames and types that `FirstPass`
  lays out, `FirstPassAcceptance` those about which programs it accepts.
* `Generator` is the statement half of the generator, composed with `FirstPass`
  (`FP == INSTANCE FirstPass`): `Passes` runs the first pass, then every action
  is one statement handler, or the rest of one behind the body it contains. The
  C++ call stack is flattened into `todo`: a loop's handler leaves a `loop` item
  behind its body, a function an `endfunc` item. `contexts` is `_contexts`,
  `generated` is `_functions` (label and argument count), `code` is
  `_output_code` as a sequence of records, one for each group of instructions that
  nothing can come between (`enter` for all the pushes of `enter_context`,
  `return` for the pops of `leave_context` and `ret`). An argument is an `eval` and a `mov`,
  or a `push` from the seventh on, which shifts all displacements of the Context and which
  nothing takes back (`Growth`). Every exception is an action
  or a disjunct that sets `thrown`. Expressions are numbers, variables, one
  comparison and calls: the shapes a statement can tell apart; that the code of
  one without a call is one step that leaves its value in RAX and the stack alone is what
  `ExprGenProofs` proves of them. `Undefined` is `_currentFunction.top()` or a `context()` that does
  not exist: what happens then is not defined and the model stops there. `Within`, the
  statements inside a statement, is recursive, so it is a constant that
  `WithinAssumption` defines and `MCExecution` gives. `GeneratorProofs` has the theorems
  about labels and stacks.
* `Source` is the abstract specification: what a program means, as a stack of
  activations with an environment and the statements left, and no code at all.
* `Execution` extends `Generator` with the machine: `pc`, registers, the stack
  memory, and `frames`, a history of the active calls. `Execute` has one action for
  each kind of instruction group. It implements `Source` under the mapping at its
  end: an activation's environment is read from the slots of its frame, its
  remaining statements from the place it will go on at, the result of a call from
  RAX.
  Only supported programs begin to run; all others are compiled and stop there.
* `ExecutionProofs` joins what is proved of the first pass to what is proved of the
  generator, the theorems that need both, and runs the result.
* `MCExecution` gives the programs. Right and wrong ones, with every kind of
  statement nested up to twice, several mains, nested functions, returns and
  declarations at top level; and those of a family of four functions that are
  `Supported`.
* `Parser` is the recursive descent. `todo` is again the C++ call stack; an item
  is what an active procedure has left to do, `la` is the place of the token in
  `_lookahead`, and `token`, which all procedures share by reference, is the one
  before it. Every action is a procedure up to its first call, one turn of a loop,
  or one `match`. The tokens are types; a tree has the places of the tokens it
  holds.
* `Lexer` is `tokenize`. An action is one token, or one turn of the loop that skips
  blanks and comments; `iter` is `_iter`, and a token is its type with the places
  where it starts and ends. The second half says what a lexeme and a comment are
  without a cursor.
* `Frontend` extends `Lexer`, instantiates `Parser` (`P == INSTANCE Parser`) and adds
  the driver: `main` with its early returns and the exceptions nobody catches,
  `by_token` with its endless END_OF_FILE, the two entries of the parser, and when the
  output file is truncated. What `Generator::generate` then does is one action here.
* `Grammar` says what the language is without any parser (`IsStatements`, `IsExpr`, ...),
  and what the parser owes it. It alone of the modules on the front end needs RECURSIVE
  operators, so `Frontend` and `Parser` can be proved about.
* `FrontendProofs` has the theorems on the lexer, the parser's place in the tokens and the
  driver.
* `MCFrontend` gives texts and token lists.

### The clean fragment

`ExprGen` models every expression, and several come out wrong. `clean` says that
a tree is outside the ones known to:

* it has no `MOD`, for which nothing is emitted, no `NOT`, for which `NEG` is, and
  reads no attribute, whose offset is ignored;
* a call comes only while no enclosing call has an argument in a register (placing its
  own would overwrite it) and no variable lives in `RDI` (placing the first one would
  overwrite that), has at most six arguments, and comes after something that set
  `_exprInReg`;
* an operator comes only while no enclosing call has an argument in `RDX` or `RCX`.

`DispTracksStack` holds for all trees, the other properties for clean ones. It says nothing
of what is computed, so nothing of `MOD` either. `exprgen_call_args` shows how a
call fails outside of the fragment.

### The supported fragment

Likewise `Execution!Supported` says which programs are promised to run as they are
meant. Each conjunct keeps out something the code gets wrong or leaves open:

* every body ends with a return, main's with an exit (otherwise execution runs on
  into the next function), and a return comes last only (`generate_return` pops the
  compile-time Context, so what follows it in the text has none);
* variables are of type `int` (a frame has one quadword for each variable, whatever
  its type), are declared once, outside ifs and loops (the first pass does not look
  there), and before they are used (a declaration re-bases the variable's address);
* at most one parameter (all are expected in RDI), of type `int` (no other type is
  declared, and the first pass refuses one it does not know), and if the body calls anything
  it has a statement that makes the first pass mark the function dirty, so that the
  parameter is saved;
* calls go to functions that come earlier or to the function itself, with the right
  number of arguments; a call without arguments whose value is used goes to an
  earlier function that leaves `_exprInReg` set.

## What is checked

| run | shows |
|---|---|
| `exprgen_small` | every tree of at most two interior nodes over all operators, leaves and errors: type invariant, displacements, and for clean trees result, balance, frame, arguments |
| `exprgen_deep` | trees of up to four interior nodes over two operators of different code shape, unary minus, parentheses and calls of zero, one, two, six and seven arguments: saved operands are found again under nesting, all registers are filled, and the displacements are right although the seventh argument stays on the stack |
| `exprgen_call_args` | violated: in `h(1, g(2))` the call of `g` overwrites the register that holds the first argument of `h` (README.md:184) |
| `firstpass` | ten statements in every order up to four: acceptance, layout of types and frames, ids, monotonicity, termination |
| `firstpass_params` | violated: parameters are all expected in RDI |
| `firstpass_dirty` | violated: a call in a declaration or a return does not make a function dirty |
| `compile` | right and wrong programs: generation ends with a written or a refused program, undefined behaviour is reached only by programs that are not structured, no label is defined twice, in a written program every jump and call has a label, and what is stored to a variable stays in its frame as long as nothing but the frame is on the stack. Supported programs, which are run: they are not refused, fetch no value with a pop, which would take a quadword of the frame, the generator has the right Context everywhere, every RET finds its own return address, and every instruction is a step of `Source` or none |
| `execution_return` | violated: a return inside an if makes the rest of the function unknown to the generator, and the program is refused |
| `generator_nasm` | violated: the call of the README's example names a label that NASM does not know (README.md:189 to 197) |
| `frontend` | texts: the tokens tile the text, nothing ends a string, every step advances. Token lists: the parser accepts exactly the language, loses no token, keeps precedence. Both: an answer always comes, and only a program costs the old output |
| `frontend_readme` | violated: `return -a;`, the README's example of a function, is refused (README.md:173 to 175) |
| `arithmetic` | every operator on every pair of words of five bits: the result is right for signed numbers, and only a division by zero or of a negative number traps |

Bounds. Two operators are enough for one to be the left or the right side of the
other, which is where a save can be lost; four let a saved side cross a call and a
parenthesis. The generator treats all operators but DIV and MOD alike, so the deep
run keeps SUB and DIV, whose operands do not commute. Seven is the first number of
arguments that overflows the registers. A call costs one node and another one for each
three arguments (`Cost`), so that a call of seven still has a node left for what
surrounds or fills it. Four statements allow a type, one that
uses it, a function and main in any order, or two duplicates and main. The proofs
have no such bounds.

`compile` puts up to two statements (`MaxBody`), each with up to two levels of
statements inside, after a declaration: two labels of an if, of a loop, of an if
around a loop and of a sequence of them are all compared. Calls of a function with eight
parameters (`Overflowing`) push two arguments, with and without a Context to push in, from
every kind of statement that has a value. The programs that are run
have a function `f` of up to two statements (`MaxCallee`) before its return, which may
call itself, `g` that calls `f`, `h` that nobody calls, and three mains that call them
from declarations, assignments, conditions, arguments and loops; at most four calls are
active (`MaxFrames`), so a recursion is cut after its third activation: three are enough
for a caller that is itself a callee and is called by itself. Values are numbers up to 2
and the junk a bare return leaves.

`frontend` has all texts of up to five pieces (`MaxText`) over four alphabets: slashes,
stars and ends of lines, quotes, asm with its braces, and letters, digits and a character
of no kind; a comment or a string with something before, in and behind it needs no more.
Four programs with one character missing, replaced or added join them to longer ones. It
has all token sequences of at most four tokens (`MaxExpr`) as an expression, chains of up
to four operators of all levels in all orders, every statement at top level and inside
main, all pairs of statements, and of each of them every variant with one token missing,
replaced or inserted: a branch that fetches a token too few or too many differs from the
language on one of these. The language of `AcceptsExactly` is not in all things the README's.
Where both speak and differ, it has what the code decides: every statement has a semicolon
behind it, a `while` too (against README.md:139 to 141), and `/` and `%` are operators while a
backslash is none (against README.md:116). Inputs that are programs only as the README has
it are left out of the property (`OnlyDocumented`) and reported below; both texts are among
those of the run (`OtherwiseInReadme`). Where the README is silent: a comma may end
a list, and one token behind the last statement is never looked at. Prefix operators are
left out of it and of `NothingIsLost`, because the parser does not read them as meant
(`frontend_readme`).

`arithmetic` has words of five bits (`Half`) with a byte of two (`Bytes`): there are
numbers beyond a byte and below zero, and sums, differences and products overflow in
both directions. The proofs hold for any width.

Fairness is weak, and for the whole next-state relation, in `FirstPass` and `Frontend`,
and for `Compile` in `Execution`: they are loops of a single thread that nothing can
block, over a finite tree, a file of finite size or a stream that always has a token.
The machine has no fairness; a compiled program may loop for ever. All of these stop by
design, so deadlock is not checked.

## What is proved

TLAPS proves the following for all values of the constants (every set of variables
and functions, every arity, every size of tree and frame, every program).

* `DisplacementsCorrect`: `[]DispTracksStack`. It is inductive together with the
  shape of the state: each push and pop moves the depth and all displacements alike.
* `CleanInvHolds`: `[]CleanInv`, from which follow `ExpressionsCorrect`,
  `FrameIsKept` and `CallsReceiveTheirArguments`. Correctness of the final value is
  not inductive. The invariant says for every waiting item at which depth it
  expects to run, that the items above it never reach below that depth, that the
  right side of each waiting operator lies at the position it will pop, that
  placed arguments are still in their registers and that inside a call the outer
  one has placed none. A step changes only the end of `work` and the end of the
  stack; `CallStack` reduces "for every item" to the two or three that changed.
* `FramesFit`: `[]FrameFits`, by an invariant that the next free displacement of a
  function equals the size counted for it and every local ends at or before it.
* `AttributesFit` and `TypesAreNamed`: `[]LayoutFits` and `[]IdsNameTypes`. The layout
  that is built (`newType`) satisfies for its attributes what a registered type does, and
  a type id is the position of its only name; a new type is appended, so that no id is
  used before it is given. `FirstPassProofs!TypeCorrect` follows: `[]TypeOK`.
* `AcceptsTheWellFormed`: `[]AcceptsExactly`, both directions of it. The invariant
  (`AcceptInv`) gives the records of each pass their meaning: `typeIDs` has the names
  declared in the part of the program that the first loop has behind it, `functions` those
  of the second one, and that part is well-formed. An exception then is a proof that the
  program is not (`Refusals`), and the end of both loops one that it is (`Acceptance`).
* `FramesMatch`: `[]FramesMatchDeclarations`, from the same invariant and `FramesInv`: the
  locals of a registered function are those of the statements of its body behind the
  loop, its parameters all of its header.
* `InfoGrows`: `InfoOnlyGrows`, which needs that a function is registered only if
  it was not known when its parameters were begun, and that main is not either.
* `LabelsAreUnique` and `JumpsHaveLabels`: `[]LabelsUnique` and `[]JumpsLand`, for every
  program, however its statements nest. A handler that waits for a body owes the labels
  it will define behind it. The invariant (`GInv`) is that a label is in `code` at most
  once or owed by exactly one item of `todo`, never both; that every jump in `code` goes
  to a label of one of these kinds; and that all of them have a number below
  `labelCount`, or below the number of functions. When a program is written, `todo` is
  empty and nothing is owed.
* `NeverUndefined`: `[]StaysDefined`. `_contexts` and `_currentFunction` are two stacks
  that different handlers pop: a return leaves the Context, the end of a function
  `_currentFunction`. The invariant (`NInv`) says that `todo` has two layers (`Layered`):
  what is left of one body, in which a return is the last item before the end of the
  function, and the statements at top level behind it. In the first layer there is a
  function, before its return there is a Context besides the first, and nothing at top level needs
  more than is there.
* `ExecutionProofs!TypeCorrect`: the generator's `[]TypeOK`. A variable in a Context has
  a type that is registered, and `_currentFunction` has functions that are, only because
  the first pass has recorded them: the invariant (`FlowInv`) holds `PassesInv`, the
  conjunction of the first pass's invariants, until both passes are through and `Recorded`,
  which follows from it, from then on (`Composed`). `InOrderLists` shows that the order of a
  `std::map` is a list of the names, each at one place; `FrameFacts` that the Context which
  `enter_context` makes has one variable for each.
* `ContextsAreOwn`: `[]ContextIsTheFunctions`. The generator does not know where in the
  program it is; the invariant does. `Left` is how many items of `todo` belong to the
  function at hand, `Here` is its number in the program, and every item is a statement of
  its body or stands for the rest of one (`OnTrack`). From the header of a function to its
  return the top Context then has the names that the first pass recorded of function number
  `Here` (`WhereInv`): declarations re-base variables but add none, because the first pass
  has seen the same statements.
* `StoresHitTheFrame`: `[]StoresStayInFrame`. Frames are laid out twice, by size in the
  first pass and by count in `enter_context`; for quadwords both agree (`Filled`, an
  invariant of the first pass). `StoreInv` says that all stores so far are inside the last
  frame pushed before them in the text, that in a body that frame is the one of the
  function at hand, and that every variable of the Context is inside it, unless a push or a
  pop that is not one of a frame is in the text (`Moving`): behind one the displacements
  of the Context and the slots of the first pass part, which is why the property asks that
  there is none (`OnlyFramesMove`) and `SupportedGenerates` promises that.
* `SupportedIsGenerated`: `[]SupportedGenerates`. That no pass throws follows from
  `AcceptInv`, since a supported program is well-formed (`SupportedPasses`). For the
  handlers, `PromiseInv` says that the functions generated are exactly those up to `Here`,
  with the number of arguments they declare, and that `_exprInReg` is set once one of them
  that ends in `return` with a leaf is through. Every case of an exception, every pop
  into RAX and every pushed argument then contradicts one conjunct of `Supported` (`PromisedSteps`,
  `PromisedCalls`).
* `SoOfTheWhole`: all of that, and the theorems on labels and stacks, under `ExecSpec`,
  the specification that compiles a program and then runs it.
* `ReturnsAreBalanced`: `[]ReturnsBalanced` of `ExecSpec`, for every supported program, at
  any depth of calls, loops included that never end. It takes two invariants. While compiling,
  `ClosedInv` says of the text what no handler knows: between one header and the next, the
  text is the function of the first, its frame is pushed there, and every jump and loop
  stays inside (`JumpsInv`: a label that an item of `todo` still owes belongs to the
  function at hand); each RET pops as many quadwords as were pushed, because the Context
  it is made from has the names of the one that `enter_context` pushed (`AtHome`, by
  `WhereInv`); behind a RET comes another header (`LeftBehind`), and main leaves by its
  exit. While running, `FramesInv` says that the frames of the active calls lie one
  above the other: the cell where one begins holds the return address that its call
  pushed, that address lies in the caller's function, and there the depth of the stack is
  the caller's frame. A store cannot touch such a cell since it stays in its own frame
  (`StoreInv`).
* `ExprGenProofs!TypeCorrect`: `[]TypeOK`, for which every waiting operator has its level.
* `OperatorsRight`: `[]ResultIsRight`, for any `Half` and `Bytes`, 2^63 and 2^8 among
  them. The invariant says for each kind of operator what the registers and flags hold
  before each instruction. The work is in the lemmas: `RingOfWords` (adding, subtracting
  and multiplying words is doing it to the signed numbers, wrapped), `FlagsOfDifference`
  (sign differs from overflow exactly if the left number is smaller), `LowestByte` (what
  SETcc leaves is what MOVZX reads) and `QuotientBound` (a dividend that is not negative
  is what RDX:RAX is read as, and its quotient fits). `TrapsExplained` follows from the
  same invariant: `[]TrapsOnlyWhereItMust`.
* `TheLexerAdvances`: `EveryStepAdvances`, for every text and every choice of letters,
  digits and blanks that are kept apart. `First` chooses the first of a set of places,
  which exists because less-than on the naturals is well-founded; with it each kind of
  step is either a skip to a place further on or a token. `NothingEndsAString`:
  `[]StringsNeverEnd`, by the invariant that behind a string the cursor is on a quote.
* `TokensTileTheText`: `[]TokensTile`. The invariant (`Tiled`) adds that what lies between
  the last token and the cursor is a gap. `OnlySkipped` shows that what a step passes
  without a token is a blank or a whole comment, so that a gap grows by a gap;
  `OnlyLexemes` has one lemma for each kind of token: what is taken is a lexeme of its type
  and none that starts there is longer, asm blocks and strings included.
* `FrontendTypes`: `[]FrontendTypeOK`. Its bound on `la` is the hard part: a generator that
  has ended must not be asked again, and `consume()` advances without looking. Wherever
  it is called for itself, the procedure before it was a `match` of a token that is not
  END_OF_FILE; the invariant (`Parsing`) says so of all of `todo` (`Shaped`, `Stacked`),
  and a lemma for each group of procedures shows that what it leaves to do has that shape.
* `NoTreeNoOutput`: `[]OutputNeedsTree`, the half of `OldOutputKept` that needs no grammar:
  the output file is opened only when the parser has made a tree, and main
  returns -1 only when it has made none and the old output is there.

The theorems on the front end are about `FrontSpec`, the lexer with the parser and the
driver around it.

Assumed: a called function returns with the stack as it found it and its result in
RAX, and may overwrite every other register; the constants fit together as the
assumptions of the modules that declare them say. Those of `FirstPass` and `Generator`
(`ProgramsAssumption`, `StatementsAssumption`) say what the parser builds: finite lists of
the alternatives of `AST::Statement`, functions with a name that is not main's;
`WithinAssumption` is the definition of `Within`; `NamesAssumption` says that `NameOrder`,
which stands for the order of strings, has every name that a program declares. Those of the
front end say what TLA+ leaves open of strings: that a text is its characters
(`StringsAssumption`), and that the token lists are lists (`VectorsAssumption`). TLC
evaluates all of them on the programs and texts of the runs.

One condition was found missing while proving. `Supported` did not ask for the type of a
parameter, so that a program with a parameter of an unknown type was promised to be
generated; no run had one.

Only model-checked:

* `Terminates`, `GenerationEnds` and `FrontendEnds`: liveness. (That each step of the lexer
  gets further, which is why it ends, is proved.)
* `ImplementsSource`: the refinement reads an environment for each activation out of the
  memory, and the value of a call's arguments and result through all of them. What
  `ReturnsAreBalanced`, `StoresHitTheFrame` and `ContextsAreOwn` prove is the part of it
  that concerns control and the place of variables; that the values in them are those of
  the program is not proved.
* `AcceptsExactly` (the one of `Grammar`), `NothingIsLost`, `PrecedenceKept` and, but for
  `NoTreeNoOutput`, `OldOutputKept`: they compare what a loop over tokens has done with a
  recursive definition of sentences and trees, which takes an induction over both.

Liveness, ENABLED and induction over data are out of the prover's reach, and so are
modules with RECURSIVE operators: `Grammar`, and `MCExecution`, which gives `Within`.

## Findings

* An argument that is a call overwrites the arguments before it (`exprgen_call_args`).
* All parameters are expected in RDI (`firstpass_params`).
* Calls in values do not mark a function dirty (`firstpass_dirty`).
* A return anywhere but at the end takes the Context away (`execution_return`).
* A prefix operator needs a second operand (`frontend_readme`).
* The label of a function is local to the last label without a dot, so NASM does not
  find it from a call (`generator_nasm`). The machine of `Execution` finds a label by its
  whole name, as the generator means it: everything that is said about calls is said of
  an assembler that does so.

Two more facts of the code are stated as properties that hold, because no text of the
repository promises something else: nothing ends a string (`StringsNeverEnd`), and a
division of a negative number is excepted from `ResultIsRight` and allowed to trap
(`TrapsOnlyWhereItMust`), because RDX is cleared.

What else is not as the repository has it, and has no run of its own:

* An argument that needs RDX or RCX for an operator overwrites the third or fourth argument;
  the first argument of a call overwrites a parameter of the caller that is still in RDI,
  which a later argument may read. `clean` keeps both out.
* An argument that is pushed, the seventh or a later one, is never popped: a function that
  has made such a call pops too few quadwords before its RET. `ExprGen` and `Generator` have
  the push; `OnlyFramesMove` and `Supported` keep it out of what is promised.
* A variable declared inside an if or a while is not in the frame (first_pass.cpp:168), and
  the program is refused (`DeclThrows`), although README.md:151 to 153 puts no restriction
  on the statements of an if. `Supported` keeps it out.
* README.md:139 to 141 has a `while` without a semicolon behind it, and README.md:116 a
  backslash among the operators, and no slash: the parser refuses both (parser.cpp:161 and
  356), so they are no programs in `Grammar`, and `AcceptsExactly` does not judge them.
* README.md:148 says that an `else` is executed if the expression does not evaluate to 0,
  as README.md:146 says of the if itself; the code, and `Source`, run it if the expression
  is 0.
* `__tests__/src/lexer.tests.cpp:278` to `292` expects a token `PRINT`, which `token.hpp` no
  longer has, so the tests do not compile.
* After a compilation that failed in the generator main returns 0. The models have it, and no
  text of the repository promises another status.

## Plan

1. Done: `X64`, `ExprGen`, `FirstPass` and their proofs.
2. Done: `Generator` on top of `FirstPass`, `Source`, and `Execution` as its
   implementation.
3. Done: `Parser` against the grammar.
4. Done: `Lexer` and its proofs, `Frontend` as its composition with `Parser` and the
   driver; `Arithmetic` and its proofs.
5. Done: theorems on `Generator`: `LabelsUnique`, `JumpsLand`, `StaysDefined`.
6. Done: theorems on `FirstPass`: `LayoutFits`, `IdsNameTypes`, `AcceptsExactly`,
   `FramesMatchDeclarations`.
7. Done: theorems on the generator behind the first pass: `TypeOK`,
   `ContextIsTheFunctions`, `StoresStayInFrame`, `SupportedGenerates`.
8. Done: `ReturnsBalanced` of the machine.
9. Done: the grammar split from the parser; theorems on the front end: `TokensTile`,
   `FrontendTypeOK`, and that there is no output without a tree.
10. Open: a machine for frames with variables of several quadwords: what a store to one of
   their attributes does to a neighbour (`StoresStayInFrame` is about frames of variables
   of one quadword).

## Not modelled

The context pass (`context_pass.cpp` is not in the build, and uses fields that `Context`
no longer has), the syntax tree's `to_string`, the texts of instructions, labels and log
messages, line and column of tokens, what argument parsing and the file class do inside,
and the vendored libraries.
Not in the model of the machine: attributes in memory, strings and their data
section, inline assembly, and the code of MOD and of the prefix NOT, which is none and
that of MINUS.
