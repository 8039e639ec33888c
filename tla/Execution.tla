------------------------------- MODULE Execution -------------------------------
(***************************************************************************)
(* The machine that runs what Generator has written.  Inside the fragment  *)
(* `Supported` every program does what module Source says it means: this   *)
(* module implements Source, under the refinement mapping below.           *)
(*                                                                         *)
(* The machine has no step where what happens next is not decided by the   *)
(* program, or not as it is meant: a RET that finds no return address,     *)
(* inline assembly, the end of the text, a pop into RAX, an argument on    *)
(* the stack.                                                              *)
(***************************************************************************)
EXTENDS Generator

CONSTANTS
  Values,    \* the values that occur
  MaxFrames  \* bound: calls that are active at the same time, main included

VARIABLES
  status,  \* off, running or exited
  pc,      \* the instruction in code
  regs,    \* the registers
  mem,     \* the stack
  depth,   \* bytes pushed
  frames   \* history: of each active call the function, where its caller goes on, the
           \* depth at its entry and whether it has pushed its frame

machine == <<status, pc, regs, mem, depth, frames>>
allVars == <<vars, machine>>

-----------------------------------------------------------------------------
(* The programs that are promised to run as they are meant to.             *)

HasValue(s) == s.k \in {"decl", "assign", "return", "exit", "if", "while"}
ValuesIn(body) == {s.value : s \in {s \in Inside(body) : HasValue(s)}}
CallsIn(body) == {e \in ValuesIn(body) \cup Inside(body) : e.k = "call"}

\* The variables that statement s reads or assigns.
Uses(s) == (UNION {Reads(e) : e \in ValuesIn(<<s>>) \cup CallsIn(<<s>>)})
           \cup {t.name : t \in {t \in Inside(<<s>>) : t.k = "assign"}}

NamesOf(seq) == {seq[i].name : i \in 1..Len(seq)}

\* Where a body declares variables, ifs and loops aside, and those declared before place n.
Declarations(body) == {i \in 1..Len(body) : body[i].k = "decl"}
DeclaredBefore(body, n) == {body[i].name : i \in {i \in Declarations(body) : i < n}}
DeclaredOnce(body) == \A i, j \in Declarations(body) : body[i].name = body[j].name => i = j

\* A body, of a function or of main, with these parameters, which ends in a statement of
\* kind `last`: variables are quadwords, declared once, outside ifs and loops and before
\* they are used; a parameter is saved if something is called.
SupportedBody(body, params, last) ==
  /\ body # <<>> /\ Last(body).k = last
  /\ DeclaredOnce(body)
  /\ DeclaredBefore(body, Len(body) + 1) \cap NamesOf(params) = {}
  /\ Len(params) <= 1 /\ \A i \in 1..Len(params) : params[i].type = "int"
  /\ \A s \in Inside(body) :
       /\ s.k \in {"decl", "assign", "return", "exit", "if", "while", "call"}
       /\ s.k = "decl" => s.type = "int"
       /\ s.k = "assign" => s.attr = "none"
       /\ s.k = "return" => last = "return"
  /\ \A i \in 1..Len(body) :
       /\ Uses(body[i]) \subseteq NamesOf(params) \cup DeclaredBefore(body, i)
       /\ body[i].k \in {"if", "while"} =>
            \A s \in Inside(<<body[i]>>) : s.k # "decl"
  /\ params # <<>> /\ CallsIn(body) # {} =>
       \E i \in 1..Len(body) : \/ body[i].k \in {"if", "while", "assign"}
                               \/ body[i].k = "call" /\ body[i].values # <<>>

\* Calls go to functions that come earlier in the text or to the function itself; one
\* without arguments whose value is used, only to an earlier one that returns a value
\* which is not again a call.
SupportedCalls(p, i) ==
  \A c \in CallsIn(p[i].body) :
    \E j \in 1..i :
      /\ p[j].k = "func" /\ p[j].name = c.name /\ Len(p[j].args) = Len(c.values)
      /\ c.values = <<>> /\ c \in ValuesIn(p[i].body) =>
           j < i /\ Last(p[j].body).value.k \in {"num", "var", "neq"}

\* All of that, whatever comes after a return.
WellShaped(p) ==
  /\ \A i \in 1..Len(p) :
       /\ \/ p[i].k = "func" /\ p[i].name # "main"
                             /\ SupportedBody(p[i].body, p[i].args, "return")
          \/ p[i].k = "main" /\ SupportedBody(p[i].body, <<>>, "exit")
       /\ SupportedCalls(p, i)
       /\ \A j \in 1..Len(p) : i # j /\ p[i].k = p[j].k => p[i].k = "func" /\ p[i].name # p[j].name
  /\ \E i \in 1..Len(p) : p[i].k = "main"

Supported(p) == WellShaped(p) /\ \A i \in 1..Len(p) : ReturnsLast(p[i].body)

\* Much less: the program is structured, and every variable is a quadword, declared once at
\* the level of its function.
Quadwords(p) ==
  /\ Structured(p)
  /\ \A i \in 1..Len(p) : p[i].k # "type" =>
       /\ \A s \in Inside(p[i].body) : s.k = "decl" => s.type = "int"
       /\ p[i].k = "func" => \A j \in 1..Len(p[i].args) : p[i].args[j].type = "int"
       /\ DeclaredOnce(p[i].body)

-----------------------------------------------------------------------------
ExecInit ==
  /\ Init
  /\ status = "off" /\ pc = 0
  /\ regs = [r \in Registers |-> Junk]
  /\ mem = <<>> /\ depth = 0 /\ frames = <<>>

Num(n) == <<"num", n>>

LabelAt(name) == CHOOSE i \in LabelsAt("label") : code[i].arg = name

Fetched(op) == /\ status = "running" /\ pc \in 1..Len(code)
           /\ code[pc].op = op
I == code[pc]

\* [rsp + disp], or the register.
Operand(a) == IF a.reg = "RSP" THEN ReadMem(mem, depth - a.disp) ELSE regs[a.reg]

\* The memory after the values vs have been pushed.
PushAll(vs) ==
  [p \in DOMAIN mem \cup {depth + QWORD * i : i \in 1..Len(vs)} |->
     IF p > depth THEN vs[(p - depth) \div QWORD] ELSE mem[p]]

\* Only supported programs are run.
Begin ==
  /\ output = "written" /\ status = "off" /\ Supported(ast)
  /\ status' = "running"
  /\ pc' = LabelAt(<<"start">>)
  /\ frames' = <<[fn |-> "main", ret |-> 0, entry |-> 0, entered |-> FALSE]>>
  /\ UNCHANGED <<vars, regs, mem, depth>>

DoLabel ==
  /\ Fetched("label")
  /\ pc' = pc + 1
  /\ UNCHANGED <<vars, status, regs, mem, depth, frames>>

DoEnter ==
  /\ Fetched("enter")
  /\ LET pushed == [i \in 1..Len(I.arg.regs) |-> regs[I.arg.regs[i]]]
                   \o [i \in 1..I.arg.zeros |-> Num(0)]
     IN  /\ mem' = PushAll(pushed)
         /\ depth' = depth + QWORD * Len(pushed)
  /\ frames' = [frames EXCEPT ![Len(frames)].entered = TRUE]
  /\ pc' = pc + 1
  /\ UNCHANGED <<vars, status, regs>>

\* The value of a comparison; its right side is popped into RDX.
DoEval ==
  /\ Fetched("eval")
  /\ LET e   == I.arg.e
         env == [x \in DOMAIN I.arg.from |-> Operand(I.arg.from[x])]
         value == CASE e.k = "num" -> Num(e.value)
                    [] e.k = "var" -> env[e.name]
                    [] e.k = "neq" -> IF env[e.left] = env[e.right] THEN Num(0) ELSE Num(1)
     IN  regs' = WriteReg(IF e.k = "neq" THEN WriteReg(regs, "RDX", env[e.right]) ELSE regs,
                          "RAX", value)
  /\ pc' = pc + 1
  /\ UNCHANGED <<vars, status, mem, depth, frames>>

DoMov ==
  /\ Fetched("mov")
  /\ regs' = WriteReg(regs, I.arg, regs["RAX"])
  /\ pc' = pc + 1
  /\ UNCHANGED <<vars, status, mem, depth, frames>>

DoStore ==
  /\ Fetched("store")
  /\ IF I.arg.reg = "RSP"
     THEN mem' = WriteMem(mem, depth - I.arg.disp, regs["RAX"]) /\ regs' = regs
     ELSE regs' = WriteReg(regs, I.arg.reg, regs["RAX"]) /\ mem' = mem
  /\ pc' = pc + 1
  /\ UNCHANGED <<vars, status, depth, frames>>

DoJump ==
  /\ Fetched("je") \/ Fetched("jmp")
  /\ pc' = IF I.op = "je" /\ regs["RAX"] # Num(0) THEN pc + 1 ELSE LabelAt(I.arg)
  /\ UNCHANGED <<vars, status, regs, mem, depth, frames>>

DoCall ==
  /\ Fetched("call") /\ Len(frames) < MaxFrames
  /\ mem' = PushAll(<< <<"ret", pc + 1>> >>)
  /\ depth' = depth + QWORD
  /\ frames' = Append(frames, [fn |-> CHOOSE f \in DOMAIN generated : generated[f].label = I.arg,
                               ret |-> pc + 1, entry |-> depth', entered |-> FALSE])
  /\ pc' = LabelAt(I.arg)
  /\ UNCHANGED <<vars, status, regs>>

\* The pops of leave_context and RET.
DoReturn ==
  /\ Fetched("return")
  /\ LET top == depth - QWORD * I.arg
         address == ReadMem(mem, top)
     IN  /\ address[1] = "ret"
         /\ pc' = address[2]
         /\ regs' = IF I.arg = 0 THEN regs
                    ELSE WriteReg(regs, "RDI", ReadMem(mem, top + QWORD))
         /\ depth' = top - QWORD
         /\ mem' = Release(mem, top)
  /\ frames' = Front(frames)
  /\ UNCHANGED <<vars, status>>

DoExit ==
  /\ Fetched("exit")
  /\ status' = "exited"
  /\ regs' = WriteReg(regs, "RDI", IF I.arg THEN Num(0) ELSE regs["RAX"])
  /\ UNCHANGED <<vars, pc, mem, depth, frames>>

Execute == \/ Begin \/ DoLabel \/ DoEnter \/ DoEval \/ DoMov \/ DoStore \/ DoJump \/ DoCall
           \/ DoReturn \/ DoExit

Compile == Next /\ UNCHANGED machine

\* One thread visits a finite tree: nothing keeps the compiler from going on.  The program
\* it writes need not be run.
ExecSpec == ExecInit /\ [][Compile \/ Execute]_allVars /\ WF_allVars(Compile)

-----------------------------------------------------------------------------
(* The refinement mapping.                                                 *)

\* The statements that are left at an instruction: those the generator had not yet
\* visited, up to the end of the function, with a loop in place of its second half.
Remaining(rest) ==
  LET ends == {i \in 1..Len(rest) : rest[i].k \in {"endfunc", "endmain"}}
      end  == CHOOSE i \in ends : \A j \in ends : i <= j
      Unloop(s) == IF s.k = "loop" THEN s.while ELSE s
      Kept(s) == s.k \notin {"else", "endif"} /\ ~(s.k = "decl" /\ s.value.k = "none")
  IN  SelectSeq([i \in 1..(end - 1) |-> Unloop(rest[i])], Kept)

\* Where frame i is, or will go on.
Place(i) == IF i = Len(frames) THEN pc ELSE frames[i + 1].ret

\* A variable of frame i: in a register at first, in its slot when the frame is pushed.
VariableOf(i, x) ==
  LET f  == frames[i]
      fn == functions[f.fn]
      pushed == Len(Saved(f.fn)) + Len(Zeroed(f.fn))
  IN  IF x \in DOMAIN fn.params
      THEN IF f.entered /\ fn.dirty
           THEN ReadMem(mem, f.entry + QWORD * Position(Saved(f.fn), x))
           ELSE regs[fn.params[x].location.reg]
      ELSE IF f.entered
           THEN ReadMem(mem, f.entry + QWORD * pushed - fn.locals[x].location.disp)
           ELSE Num(0)

Activations ==
  IF status = "off" THEN <<>>
  ELSE [i \in 1..Len(frames) |->
          [fn |-> frames[i].fn,
           env |-> [x \in DOMAIN functions[frames[i].fn].params
                          \cup DOMAIN functions[frames[i].fn].locals |-> VariableOf(i, x)],
           cont |-> Remaining(code[Place(i)].rest),
           awaits |-> i < Len(frames) /\ code[Place(i)].awaited]]

Result == IF status = "running" /\ I.awaited THEN <<regs["RAX"]>> ELSE <<>>

Src == INSTANCE Source WITH program <- ast, acts <- Activations, result <- Result

-----------------------------------------------------------------------------
(* Properties.                                                             *)

\* The quadwords that the function at instruction i has pushed for its frame.
FrameAt(i) ==
  LET enters == {j \in LabelsAt("enter") : j < i}
      enter  == code[CHOOSE j \in enters : \A k \in enters : k <= j].arg
  IN  Len(enter.regs) + enter.zeros

\* The first pass lays out a frame by sizes, enter_context pushes one quadword for each name:
\* if all variables are quadwords, every store hits the frame of its function and nothing
\* beyond it, as long as the frame is all that is on the stack.
StoresStayInFrame ==
  Quadwords(ast) /\ OnlyFramesMove =>
    \A i \in LabelsAt("store") :
      code[i].arg.reg = "RSP" => code[i].arg.disp \in 0..QWORD * (FrameAt(i) - 1)

\* A supported program is never refused; no value in it is fetched with a pop, which would
\* take a quadword of the frame, and no argument is left on the stack.
SupportedGenerates == Supported(ast) => thrown = "none" /\ OnlyFramesMove

\* In the body of a function of a supported program the Context is that of the function:
\* its parameters and variables are known and no others, whatever was generated before.
ContextIsTheFunctions ==
  (/\ Supported(ast) /\ phase = "done" /\ todo # <<>>
   /\ Head(todo).k \notin {"func", "main", "endfunc", "endmain"})
  => LET f == functions[Last(currentFunction)]
     IN  DOMAIN Variables = DOMAIN f.params \cup DOMAIN f.locals

\* What the machine does is what a supported program means: every instruction is a step of
\* the program or no step at all.
ImplementsSource ==
  /\ Supported(ast) => Src!Init
  /\ [][Supported(ast) => Src!Next]_(Src!srcVars)

\* A function that returns has popped exactly what it pushed: RET finds the address that
\* its own call left there.
ReturnsBalanced ==
  Supported(ast) /\ Fetched("return") =>
    /\ depth - QWORD * I.arg = Last(frames).entry
    /\ ReadMem(mem, Last(frames).entry) = <<"ret", Last(frames).ret>>

\* A function may hold any statements, so it may return before its end: a program that is
\* supported but for that is not refused.
EarlyReturnsGenerate == WellShaped(ast) => thrown = "none"
================================================================================
