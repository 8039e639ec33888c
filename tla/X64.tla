---------------------------------- MODULE X64 ----------------------------------
(***************************************************************************)
(* The part of the target machine that the code generator relies on        *)
(* (include/x64/x64.hpp and the machine itself).                            *)
(*                                                                         *)
(* Values are symbolic terms: tuples whose first element names the         *)
(* operation that produced the value.  Stack positions are counted in      *)
(* bytes pushed, so a PUSH moves the top of the stack UP by QWORD and the  *)
(* operand [rsp + d] is the position depth - d.                            *)
(***************************************************************************)
EXTENDS Integers, Sequences

\* x64::Size::QWORD, the only operand size of a PUSH or a POP.
QWORD == 8

\* The registers the generator names when it generates an expression.
Registers == {"RAX", "RCX", "RDX", "RSI", "RDI", "R8", "R9"}

\* Mutant of ParameterRegs: the third register again where the fourth should be.
ParameterRegsTwice == <<"RDI", "RSI", "RDX", "RDX", "R8", "R9">>

\* The System V integer argument registers in order, as in parameter_reg.
ParameterRegs == <<"RDI", "RSI", "RDX", "RCX", "R8", "R9">>

\* parameter_reg(param): the register of argument number param (from 0), NONE
\* when the argument does not travel in a register.
parameter_reg(param) ==
  IF param < Len(ParameterRegs) THEN ParameterRegs[param + 1] ELSE "NONE"

\* An operand: reg = "RSP" is the indirect mode disp[rsp], any other register is
\* the DIRECT mode, in which disp is carried along and never printed.
Address == [reg : Registers \cup {"RSP"}, disp : Int]

\* A value nobody may rely on.
Junk == <<"junk">>

\* The register file after a write of v to r.
WriteReg(regs, r, v) == [x \in Registers |-> IF x = r THEN v ELSE regs[x]]

\* The memory position p.  What lies beyond the top of the stack is not kept.
ReadMem(mem, p) == IF p \in DOMAIN mem THEN mem[p] ELSE Junk

\* The memory after a write of v to position p.
WriteMem(mem, p, v) ==
  [x \in DOMAIN mem \cup {p} |-> IF x = p THEN v ELSE mem[x]]

\* The memory after everything from position p upwards has been released.
Release(mem, p) == [x \in {y \in DOMAIN mem : y < p} |-> mem[x]]

================================================================================
