------------------------------ MODULE CmCalls ------------------------------
(***************************************************************************)
(* Compiled Cm code driving the operand stack of the virtual machine.      *)
(*                                                                         *)
(* The variable s is struct VMStackDesc; every action is one bytecode      *)
(* instruction of VM_execute (src/src/vm.c), seen as the functions of      *)
(* src/src/vmstack.c it calls.  Which instruction comes next is free, as   *)
(* long as it is one a compiler emits: it takes operands its function has  *)
(* pushed, names a variable its function has, and calls with the arguments *)
(* pushed.  A function either makes a frame first (ENTER) and ends with    *)
(* exactly the result on the stack (EXIT), or makes none and ends with an  *)
(* empty operand stack (RET).  T01.exe .. T12.exe are of this kind.        *)
(*                                                                         *)
(* act is a history variable: what the compiler knows of the activations.  *)
(* The code never sees it; it works from bp and from the cell bp - 2.      *)
(***************************************************************************)
EXTENDS VMStack, Sequences

CONSTANTS
  Capacity,    \* Thread_StackCapacity of VM_Init
  Literals,    \* values an LDC instruction pushes
  Addresses,   \* addresses that follow a CALLS instruction
  Shapes,      \* the functions of the program: v, np, nl and the ENTER form
  Outside      \* not an address: nothing has returned yet

Forms == {"U5", "U8"}

\* The packing of an ENTER operand, by the form of the instruction.
FormMax(form) == IF form = "U5" THEN 3 ELSE 7

ASSUME SiLenAssumption == SiLen \in 1 .. 127
ASSUME WordAssumption == WordBits \in Nat \ {0}
ASSUME CapacityAssumption == Capacity \in 1 .. 255
ASSUME ShapesAssumption ==
  \A f \in Shapes :
    /\ f.form \in Forms
    /\ f.v \in 0 .. 1
    /\ f.np \in 0 .. FormMax(f.form)
    /\ f.nl \in 0 .. FormMax(f.form)

VARIABLES
  s,           \* struct VMStackDesc vmStackDesc
  act,         \* history: the activations, outermost first
  target,      \* the address the last EXIT or RET loaded into ip
  mode         \* "run" or "fault"

vars == <<s, act, target, mode>>

-----------------------------------------------------------------------------
(* What the compiler knows of each activation: the cell its operands lie   *)
(* above (its bp cell, or its return address while it has no frame), the   *)
(* register bp while it runs, and the shape of its function.               *)

Activation(top, bp, v, np, nl) ==
  [top |-> top, bp |-> bp, v |-> v, np |-> np, nl |-> nl]
Outermost == <<Activation(-1, -1, 0, 0, 0)>>
Activations ==
  [top : -1 .. SiLen - 1, bp : -1 .. SiLen - 1, v : 0 .. 1, np : 0 .. 7, nl : 0 .. 7]

Framed(a) == a.top = a.bp

\* The first cell of activation a: its first variable, or its linkage.
Base(a) == a.top - a.np - a.nl - (IF Framed(a) THEN 2 ELSE 0)

Depth    == Len(act)
Current  == act[Depth]
NumVars  == Current.np + Current.nl
Operands == s.sp - Current.top
Others   == SubSeq(act, 1, Depth - 1)

-----------------------------------------------------------------------------
Init ==
  /\ s = Stack_New([si |-> [i \in Index |-> 0], bp |-> 0, sp |-> 0, capacity |-> 0],
                   Capacity)
  /\ act = Outermost
  /\ target = Outside
  /\ mode = "run"

\* C defines nothing from here on: the machine is given up.
Fault == mode' = "fault" /\ UNCHANGED <<s, act, target>>

\* An instruction that touches cells of si and would leave the struct in t.
Touches(cells, t, acts, ip) ==
  IF cells \subseteq Index
    THEN s' = t /\ act' = acts /\ target' = ip /\ UNCHANGED mode
    ELSE Fault

\* An instruction of a function's body that takes n operands.
Body(n, cells, t) ==
  /\ mode = "run"
  /\ Operands >= n
  /\ Touches(cells, t, act, target)

Ldc(c) == Body(0, PushCells(s), Stack_Push(s, c))

Pop == Body(1, {s.sp}, Stack_Pop(s))

Dup == Body(1, {s.sp, s.sp + 1}, Stack_dup(s))

Monadic(op(_)) == Body(1, {s.sp}, op(s))

Dyadic(op(_)) == Body(2, {s.sp, s.sp - 1}, op(s))

\* rem, shl and shr are not guarded against the operands C leaves undefined.
Partial(op(_), defined(_)) ==
  /\ mode = "run"
  /\ Operands >= 2
  /\ IF defined(s) THEN Dyadic(op) ELSE Fault

Inherent ==
  \/ Monadic(Stack_not)
  \/ Monadic(Stack_neg)
  \/ Monadic(Stack_inc)
  \/ Monadic(Stack_dec)
  \/ Dyadic(Stack_and)
  \/ Dyadic(Stack_or)
  \/ Dyadic(Stack_xor)
  \/ Dyadic(Stack_add)
  \/ Dyadic(Stack_sub)
  \/ Dyadic(Stack_mul)
  \/ Dyadic(Stack_div)
  \/ Partial(Stack_rem, RemDefined)
  \/ Partial(Stack_shl, ShiftDefined)
  \/ Partial(Stack_shr, ShiftDefined)
  \/ Dyadic(Stack_teq)
  \/ Dyadic(Stack_tne)
  \/ Dyadic(Stack_tlt)
  \/ Dyadic(Stack_tgt)
  \/ Dyadic(Stack_tle)
  \/ Dyadic(Stack_tge)

-----------------------------------------------------------------------------
(* Variables of the current function.                                      *)

Ldv(i) ==
  Body(0, VariableCells(s, i) \cup PushCells(s), Stack_loadVariable(s, i))

Stv(i) == Body(1, VariableCells(s, i) \cup {s.sp}, Stack_storeVariable(s, i))

Addv(i) == Body(1, VariableCells(s, i) \cup {s.sp}, Stack_addVariable(s, i))

\* INCV and DECV push the step before they add it.
Stepv(i, step) ==
  Body(0, VariableCells(s, i) \cup PushCells(s),
       Stack_addVariable(Stack_Push(s, step), i))

Variables ==
  \E i \in 0 .. NumVars - 1 :
    Ldv(i) \/ Stv(i) \/ Addv(i) \/ Stepv(i, 1) \/ Stepv(i, -1)

-----------------------------------------------------------------------------
(* Calls and returns.                                                      *)

Calls(address) ==
  /\ mode = "run"
  /\ Touches(PushCells(s), Stack_Push(s, address),
             Append(act, Activation(s.sp + 1, s.bp, 0, 0, 0)), target)

Packed(f) ==
  IF f.form = "U5" THEN f.v * 16 + f.np * 4 + f.nl ELSE f.v * 64 + f.np * 8 + f.nl

Entered(f) ==
  IF f.form = "U5" THEN Stack_enterU5(s, Packed(f)) ELSE Stack_enterU8(s, Packed(f))

\* ENTER is the first instruction of a function; the arguments are there.
EnterFunction(f) ==
  /\ mode = "run"
  /\ ~Framed(Current)
  /\ Operands = 0
  /\ s.sp - 1 - act[Depth - 1].top >= f.np
  /\ LET bp == s.sp + f.nl + 2
     IN  Touches(EnterCells(s, f.nl), Entered(f),
                 Append(Others, Activation(bp, bp, f.v, f.np, f.nl)), target)

\* RET ends a function that has no frame.
Ret ==
  /\ mode = "run"
  /\ ~Framed(Current)
  /\ Operands = 0
  /\ Touches({s.sp}, Stack_Pop(s), Others, Stack_top(s))

\* EXIT unlinks the frame and then pops the address it put back.
ExitFunction ==
  /\ mode = "run"
  /\ Depth > 1
  /\ Framed(Current)
  /\ Operands = Current.v
  /\ Touches(ExitCells(s), Stack_Pop(Stack_exit(s)), Others, Stack_top(Stack_exit(s)))

\* HALT of the main program, and VM_Init before the next one.
Restart ==
  /\ mode = "run"
  /\ Depth = 1
  /\ s' = Stack_New(s, Capacity)
  /\ UNCHANGED <<act, target, mode>>

Next ==
  \/ \E c \in Literals : Ldc(c)
  \/ Pop
  \/ Dup
  \/ Inherent
  \/ Variables
  \/ \E address \in Addresses : Calls(address)
  \/ \E f \in Shapes : EnterFunction(f)
  \/ Ret
  \/ ExitFunction
  \/ Restart

Spec == Init /\ [][Next]_vars

\* Every shape of the program keeps the frame size the code computes for EXIT
\* and for variables in step with the one ENTER allocates (vmstack.c:255, 263).
FramesFit == \A f \in Shapes : f.np + f.nl <= 7

-----------------------------------------------------------------------------
(* TypeOK: the registers stay in the range of si (or just below it, when   *)
(* nothing is stacked), so that the i8 fields bp and sp never wrap.        *)
TypeOK ==
  /\ DOMAIN s.si = Index
  /\ s.bp \in -1 .. SiLen - 1
  /\ s.sp \in -1 .. SiLen - 1
  /\ s.capacity = Capacity
  /\ act \in Seq(Activations)
  /\ mode \in {"run", "fault"}

\* The linkage of activation a, called by c.
Linked(cells, c, a) ==
  IF Framed(a)
    THEN cells[a.bp] = c.bp /\ cells[a.bp - 2] = FctInfo(a.v, a.np, a.nl)
    ELSE a = Activation(a.top, c.bp, 0, 0, 0)

(* FramesLinked: the cells the code steers by say what the compiler knows. *)
(* bp is the current activation's; each frame's bp cell holds its caller's *)
(* bp and its cell bp - 2 its shape; activations lie one above the other,  *)
(* so that a program's writes never reach the linkage of an outer one.     *)
FramesLinked ==
  /\ Depth >= 1
  /\ act[1] = Activation(-1, -1, 0, 0, 0)
  /\ s.bp = Current.bp
  /\ Operands >= 0
  /\ \A k, m \in 1 .. Depth : k < m => act[k].top < Base(act[m])
  /\ \A k \in 2 .. Depth : Linked(s.si, act[k - 1], act[k])

(* ExitFreesFrame: EXIT removes "space for parameters, local variables,    *)
(* and function information" (vmstack.c:253) and nothing of the caller's:  *)
(* what is left is the caller's operands below the arguments, and v result.*)
ExitFreesFrame ==
  [][Len(act') < Depth => s'.sp = Base(Current) - 1 + Current.v]_vars

(* OverflowPrevented: capacity is the "maximum number of elements"         *)
(* (vmstack.c:14) the stack is created with, so a full stack never makes   *)
(* the machine write beside the array.                                     *)
OverflowPrevented == mode = "fault" => Stack_Count(s) < s.capacity

-----------------------------------------------------------------------------
(* The refinement of ActivationStack: the activations read off the cells.  *)

NumOperands(k) ==
  IF k = Depth THEN Operands ELSE Base(act[k + 1]) - 1 - act[k].top

ReturnCell(k) == IF Framed(act[k]) THEN act[k].top - 1 ELSE act[k].top

Frame(k) ==
  [framed    |-> Framed(act[k]),
   returns   |-> act[k].v,
   resume    |-> IF k = 1 THEN Outside ELSE s.si[ReturnCell(k)],
   variables |-> [i \in 1 .. act[k].np + act[k].nl |-> s.si[Base(act[k]) + i - 1]],
   operands  |-> [j \in 1 .. NumOperands(k) |-> s.si[act[k].top + j]]]

frames == [k \in 1 .. Depth |-> Frame(k)]

A == INSTANCE ActivationStack

(* Implements: the flat array behaves as a stack of separate activations.  *)
(* A callee finds its arguments, no instruction disturbs a caller, and     *)
(* EXIT gives the result to the caller and continues after its CALLS.      *)
Implements == A!Spec
=============================================================================
