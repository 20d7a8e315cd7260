-------------------------------- MODULE CmVM --------------------------------
(***************************************************************************)
(* The Cm virtual machine: VM_execute (src/src/vm.c) interpreting bytecode *)
(* in memory over the operand stack of VMStack, and the loop of main       *)
(* (src/src/admin.c) that runs one program after the other.                *)
(*                                                                         *)
(* The packets in which a program reaches the memory are left out (see     *)
(* HalLoader): its bytes are copied over those of the program before it.   *)
(* The registers of VM_execute are ip and the struct s; opcode is the byte *)
(* at ip.  Each instruction is one action: nothing else runs on the target *)
(* between the instructions (the loader polls, no interrupt has a handler).*)
(***************************************************************************)
EXTENDS VMStack, Opcodes, Sequences, SequencesExt

CONSTANTS
  Programs,    \* for each value of printf, the executables, as sequences of bytes
  MemAddr,     \* address of memAllocated
  MemInc,      \* segment increment of the memory of a program (1024)
  MemMax,      \* bytes of memory for a program
  MaxRuns,     \* bound on the number of programs run in a behaviour
  Capacity,    \* Thread_StackCapacity of VM_Init
  Outside,     \* the value of target before the first return
  Shapes,      \* what CmCalls is told of the programs: the functions they
  Literals     \* have and the values their LDC instructions push

\* Mutant of GetBaseAddr: the address is rounded down.
GetBaseAddrDown(memAddr, memInc) == memAddr - (memAddr % memInc)

\* The next multiple of memInc, also for an address that is one.
GetBaseAddr(memAddr, memInc) == LET a == memAddr + memInc IN a - (a % memInc)

BaseAddr  == GetBaseAddr(MemAddr, MemInc)
Memory    == BaseAddr .. BaseAddr + MemMax - 1
Allocated == MemAddr .. MemAddr + MemMax + MemInc - 1

ASSUME MachineAssumption ==
  /\ MemAddr \in Nat \ {0}
  /\ \E k \in 0 .. 16 : MemInc = 2^k
  /\ MemMax \in Nat \ {0}
  /\ MemAddr + MemMax + MemInc < 2^15
  /\ DOMAIN Programs \subseteq BOOLEAN
  \* The longest instruction has four operand bytes: none is cut off.
  /\ \A b \in DOMAIN Programs : \A p \in Programs[b] :
       p \in Seq(0 .. 255) /\ Len(p) + 4 <= MemMax

VARIABLES
  printf,      \* the console this build has, see Console
  mem,         \* u8 mem[], by address
  s,           \* struct VMStackDesc vmStackDesc
  ip,          \* instruction pointer
  out,         \* characters printed since the program was loaded, main's included
  status,      \* "run", "idle", "exited", or the outcomes C does not define:
               \* "fault" (a cell outside si) and "lost" (outside memory)
  runs,        \* programs loaded so far
  act,         \* history: the activations, as CmCalls knows them
  target       \* history: where the last EXIT or RET went

vars == <<printf, mem, s, ip, out, status, runs, act, target>>

Out == INSTANCE Console WITH Printf <- printf

Unit == INSTANCE AUnit WITH
          MaxCharactersInLine <- 256,
          MaxLinesToTest      <- 9,
          Newline             <- 10,
          TestWord            <- <<84, 101, 115, 116>>,
          Less                <- 60,
          DigitOf             <- [c \in 0 .. 255 |-> c - 48]

\* The discipline of compiled code.
C == INSTANCE CmCalls WITH
       Addresses <- Memory,
       mode      <- IF status = "fault" THEN "fault" ELSE "run"

\* What CmCalls asks of the constants; the last line is FramesFit.
ASSUME StackAssumption ==
  /\ SiLen \in 1 .. 127
  \* A cell takes an address and a 16-bit constant.
  /\ WordBits \in 17 .. 32
  /\ Capacity \in 1 .. 255
  /\ \A f \in Shapes :
       /\ f.form \in C!Forms
       /\ f.v \in 0 .. 1
       /\ f.np \in 0 .. C!FormMax(f.form)
       /\ f.nl \in 0 .. C!FormMax(f.form)
       /\ f.np + f.nl <= 7

-----------------------------------------------------------------------------
(* Reading the code.  Operands are big-endian.                             *)

Byte(n) == mem[ip + n]
opcode  == Byte(0)

\* Mutant of Signed: the lowest value of the range is taken as positive.
SignedShort(x, bits) == IF x > 2^(bits - 1) THEN x - 2^bits ELSE x

Signed(x, bits) == IF x >= 2^(bits - 1) THEN x - 2^bits ELSE x

OperandU16 == Byte(1) * 256 + Byte(2)
OperandI8  == Signed(Byte(1), 8)
OperandI16 == Signed(OperandU16, 16)
OperandI32 == I32(Signed(OperandU16, 16) * 2^16 + Byte(3) * 256 + Byte(4))

\* A pointer to u8 has 16 bits.  The cast to i32 extends its sign.
Pointer(x) == x % 2^16
Address(x) == Signed(Pointer(x), 16)

\* The zeros in memory from address a on, and the characters up to the first.
Zeros(a)   == {i \in Memory : i >= a /\ mem[i] = 0}
CString(a) == [i \in 1 .. Min(Zeros(a)) - a |-> mem[a + i - 1]]

-----------------------------------------------------------------------------
(* The effect of one instruction.                                          *)

Running == status = "run" /\ ip \in Memory

Fault == status' = "fault" /\ UNCHANGED <<printf, mem, s, ip, out, runs, act, target>>

\* Bytes outside the memory are not modelled.
Lost == status' = "lost" /\ UNCHANGED <<printf, mem, s, ip, out, runs, act, target>>

\* An instruction that touches cells of si, leaves the struct in t, continues
\* at address next and prints text.
Execute(cells, t, acts, next, text) ==
  IF cells \subseteq Index
    THEN /\ s' = t
         /\ act' = acts
         /\ target' = IF Len(acts) < Len(act) THEN next ELSE target
         /\ ip' = Pointer(next)
         /\ out' = out \o text
         /\ UNCHANGED <<printf, mem, status, runs>>
    ELSE Fault

\* The same when it stays in its function: n is the way to the next one.
Simple(cells, t, n) == Execute(cells, t, act, ip + n, << >>)

-----------------------------------------------------------------------------
(* One-byte instructions without an operand.                               *)

On(code, cells, t) == opcode = code /\ Simple(cells, t, 1)

Monadic(code, op(_)) == On(code, {s.sp}, op(s))

Dyadic(code, op(_)) == On(code, {s.sp, s.sp - 1}, op(s))

\* Not guarded against the operands C leaves undefined.
Partial(code, op(_), defined(_)) ==
  /\ opcode = code
  /\ IF {s.sp, s.sp - 1} \subseteq Index /\ ~defined(s)
       THEN Fault
       ELSE Dyadic(code, op)

\* "Division by zero" and a newline.
DivisionMessage ==
  <<68, 105, 118, 105, 115, 105, 111, 110, 32, 98, 121, 32, 122, 101, 114, 111, 10>>

Divide ==
  /\ opcode = DIV
  /\ Execute({s.sp, s.sp - 1}, Stack_div(s), act, ip + 1,
             IF V2(s) = 0 THEN DivisionMessage ELSE << >>)

Inherent ==
  \/ On(POP, {s.sp}, Stack_Pop(s))
  \/ On(DUP, {s.sp, s.sp + 1}, Stack_dup(s))
  \/ Monadic(NOT, Stack_not)
  \/ Dyadic(AND, Stack_and)
  \/ Dyadic(OR, Stack_or)
  \/ Dyadic(XOR, Stack_xor)
  \/ Monadic(NEG, Stack_neg)
  \/ Monadic(INC, Stack_inc)
  \/ Monadic(DEC, Stack_dec)
  \/ Dyadic(ADD, Stack_add)
  \/ Dyadic(SUB, Stack_sub)
  \/ Dyadic(MUL, Stack_mul)
  \/ Divide
  \/ Partial(REM, Stack_rem, RemDefined)
  \/ Partial(SHL, Stack_shl, ShiftDefined)
  \/ Partial(SHR, Stack_shr, ShiftDefined)
  \/ Dyadic(TEQ, Stack_teq)
  \/ Dyadic(TNE, Stack_tne)
  \/ Dyadic(TLT, Stack_tlt)
  \/ Dyadic(TGT, Stack_tgt)
  \/ Dyadic(TLE, Stack_tle)
  \/ Dyadic(TGE, Stack_tge)

\* The switch has no case and no default for these: ip stays where it is.
Reserved == opcode \in RFU /\ UNCHANGED vars

-----------------------------------------------------------------------------
(* Constants and variables.                                                *)

Ldc(value, n) == Simple(PushCells(s), Stack_Push(s, value), n)

Constants ==
  \/ opcode \in LDC_I3 .. ADDV_U3 - 1 /\ Ldc(Signed(opcode % 8, 3), 1)
  \/ opcode = LDA_I8 /\ Ldc(Address(ip + OperandI8), 2)
  \/ opcode = LDA_I16 /\ Ldc(Address(ip + OperandI16), 3)
  \/ opcode \in {LDC_C8, LDC_U8} /\ Ldc(Byte(1), 2)
  \/ opcode = LDC_I8 /\ Ldc(OperandI8, 2)
  \/ opcode \in {LDC_C16, LDC_U16} /\ Ldc(OperandU16, 3)
  \/ opcode = LDC_I16 /\ Ldc(OperandI16, 3)
  \/ opcode \in {LDC_I32, LDC_U32} /\ Ldc(OperandI32, 5)

Addv(i, n) ==
  Simple(VariableCells(s, i) \cup {s.sp}, Stack_addVariable(s, i), n)
Ldv(i, n) ==
  Simple(VariableCells(s, i) \cup PushCells(s), Stack_loadVariable(s, i), n)
Stv(i, n) ==
  Simple(VariableCells(s, i) \cup {s.sp}, Stack_storeVariable(s, i), n)
Stepv(i, step) ==
  Simple(VariableCells(s, i) \cup PushCells(s),
         Stack_addVariable(Stack_Push(s, step), i), 2)

Variables ==
  \/ opcode \in ADDV_U3 .. LDV_U3 - 1 /\ Addv(opcode % 8, 1)
  \/ opcode \in LDV_U3 .. STV_U3 - 1 /\ Ldv(opcode % 8, 1)
  \/ opcode \in STV_U3 .. ADDV_U8 - 1 /\ Stv(opcode % 8, 1)
  \/ opcode = ADDV_U8 /\ Addv(Byte(1), 2)
  \/ opcode = LDV_U8 /\ Ldv(Byte(1), 2)
  \/ opcode = STV_U8 /\ Stv(Byte(1), 2)
  \/ opcode = INCV_U8 /\ Stepv(Byte(1), 1)
  \/ opcode = DECV_U8 /\ Stepv(Byte(1), -1)

-----------------------------------------------------------------------------
(* Branches, calls and returns.                                            *)

Branch(offset) == Simple({}, s, offset)

\* No branching if true: then the next instruction is n bytes ahead.
BranchFalse(offset, n) ==
  Simple({s.sp}, Stack_Pop(s), IF Stack_top(s) # 0 THEN n ELSE offset)

Branches ==
  \/ opcode \in BR_I5 .. BRF_I5 - 1 /\ Branch(Signed(opcode - BR_I5, 5))
  \/ opcode \in BRF_I5 .. ENTER_U5 - 1 /\ BranchFalse(Signed(opcode - BRF_I5, 5), 1)
  \/ opcode = BR_I8 /\ Branch(OperandI8)
  \/ opcode = BRF_I8 /\ BranchFalse(OperandI8, 2)
  \/ opcode = BR_I16 /\ Branch(OperandI16)

\* Mutant of Calls: the last byte of the operand is taken for the next instruction.
CallsShort ==
  /\ opcode = CALLS_I16
  /\ Execute(PushCells(s), Stack_Push(s, Address(ip + 2)),
             Append(act, C!Activation(s.sp + 1, s.bp, 0, 0, 0)),
             ip + OperandI16, << >>)

\* The activation a call starts has its return address on top, and no frame
\* until an ENTER makes one from the arguments below that address.
Calls ==
  /\ opcode = CALLS_I16
  /\ Execute(PushCells(s), Stack_Push(s, Address(ip + 3)),
             Append(act, C!Activation(s.sp + 1, s.bp, 0, 0, 0)),
             ip + OperandI16, << >>)

Enters(t, n, v, np, nl) ==
  Execute(EnterCells(s, nl), t,
          Append(C!Others, C!Activation(t.bp, t.bp, v, np, nl)), ip + n, << >>)

EnterFunction ==
  \/ /\ opcode \in ENTER_U5 .. LDC_I3 - 1
     /\ LET info == opcode - ENTER_U5
        IN  Enters(Stack_enterU5(s, info), 1, info \div 16, (info \div 4) % 4, info % 4)
  \/ /\ opcode = ENTER_U8
     /\ LET info == Byte(1)
        IN  Enters(Stack_enterU8(s, info), 2, VOf(info), NpOf(info), NlOf(info))

Ret ==
  /\ opcode = RET
  /\ Execute({s.sp}, Stack_Pop(s), C!Others, Stack_top(s), << >>)

\* Mutant of ExitFunction: the address is read but not popped.
ExitFunctionUnpopped ==
  /\ opcode = EXIT
  /\ Execute(ExitCells(s), Stack_exit(s), C!Others, Stack_top(Stack_exit(s)), << >>)

ExitFunction ==
  /\ opcode = EXIT
  /\ Execute(ExitCells(s), Stack_Pop(Stack_exit(s)), C!Others,
             Stack_top(Stack_exit(s)), << >>)

-----------------------------------------------------------------------------
(* TRAP: kernel output.  A trap nobody knows is skipped, and so is 84,     *)
(* the one of floats, whose operand stays on the stack.                    *)

Put(op, put(_)) ==
  /\ Byte(1) = op
  /\ Execute({s.sp}, Stack_Pop(s), act, ip + 2, put(Stack_top(s)))

\* The string at the address on top, if it begins and ends in memory.
PutS ==
  LET a == Pointer(Stack_top(s))
  IN  IF s.sp \in Index /\ (a \notin Memory \/ Zeros(a) = {})
        THEN Byte(1) = \h85 /\ Lost
        ELSE Put(\h85, LAMBDA x : CString(a))

Known == \h80 .. \h87 \ {\h84}

Kernel_IO ==
  \/ Put(\h80, Out!PutB)
  \/ Put(\h81, Out!PutC)
  \/ Put(\h82, Out!PutI)
  \/ Put(\h83, Out!PutU)
  \/ PutS
  \/ Put(\h86, Out!PutX)
  \/ Byte(1) = \h87 /\ Execute({}, s, act, ip + 2, Out!PutN)

\* Mutant of Trap: a trap nobody knows is not skipped.
TrapStuck ==
  /\ opcode = TRAP
  /\ Kernel_IO

Trap ==
  /\ opcode = TRAP
  /\ \/ Kernel_IO
     \/ Byte(1) \notin Known /\ Simple({}, s, 2)

-----------------------------------------------------------------------------
(* The end of a program and the start of the next one.                     *)

\* main acknowledges that the execution is done: ACK (0xCC) and a zero.
Halt ==
  /\ opcode = HALT
  /\ status' = "idle"
  /\ out' = out \o <<204, 0>>
  /\ UNCHANGED <<printf, mem, s, ip, runs, act, target>>

\* "Opcode: ", and " is reserved for future used." with a newline.
OpcodeText   == <<79, 112, 99, 111, 100, 101, 58, 32>>
ReservedText ==
  <<32, 105, 115, 32, 114, 101, 115, 101, 114, 118, 101, 100, 32, 102, 111, 114,
    32, 102, 117, 116, 117, 114, 101, 32, 117, 115, 101, 100, 46, 10>>

\* exitOnInvalidOpcode prints the opcode and ends the process.
InvalidOpcode ==
  /\ opcode >= RELATIVE_BEGIN
  /\ opcode \notin RelativeCases
  /\ status' = "exited"
  /\ out' = out \o OpcodeText \o Out!PutX(opcode) \o ReservedText
  /\ UNCHANGED <<printf, mem, s, ip, runs, act, target>>

\* Two lines before every program; a line is its first word here: Cm, Copyright.
DisplayBanner ==
  <<67, 109>> \o Out!PutN
    \o <<67, 111, 112, 121, 114, 105, 103, 104, 116>> \o Out!PutN

\* The memory after hal_Loader stored the bytes of program p from position 0 on.
Loaded(old, p) ==
  [a \in Allocated |-> IF a \in BaseAddr .. BaseAddr + Len(p) - 1
                          THEN p[a - BaseAddr + 1] ELSE old[a]]

Load(p) ==
  /\ status = "idle"
  /\ runs < MaxRuns
  /\ mem' = Loaded(mem, p)
  /\ s' = Stack_New(s, Capacity)
  /\ ip' = BaseAddr
  /\ out' = DisplayBanner
  /\ status' = "run"
  /\ runs' = runs + 1
  /\ act' = C!Outermost
  /\ UNCHANGED <<printf, target>>

Stray ==
  /\ status = "run"
  /\ ip \notin Memory
  /\ Lost

\* Static data is zero, and main is past its first banner and VM_Init.
Init ==
  /\ printf \in DOMAIN Programs
  /\ \E p \in Programs[printf] : mem = Loaded([a \in Allocated |-> 0], p)
  /\ s = Stack_New([si |-> [i \in Index |-> 0], bp |-> 0, sp |-> 0, capacity |-> 0],
                   Capacity)
  /\ ip = BaseAddr
  /\ out = DisplayBanner
  /\ status = "run"
  /\ runs = 1
  /\ act = C!Outermost
  /\ target = Outside

Instruction ==
  /\ Running
  /\ \/ Inherent
     \/ Reserved
     \/ Constants
     \/ Variables
     \/ Branches
     \/ Calls
     \/ EnterFunction
     \/ Ret
     \/ ExitFunction
     \/ Trap
     \/ Halt
     \/ InvalidOpcode

Next ==
  \/ Instruction
  \/ Stray
  \/ \E p \in Programs[printf] : Load(p)

\* The processor goes on; whether another program comes is up to the host.
Spec == Init /\ [][Next]_vars /\ WF_vars(Instruction) /\ WF_vars(Stray)

-----------------------------------------------------------------------------
(* TypeOK: memory holds bytes, the stack registers stay in the array and   *)
(* the instruction pointer is a pointer of the target.                     *)
TypeOK ==
  /\ Memory \subseteq DOMAIN mem
  /\ \A a \in Allocated : mem[a] \in 0 .. 255
  /\ DOMAIN s.si = Index
  /\ \A i \in Index : s.si[i] = I32(s.si[i])
  /\ s.bp \in -1 .. SiLen - 1
  /\ s.sp \in -1 .. SiLen - 1
  /\ ip \in 0 .. 2^16 - 1
  /\ \A i \in 1 .. Len(out) : out[i] \in 0 .. 255
  /\ status \in {"run", "idle", "exited", "fault", "lost"}

\* What the program itself has printed: the characters between the two lines
\* main prints before it starts and the two bytes main sends when it is done.
Printed ==
  SubSeq(out, Len(DisplayBanner) + 1,
         IF status = "idle" THEN Len(out) - 2 ELSE Len(out))

\* It stops between two lines and has no zero, which strncmp would stop at.
WholeLines ==
  /\ Printed # << >>
  /\ Last(Printed) = 10
  /\ \A i \in 1 .. Len(Printed) : Printed[i] # 0

(* AUnitPasses: every program is a test of its own.  It prints its title,  *)
(* the line it should print, and then a line that it computes.  By the     *)
(* rule AUnit compares them with, the lines between main's banner and its  *)
(* acknowledgement are one test that is OK, whatever program ran before    *)
(* and whatever it left in memory and in the stack.                        *)
AUnitPasses == status = "idle" => Unit!OneTestOK(Printed)

(* VerdictSound: AUnit compares as much of the line to test as the line it *)
(* is compared with has (AUnit_v1.0.9e.c:111).  A program that was stopped *)
(* between two lines of its own only passes if each line it had to print   *)
(* is the line expected.  (In the middle of a line that is right so far it *)
(* passes, too.)                                                           *)
VerdictSound ==
  status # "run" /\ WholeLines /\ Unit!OneTestOK(Printed)
    => LET lines == Unit!Lines(Printed)
           n     == Unit!LinesToTest(lines[1])
       IN  \A k \in 2 .. n + 1 : lines[k] = lines[k + n]

(* CleanHalt: a program that ends has undone every push and every frame,   *)
(* so that nothing of its calls and expressions piles up in the 32 cells.  *)
CleanHalt == status = "idle" => s.sp = -1 /\ s.bp = -1

(* Disciplined: the programs drive the stack as CmCalls says compiled code *)
(* does.  Every operand an instruction takes was pushed by its function,   *)
(* every ENTER finds its arguments, every EXIT its frame, every program    *)
(* halts outside all functions: what CmCalls guarantees holds for them.    *)
Disciplined == C!Spec

(* ReturnsToCalls: RET and EXIT go on right behind a CALLS instruction of  *)
(* the program that runs.  No operand, no variable and no cell left by a   *)
(* program before is ever taken for a return address (vm.c:121-122, 287).  *)
ReturnsToCalls ==
  [][status = "run" /\ Len(act') < Len(act)
       => ip' \in Memory /\ mem[ip' - 3] = CALLS_I16]_vars

AtReserved == Running /\ opcode \in RFU

(* Terminates: the machine does not run on for ever; a program halts, or   *)
(* meets an opcode that ends the process or an outcome C leaves open, or   *)
(* stops at a reserved opcode.                                             *)
Terminates == status = "run" ~> (status # "run" \/ AtReserved)

(* ReservedReported: an opcode "Reserved for Future Used" (opcode.h:11) is *)
(* an invalid opcode, which VM_execute reports before it ends the process  *)
(* (exitOnInvalidOpcode, vm.c:99).                                         *)
ReservedReported == AtReserved ~> status = "exited"
=============================================================================
